----------------------------- MODULE Correlator -----------------------------
(***************************************************************************)
(* transport/transport.go: what Transport.Call promises to goroutines that *)
(* share one transport, whatever carries the messages.  A request is asked *)
(* by one caller, once; the reply it is handed is the one to that request, *)
(* or word that the connection broke; and it has at most the one at a time.*)
(***************************************************************************)
CONSTANTS Callers, Requests, NoRequest, NoReply, Broken

VARIABLES
    request,            \* caller -> the request it has in hand
    reply,              \* caller -> what it has been handed and not yet looked at
    drawn               \* requests that have been asked

callVars == <<request, reply, drawn>>

Init ==
    /\ request = [c \in Callers |-> NoRequest]
    /\ reply = [c \in Callers |-> NoReply]
    /\ drawn = {}

Ask(c) ==
    /\ request[c] = NoRequest
    /\ \E r \in Requests \ drawn :
          /\ request' = [request EXCEPT ![c] = r]
          /\ drawn' = drawn \cup {r}
    /\ UNCHANGED reply

Reply(c) ==
    /\ request[c] # NoRequest /\ reply[c] = NoReply
    /\ reply' = [reply EXCEPT ![c] = request[c]]
    /\ UNCHANGED <<request, drawn>>

\* A lost connection is told to everyone who waits, at once.
Break ==
    /\ \E S \in SUBSET {c \in Callers : request[c] # NoRequest /\ reply[c] = NoReply} :
          reply' = [c \in Callers |-> IF c \in S THEN Broken ELSE reply[c]]
    /\ UNCHANGED <<request, drawn>>

Look(c) ==
    /\ reply[c] # NoReply
    /\ reply' = [reply EXCEPT ![c] = NoReply]
    /\ UNCHANGED <<request, drawn>>

\* Call returns, with or without a result.
Return(c) ==
    /\ request[c] # NoRequest
    /\ request' = [request EXCEPT ![c] = NoRequest]
    /\ reply' = [reply EXCEPT ![c] = NoReply]
    /\ UNCHANGED drawn

Next == Break \/ \E c \in Callers : Ask(c) \/ Reply(c) \/ Look(c) \/ Return(c)

Spec == Init /\ [][Next]_callVars
=============================================================================
