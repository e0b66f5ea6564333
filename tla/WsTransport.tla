---------------------------- MODULE WsTransport ----------------------------
(***************************************************************************)
(* transport/websocket.go: one WebSocket transport shared by goroutines    *)
(* that Call it, a read loop and a ping loop per established connection, a *)
(* reconnect goroutine per lost connection, and the goroutine that Closes  *)
(* it, against a device at the other end of links that break.              *)
(*                                                                         *)
(* Connections are numbered in the order they are dialled.  Every goroutine *)
(* is named by what started it: caller c, or the read loop, ping loop and  *)
(* reconnect goroutine of connection n.  A step is what the code does      *)
(* between two points where another goroutine can get in: a lock, a channel *)
(* operation, or a read of a field the code takes no lock for.             *)
(*                                                                         *)
(* connMu is a variable because Connect holds it while it dials; the other *)
(* locks (mu, pendingMu, notifyMu, stateMu) are released within a step.    *)
(* State callbacks and the notification handler are not called here.       *)
(***************************************************************************)
EXTENDS Naturals, FiniteSets

CONSTANTS
    Callers,        \* goroutines that use the transport
    Sources,        \* counters request ids are drawn from: one rpc.Client each,
                    \* or w.requestID for a request without an id
    MaxRetries,     \* w.opts.maxRetries
    Reconnect,      \* w.opts.reconnect
    Ping,           \* w.opts.pingInterval > 0
    Deadlines,      \* the callers whose context ends
    MayClose,       \* whether the application closes the transport
    MaxConns,       \* bound: successful dials in a behaviour
    MaxCalls,       \* bound: requests drawn from one source
    Nobody          \* holds no lock, owns no channel

ASSUME BoundsAssumption == MaxRetries \in Nat /\ MaxConns \in Nat /\ MaxCalls \in Nat
ASSUME OptionsAssumption ==
    {Reconnect, Ping, MayClose} \subseteq BOOLEAN /\ Deadlines \subseteq Callers

Conns == 1..MaxConns
ASSUME NamesAssumption ==
    Nobody \notin Callers /\ Nobody \notin Conns /\ Callers \cap Conns = {}
NoConn == 0
MaybeConn == Conns \cup {NoConn}
Id == 1..MaxCalls
Call == [source : Sources, id : Id]
NoCall == [source |-> "none", id |-> 0]
Empty == [source |-> "empty", id |-> 0]
ClosedChan == [source |-> "closed", id |-> 0]

VARIABLES
    closed,         \* w.closed
    state,          \* w.state
    conn,           \* w.conn
    stopPing,       \* w.stopPing: the number of the connection it was made for
    pinged,         \* the stopPing channels that are closed
    connMu,         \* who holds connMu across a dial
    pending,        \* w.pending: request id -> the caller whose channel it holds
    lastID,         \* per source, the last id drawn
    dials,          \* connections established so far
    link,           \* per connection: not "new", "up", or "down" at either end
    asked,          \* per connection: requests the device has not answered
    inbox,          \* per connection: answers not yet read
    cpc, call, chan,\* per caller: place, the call in hand, its response channel
    rpc, rconn,     \* per read loop: place, the connection it last took from w.conn
    ppc, pwatch,    \* per ping loop: place, the stop channel it waits on
    xpc, attempt,   \* per reconnect goroutine: place, attempts made
    kpc,            \* place of the goroutine in Close
    panic           \* the run-time panic that ended the program, if any

connVars == <<conn, stopPing, pinged, connMu, dials>>
wireVars == <<link, asked, inbox>>
callVars == <<cpc, call, chan>>
readVars == <<rpc, rconn>>
pingVars == <<ppc, pwatch>>
reconVars == <<xpc, attempt>>
vars == <<closed, state, conn, stopPing, pinged, connMu, pending, lastID, dials,
          link, asked, inbox, cpc, call, chan, rpc, rconn, ppc, pwatch,
          xpc, attempt, kpc, panic>>

States == {"Disconnected", "Connecting", "Connected", "Reconnecting", "Closed"}
CallPlaces == {"idle", "connect", "dial", "register", "write", "wait", "cleanup"}
ReadPlaces == {"none", "top", "read", "drop", "checkPing", "closePing", "cancel",
               "tell", "done"}
PingPlaces == {"none", "start", "select", "done"}
ReconPlaces == {"none", "check", "tell", "connect", "dial", "done"}
ClosePlaces == {"open", "checkPing", "closePing", "drop", "tell", "done"}

Init ==
    /\ closed = FALSE
    /\ state = "Disconnected"
    /\ conn = NoConn
    /\ stopPing = NoConn
    /\ pinged = {}
    /\ connMu = Nobody
    /\ pending = [i \in Id |-> Nobody]
    /\ lastID = [s \in Sources |-> 0]
    /\ dials = 0
    /\ link = [n \in Conns |-> "new"]
    /\ asked = [n \in Conns |-> {}]
    /\ inbox = [n \in Conns |-> {}]
    /\ cpc = [c \in Callers |-> "idle"]
    /\ call = [c \in Callers |-> NoCall]
    /\ chan = [c \in Callers |-> Empty]
    /\ rpc = [n \in Conns |-> "none"]
    /\ rconn = [n \in Conns |-> NoConn]
    /\ ppc = [n \in Conns |-> "none"]
    /\ pwatch = [n \in Conns |-> NoConn]
    /\ xpc = [n \in Conns |-> "none"]
    /\ attempt = [n \in Conns |-> 0]
    /\ kpc = "open"
    /\ panic = "none"

Free == connMu = Nobody

-----------------------------------------------------------------------------
(* Connect, in pieces shared by the callers and the reconnect goroutines.   *)

\* The dial: outcomes under connMu, which the dialler holds.
Established ==
    /\ dials < MaxConns
    /\ dials' = dials + 1
    /\ conn' = dials + 1
    /\ stopPing' = dials + 1
    /\ connMu' = Nobody
    /\ state' = "Connected"
    /\ link' = [link EXCEPT ![dials + 1] = "up"]
    /\ rpc' = [rpc EXCEPT ![dials + 1] = "top"]
    /\ ppc' = IF Ping THEN [ppc EXCEPT ![dials + 1] = "start"] ELSE ppc
    /\ UNCHANGED <<closed, pinged, pending, lastID, asked, inbox, rconn,
                   pwatch, kpc, panic>>

\* Mutant of DialFailed: returns with connMu held.
DialFailedLocked ==
    /\ state' = "Disconnected"
    /\ UNCHANGED <<closed, connVars, pending, lastID, wireVars, readVars, pingVars,
                   kpc, panic>>

DialFailed ==
    /\ connMu' = Nobody
    /\ state' = "Disconnected"
    /\ UNCHANGED <<closed, conn, stopPing, pinged, dials, pending, lastID, wireVars,
                   readVars, pingVars, kpc, panic>>

\* Taking connMu: refused when closed, nothing to do when connected, else dial.
\* Mutants of MustDial: no test for a connection; no test for closed.
MustDialAlways == Free /\ ~closed
MustDialClosed == Free /\ conn = NoConn

MustDial == Free /\ ~closed /\ conn = NoConn

StartDial(who) ==
    /\ MustDial
    /\ connMu' = who
    /\ state' = "Connecting"
    /\ UNCHANGED <<closed, conn, stopPing, pinged, dials, pending, lastID, wireVars,
                   readVars, pingVars, kpc, panic>>

-----------------------------------------------------------------------------
(* Call.  closed and w.conn are read without connMu.                        *)
CallBegin(c, s) ==
    /\ cpc[c] = "idle"
    /\ ~closed
    /\ lastID[s] < MaxCalls
    /\ lastID' = [lastID EXCEPT ![s] = @ + 1]
    /\ call' = [call EXCEPT ![c] = [source |-> s, id |-> lastID[s] + 1]]
    /\ cpc' = [cpc EXCEPT ![c] = IF conn = NoConn THEN "connect" ELSE "register"]
    /\ UNCHANGED <<closed, state, connVars, pending, wireVars, chan, readVars,
                   pingVars, reconVars, kpc, panic>>

\* Connect called by the application itself: no call in hand.
ConnectBegin(c) ==
    /\ cpc[c] = "idle"
    /\ cpc' = [cpc EXCEPT ![c] = "connect"]
    /\ UNCHANGED <<closed, state, connVars, pending, lastID, wireVars, call, chan,
                   readVars, pingVars, reconVars, kpc, panic>>

AfterConnect(c) == IF call[c] = NoCall THEN "idle" ELSE "register"

CallConnect(c) ==
    /\ cpc[c] = "connect"
    /\ StartDial(c)
    /\ cpc' = [cpc EXCEPT ![c] = "dial"]
    /\ UNCHANGED <<call, chan, reconVars>>

\* Connect returned without dialling: an error when closed.
CallConnectEarly(c) ==
    /\ cpc[c] = "connect"
    /\ Free
    /\ \/ /\ closed
          /\ cpc' = [cpc EXCEPT ![c] = "idle"]
          /\ call' = [call EXCEPT ![c] = NoCall]
       \/ /\ ~closed /\ conn # NoConn
          /\ cpc' = [cpc EXCEPT ![c] = AfterConnect(c)]
          /\ UNCHANGED call
    /\ UNCHANGED <<closed, state, connVars, pending, lastID, wireVars, chan, readVars,
                   pingVars, reconVars, kpc, panic>>

CallDial(c) ==
    /\ cpc[c] = "dial"
    /\ \/ /\ Established
          /\ cpc' = [cpc EXCEPT ![c] = AfterConnect(c)]
          /\ UNCHANGED call
       \/ /\ DialFailed
          /\ cpc' = [cpc EXCEPT ![c] = "idle"]
          /\ call' = [call EXCEPT ![c] = NoCall]
    /\ UNCHANGED <<chan, reconVars>>

\* A fresh channel takes the id's slot, whoever held it.
Register(c) ==
    /\ cpc[c] = "register"
    /\ chan' = [chan EXCEPT ![c] = Empty]
    /\ pending' = [pending EXCEPT ![call[c].id] = c]
    /\ cpc' = [cpc EXCEPT ![c] = "write"]
    /\ UNCHANGED <<closed, state, connVars, lastID, wireVars, call, readVars,
                   pingVars, reconVars, kpc, panic>>

\* WriteMessage on whatever w.conn is now; on a dead link it may still succeed.
Write(c) ==
    /\ cpc[c] = "write"
    /\ Free
    /\ conn # NoConn
    /\ \/ /\ cpc' = [cpc EXCEPT ![c] = "wait"]
          /\ asked' = [asked EXCEPT ![conn] = @ \cup {call[c]}]
       \/ /\ link[conn] = "down"
          /\ cpc' = [cpc EXCEPT ![c] = "cleanup"]
          /\ UNCHANGED asked
    /\ UNCHANGED <<closed, state, connVars, pending, lastID, link, inbox, call, chan,
                   readVars, pingVars, reconVars, kpc, panic>>

WriteNilConn(c) ==
    /\ cpc[c] = "write"
    /\ Free
    /\ conn = NoConn
    /\ panic' = "nil connection"
    /\ UNCHANGED <<closed, state, connVars, pending, lastID, wireVars, callVars,
                   readVars, pingVars, reconVars, kpc>>

\* The select: an answer, or the zero value of a closed channel, which is a nil
\* *rpcResponse that the next line dereferences.
Receive(c) ==
    /\ cpc[c] = "wait"
    /\ chan[c] # Empty
    /\ IF chan[c] = ClosedChan
         THEN panic' = "nil response" /\ UNCHANGED <<cpc, chan>>
         ELSE /\ cpc' = [cpc EXCEPT ![c] = "cleanup"]
              /\ chan' = [chan EXCEPT ![c] = Empty]
              /\ UNCHANGED panic
    /\ UNCHANGED <<closed, state, connVars, pending, lastID, wireVars, call,
                   readVars, pingVars, reconVars, kpc>>

ContextDone(c) ==
    /\ c \in Deadlines
    /\ cpc[c] = "wait"
    /\ cpc' = [cpc EXCEPT ![c] = "cleanup"]
    /\ UNCHANGED <<closed, state, connVars, pending, lastID, wireVars, call, chan,
                   readVars, pingVars, reconVars, kpc, panic>>

\* The deferred delete removes the id's entry, whoever holds it.
Cleanup(c) ==
    /\ cpc[c] = "cleanup"
    /\ pending' = [pending EXCEPT ![call[c].id] = Nobody]
    /\ call' = [call EXCEPT ![c] = NoCall]
    /\ chan' = [chan EXCEPT ![c] = Empty]
    /\ cpc' = [cpc EXCEPT ![c] = "idle"]
    /\ UNCHANGED <<closed, state, connVars, lastID, wireVars,
                   readVars, pingVars, reconVars, kpc, panic>>

-----------------------------------------------------------------------------
(* readLoop of connection n.  It takes w.conn anew for every message.       *)
ReadTop(n) ==
    /\ rpc[n] = "top"
    /\ Free
    /\ IF closed \/ conn = NoConn
         THEN rpc' = [rpc EXCEPT ![n] = "done"] /\ UNCHANGED rconn
         ELSE /\ rpc' = [rpc EXCEPT ![n] = "read"]
              /\ rconn' = [rconn EXCEPT ![n] = conn]
    /\ UNCHANGED <<closed, state, connVars, pending, lastID, wireVars, callVars,
                   pingVars, reconVars, kpc, panic>>

\* Mutant of Answered: the answer goes to whoever waits, not to the id's entry.
AnsweredAnybody(n) ==
    /\ rpc[n] = "read"
    /\ \E m \in inbox[rconn[n]], c \in Callers :
          /\ cpc[c] = "wait" /\ chan[c] = Empty
          /\ inbox' = [inbox EXCEPT ![rconn[n]] = @ \ {m}]
          /\ chan' = [chan EXCEPT ![c] = m]
    /\ rpc' = [rpc EXCEPT ![n] = "top"]
    /\ UNCHANGED <<closed, state, connVars, pending, lastID, link, asked, cpc, call,
                   rconn, pingVars, reconVars, kpc, panic>>

\* handleMessage: a non-blocking send into the channel registered for the id.
Answered(n) ==
    /\ rpc[n] = "read"
    /\ \E m \in inbox[rconn[n]] :
          /\ inbox' = [inbox EXCEPT ![rconn[n]] = @ \ {m}]
          /\ chan' = [c \in Callers |->
                        IF pending[m.id] = c /\ chan[c] = Empty THEN m ELSE chan[c]]
    /\ rpc' = [rpc EXCEPT ![n] = "top"]
    /\ UNCHANGED <<closed, state, connVars, pending, lastID, link, asked, cpc, call,
                   rconn, pingVars, reconVars, kpc, panic>>

ReadError(n) ==
    /\ rpc[n] = "read"
    /\ link[rconn[n]] = "down"
    /\ rpc' = [rpc EXCEPT ![n] = IF closed THEN "done" ELSE "drop"]
    /\ UNCHANGED <<closed, state, connVars, pending, lastID, wireVars, callVars, rconn,
                   pingVars, reconVars, kpc, panic>>

(* handleDisconnect, run by the read loop of connection n: four sections.   *)
DropConn(n) ==
    /\ rpc[n] = "drop"
    /\ Free
    /\ link' = IF conn = NoConn THEN link ELSE [link EXCEPT ![conn] = "down"]
    /\ conn' = NoConn
    /\ rpc' = [rpc EXCEPT ![n] = "checkPing"]
    /\ UNCHANGED <<closed, state, stopPing, pinged, connMu, dials, pending, lastID, asked,
                   inbox, callVars, rconn, pingVars, reconVars, kpc, panic>>

\* select/default/close on w.stopPing as it is by now: a test, then the close.
CheckPing(n) ==
    /\ rpc[n] = "checkPing"
    /\ rpc' = [rpc EXCEPT ![n] = IF stopPing \in pinged THEN "cancel" ELSE "closePing"]
    /\ UNCHANGED <<closed, state, connVars, pending, lastID, wireVars, callVars, rconn,
                   pingVars, reconVars, kpc, panic>>

ClosePing(n) ==
    /\ rpc[n] = "closePing"
    /\ IF stopPing \in pinged
         THEN panic' = "close of closed channel" /\ UNCHANGED <<pinged, rpc>>
         ELSE /\ pinged' = pinged \cup {stopPing}
              /\ rpc' = [rpc EXCEPT ![n] = "cancel"]
              /\ UNCHANGED panic
    /\ UNCHANGED <<closed, state, conn, stopPing, connMu, dials, pending, lastID, wireVars,
                   callVars, rconn, pingVars, reconVars, kpc>>

\* Every pending request is cancelled, also those of a newer connection; an answer
\* already in a channel can still be received from it.
\* Mutants of CancelPending: entries closed and kept; entries deleted, not closed.
CancelKeeps(n) ==
    /\ rpc[n] = "cancel"
    /\ chan' = [c \in Callers |->
                  IF chan[c] = Empty /\ \E i \in Id : pending[i] = c THEN ClosedChan ELSE chan[c]]
    /\ rpc' = [rpc EXCEPT ![n] = "tell"]
    /\ UNCHANGED <<closed, state, connVars, pending, lastID, wireVars, cpc, call, rconn,
                   pingVars, reconVars, kpc, panic>>
CancelForgets(n) ==
    /\ rpc[n] = "cancel"
    /\ pending' = [i \in Id |-> Nobody]
    /\ rpc' = [rpc EXCEPT ![n] = "tell"]
    /\ UNCHANGED <<closed, state, connVars, lastID, wireVars, callVars, rconn,
                   pingVars, reconVars, kpc, panic>>

CancelPending(n) ==
    /\ rpc[n] = "cancel"
    /\ chan' = [c \in Callers |->
                  IF chan[c] = Empty /\ \E i \in Id : pending[i] = c THEN ClosedChan ELSE chan[c]]
    /\ pending' = [i \in Id |-> Nobody]
    /\ rpc' = [rpc EXCEPT ![n] = "tell"]
    /\ UNCHANGED <<closed, state, connVars, lastID, wireVars, cpc, call, rconn,
                   pingVars, reconVars, kpc, panic>>

TellDisconnected(n) ==
    /\ rpc[n] = "tell"
    /\ state' = "Disconnected"
    /\ rpc' = [rpc EXCEPT ![n] = "done"]
    /\ xpc' = IF Reconnect /\ ~closed THEN [xpc EXCEPT ![n] = "check"] ELSE xpc
    /\ UNCHANGED <<closed, connVars, pending, lastID, wireVars, callVars, rconn,
                   pingVars, attempt, kpc, panic>>

-----------------------------------------------------------------------------
(* reconnect, started when connection n was lost.                           *)
ReconCheck(n) ==
    /\ xpc[n] = "check"
    /\ \/ /\ attempt[n] = MaxRetries
          /\ xpc' = [xpc EXCEPT ![n] = "done"]
          /\ state' = "Disconnected"
       \/ /\ attempt[n] < MaxRetries
          /\ xpc' = [xpc EXCEPT ![n] = IF closed THEN "done" ELSE "tell"]
          /\ UNCHANGED state
    /\ UNCHANGED <<closed, connVars, pending, lastID, wireVars, callVars, readVars,
                   pingVars, attempt, kpc, panic>>

ReconTell(n) ==
    /\ xpc[n] = "tell"
    /\ state' = "Reconnecting"
    /\ xpc' = [xpc EXCEPT ![n] = "connect"]
    /\ UNCHANGED <<closed, connVars, pending, lastID, wireVars, callVars, readVars,
                   pingVars, attempt, kpc, panic>>

ReconConnect(n) ==
    /\ xpc[n] = "connect"
    /\ StartDial(n)
    /\ xpc' = [xpc EXCEPT ![n] = "dial"]
    /\ UNCHANGED <<callVars, attempt>>

\* Somebody else connected meanwhile: Connect succeeds and leaves state alone.
\* A refusal because of Close counts as one more failed attempt.
ReconConnectEarly(n) ==
    /\ xpc[n] = "connect"
    /\ Free
    /\ \/ /\ closed
          /\ attempt' = [attempt EXCEPT ![n] = @ + 1]
          /\ xpc' = [xpc EXCEPT ![n] = "check"]
       \/ /\ ~closed /\ conn # NoConn
          /\ xpc' = [xpc EXCEPT ![n] = "done"]
          /\ UNCHANGED attempt
    /\ UNCHANGED <<closed, state, connVars, pending, lastID, wireVars, callVars, readVars,
                   pingVars, kpc, panic>>

ReconDial(n) ==
    /\ xpc[n] = "dial"
    /\ \/ /\ Established
          /\ xpc' = [xpc EXCEPT ![n] = "done"]
          /\ UNCHANGED attempt
       \/ /\ DialFailed
          /\ xpc' = [xpc EXCEPT ![n] = "check"]
          /\ attempt' = [attempt EXCEPT ![n] = @ + 1]
    /\ UNCHANGED callVars

-----------------------------------------------------------------------------
(* pingLoop of connection n.  The select reads w.stopPing each time round.  *)
PingSelect(n) ==
    /\ ppc[n] = "start"
    /\ ppc' = [ppc EXCEPT ![n] = "select"]
    /\ pwatch' = [pwatch EXCEPT ![n] = stopPing]
    /\ UNCHANGED <<closed, state, connVars, pending, lastID, wireVars, callVars, readVars,
                   reconVars, kpc, panic>>

PingStop(n) ==
    /\ ppc[n] = "select"
    /\ pwatch[n] \in pinged
    /\ ppc' = [ppc EXCEPT ![n] = "done"]
    /\ UNCHANGED <<closed, state, connVars, pending, lastID, wireVars, callVars, readVars,
                   pwatch, reconVars, kpc, panic>>

\* Mutant of PingTick: a missing connection does not end the loop.
PingTickForever(n) ==
    /\ ppc[n] = "select"
    /\ Free
    /\ ppc' = [ppc EXCEPT ![n] = "start"]
    /\ UNCHANGED <<closed, state, connVars, pending, lastID, wireVars, callVars, readVars,
                   pwatch, reconVars, kpc, panic>>

\* A tick: ping whatever connection there is now; a failed ping ends the loop.
PingTick(n) ==
    /\ ppc[n] = "select"
    /\ Free
    /\ ppc' = [ppc EXCEPT ![n] =
                 IF conn = NoConn \/ link[conn] = "down" THEN "done" ELSE "start"]
    /\ UNCHANGED <<closed, state, connVars, pending, lastID, wireVars, callVars, readVars,
                   pwatch, reconVars, kpc, panic>>

-----------------------------------------------------------------------------
(* Close.  A second call returns at once.                                   *)
CloseBegin ==
    /\ MayClose
    /\ kpc = "open"
    /\ closed' = TRUE
    /\ kpc' = IF stopPing = NoConn THEN "drop" ELSE "checkPing"
    /\ UNCHANGED <<state, connVars, pending, lastID, wireVars, callVars, readVars,
                   pingVars, reconVars, panic>>

CloseCheckPing ==
    /\ kpc = "checkPing"
    /\ kpc' = IF stopPing \in pinged THEN "drop" ELSE "closePing"
    /\ UNCHANGED <<closed, state, connVars, pending, lastID, wireVars, callVars, readVars,
                   pingVars, reconVars, panic>>

CloseClosePing ==
    /\ kpc = "closePing"
    /\ IF stopPing \in pinged
         THEN panic' = "close of closed channel" /\ UNCHANGED <<pinged, kpc>>
         ELSE /\ pinged' = pinged \cup {stopPing}
              /\ kpc' = "drop"
              /\ UNCHANGED panic
    /\ UNCHANGED <<closed, state, conn, stopPing, connMu, dials, pending, lastID, wireVars,
                   callVars, readVars, pingVars, reconVars>>

\* The close frame is written first; when that fails the socket is only forgotten.
CloseDrop ==
    /\ kpc = "drop"
    /\ Free
    /\ \/ link' = IF conn = NoConn THEN link ELSE [link EXCEPT ![conn] = "down"]
       \/ conn # NoConn /\ UNCHANGED link
    /\ conn' = NoConn
    /\ kpc' = "tell"
    /\ UNCHANGED <<closed, state, stopPing, pinged, connMu, dials, pending, lastID, asked,
                   inbox, callVars, readVars, pingVars, reconVars, panic>>

CloseTell ==
    /\ kpc = "tell"
    /\ state' = "Closed"
    /\ kpc' = "done"
    /\ UNCHANGED <<closed, connVars, pending, lastID, wireVars, callVars, readVars,
                   pingVars, reconVars, panic>>

-----------------------------------------------------------------------------
(* The device and the network.                                              *)
Answer(n, m) ==
    /\ link[n] = "up"
    /\ m \in asked[n]
    /\ asked' = [asked EXCEPT ![n] = @ \ {m}]
    /\ inbox' = [inbox EXCEPT ![n] = @ \cup {m}]
    /\ UNCHANGED <<closed, state, connVars, pending, lastID, link, callVars, readVars,
                   pingVars, reconVars, kpc, panic>>

Break(n) ==
    /\ link[n] = "up"
    /\ link' = [link EXCEPT ![n] = "down"]
    /\ UNCHANGED <<closed, state, connVars, pending, lastID, asked, inbox, callVars,
                   readVars, pingVars, reconVars, kpc, panic>>

-----------------------------------------------------------------------------
CallStep(c) ==
    \/ CallConnect(c) \/ CallConnectEarly(c) \/ CallDial(c)
    \/ Register(c) \/ Write(c) \/ WriteNilConn(c)
    \/ Receive(c) \/ ContextDone(c) \/ Cleanup(c)

ReadStep(n) == ReadTop(n) \/ Answered(n) \/ ReadError(n)

DisconnectStep(n) ==
    \/ DropConn(n) \/ CheckPing(n) \/ ClosePing(n) \/ CancelPending(n)
    \/ TellDisconnected(n)

ReconStep(n) ==
    \/ ReconCheck(n) \/ ReconTell(n) \/ ReconConnect(n) \/ ReconConnectEarly(n)
    \/ ReconDial(n)

PingStep(n) == PingSelect(n) \/ PingStop(n) \/ PingTick(n)

CloseStep == CloseCheckPing \/ CloseClosePing \/ CloseDrop \/ CloseTell

Next ==
    /\ panic = "none"
    /\ \/ \E c \in Callers : 
             \/ ConnectBegin(c) \/ \E s \in Sources : CallBegin(c, s)
             \/ CallStep(c)
       \/ \E n \in Conns :
             \/ ReadStep(n) \/ DisconnectStep(n) \/ ReconStep(n)
             \/ PingStep(n) \/ Break(n) \/ \E m \in asked[n] : Answer(n, m)
       \/ CloseBegin \/ CloseStep

Spec == Init /\ [][Next]_vars

\* The scheduler runs every goroutine that can run, and sync.Mutex is handed to
\* whoever has waited longest once somebody has waited a millisecond, so a step
\* that waits for connMu is taken if the lock is free again and again: strong
\* fairness.  A dial ends (the handshake has a timeout) and a read of a dead link
\* fails.  Nothing makes the device answer, or anybody call or close.
Fairness ==
    /\ \A c \in Callers : SF_vars(panic = "none" /\ CallStep(c))
    /\ \A n \in Conns :
          /\ SF_vars(panic = "none" /\ ReadStep(n))
          /\ SF_vars(panic = "none" /\ DisconnectStep(n))
          /\ SF_vars(panic = "none" /\ ReconStep(n))
          /\ WF_vars(panic = "none" /\ PingStep(n))
    /\ SF_vars(panic = "none" /\ CloseStep)

FairSpec == Spec /\ Fairness

-----------------------------------------------------------------------------
\* The transport, its goroutines and the wire.
TypeOK ==
    /\ closed \in BOOLEAN
    /\ state \in States
    /\ conn \in MaybeConn /\ stopPing \in MaybeConn /\ pinged \subseteq MaybeConn
    /\ connMu \in {Nobody} \cup Callers \cup Conns
    /\ pending \in [Id -> Callers \cup {Nobody}]
    /\ lastID \in [Sources -> Nat]
    /\ dials \in Nat
    /\ link \in [Conns -> {"new", "up", "down"}]
    /\ asked \in [Conns -> SUBSET Call]
    /\ inbox \in [Conns -> SUBSET Call]
    /\ cpc \in [Callers -> CallPlaces]
    /\ call \in [Callers -> Call \cup {NoCall}]
    /\ chan \in [Callers -> Call \cup {Empty, ClosedChan}]
    /\ rpc \in [Conns -> ReadPlaces]
    /\ rconn \in [Conns -> MaybeConn]
    /\ ppc \in [Conns -> PingPlaces]
    /\ pwatch \in [Conns -> MaybeConn]
    /\ xpc \in [Conns -> ReconPlaces]
    /\ attempt \in [Conns -> Nat] /\ \A n \in Conns : attempt[n] <= MaxRetries
    /\ kpc \in ClosePlaces
    /\ panic \in {"none", "nil connection", "nil response", "close of closed channel"}

\* A caller is handed only the answer to the request it made; with two sources of
\* ids it need not be (websocket.go:193-209 against 267-280).
OwnAnswer ==
    \A c \in Callers : chan[c] \notin {Empty, ClosedChan} => chan[c] = call[c]

\* With one source of ids the transport is a Correlator: no late answer, overwritten
\* entry or cancelled map can cross the wires, no request is asked twice, and what a
\* caller finds in its channel is the answer to its request or word that the
\* connection broke (websocket.go:193-234 against 267-280 and 311-317).
Calls == INSTANCE Correlator
            WITH Requests <- Call, NoRequest <- NoCall, NoReply <- Empty,
                 Broken <- ClosedChan, request <- call, reply <- chan,
                 drawn <- {r \in Call : r.id <= lastID[r.source]}

WsCorrelates == Calls!Spec

\* The table of pending requests holds exactly the calls under way: an entry
\* belongs to a caller that is inside Call with that id and whose channel nobody
\* has closed, so the read loop never sends on a closed channel and no entry
\* outlives its call (websocket.go:199-209, 271-279, 312-317).
PendingInUse ==
    \A i \in Id : pending[i] # Nobody =>
        /\ cpc[pending[i]] \in {"write", "wait", "cleanup"}
        /\ call[pending[i]].id = i
        /\ chan[pending[i]] # ClosedChan

\* gorilla allows one reader of a connection at a time: the read loops take
\* w.conn anew for each message, and still no two read the same connection
\* (websocket.go:237-264 with Connect's go w.readLoop() at 145).
SingleReader ==
    \A m, n \in Conns :
        /\ rpc[m] = "read" /\ rpc[n] = "read"
        /\ rconn[m] = rconn[n]
        => m = n

\* A connection that is up but no longer w.conn was abandoned by Close, whose
\* close frame could not be written (websocket.go:463-475); losing and remaking
\* connections never leaks one.
NoLeakedLink ==
    \A n \in Conns : link[n] = "up" => n = conn \/ kpc \in {"tell", "done"}

ConnectionsSound == SingleReader /\ NoLeakedLink

\* Once Close has dropped the connection, no caller and no reconnect goroutine,
\* however far it was in Connect, puts another in its place (websocket.go:107-112).
NoConnectionAfterClose == kpc \in {"tell", "done"} => conn = NoConn

\* Every call with a context that ends does end, whatever breaks (or the program
\* died).
CallsEnd ==
    \A c \in Deadlines : (cpc[c] # "idle") ~> (cpc[c] = "idle" \/ panic # "none")

\* A caller waiting on a connection that died is released by the read loop that
\* notices, without help from its context, unless the transport was closed.
DeadLinkReleases ==
    \A c \in Callers, n \in Conns :
        (cpc[c] = "wait" /\ call[c] \in asked[n] /\ link[n] = "down")
            ~> (cpc[c] # "wait" \/ chan[c] # Empty \/ closed \/ panic # "none")

\* After Close the background goroutines stop: no ping or reconnect goroutine of
\* any connection runs for ever.
GoroutinesStop ==
    \A n \in Conns :
        closed ~> (panic # "none" \/ (ppc[n] \in {"none", "done"} /\ xpc[n] \in {"none", "done"}))

-----------------------------------------------------------------------------
(* What the documents say and the code does not do. *)

\* transport.go:64 "Transport implementations must be safe for concurrent use":
\* no interleaving of callers, Close and the background goroutines makes one of
\* them dereference nil or close a channel twice.
NoPanic == panic = "none"

\* transport.go:71 "Close closes the transport connection and releases resources":
\* a caller waiting without a deadline is let go when the transport is closed.
CloseReleasesCallers ==
    \A c \in Callers : closed ~> (cpc[c] # "wait" \/ panic # "none")

\* websocket.go:406 "State returns the current connection state", and
\* transport.go:109 "StateClosed indicates the transport has been closed": with
\* every goroutine at rest State() tells a connected transport from one that is
\* not, and a closed one from both.
AtRest ==
    /\ connMu = Nobody
    /\ \A c \in Callers : cpc[c] = "idle"
    /\ \A n \in Conns : rpc[n] \in {"none", "top", "read", "done"} /\ xpc[n] \in {"none", "done"}
    /\ panic = "none"
StateIsCurrent ==
    AtRest => /\ ~closed => ((state = "Connected") <=> (conn # NoConn))
              /\ kpc = "done" => state = "Closed"
=============================================================================
