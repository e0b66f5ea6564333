------------------------------- MODULE PubSub -------------------------------
(***************************************************************************)
(* events/bus.go: what the bus promises, without its lists and locks.  A   *)
(* publication decides at one moment whom it tells: all who are subscribed *)
(* then and want the event.  Each of them is told once, nobody else is,    *)
(* and the publication returns when all of them have been told.            *)
(***************************************************************************)
EXTENDS Naturals

CONSTANTS Publishers, Kinds, Subscribers, NoEvent

VARIABLES
    open,           \* whether the bus has not been closed
    members,        \* who is subscribed: records of an id and the kinds it wants
    left,           \* the ids that were subscribed and are not any more
    drawn,          \* publications begun
    stage,          \* where each publisher is: "idle", "begun" or "telling"
    event,          \* the event it publishes
    awaiting,       \* the ids it has yet to tell
    told            \* who has been told what: pairs of an id and an event

pubSubVars == <<open, members, left, drawn, stage, event, awaiting, told>>

IdsOf(S) == {m.id : m \in S}

Init ==
    /\ open = TRUE
    /\ members = {} /\ left = {}
    /\ drawn = 0
    /\ stage = [p \in Publishers |-> "idle"]
    /\ event = [p \in Publishers |-> NoEvent]
    /\ awaiting = [p \in Publishers |-> {}]
    /\ told = {}

-----------------------------------------------------------------------------
\* Nobody's id is given to another.  A closed bus may still be joined, by a
\* Subscribe that was under way.
Join(m) ==
    /\ m.id \notin IdsOf(members) \cup left
    /\ members' = members \cup {m}
    /\ UNCHANGED <<open, left, drawn, stage, event, awaiting, told>>

Leave(S) ==
    /\ S # {}
    /\ members' = members \ S
    /\ left' = left \cup IdsOf(S)
    /\ UNCHANGED <<open, drawn, stage, event, awaiting, told>>

Shut ==
    /\ open
    /\ open' = FALSE
    /\ UNCHANGED <<members, left, drawn, stage, event, awaiting, told>>

-----------------------------------------------------------------------------
Begin(p, k) ==
    /\ open
    /\ stage[p] = "idle"
    /\ drawn' = drawn + 1
    /\ stage' = [stage EXCEPT ![p] = "begun"]
    /\ event' = [event EXCEPT ![p] = [no |-> drawn + 1, kind |-> k]]
    /\ UNCHANGED <<open, members, left, awaiting, told>>

\* The moment that decides.
Choose(p) ==
    /\ stage[p] = "begun"
    /\ stage' = [stage EXCEPT ![p] = "telling"]
    /\ awaiting' = [awaiting EXCEPT ![p] =
                        IdsOf({m \in members : event[p].kind \in m.filter})]
    /\ UNCHANGED <<open, members, left, drawn, event, told>>

Tell(p, id) ==
    /\ awaiting' = [awaiting EXCEPT ![p] = @ \ {id}]
    /\ told' = told \cup {<<id, event[p]>>}
    /\ UNCHANGED <<open, members, left, drawn, stage, event>>

Return(p) ==
    /\ stage[p] = "telling"
    /\ awaiting[p] = {}
    /\ stage' = [stage EXCEPT ![p] = "idle"]
    /\ event' = [event EXCEPT ![p] = NoEvent]
    /\ UNCHANGED <<open, members, left, drawn, awaiting, told>>

Next ==
    \/ \E m \in Subscribers : Join(m)
    \/ \E m \in members : Leave({m})
    \/ Leave(members) \/ Shut
    \/ \E p \in Publishers :
          \/ \E k \in Kinds : Begin(p, k)
          \/ Choose(p)
          \/ \E id \in awaiting[p] : Tell(p, id)
          \/ Return(p)

Spec == Init /\ [][Next]_pubSubVars
=============================================================================
