-------------------------- MODULE HandlerRegistry --------------------------
(***************************************************************************)
(* events/handler.go on top of events/bus.go: typed registration and bulk  *)
(* clean-up.  The registry keeps the ids of the subscriptions it made in a *)
(* list of its own under its own mutex, and never holds that mutex while   *)
(* it calls the bus, so the list and the bus disagree between the two      *)
(* halves of every operation.  The model is the composition: a registry    *)
(* call takes the bus's own steps (module EventBus) between its own.       *)
(*                                                                         *)
(* All On... methods differ only in the filter; they are one operation On. *)
(***************************************************************************)
EXTENDS EventBus

VARIABLES
    tracked,        \* r.subscriptions; only membership matters
    rpc,            \* where each thread is inside a registry call
    rid,            \* the id an On or Unsubscribe call works with
    rtodo,          \* the ids UnsubscribeAll copied and still has to remove
    \* History variable: ids On returned before the thread's UnsubscribeAll
    \* took its copy, so ids that call is expected to remove.
    doomed

regVars == <<tracked, rpc, rid, rtodo, doomed>>
rvars == <<vars, regVars>>

RegistryPlaces == {"out", "subscribe", "track", "unsubscribe", "all"}

RInit ==
    /\ Init
    /\ tracked = {}
    /\ rpc = [t \in Threads |-> "out"]
    /\ rid = [t \in Threads |-> 0]
    /\ rtodo = [t \in Threads |-> {}]
    /\ doomed = [t \in Threads |-> {}]

RGoto(t, place) == rpc' = [rpc EXCEPT ![t] = place]

-----------------------------------------------------------------------------
(* On: bus.SubscribeFiltered, then track. *)
OnSubscribe(t, f) ==
    /\ rpc[t] = "out"
    /\ SubscribeDraw(t, f)
    /\ rid' = [rid EXCEPT ![t] = nextID + 1]
    /\ RGoto(t, "subscribe")
    /\ UNCHANGED <<tracked, rtodo, doomed>>

\* On a closed bus SubscribeFiltered returns 0, and 0 is tracked.
OnClosedBus(t) ==
    /\ rpc[t] = "out" /\ pc[t] = "idle"
    /\ closed
    /\ rid' = [rid EXCEPT ![t] = 0]
    /\ RGoto(t, "track")
    /\ UNCHANGED <<vars, tracked, rtodo, doomed>>

OnSubscribed(t) ==
    /\ rpc[t] = "subscribe"
    /\ SubscribeAppend(t)
    /\ RGoto(t, "track")
    /\ UNCHANGED <<tracked, rid, rtodo, doomed>>

\* Mutant of Track: an id the bus never handed out.
TrackNext(t) ==
    /\ rpc[t] = "track"
    /\ tracked' = tracked \cup {nextID + 1}
    /\ rid' = [rid EXCEPT ![t] = 0]
    /\ RGoto(t, "out")
    /\ UNCHANGED <<vars, rtodo, doomed>>

Track(t) ==
    /\ rpc[t] = "track"
    /\ tracked' = tracked \cup {rid[t]}
    /\ rid' = [rid EXCEPT ![t] = 0]
    /\ RGoto(t, "out")
    /\ UNCHANGED <<vars, rtodo, doomed>>

(* bus.Unsubscribe, which finds nothing when the id is not on the bus. *)
BusUnsubscribe(t, id) ==
    \/ Unsubscribe(t, id)
    \/ id \notin Ids(subs) /\ UNCHANGED vars

(* HandlerRegistry.Unsubscribe: a caller can only name an id On returned. *)
UnsubscribeBegin(t, id) ==
    /\ rpc[t] = "out" /\ pc[t] = "idle"
    /\ id \in 1..nextID
    /\ \A u \in Threads : rid[u] # id
    /\ tracked' = tracked \ {id}
    /\ rid' = [rid EXCEPT ![t] = id]
    /\ RGoto(t, "unsubscribe")
    /\ UNCHANGED <<vars, rtodo, doomed>>

UnsubscribeEnd(t) ==
    /\ rpc[t] = "unsubscribe"
    /\ BusUnsubscribe(t, rid[t])
    /\ rid' = [rid EXCEPT ![t] = 0]
    /\ RGoto(t, "out")
    /\ UNCHANGED <<tracked, rtodo, doomed>>

(* UnsubscribeAll: copy and empty the list, then remove the copies one by one. *)
AllBegin(t) ==
    /\ rpc[t] = "out" /\ pc[t] = "idle"
    /\ tracked # {}
    /\ rtodo' = [rtodo EXCEPT ![t] = tracked]
    /\ doomed' = [doomed EXCEPT ![t] = tracked \ {0}]
    /\ tracked' = {}
    /\ RGoto(t, "all")
    /\ UNCHANGED <<vars, rid>>

\* Mutant of AllStep: stops at the first id the bus no longer knows.
AllStepStops(t) ==
    /\ rpc[t] = "all"
    /\ \E id \in rtodo[t] :
          /\ BusUnsubscribe(t, id)
          /\ rtodo' = [rtodo EXCEPT ![t] = IF id \in Ids(subs) THEN @ \ {id} ELSE {}]
    /\ UNCHANGED <<tracked, rpc, rid, doomed>>

AllStep(t) ==
    /\ rpc[t] = "all"
    /\ \E id \in rtodo[t] :
          /\ BusUnsubscribe(t, id)
          /\ rtodo' = [rtodo EXCEPT ![t] = @ \ {id}]
    /\ UNCHANGED <<tracked, rpc, rid, doomed>>

\* Mutant of AllEnd: the list is emptied after the loop, not with the copy.
AllEndClears(t) ==
    /\ rpc[t] = "all"
    /\ rtodo[t] = {}
    /\ doomed' = [doomed EXCEPT ![t] = {}]
    /\ tracked' = {}
    /\ RGoto(t, "out")
    /\ UNCHANGED <<vars, rid, rtodo>>

AllEnd(t) ==
    /\ rpc[t] = "all"
    /\ rtodo[t] = {}
    /\ doomed' = [doomed EXCEPT ![t] = {}]
    /\ RGoto(t, "out")
    /\ UNCHANGED <<vars, tracked, rid, rtodo>>

\* Threads outside the registry may publish on and close the bus.
BusStep(t) ==
    /\ rpc[t] = "out"
    /\ \/ \E k \in Kinds, a \in BOOLEAN : PublishBegin(t, k, a)
       \/ Record(t) \/ Snapshot(t) \/ Deliver(t) \/ PublishReturn(t)
       \/ Close(t) \/ DropSubs(t) \/ DropHistory(t)
    /\ UNCHANGED regVars

RContinue(t) ==
    \/ OnSubscribed(t)
    \/ Track(t)
    \/ UnsubscribeEnd(t)
    \/ AllStep(t)
    \/ AllEnd(t)

RNext ==
    \E t \in Threads :
        \/ \E f \in Filters : OnSubscribe(t, f)
        \/ OnClosedBus(t)
        \/ \E id \in 1..nextID : UnsubscribeBegin(t, id)
        \/ AllBegin(t)
        \/ RContinue(t)
        \/ BusStep(t)

RSpec == RInit /\ [][RNext]_rvars

-----------------------------------------------------------------------------
RTypeOK ==
    /\ TypeOK
    /\ tracked \subseteq 0..nextID
    /\ rpc \in [Threads -> RegistryPlaces]
    /\ rid \in [Threads -> 0..nextID]
    /\ rtodo \in [Threads -> SUBSET (0..nextID)]
    /\ doomed \in [Threads -> SUBSET (1..nextID)]

\* No handler leaks: at every moment each subscription on the bus is in the
\* registry's list, or some call still under way holds its id and will list it
\* or remove it (handler.go:48-52, 237-261 against bus.go:63-97).
NoOrphan ==
    \A id \in Ids(subs) :
        \/ id \in tracked
        \/ \E t \in Threads : id = rid[t] \/ id \in rtodo[t]

\* UnsubscribeAll's comment (handler.go:250): when the call returns, none of the
\* subscriptions listed when it began is still on the bus.
AllRemoved ==
    \A t \in Threads :
        (rpc[t] = "all" /\ rtodo[t] = {}) => doomed[t] \cap Ids(subs) = {}

\* Registry and bus agree on the handlers that are left, whoever registers, unregisters,
\* cleans up or closes the bus (handler.go:48-52, 237-261).
RegistrySound == NoOrphan /\ AllRemoved
=============================================================================
