------------------------------ MODULE EventBus ------------------------------
(***************************************************************************)
(* events/bus.go: the publish/subscribe bus every other part of the        *)
(* library reports through.  Any number of goroutines (Threads) call       *)
(* Subscribe, Unsubscribe, Publish, PublishAsync, ClearHistory and Close.  *)
(*                                                                         *)
(* One action is one critical section of the code: the bus takes its locks *)
(* (mu, historyMu) several times in one call and releases them between,    *)
(* so a call is a sequence of actions threaded by pc[t].  Handlers run     *)
(* with no lock held; a handler that calls back into the bus is therefore  *)
(* another thread's call at that moment, and is covered by Threads.        *)
(*                                                                         *)
(* An event is reduced to what the bus can tell apart: its number (which   *)
(* publication it is) and its kind, which filters test.                    *)
(***************************************************************************)
EXTENDS Naturals, Sequences, FiniteSets

CONSTANTS
    Threads,        \* goroutines that use the bus
    Kinds,          \* what a filter can distinguish
    Filters,        \* the filters in use, each the set of kinds it lets through
    HistorySize,    \* bus.historySize; 0 disables the history
    MaxSubs,        \* bound: subscriptions created in a behaviour
    MaxPubs         \* bound: publications started in a behaviour

ASSUME HistorySizeAssumption == HistorySize \in Nat
ASSUME FiltersAssumption == Filters \subseteq SUBSET Kinds
ASSUME KindsAssumption == Kinds # {}
ASSUME BoundsAssumption == MaxSubs \in Nat /\ MaxPubs \in Nat

VARIABLES
    closed,         \* bus.closed
    nextID,         \* bus.nextID: the last id handed out
    subs,           \* bus.subscriptions, in slice order
    history,        \* bus.history
    pc,             \* where each thread is inside a call
    new,            \* the subscription a thread is registering
    ev,             \* the event a thread is publishing
    todo,           \* the thread's private copy of subs, still to be called
    async,          \* whether the thread is in PublishAsync
    \* History variables, which no action reads:
    pubs,           \* publications started
    recorded,       \* events put in the history since it was last emptied
    delivered,      \* handler invocations, <<subscription id, event>>, in order
    removed,        \* ids taken off the bus
    owed,           \* per thread: subscribed when its publication began, and since
    gone            \* per thread: removed before its publication began

busVars == <<closed, nextID, subs, history>>
callVars == <<pc, new, ev, todo, async>>
ghosts == <<pubs, recorded, delivered, removed, owed, gone>>
vars == <<closed, nextID, subs, history, pc, new, ev, todo, async,
          pubs, recorded, delivered, removed, owed, gone>>

Event == [no : Nat, kind : Kinds]
Subscription == [id : Nat, filter : SUBSET Kinds]
NoSubscription == [id |-> 0, filter |-> {}]
NoEvent == [no |-> 0, kind |-> CHOOSE k \in Kinds : TRUE]
Places == {"idle", "append", "record", "snapshot", "deliver",
           "dropSubs", "dropHistory"}

Init ==
    /\ closed = FALSE
    /\ nextID = 0
    /\ subs = <<>>
    /\ history = <<>>
    /\ pc = [t \in Threads |-> "idle"]
    /\ new = [t \in Threads |-> NoSubscription]
    /\ ev = [t \in Threads |-> NoEvent]
    /\ todo = [t \in Threads |-> <<>>]
    /\ async = [t \in Threads |-> FALSE]
    /\ pubs = 0
    /\ recorded = <<>>
    /\ delivered = <<>>
    /\ removed = {}
    /\ owed = [t \in Threads |-> {}]
    /\ gone = [t \in Threads |-> {}]

Goto(t, place) == pc' = [pc EXCEPT ![t] = place]

Entries(s) == {s[i] : i \in 1..Len(s)}
Ids(s) == {s[i].id : i \in 1..Len(s)}

Matches(sub, event) == event.kind \in sub.filter

-----------------------------------------------------------------------------
(* SubscribeFiltered.  The id is drawn before the lock is taken; nothing    *)
(* but the draw reads nextID, so the closed check and the draw are one step.*)
(* On a closed bus the call returns 0 and changes nothing.                  *)
SubscribeDraw(t, f) ==
    /\ pc[t] = "idle"
    /\ ~closed
    /\ nextID < MaxSubs
    /\ nextID' = nextID + 1
    /\ new' = [new EXCEPT ![t] = [id |-> nextID + 1, filter |-> f]]
    /\ Goto(t, "append")
    /\ UNCHANGED <<closed, subs, history, ev, todo, async, ghosts>>

\* The append under mu does not look at closed again.
SubscribeAppend(t) ==
    /\ pc[t] = "append"
    /\ subs' = Append(subs, new[t])
    /\ new' = [new EXCEPT ![t] = NoSubscription]
    /\ Goto(t, "idle")
    /\ UNCHANGED <<closed, nextID, history, ev, todo, async, ghosts>>

(* Unsubscribe: the slot of the removed entry takes the last entry.         *)
\* Mutants of Without: the slice not shortened; shortened without the swap.
WithoutKeepsLength(s, i) == [s EXCEPT ![i] = s[Len(s)]]
WithoutSwap(s, i) == SubSeq(s, 1, Len(s) - 1)

Without(s, i) == SubSeq([s EXCEPT ![i] = s[Len(s)]], 1, Len(s) - 1)

Unsubscribe(t, id) ==
    /\ pc[t] = "idle"
    /\ \E i \in 1..Len(subs) :
          /\ subs[i].id = id
          /\ subs' = Without(subs, i)
    /\ removed' = removed \cup {id}
    /\ owed' = [u \in Threads |-> owed[u] \ {id}]
    /\ UNCHANGED <<closed, nextID, history, callVars, pubs, recorded, delivered, gone>>

-----------------------------------------------------------------------------
(* Publish and PublishAsync.  A publication on a closed bus returns at      *)
(* once and changes nothing.                                                *)
PublishBegin(t, k, a) ==
    /\ pc[t] = "idle"
    /\ ~closed
    /\ pubs < MaxPubs
    /\ pubs' = pubs + 1
    /\ ev' = [ev EXCEPT ![t] = [no |-> pubs + 1, kind |-> k]]
    /\ async' = [async EXCEPT ![t] = a]
    /\ Goto(t, IF HistorySize > 0 THEN "record" ELSE "snapshot")
    /\ owed' = [owed EXCEPT ![t] =
                  {subs[i].id : i \in {j \in 1..Len(subs) : k \in subs[j].filter}}]
    /\ gone' = [gone EXCEPT ![t] = removed]
    /\ UNCHANGED <<busVars, new, todo, recorded, delivered, removed>>

\* Under historyMu: drop the oldest entry of a full ring, then append.
\* Mutant of Room: the newest entry dropped.
RoomDropsNewest(h) == IF Len(h) >= HistorySize THEN SubSeq(h, 1, Len(h) - 1) ELSE h

Room(h) == IF Len(h) >= HistorySize THEN Tail(h) ELSE h

Record(t) ==
    /\ pc[t] = "record"
    /\ history' = Append(Room(history), ev[t])
    /\ recorded' = Append(recorded, ev[t])
    /\ Goto(t, "snapshot")
    /\ UNCHANGED <<closed, nextID, subs, new, ev, todo, async,
                   pubs, delivered, removed, owed, gone>>

\* Under mu, shared: copy the slice.  Delivery then uses only the copy.
Snapshot(t) ==
    /\ pc[t] = "snapshot"
    /\ todo' = [todo EXCEPT ![t] = subs]
    /\ Goto(t, "deliver")
    /\ UNCHANGED <<busVars, new, ev, async, ghosts>>

\* Publish walks the copy in order; PublishAsync starts a goroutine for each
\* entry, so its handlers run in any order.
InTurn(t, i) == async[t] \/ i = 1

Deliver(t) ==
    /\ pc[t] = "deliver"
    /\ todo[t] # <<>>
    /\ \E i \in 1..Len(todo[t]) :
          /\ InTurn(t, i)
          /\ todo' = [todo EXCEPT ![t] = SubSeq(@, 1, i - 1) \o SubSeq(@, i + 1, Len(@))]
          /\ delivered' = IF Matches(todo[t][i], ev[t])
                            THEN Append(delivered, <<todo[t][i].id, ev[t]>>)
                            ELSE delivered
    /\ UNCHANGED <<busVars, pc, new, ev, async, pubs, recorded, removed, owed, gone>>

\* The end of the loop, or wg.Wait() returning.
PublishReturn(t) ==
    /\ pc[t] = "deliver"
    /\ todo[t] = <<>>
    /\ Goto(t, "idle")
    /\ ev' = [ev EXCEPT ![t] = NoEvent]
    /\ async' = [async EXCEPT ![t] = FALSE]
    /\ owed' = [owed EXCEPT ![t] = {}]
    /\ gone' = [gone EXCEPT ![t] = {}]
    /\ UNCHANGED <<busVars, new, todo, pubs, recorded, delivered, removed>>

-----------------------------------------------------------------------------
ClearHistory(t) ==
    /\ pc[t] = "idle"
    /\ HistorySize > 0
    /\ history' = <<>>
    /\ recorded' = <<>>
    /\ UNCHANGED <<closed, nextID, subs, callVars, pubs, delivered, removed, owed, gone>>

(* Close: the flag, then the subscriptions, then the history, each on its own. *)
Close(t) ==
    /\ pc[t] = "idle"
    /\ ~closed
    /\ closed' = TRUE
    /\ Goto(t, "dropSubs")
    /\ UNCHANGED <<nextID, subs, history, new, ev, todo, async, ghosts>>

DropSubs(t) ==
    /\ pc[t] = "dropSubs"
    /\ subs' = <<>>
    /\ removed' = removed \cup Ids(subs)
    /\ owed' = [u \in Threads |-> {}]
    /\ Goto(t, "dropHistory")
    /\ UNCHANGED <<closed, nextID, history, new, ev, todo, async,
                   pubs, recorded, delivered, gone>>

DropHistory(t) ==
    /\ pc[t] = "dropHistory"
    /\ history' = <<>>
    /\ recorded' = <<>>
    /\ Goto(t, "idle")
    /\ UNCHANGED <<closed, nextID, subs, new, ev, todo, async,
                   pubs, delivered, removed, owed, gone>>

-----------------------------------------------------------------------------
\* The steps that finish a call already begun.
Continue(t) ==
    \/ SubscribeAppend(t)
    \/ Record(t)
    \/ Snapshot(t)
    \/ Deliver(t)
    \/ PublishReturn(t)
    \/ DropSubs(t)
    \/ DropHistory(t)

Next ==
    \E t \in Threads :
        \/ \E f \in Filters : SubscribeDraw(t, f)
        \/ \E id \in 1..nextID : Unsubscribe(t, id)
        \/ \E k \in Kinds, a \in BOOLEAN : PublishBegin(t, k, a)
        \/ ClearHistory(t)
        \/ Close(t)
        \/ Continue(t)

Spec == Init /\ [][Next]_vars

-----------------------------------------------------------------------------
TypeOK ==
    /\ closed \in BOOLEAN
    /\ nextID \in Nat
    /\ subs \in Seq(Subscription)
    /\ history \in Seq(Event) /\ Len(history) <= HistorySize
    /\ pc \in [Threads -> Places]
    /\ new \in [Threads -> Subscription]
    /\ ev \in [Threads -> Event]
    /\ todo \in [Threads -> Seq(Subscription)]
    /\ async \in [Threads -> BOOLEAN]
    /\ pubs \in Nat
    /\ recorded \in Seq(Event)
    /\ delivered \in Seq(Nat \X Event)
    /\ removed \subseteq Nat
    /\ owed \in [Threads -> SUBSET Nat]
    /\ gone \in [Threads -> SUBSET Nat]

\* The history is the most recent HistorySize events recorded since it was
\* last emptied, oldest first, whatever order concurrent publishers, clears and
\* Close take historyMu in (bus.go:107-116, 188-197, 210-212).
HistoryWindow ==
    /\ Len(history) = IF Len(recorded) < HistorySize THEN Len(recorded) ELSE HistorySize
    /\ \A i \in 1..Len(history) :
          history[i] = recorded[Len(recorded) - Len(history) + i]

\* No handler is called twice for one publication, although the slice is
\* reshuffled by Unsubscribe while the publication is under way (bus.go:118-127).
AtMostOnce ==
    \A i, j \in 1..Len(delivered) : delivered[i] = delivered[j] => i = j

\* A subscription whose removal was complete before Publish was called is not
\* called by that publication (bus.go:84-97 against 118-127).
NotAfterRemoval ==
    \A t \in Threads, i \in 1..Len(delivered) :
        delivered[i][2] = ev[t] => delivered[i][1] \notin gone[t]

\* When Publish or PublishAsync is about to return, every matching subscription that
\* was on the bus from before the call until after it has been called: a
\* concurrent removal of another entry makes the publication skip nobody.
NobodySkipped ==
    \A t \in Threads : (pc[t] = "deliver" /\ todo[t] = <<>>) =>
        \A id \in owed[t] : \E i \in 1..Len(delivered) : delivered[i] = <<id, ev[t]>>

\* Until the first removal swaps two of them, a synchronous publication calls handlers in
\* the order they were put on the bus, those that join meanwhile included
\* (bus.go:89-91, 124-128).
OrderUntilRemoval ==
    removed = {} => \A t \in Threads : (pc[t] = "deliver" /\ ~async[t]) =>
        \A i, j \in 1..Len(delivered) :
            (i < j /\ delivered[i][2] = ev[t] /\ delivered[j][2] = ev[t]) =>
                \E a, b \in 1..Len(subs) :
                    /\ a < b
                    /\ subs[a].id = delivered[i][1]
                    /\ subs[b].id = delivered[j][1]

\* What a publication promises its subscribers, whatever happens to the list while it
\* is delivered: once each, none that had gone, nobody left out, and in the list's order
\* for as long as the list has one (bus.go:118-128).
DeliverySound == AtMostOnce /\ NotAfterRemoval /\ NobodySkipped /\ OrderUntilRemoval

\* The bus implements PubSub: although a publication takes two locks one after the other,
\* works from a copy and is overtaken by subscriptions, removals and Close, it is as if
\* it decided at one moment whom to tell, and told them (bus.go:102-152).
Stage(t) ==
    IF pc[t] \in {"record", "snapshot"} THEN "begun"
    ELSE IF pc[t] = "deliver" THEN "telling" ELSE "idle"

Awaiting(t) == {x.id : x \in {y \in Entries(todo[t]) : Matches(y, ev[t])}}

Promise == INSTANCE PubSub
              WITH Publishers <- Threads, Subscribers <- [id : 1..MaxSubs, filter : Filters],
                   open <- ~closed, members <- Entries(subs), left <- removed, drawn <- pubs,
                   stage <- [t \in Threads |-> Stage(t)], event <- ev,
                   awaiting <- [t \in Threads |-> Awaiting(t)], told <- Entries(delivered)

KeepsPromise == Promise!Spec

\* Publish's comment (bus.go:100): handlers are called in subscription order.
\* Ids grow in the order Subscribe is called, and here one goroutine subscribes
\* at a time.
InSubscriptionOrder ==
    \A i, j \in 1..Len(delivered) :
        /\ i < j
        /\ delivered[i][2] = delivered[j][2]
        => delivered[i][1] < delivered[j][1]

\* Close's comment (bus.go:199): "Close closes the event bus and removes all
\* subscriptions"; no thread is inside Close or Subscribe any more.
ClosedIsEmpty ==
    (closed /\ \A t \in Threads : pc[t] = "idle") => subs = <<>>
=============================================================================
