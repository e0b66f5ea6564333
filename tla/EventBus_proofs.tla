-------------------------- MODULE EventBus_proofs --------------------------
(***************************************************************************)
(* Theorems about EventBus and about HandlerRegistry on top of it, for any *)
(* goroutines, kinds and filters, any history size and any bounds.         *)
(***************************************************************************)
EXTENDS MCEvents, SequenceTheorems, TLAPS

\* Removing slot i by moving the last entry into it keeps a sequence of
\* subscriptions, one shorter.
LEMMA WithoutType ==
    ASSUME NEW S, NEW s \in Seq(S), NEW i \in 1..Len(s)
    PROVE  /\ Without(s, i) \in Seq(S)
           /\ Len(Without(s, i)) = Len(s) - 1
           /\ \A j \in 1..(Len(s) - 1) :
                 Without(s, i)[j] = IF j = i THEN s[Len(s)] ELSE s[j]
<1> DEFINE u == [s EXCEPT ![i] = s[Len(s)]]
<1>1. u \in Seq(S) /\ Len(u) = Len(s)
  OBVIOUS
<1>2. \A j \in 1..Len(s) : u[j] = IF j = i THEN s[Len(s)] ELSE s[j]
  OBVIOUS
<1> HIDE DEF u
<1>3. /\ SubSeq(u, 1, Len(s) - 1) \in Seq(S)
      /\ Len(SubSeq(u, 1, Len(s) - 1)) = Len(s) - 1
      /\ \A j \in 1..(Len(s) - 1) : SubSeq(u, 1, Len(s) - 1)[j] = u[j]
  BY <1>1
<1> QED
  BY <1>2, <1>3 DEF Without, u

LEMMA TypeInit == Init => TypeOK
<1> SUFFICES ASSUME Init PROVE TypeOK
  OBVIOUS
<1>1. NoEvent \in Event
  BY KindsAssumption DEF NoEvent, Event
<1>2. NoSubscription \in Subscription
  BY DEF NoSubscription, Subscription
<1> USE DEF Init
<1>3. /\ subs \in Seq(Subscription) /\ recorded \in Seq(Event) /\ delivered \in Seq(Nat \X Event)
      /\ history \in Seq(Event) /\ Len(history) <= HistorySize
  BY HistorySizeAssumption
<1>4. todo \in [Threads -> Seq(Subscription)]
  OBVIOUS
<1>5. /\ new \in [Threads -> Subscription] /\ ev \in [Threads -> Event]
      /\ async \in [Threads -> BOOLEAN] /\ closed \in BOOLEAN
      /\ owed \in [Threads -> SUBSET Nat] /\ gone \in [Threads -> SUBSET Nat]
      /\ removed \subseteq Nat /\ nextID \in Nat /\ pubs \in Nat
  BY <1>1, <1>2
<1>6. pc \in [Threads -> Places]
  BY DEF Places
<1> QED
  BY <1>3, <1>4, <1>5, <1>6 DEF TypeOK

\* Dropping one entry of a sequence.
LEMMA DropType ==
    ASSUME NEW S, NEW s \in Seq(S), NEW i \in 1..Len(s)
    PROVE  SubSeq(s, 1, i - 1) \o SubSeq(s, i + 1, Len(s)) \in Seq(S)
<1>1. SubSeq(s, 1, i - 1) \in Seq(S) /\ SubSeq(s, i + 1, Len(s)) \in Seq(S)
  OBVIOUS
<1> QED
  BY <1>1

\* Room makes room for one more entry and keeps the newest ones.
LEMMA RoomType ==
    ASSUME NEW h \in Seq(Event), Len(h) <= HistorySize, HistorySize > 0
    PROVE  /\ Room(h) \in Seq(Event)
           /\ Len(Room(h)) = IF Len(h) = HistorySize THEN Len(h) - 1 ELSE Len(h)
           /\ \A i \in 1..Len(Room(h)) :
                 Room(h)[i] = h[i + Len(h) - Len(Room(h))]
<1>1. CASE Len(h) = HistorySize
  <2>1. h # <<>>
    BY <1>1
  <2> QED
    BY <1>1, <2>1, HistorySizeAssumption DEF Room
<1>2. CASE Len(h) < HistorySize
  <2>1. Room(h) = h
    BY <1>2, HistorySizeAssumption DEF Room
  <2> QED
    BY <1>2, <2>1, HistorySizeAssumption
<1> QED
  BY <1>1, <1>2, HistorySizeAssumption

\* A publication enters the critical section of the history only when there is
\* a history; with HistorySize = 0 the append would exceed it.
RecordOnlyWithHistory == \A t \in Threads : pc[t] = "record" => HistorySize > 0

LEMMA TypeNext == TypeOK /\ RecordOnlyWithHistory /\ [Next]_vars => TypeOK'
<1> SUFFICES ASSUME TypeOK, RecordOnlyWithHistory, [Next]_vars PROVE TypeOK'
  OBVIOUS
<1> USE DEF TypeOK, busVars, callVars, ghosts, Goto
<1>1. ASSUME NEW t \in Threads, NEW f \in Filters, SubscribeDraw(t, f) PROVE TypeOK'
  <2>1. [id |-> nextID + 1, filter |-> f] \in Subscription
    BY FiltersAssumption DEF Subscription
  <2>2. new' \in [Threads -> Subscription] /\ nextID' \in Nat
    BY <1>1, <2>1 DEF SubscribeDraw
  <2>3. pc' \in [Threads -> Places]
    BY <1>1 DEF SubscribeDraw, Places
  <2> QED
    BY <1>1, <2>2, <2>3 DEF SubscribeDraw
<1>2. ASSUME NEW t \in Threads, NEW id \in 1..nextID, Unsubscribe(t, id) PROVE TypeOK'
  <2>1. subs' \in Seq(Subscription)
    BY <1>2, WithoutType DEF Unsubscribe
  <2>2. removed' \subseteq Nat /\ owed' \in [Threads -> SUBSET Nat]
    BY <1>2 DEF Unsubscribe
  <2> QED
    BY <1>2, <2>1, <2>2 DEF Unsubscribe
<1>3. ASSUME NEW t \in Threads, NEW k \in Kinds, NEW a \in BOOLEAN, PublishBegin(t, k, a)
      PROVE TypeOK'
  <2>1. [no |-> pubs + 1, kind |-> k] \in Event /\ pubs' \in Nat
    BY <1>3 DEF PublishBegin, Event
  <2>2. ev' \in [Threads -> Event]
    BY <1>3, <2>1 DEF PublishBegin
  <2>3. {subs[i].id : i \in {j \in 1..Len(subs) : k \in subs[j].filter}} \subseteq Nat
    <3>1. ASSUME NEW i \in 1..Len(subs) PROVE subs[i].id \in Nat
      <4>1. subs[i] \in Subscription
        OBVIOUS
      <4> QED
        BY <4>1 DEF Subscription
    <3> QED
      BY <3>1
  <2>4. owed' \in [Threads -> SUBSET Nat]
    BY <1>3, <2>3 DEF PublishBegin
  <2>5. gone' \in [Threads -> SUBSET Nat]
    BY <1>3 DEF PublishBegin
  <2>6. pc' \in [Threads -> Places]
    BY <1>3 DEF PublishBegin, Places
  <2>7. async' \in [Threads -> BOOLEAN]
    BY <1>3 DEF PublishBegin
  <2> QED
    BY <1>3, <2>1, <2>2, <2>4, <2>5, <2>6, <2>7 DEF PublishBegin
<1>4. ASSUME NEW t \in Threads, ClearHistory(t) PROVE TypeOK'
  <2>1. history' \in Seq(Event) /\ Len(history') <= HistorySize /\ recorded' \in Seq(Event)
    BY <1>4, HistorySizeAssumption DEF ClearHistory
  <2> QED
    BY <1>4, <2>1 DEF ClearHistory
<1>5. ASSUME NEW t \in Threads, Close(t) PROVE TypeOK'
  BY <1>5 DEF Close, Places
<1>6. ASSUME NEW t \in Threads, SubscribeAppend(t) PROVE TypeOK'
  <2>1. subs' \in Seq(Subscription)
    BY <1>6 DEF SubscribeAppend
  <2>2. new' \in [Threads -> Subscription]
    BY <1>6 DEF SubscribeAppend, NoSubscription, Subscription
  <2>3. pc' \in [Threads -> Places]
    BY <1>6 DEF SubscribeAppend, Places
  <2> QED
    BY <1>6, <2>1, <2>2, <2>3 DEF SubscribeAppend
<1>7. ASSUME NEW t \in Threads, Record(t) PROVE TypeOK'
  <2>1. HistorySize > 0
    BY <1>7 DEF Record, RecordOnlyWithHistory
  <2>2. history' \in Seq(Event) /\ Len(history') <= HistorySize
    <3>1. /\ Room(history) \in Seq(Event)
          /\ Len(Room(history)) < HistorySize
      BY <2>1, RoomType, HistorySizeAssumption
    <3>2. history' = Append(Room(history), ev[t]) /\ ev[t] \in Event
      BY <1>7 DEF Record
    <3> QED
      BY <3>1, <3>2, HistorySizeAssumption
  <2>3. recorded' \in Seq(Event) /\ pc' \in [Threads -> Places]
    BY <1>7 DEF Record, Places
  <2> QED
    BY <1>7, <2>2, <2>3 DEF Record
<1>8. ASSUME NEW t \in Threads, Snapshot(t) PROVE TypeOK'
  BY <1>8 DEF Snapshot, Places
<1>9. ASSUME NEW t \in Threads, Deliver(t) PROVE TypeOK'
  <2>1. PICK i \in 1..Len(todo[t]) :
          /\ todo' = [todo EXCEPT ![t] =
                        SubSeq(todo[t], 1, i - 1) \o SubSeq(todo[t], i + 1, Len(todo[t]))]
          /\ delivered' = IF Matches(todo[t][i], ev[t])
                            THEN Append(delivered, <<todo[t][i].id, ev[t]>>)
                            ELSE delivered
    BY <1>9 DEF Deliver
  <2>2. todo' \in [Threads -> Seq(Subscription)]
    BY <2>1, DropType
  <2>3. <<todo[t][i].id, ev[t]>> \in Nat \X Event
    <3>1. todo[t][i] \in Subscription /\ ev[t] \in Event
      OBVIOUS
    <3> QED
      BY <3>1 DEF Subscription
  <2>4. delivered' \in Seq(Nat \X Event)
    BY <2>1, <2>3
  <2> QED
    BY <1>9, <2>2, <2>4 DEF Deliver
<1>10. ASSUME NEW t \in Threads, PublishReturn(t) PROVE TypeOK'
  <2>1. NoEvent \in Event
    BY KindsAssumption DEF NoEvent, Event
  <2> QED
    BY <1>10, <2>1 DEF PublishReturn, Places
<1>11. ASSUME NEW t \in Threads, DropSubs(t) PROVE TypeOK'
  <2>1. Ids(subs) \subseteq Nat
    <3>1. ASSUME NEW i \in 1..Len(subs) PROVE subs[i].id \in Nat
      <4>1. subs[i] \in Subscription
        OBVIOUS
      <4> QED
        BY <4>1 DEF Subscription
    <3> QED
      BY <3>1 DEF Ids
  <2>2. subs' \in Seq(Subscription)
    BY <1>11 DEF DropSubs
  <2>3. removed' \subseteq Nat /\ owed' \in [Threads -> SUBSET Nat]
    BY <1>11, <2>1 DEF DropSubs
  <2>4. pc' \in [Threads -> Places]
    BY <1>11 DEF DropSubs, Places
  <2> QED
    BY <1>11, <2>2, <2>3, <2>4 DEF DropSubs
<1>12. ASSUME NEW t \in Threads, DropHistory(t) PROVE TypeOK'
  <2>1. history' \in Seq(Event) /\ Len(history') <= HistorySize /\ recorded' \in Seq(Event)
    BY <1>12, HistorySizeAssumption DEF DropHistory
  <2> QED
    BY <1>12, <2>1 DEF DropHistory, Places
<1>13. CASE UNCHANGED vars
  BY <1>13 DEF vars
<1> QED
  BY <1>1, <1>2, <1>3, <1>4, <1>5, <1>6, <1>7, <1>8, <1>9, <1>10, <1>11, <1>12, <1>13
  DEF Next, Continue

LEMMA RecordNext ==
    TypeOK /\ RecordOnlyWithHistory /\ [Next]_vars => RecordOnlyWithHistory'
<1> SUFFICES ASSUME TypeOK, RecordOnlyWithHistory, [Next]_vars
             PROVE  RecordOnlyWithHistory'
  OBVIOUS
<1> USE DEF TypeOK, RecordOnlyWithHistory, Goto
<1>1. CASE UNCHANGED vars
  BY <1>1 DEF vars
<1>2. ASSUME NEW t \in Threads, NEW k \in Kinds, NEW a \in BOOLEAN, PublishBegin(t, k, a)
      PROVE RecordOnlyWithHistory'
  BY <1>2 DEF PublishBegin
<1>3. ASSUME NEW t \in Threads, \/ Continue(t) \/ Close(t) \/ ClearHistory(t)
                                \/ \E f \in Filters : SubscribeDraw(t, f)
                                \/ \E id \in 1..nextID : Unsubscribe(t, id)
      PROVE RecordOnlyWithHistory'
  <2>1. pc' = pc \/ \E place \in Places \ {"record"} : pc' = [pc EXCEPT ![t] = place]
    BY <1>3 DEF Continue, Close, ClearHistory, SubscribeDraw, Unsubscribe, SubscribeAppend,
        Record, Snapshot, Deliver, PublishReturn, DropSubs, DropHistory, Places, callVars
  <2> QED
    BY <2>1
<1> QED
  BY <1>1, <1>2, <1>3 DEF Next

\* Only three operations touch the history, and each keeps it the newest part
\* of what was recorded.
LEMMA WindowNext ==
    TypeOK /\ RecordOnlyWithHistory /\ HistoryWindow /\ [Next]_vars => HistoryWindow'
<1> SUFFICES ASSUME TypeOK, RecordOnlyWithHistory, HistoryWindow, [Next]_vars
             PROVE  HistoryWindow'
  OBVIOUS
<1>1. ASSUME NEW t \in Threads, Record(t) PROVE HistoryWindow'
  <2>1. HistorySize > 0
    BY <1>1 DEF Record, RecordOnlyWithHistory
  <2>2. /\ history' = Append(Room(history), ev[t])
        /\ recorded' = Append(recorded, ev[t])
        /\ ev[t] \in Event
    BY <1>1 DEF Record, TypeOK
  <2> DEFINE h == Room(history)
  <2>3. /\ h \in Seq(Event)
        /\ Len(h) = IF Len(history) = HistorySize THEN Len(history) - 1 ELSE Len(history)
        /\ \A i \in 1..Len(h) : h[i] = history[i + Len(history) - Len(h)]
    BY <2>1, RoomType DEF TypeOK
  <2> HIDE DEF h
  <2>4. Len(history) = IF Len(recorded) < HistorySize THEN Len(recorded) ELSE HistorySize
    BY DEF HistoryWindow
  <2>5. /\ Len(history') = Len(h) + 1
        /\ Len(recorded') = Len(recorded) + 1
        /\ \A i \in 1..Len(h) : history'[i] = h[i]
        /\ history'[Len(h) + 1] = ev[t]
        /\ \A i \in 1..Len(recorded) : recorded'[i] = recorded[i]
        /\ recorded'[Len(recorded) + 1] = ev[t]
    BY <2>2, <2>3 DEF h, TypeOK
  <2>6. Len(history) \in Nat /\ Len(recorded) \in Nat /\ Len(h) \in Nat
    BY <2>3 DEF TypeOK
  <2>7. Len(history') = IF Len(recorded') < HistorySize THEN Len(recorded') ELSE HistorySize
    BY <2>3, <2>4, <2>5, <2>6, HistorySizeAssumption
  <2>8. ASSUME NEW i \in 1..Len(history')
        PROVE  history'[i] = recorded'[Len(recorded') - Len(history') + i]
    <3>1. CASE i = Len(h) + 1
      BY <2>5, <2>6, <3>1
    <3>2. CASE i \in 1..Len(h)
      <4>1. history'[i] = history[i + Len(history) - Len(h)]
        BY <2>3, <2>5, <3>2
      <4>2. i + Len(history) - Len(h) \in 1..Len(history)
        <5>1. Len(h) <= Len(history)
          BY <2>3, <2>6
        <5> QED
          BY <2>6, <3>2, <5>1
      <4>3. history[i + Len(history) - Len(h)]
              = recorded[Len(recorded) - Len(history) + (i + Len(history) - Len(h))]
        BY <4>2 DEF HistoryWindow
      <4>4. Len(recorded) - Len(history) + (i + Len(history) - Len(h))
              = Len(recorded') - Len(history') + i
        BY <2>5, <2>6, <3>2
      <4>5. Len(recorded') - Len(history') + i \in 1..Len(recorded)
        BY <2>3, <2>4, <2>5, <2>6, <3>2, HistorySizeAssumption
      <4> QED
        BY <2>5, <4>1, <4>3, <4>4, <4>5
    <3> QED
      BY <2>5, <2>6, <3>1, <3>2
  <2> QED
    BY <2>7, <2>8 DEF HistoryWindow
<1>2. ASSUME history' = <<>>, recorded' = <<>> PROVE HistoryWindow'
  BY <1>2, HistorySizeAssumption DEF HistoryWindow
<1>3. ASSUME UNCHANGED <<history, recorded>> PROVE HistoryWindow'
  BY <1>3 DEF HistoryWindow
<1>4. CASE UNCHANGED vars
  BY <1>3, <1>4 DEF vars
<1>5. ASSUME NEW t \in Threads, ClearHistory(t) \/ DropHistory(t) PROVE HistoryWindow'
  BY <1>2, <1>5 DEF ClearHistory, DropHistory
<1>6. ASSUME NEW t \in Threads,
             \/ \E f \in Filters : SubscribeDraw(t, f)
             \/ \E id \in 1..nextID : Unsubscribe(t, id)
             \/ \E k \in Kinds, a \in BOOLEAN : PublishBegin(t, k, a)
             \/ Close(t) \/ SubscribeAppend(t) \/ Snapshot(t) \/ Deliver(t)
             \/ PublishReturn(t) \/ DropSubs(t)
      PROVE HistoryWindow'
  BY <1>3, <1>6 DEF SubscribeDraw, Unsubscribe, PublishBegin, Close, SubscribeAppend,
      Snapshot, Deliver, PublishReturn, DropSubs, busVars, ghosts
<1> QED
  BY <1>1, <1>4, <1>5, <1>6 DEF Next, Continue

\* The history is always the newest HistorySize events recorded since it was
\* last emptied, for any number of concurrent publishers (bus.go:107-116).
THEOREM HistoryIsWindow == Spec => [](TypeOK /\ HistoryWindow)
<1>1. Init => TypeOK /\ RecordOnlyWithHistory /\ HistoryWindow
  BY TypeInit, HistorySizeAssumption DEF Init, RecordOnlyWithHistory, HistoryWindow
<1>2. TypeOK /\ RecordOnlyWithHistory /\ HistoryWindow /\ [Next]_vars
        => (TypeOK /\ RecordOnlyWithHistory /\ HistoryWindow)'
  BY TypeNext, RecordNext, WindowNext
<1> QED
  BY <1>1, <1>2, PTL DEF Spec

-----------------------------------------------------------------------------
(* What the bus promises its subscribers.  Subscription lists are read as   *)
(* sets: the order of a list matters to nothing below.                      *)

OncePerId(s) == \A i, j \in 1..Len(s) : s[i].id = s[j].id => i = j

LEMMA IdsOfEntries == \A s : Ids(s) = {x.id : x \in Entries(s)}
BY DEF Ids, Entries

LEMMA EntriesTyped ==
    ASSUME NEW S, NEW s \in Seq(S)
    PROVE  Entries(s) \subseteq S
BY DEF Entries

LEMMA EmptyEntries == Entries(<<>>) = {} /\ OncePerId(<<>>)
BY DEF Entries, OncePerId

LEMMA AppendPlaces ==
    ASSUME NEW S, NEW s \in Seq(S), NEW x \in S
    PROVE  /\ Len(s) \in Nat /\ Len(Append(s, x)) = Len(s) + 1
           /\ \A i \in 1..(Len(s) + 1) : Append(s, x)[i] = IF i <= Len(s) THEN s[i] ELSE x
<1>1. Len(Append(s, x)) = Len(s) + 1 /\ Len(s) \in Nat
  OBVIOUS
<1>2. \A i \in 1..(Len(s) + 1) : Append(s, x)[i] = IF i <= Len(s) THEN s[i] ELSE x
  OBVIOUS
<1> QED
  BY <1>1, <1>2

LEMMA AppendEntries ==
    ASSUME NEW S, NEW s \in Seq(S), NEW x \in S
    PROVE  Entries(Append(s, x)) = Entries(s) \cup {x}
<1>1. Len(Append(s, x)) = Len(s) + 1 /\ Len(s) \in Nat
  BY AppendPlaces
<1>2. \A i \in 1..(Len(s) + 1) : Append(s, x)[i] = IF i <= Len(s) THEN s[i] ELSE x
  BY AppendPlaces
<1>3. Len(s) + 1 \in 1..(Len(s) + 1) /\ \A i \in 1..Len(s) : i \in 1..(Len(s) + 1)
  BY <1>1
<1> QED
  BY <1>1, <1>2, <1>3 DEF Entries

LEMMA AppendOncePerId ==
    ASSUME NEW S, NEW s \in Seq(S), NEW x \in S, OncePerId(s), x.id \notin Ids(s)
    PROVE  OncePerId(Append(s, x))
<1>1. Len(Append(s, x)) = Len(s) + 1 /\ Len(s) \in Nat
  BY AppendPlaces
<1>2. \A i \in 1..(Len(s) + 1) : Append(s, x)[i] = IF i <= Len(s) THEN s[i] ELSE x
  BY AppendPlaces
<1>3. \A i \in 1..Len(s) : s[i].id # x.id
  BY DEF Ids
<1> QED
  BY <1>1, <1>2, <1>3 DEF OncePerId

\* A removal takes exactly the entry out that it was given the place of, whichever entry
\* is moved into the gap.
LEMMA WithoutEntries ==
    ASSUME NEW S, NEW s \in Seq(S), NEW i \in 1..Len(s), OncePerId(s)
    PROVE  /\ Entries(Without(s, i)) = Entries(s) \ {s[i]}
           /\ OncePerId(Without(s, i))
<1> DEFINE w == Without(s, i)
<1>0. Len(s) \in Nat
  OBVIOUS
<1>1. /\ w \in Seq(S) /\ Len(w) = Len(s) - 1 /\ Len(s) \in Nat
      /\ \A j \in 1..(Len(s) - 1) : w[j] = IF j = i THEN s[Len(s)] ELSE s[j]
  BY <1>0, WithoutType, Zenon
<1> HIDE DEF w
<1>2. \A j \in 1..Len(s) : s[j] = s[i] => j = i
  BY DEF OncePerId
<1>3. \A j \in 1..Len(w) : w[j] \in Entries(s) \ {s[i]}
  <2> TAKE j \in 1..Len(w)
  <2>1. PICK k \in 1..Len(s) : k # i /\ w[j] = s[k]
    <3>1. CASE j = i
      <4>1. Len(s) \in 1..Len(s) /\ Len(s) # i
        BY <1>1, <3>1
      <4> QED
        BY <1>1, <3>1, <4>1
    <3>2. CASE j # i
      BY <1>1, <3>2
    <3> QED
      BY <3>1, <3>2
  <2> QED
    BY <1>2, <2>1 DEF Entries
<1>4. ASSUME NEW j \in 1..Len(s), j # i PROVE s[j] \in Entries(w)
  <2>1. CASE j = Len(s)
    BY <1>1, <1>4, <2>1 DEF Entries
  <2>2. CASE j # Len(s)
    BY <1>1, <1>4, <2>2 DEF Entries
  <2> QED
    BY <2>1, <2>2
<1>5. Entries(w) = Entries(s) \ {s[i]}
  BY <1>3, <1>4 DEF Entries
<1>6. OncePerId(w)
  <2> DEFINE from(j) == IF j = i THEN Len(s) ELSE j
  <2>1. \A j \in 1..Len(w) : from(j) \in 1..Len(s) /\ w[j] = s[from(j)]
    BY <1>1
  <2>2. \A j, k \in 1..Len(w) : from(j) = from(k) => j = k
    BY <1>1
  <2> HIDE DEF from
  <2> SUFFICES ASSUME NEW j \in 1..Len(w), NEW k \in 1..Len(w), w[j].id = w[k].id PROVE j = k
    BY DEF OncePerId
  <2>3. from(j) = from(k)
    BY <2>1 DEF OncePerId
  <2> QED
    BY <2>2, <2>3
<1> QED
  BY <1>5, <1>6 DEF w

\* What is left of a sequence when place i is dropped, place by place.
LEMMA DropPlaces ==
    ASSUME NEW S, NEW s \in Seq(S), NEW i \in 1..Len(s)
    PROVE  LET d == SubSeq(s, 1, i - 1) \o SubSeq(s, i + 1, Len(s))
           IN  /\ d \in Seq(S) /\ Len(d) = Len(s) - 1
               /\ \A j \in 1..(Len(s) - 1) : d[j] = IF j < i THEN s[j] ELSE s[j + 1]
<1> DEFINE a == SubSeq(s, 1, i - 1)
           b == SubSeq(s, i + 1, Len(s))
           d == a \o b
<1>1. /\ a \in Seq(S) /\ Len(a) = i - 1 /\ \A j \in 1..(i - 1) : a[j] = s[j]
      /\ b \in Seq(S) /\ Len(b) = Len(s) - i /\ \A j \in 1..(Len(s) - i) : b[j] = s[i + j]
      /\ Len(s) \in Nat
  <2>1. Len(s) \in Nat /\ i \in 1..Len(s) /\ \A j \in 1..Len(s) : s[j] \in S
    OBVIOUS
  <2>2. a \in Seq(S) /\ Len(a) = i - 1
    OBVIOUS
  <2>3. \A j \in 1..(i - 1) : a[j] = s[j]
    OBVIOUS
  <2>4. b \in Seq(S) /\ Len(b) = Len(s) - i
    OBVIOUS
  <2>5. \A j \in 1..(Len(s) - i) : b[j] = s[i + j]
    OBVIOUS
  <2> QED
    BY <2>1, <2>2, <2>3, <2>4, <2>5
<1> HIDE DEF a, b
<1>2. /\ d \in Seq(S) /\ Len(d) = Len(s) - 1
      /\ \A j \in 1..(Len(s) - 1) : d[j] = IF j < i THEN s[j] ELSE s[j + 1]
  <2>1. /\ d \in Seq(S) /\ Len(d) = Len(a) + Len(b)
        /\ \A j \in 1..(Len(a) + Len(b)) : d[j] = IF j <= Len(a) THEN a[j] ELSE b[j - Len(a)]
    BY <1>1, ConcatProperties
  <2>2. Len(a) + Len(b) = Len(s) - 1
    BY <1>1
  <2>3. ASSUME NEW j \in 1..(Len(s) - 1) PROVE d[j] = IF j < i THEN s[j] ELSE s[j + 1]
    <3>1. CASE j < i
      BY <1>1, <2>1, <2>2, <3>1
    <3>2. CASE j >= i
      <4>1. j - Len(a) \in 1..(Len(s) - i) /\ i + (j - Len(a)) = j + 1
        BY <1>1, <3>2
      <4>2. d[j] = b[j - Len(a)]
        BY <1>1, <2>1, <2>2, <3>2
      <4>3. b[j - Len(a)] = s[i + (j - Len(a))]
        BY <1>1, <4>1
      <4> QED
        BY <3>2, <4>1, <4>2, <4>3
    <3> QED
      BY <1>1, <3>1, <3>2
  <2> QED
    BY <2>1, <2>2, <2>3
<1> QED
  BY <1>2 DEF a, b

LEMMA DropEntries ==
    ASSUME NEW S, NEW s \in Seq(S), NEW i \in 1..Len(s), OncePerId(s)
    PROVE  LET d == SubSeq(s, 1, i - 1) \o SubSeq(s, i + 1, Len(s))
           IN  Entries(d) = Entries(s) \ {s[i]} /\ OncePerId(d)
<1> DEFINE d == SubSeq(s, 1, i - 1) \o SubSeq(s, i + 1, Len(s))
<1>1. Len(s) \in Nat
  OBVIOUS
<1>2. /\ d \in Seq(S) /\ Len(d) = Len(s) - 1
      /\ \A j \in 1..(Len(s) - 1) : d[j] = IF j < i THEN s[j] ELSE s[j + 1]
  BY DropPlaces
<1> HIDE DEF d
<1>3. \A j \in 1..Len(s) : s[j] = s[i] => j = i
  BY DEF OncePerId
<1>4. \A j \in 1..Len(d) : d[j] \in Entries(s) \ {s[i]}
  BY <1>2, <1>3 DEF Entries
<1>5. ASSUME NEW j \in 1..Len(s), j # i PROVE s[j] \in Entries(d)
  <2>1. CASE j < i
    <3>1. j \in 1..Len(d) /\ d[j] = s[j]
      BY <1>1, <1>2, <2>1
    <3> QED
      BY <3>1 DEF Entries
  <2>2. CASE j > i
    <3>1. j - 1 \in 1..Len(d) /\ d[j - 1] = s[j]
      BY <1>1, <1>2, <2>2
    <3> QED
      BY <3>1 DEF Entries
  <2> QED
    BY <1>5, <2>1, <2>2
<1>6. Entries(d) = Entries(s) \ {s[i]}
  BY <1>4, <1>5 DEF Entries
<1>7. OncePerId(d)
  <2> SUFFICES ASSUME NEW j \in 1..Len(d), NEW k \in 1..Len(d), d[j].id = d[k].id
               PROVE  j = k
    BY DEF OncePerId
  <2> DEFINE at(m) == IF m < i THEN m ELSE m + 1
  <2>1. /\ at(j) \in 1..Len(s) /\ d[j] = s[at(j)]
        /\ at(k) \in 1..Len(s) /\ d[k] = s[at(k)]
    BY <1>1, <1>2
  <2>2. at(j) = at(k)
    BY <2>1 DEF OncePerId
  <2> QED
    BY <1>1, <1>2, <2>2
<1> QED
  BY <1>6, <1>7 DEF d


Calls == Entries(delivered)
Publishing(t) == pc[t] \in {"record", "snapshot", "deliver"}

\* An id is on the bus once, or about to be, or gone for good.
Named ==
    /\ removed \subseteq 1..nextID
    /\ OncePerId(subs)
    /\ \A x \in Entries(subs) : x.id \in (1..nextID) \ removed
    /\ \A t \in Threads : pc[t] = "append" =>
          new[t].id \in (1..nextID) \ (removed \cup Ids(subs))
    /\ \A t, u \in Threads :
          pc[t] = "append" /\ pc[u] = "append" /\ new[t].id = new[u].id => t = u

\* Two publications under way are told apart by their events.
Numbered ==
    /\ \A t \in Threads : IF Publishing(t) THEN ev[t].no \in 1..pubs ELSE ev[t].no = 0
    /\ \A t, u \in Threads :
          Publishing(t) /\ Publishing(u) /\ ev[t].no = ev[u].no => t = u
    /\ \A c \in Calls : c[2].no \in 1..pubs

\* A publication calls whom it has copied and not called yet, and has called nobody
\* before it copies.
Copied ==
    /\ \A t \in Threads : pc[t] # "deliver" => todo[t] = <<>>
    /\ \A t \in Threads : OncePerId(todo[t])
    /\ \A t \in Threads : pc[t] \in {"record", "snapshot"} => \A c \in Calls : c[2] # ev[t]
    /\ \A t \in Threads, c \in Calls : c[2] = ev[t] => c[1] \notin Ids(todo[t])

\* Nobody who had left when a publication began is in its copy.
Left ==
    \A t \in Threads : /\ gone[t] \subseteq removed
                       /\ gone[t] \cap Ids(todo[t]) = {}

Waiting(list, id, event) == \E x \in Entries(list) : x.id = id /\ Matches(x, event)

\* Who is owed a publication is on the bus until it copies, and in the copy until called.
Due ==
    \A t \in Threads : \A id \in owed[t] :
        /\ pc[t] \in {"record", "snapshot"} => Waiting(subs, id, ev[t])
        /\ pc[t] = "deliver" => Waiting(todo[t], id, ev[t]) \/ <<id, ev[t]>> \in Calls

BusInv ==
    /\ TypeOK /\ RecordOnlyWithHistory
    /\ Named /\ Numbered /\ Copied /\ AtMostOnce /\ Left /\ NotAfterRemoval /\ Due

\* An id is drawn once, and a removal takes it off the bus for good.
LEMMA NamedNext == TypeOK /\ Named /\ [Next]_vars => Named'
<1> SUFFICES ASSUME TypeOK, Named, [Next]_vars PROVE Named'
  OBVIOUS
<1> USE DEF Goto
<1>0. /\ Entries(subs) \subseteq Subscription
      /\ subs \in Seq(Subscription) /\ new \in [Threads -> Subscription]
      /\ nextID \in Nat /\ pc \in [Threads -> Places]
  BY EntriesTyped DEF TypeOK
<1>1. ASSUME NEW t \in Threads, NEW f \in Filters, SubscribeDraw(t, f) PROVE Named'
  <2>1. /\ nextID' = nextID + 1 /\ subs' = subs /\ removed' = removed
        /\ \A u \in Threads : u # t => pc'[u] = pc[u] /\ new'[u] = new[u]
        /\ pc'[t] = "append" /\ new'[t].id = nextID + 1
    BY <1>0, <1>1 DEF SubscribeDraw, ghosts
  <2>2. Ids(subs) \subseteq 1..nextID /\ nextID + 1 \notin 1..nextID
    BY <1>0, IdsOfEntries DEF Named
  <2>3. 1..nextID \subseteq 1..(nextID + 1) /\ nextID + 1 \in 1..(nextID + 1)
    BY <1>0
  <2>4. \A u \in Threads : pc'[u] = "append" =>
           IF u = t THEN new'[u].id = nextID + 1 ELSE pc[u] = "append" /\ new'[u] = new[u]
    BY <2>1
  <2>5. removed' \subseteq 1..nextID' /\ OncePerId(subs')
    BY <2>1, <2>3 DEF Named
  <2>6. \A x \in Entries(subs') : x.id \in (1..nextID') \ removed'
    BY <2>1, <2>3 DEF Named
  <2>7. \A u \in Threads : pc'[u] = "append" =>
           new'[u].id \in (1..nextID') \ (removed' \cup Ids(subs'))
    BY <2>1, <2>2, <2>3, <2>4 DEF Named
  <2>8. \A u, v \in Threads :
           pc'[u] = "append" /\ pc'[v] = "append" /\ new'[u].id = new'[v].id => u = v
    BY <2>2, <2>4 DEF Named
  <2> QED
    BY <2>5, <2>6, <2>7, <2>8 DEF Named
<1>2. ASSUME NEW t \in Threads, SubscribeAppend(t) PROVE Named'
  <2>1. /\ nextID' = nextID /\ removed' = removed
        /\ pc[t] = "append" /\ pc'[t] = "idle"
        /\ \A u \in Threads : u # t => pc'[u] = pc[u] /\ new'[u] = new[u]
        /\ subs' = Append(subs, new[t])
    BY <1>0, <1>2 DEF SubscribeAppend, ghosts
  <2>2. Entries(subs') = Entries(subs) \cup {new[t]}
    BY <1>0, <2>1, AppendEntries
  <2>3. OncePerId(subs')
    BY <1>0, <2>1, AppendOncePerId DEF Named
  <2>4. Ids(subs') = Ids(subs) \cup {new[t].id}
    BY <2>2, IdsOfEntries
  <2>5. \A u \in Threads : pc'[u] = "append" => u # t /\ pc[u] = "append" /\ new'[u] = new[u]
    BY <2>1
  <2> QED
    BY <2>1, <2>2, <2>3, <2>4, <2>5 DEF Named
<1>3. ASSUME NEW t \in Threads, NEW id \in 1..nextID, Unsubscribe(t, id) PROVE Named'
  <2>1. PICK i \in 1..Len(subs) : subs[i].id = id /\ subs' = Without(subs, i)
    BY <1>3 DEF Unsubscribe
  <2>2. nextID' = nextID /\ pc' = pc /\ new' = new /\ removed' = removed \cup {id}
    BY <1>3 DEF Unsubscribe, callVars
  <2>3. Entries(subs') = Entries(subs) \ {subs[i]} /\ OncePerId(subs')
    BY <1>0, <2>1, WithoutEntries DEF Named
  <2>4. \A x \in Entries(subs') : x \in Entries(subs) /\ x.id # id
    <3>1. ASSUME NEW j \in 1..Len(subs), subs[j] # subs[i] PROVE subs[j].id # id
      BY <2>1, <3>1 DEF Named, OncePerId
    <3> QED
      BY <2>3, <3>1 DEF Entries
  <2>5. Ids(subs') \subseteq Ids(subs)
    BY <2>3, IdsOfEntries
  <2>6. id \in Ids(subs)
    BY <2>1 DEF Ids
  <2> QED
    BY <2>2, <2>3, <2>4, <2>5, <2>6 DEF Named
<1>4. ASSUME NEW t \in Threads, DropSubs(t) PROVE Named'
  <2>1. /\ nextID' = nextID /\ new' = new /\ subs' = <<>>
        /\ removed' = removed \cup Ids(subs)
        /\ \A u \in Threads : pc'[u] = "append" => pc[u] = "append"
    BY <1>0, <1>4 DEF DropSubs
  <2>2. Ids(subs) \subseteq 1..nextID /\ Ids(<<>>) = {}
    BY IdsOfEntries, EmptyEntries DEF Named
  <2> QED
    BY <2>1, <2>2, EmptyEntries DEF Named
<1>5. ASSUME UNCHANGED <<nextID, subs, new, removed>>,
             \A u \in Threads : pc'[u] = "append" => pc[u] = "append"
      PROVE  Named'
  BY <1>5 DEF Named
<1>6. CASE UNCHANGED vars
  BY <1>5, <1>6 DEF vars
<1>7. ASSUME NEW t \in Threads,
             \/ \E k \in Kinds, a \in BOOLEAN : PublishBegin(t, k, a)
             \/ ClearHistory(t) \/ Close(t) \/ Record(t) \/ Snapshot(t)
             \/ Deliver(t) \/ PublishReturn(t) \/ DropHistory(t)
      PROVE  Named'
  <2>1. UNCHANGED <<nextID, subs, new, removed>>
    BY <1>7 DEF PublishBegin, ClearHistory, Close, Record, Snapshot, Deliver, PublishReturn,
        DropHistory, busVars, callVars, ghosts
  <2>2. pc' = pc \/ \E place \in Places \ {"append"} : pc' = [pc EXCEPT ![t] = place]
    BY <1>7 DEF PublishBegin, ClearHistory, Close, Record, Snapshot, Deliver, PublishReturn,
        DropHistory, callVars, Places
  <2> QED
    BY <1>0, <1>5, <2>1, <2>2
<1> QED
  BY <1>1, <1>2, <1>3, <1>4, <1>6, <1>7 DEF Next, Continue

\* Deliver calls one entry of the copy, when it matches, and takes it out of the copy.
LEMMA DeliverEffect ==
    ASSUME TypeOK, Copied, NEW t \in Threads, Deliver(t)
    PROVE  \E x \in Entries(todo[t]) :
              /\ Entries(todo'[t]) = Entries(todo[t]) \ {x}
              /\ OncePerId(todo'[t])
              /\ \A y \in Entries(todo'[t]) : y.id # x.id
              /\ \A u \in Threads : u # t => todo'[u] = todo[u]
              /\ delivered' = IF Matches(x, ev[t])
                                THEN Append(delivered, <<x.id, ev[t]>>) ELSE delivered
              /\ Calls' = IF Matches(x, ev[t])
                            THEN Calls \cup {<<x.id, ev[t]>>} ELSE Calls
              /\ x \in Subscription /\ <<x.id, ev[t]>> \in Nat \X Event
<1> DEFINE s == todo[t]
<1>1. PICK i \in 1..Len(s) :
        /\ todo' = [todo EXCEPT ![t] = SubSeq(s, 1, i - 1) \o SubSeq(s, i + 1, Len(s))]
        /\ delivered' = IF Matches(s[i], ev[t])
                          THEN Append(delivered, <<s[i].id, ev[t]>>) ELSE delivered
  BY DEF Deliver
<1>2. s \in Seq(Subscription) /\ OncePerId(s) /\ delivered \in Seq(Nat \X Event)
  BY DEF TypeOK, Copied
<1>3. todo'[t] = SubSeq(s, 1, i - 1) \o SubSeq(s, i + 1, Len(s))
  BY <1>1 DEF TypeOK
<1>4. \A u \in Threads : u # t => todo'[u] = todo[u]
  BY <1>1 DEF TypeOK
<1> HIDE DEF s
<1>5. Entries(todo'[t]) = Entries(s) \ {s[i]} /\ OncePerId(todo'[t])
  BY <1>2, <1>3, DropEntries
<1>6. \A y \in Entries(s) : y # s[i] => y.id # s[i].id
  BY <1>2 DEF Entries, OncePerId
<1>7. s[i] \in Entries(s) /\ s[i] \in Subscription
  BY <1>2 DEF Entries
<1>8. <<s[i].id, ev[t]>> \in Nat \X Event
  BY <1>7 DEF Subscription, TypeOK
<1>9. Entries(delivered') = IF Matches(s[i], ev[t])
                              THEN Entries(delivered) \cup {<<s[i].id, ev[t]>>}
                              ELSE Entries(delivered)
  <2> DEFINE c == <<s[i].id, ev[t]>>
  <2>1. c \in Nat \X Event
    BY <1>8
  <2> HIDE DEF c
  <2>2. Entries(Append(delivered, c)) = Entries(delivered) \cup {c}
    BY <1>2, <2>1, AppendEntries
  <2> QED
    BY <1>1, <2>2 DEF c
<1> QED
  BY <1>1, <1>4, <1>5, <1>6, <1>7, <1>8, <1>9 DEF Calls, s

\* A step that is no delivery calls nobody.
LEMMA CallsStay ==
    ASSUME [Next]_vars, ~ \E t \in Threads : Deliver(t)
    PROVE  delivered' = delivered /\ Calls' = Calls
<1>1. delivered' = delivered
  BY DEF Next, Continue, vars, SubscribeDraw, Unsubscribe, PublishBegin, ClearHistory, Close,
      SubscribeAppend, Record, Snapshot, PublishReturn, DropSubs, DropHistory, ghosts
<1> QED
  BY <1>1 DEF Calls, Entries

LEMMA NumberedNext == TypeOK /\ Numbered /\ Copied /\ [Next]_vars => Numbered'
<1> SUFFICES ASSUME TypeOK, Numbered, Copied, [Next]_vars PROVE Numbered'
  OBVIOUS
<1> USE DEF Goto
<1>0. /\ pubs \in Nat /\ pc \in [Threads -> Places] /\ ev \in [Threads -> Event]
      /\ \A c \in Calls : c[2].no \in 1..pubs
  BY DEF TypeOK, Numbered
<1>1. ASSUME NEW t \in Threads, NEW k \in Kinds, NEW a \in BOOLEAN, PublishBegin(t, k, a)
      PROVE  Numbered'
  <2>1. /\ pubs' = pubs + 1 /\ Calls' = Calls
        /\ \A u \in Threads : u # t => pc'[u] = pc[u] /\ ev'[u] = ev[u]
        /\ pc'[t] \in {"record", "snapshot"} /\ ev'[t].no = pubs + 1
    BY <1>0, <1>1 DEF PublishBegin, Calls, Entries
  <2>2. 1..pubs \subseteq 1..pubs' /\ pubs + 1 \in 1..pubs' /\ pubs + 1 \notin 1..pubs
    BY <1>0, <2>1
  <2>3. \A u \in Threads : u # t =>
           Publishing(u)' = Publishing(u) /\ ev'[u].no = ev[u].no
    BY <2>1 DEF Publishing
  <2>4. Publishing(t)'
    BY <2>1 DEF Publishing
  <2>5. \A u \in Threads : IF Publishing(u)' THEN ev'[u].no \in 1..pubs' ELSE ev'[u].no = 0
    BY <2>1, <2>2, <2>3, <2>4 DEF Numbered
  <2>6. \A u, v \in Threads :
           Publishing(u)' /\ Publishing(v)' /\ ev'[u].no = ev'[v].no => u = v
    BY <2>1, <2>2, <2>3 DEF Numbered
  <2> QED
    BY <1>0, <2>1, <2>2, <2>5, <2>6 DEF Numbered
<1>2. ASSUME NEW t \in Threads, PublishReturn(t) PROVE Numbered'
  <2>1. /\ pubs' = pubs /\ Calls' = Calls
        /\ \A u \in Threads : u # t => pc'[u] = pc[u] /\ ev'[u] = ev[u]
        /\ pc'[t] = "idle" /\ ev'[t].no = 0
    BY <1>0, <1>2 DEF PublishReturn, Calls, Entries, NoEvent
  <2> QED
    BY <2>1 DEF Numbered, Publishing
<1>3. ASSUME NEW t \in Threads, Deliver(t) PROVE Numbered'
  <2>1. UNCHANGED <<pubs, pc, ev>>
    BY <1>3 DEF Deliver
  <2>2. pc[t] = "deliver" /\ ev[t].no \in 1..pubs
    BY <1>3 DEF Deliver, Numbered, Publishing
  <2>3. \A c \in Calls' : c[2].no \in 1..pubs
    <3>1. PICK x \in Entries(todo[t]) : Calls' \subseteq Calls \cup {<<x.id, ev[t]>>}
      BY <1>3, DeliverEffect
    <3> QED
      BY <1>0, <2>2, <3>1
  <2> QED
    BY <2>1, <2>3 DEF Numbered, Publishing
<1>4. ASSUME UNCHANGED <<pubs, ev>>, Calls' = Calls,
             \A u \in Threads : Publishing(u)' <=> Publishing(u)
      PROVE  Numbered'
  BY <1>4 DEF Numbered
<1>5. CASE UNCHANGED vars
  BY <1>4, <1>5 DEF vars, Calls, Entries, Publishing
<1>6. ASSUME NEW t \in Threads,
             \/ \E f \in Filters : SubscribeDraw(t, f)
             \/ \E id \in 1..nextID : Unsubscribe(t, id)
             \/ ClearHistory(t) \/ Close(t) \/ SubscribeAppend(t) \/ Record(t)
             \/ Snapshot(t) \/ DropSubs(t) \/ DropHistory(t)
      PROVE  Numbered'
  <2>1. UNCHANGED <<pubs, ev>> /\ Calls' = Calls
    BY <1>6 DEF SubscribeDraw, Unsubscribe, ClearHistory, Close, SubscribeAppend, Record,
        Snapshot, DropSubs, DropHistory, callVars, ghosts, Calls, Entries
  <2>2. \/ pc' = pc
        \/ Publishing(t) /\ \E place \in {"snapshot", "deliver"} : pc' = [pc EXCEPT ![t] = place]
        \/ ~Publishing(t) /\ \E place \in {"append", "idle", "dropSubs", "dropHistory"} :
                                pc' = [pc EXCEPT ![t] = place]
    BY <1>6 DEF SubscribeDraw, Unsubscribe, ClearHistory, Close, SubscribeAppend, Record,
        Snapshot, DropSubs, DropHistory, callVars, Publishing
  <2>3. \A u \in Threads : Publishing(u)' <=> Publishing(u)
    BY <1>0, <2>2 DEF Publishing
  <2> QED
    BY <1>4, <2>1, <2>3
<1> QED
  BY <1>1, <1>2, <1>3, <1>5, <1>6 DEF Next, Continue

LEMMA CopiedNext ==
    TypeOK /\ Named /\ Numbered /\ Copied /\ [Next]_vars => Copied'
<1> SUFFICES ASSUME TypeOK, Named, Numbered, Copied, [Next]_vars PROVE Copied'
  OBVIOUS
<1> USE DEF Goto
<1>0. /\ pubs \in Nat /\ pc \in [Threads -> Places] /\ ev \in [Threads -> Event]
      /\ todo \in [Threads -> Seq(Subscription)]
      /\ \A c \in Calls : c[2].no \in 1..pubs
  BY DEF TypeOK, Numbered
<1>1. ASSUME NEW t \in Threads, NEW k \in Kinds, NEW a \in BOOLEAN, PublishBegin(t, k, a)
      PROVE  Copied'
  <2>1. /\ todo' = todo /\ Calls' = Calls
        /\ \A u \in Threads : u # t => pc'[u] = pc[u] /\ ev'[u] = ev[u]
        /\ pc[t] = "idle" /\ pc'[t] \in {"record", "snapshot"} /\ ev'[t].no = pubs + 1
    BY <1>0, <1>1 DEF PublishBegin, Calls, Entries
  <2>2. todo[t] = <<>> /\ Ids(todo[t]) = {}
    BY <2>1, EmptyEntries, IdsOfEntries DEF Copied
  <2>3. \A c \in Calls : c[2] # ev'[t]
    BY <1>0, <2>1
  <2> QED
    BY <2>1, <2>2, <2>3 DEF Copied
<1>2. ASSUME NEW t \in Threads, PublishReturn(t) PROVE Copied'
  <2>1. /\ todo' = todo /\ Calls' = Calls
        /\ \A u \in Threads : u # t => pc'[u] = pc[u] /\ ev'[u] = ev[u]
        /\ pc'[t] = "idle" /\ todo[t] = <<>>
    BY <1>0, <1>2 DEF PublishReturn, Calls, Entries
  <2>2. Ids(todo[t]) = {}
    BY <2>1, EmptyEntries, IdsOfEntries
  <2> QED
    BY <2>1, <2>2 DEF Copied
<1>3. ASSUME NEW t \in Threads, Snapshot(t) PROVE Copied'
  <2>1. /\ ev' = ev /\ Calls' = Calls
        /\ \A u \in Threads : u # t => pc'[u] = pc[u] /\ todo'[u] = todo[u]
        /\ pc[t] = "snapshot" /\ pc'[t] = "deliver" /\ todo'[t] = subs
    BY <1>0, <1>3 DEF Snapshot, Calls, Entries, ghosts
  <2>2. OncePerId(subs) /\ \A c \in Calls : c[2] # ev[t]
    BY <2>1 DEF Named, Copied
  <2> QED
    BY <2>1, <2>2 DEF Copied
<1>4. ASSUME NEW t \in Threads, Deliver(t) PROVE Copied'
  <2>1. PICK x \in Entries(todo[t]) :
          /\ Entries(todo'[t]) = Entries(todo[t]) \ {x}
          /\ OncePerId(todo'[t])
          /\ \A y \in Entries(todo'[t]) : y.id # x.id
          /\ \A u \in Threads : u # t => todo'[u] = todo[u]
          /\ Calls' \subseteq Calls \cup {<<x.id, ev[t]>>}
    BY <1>4, DeliverEffect
  <2>2. pc' = pc /\ ev' = ev /\ pc[t] = "deliver"
    BY <1>4 DEF Deliver
  <2>3. \A u \in Threads : u # t /\ Publishing(u) => ev[u] # ev[t]
    BY <2>2 DEF Numbered, Publishing
  <2>4. Ids(todo'[t]) \subseteq Ids(todo[t]) \ {x.id}
    BY <2>1, IdsOfEntries
  <2>5. ASSUME NEW u \in Threads, NEW c \in Calls', c[2] = ev[u]
        PROVE  c[1] \notin Ids(todo'[u])
    <3>1. CASE u = t
      BY <2>1, <2>4, <2>5, <3>1 DEF Copied
    <3>2. CASE u # t /\ pc[u] = "deliver"
      BY <2>1, <2>3, <2>5, <3>2 DEF Copied, Publishing
    <3>3. CASE u # t /\ pc[u] # "deliver"
      BY <2>1, <3>3, EmptyEntries, IdsOfEntries DEF Copied
    <3> QED
      BY <3>1, <3>2, <3>3
  <2>6. ASSUME NEW u \in Threads, pc[u] \in {"record", "snapshot"}, NEW c \in Calls'
        PROVE  c[2] # ev[u]
    BY <2>1, <2>2, <2>3, <2>6 DEF Copied, Publishing
  <2> QED
    BY <2>1, <2>2, <2>5, <2>6 DEF Copied
<1>5. ASSUME UNCHANGED <<todo, ev>>, Calls' = Calls,
             \A u \in Threads : /\ pc'[u] = "deliver" <=> pc[u] = "deliver"
                                /\ pc'[u] \in {"record", "snapshot"}
                                      <=> pc[u] \in {"record", "snapshot"}
      PROVE  Copied'
  BY <1>5 DEF Copied
<1>6. CASE UNCHANGED vars
  BY <1>5, <1>6 DEF vars, Calls, Entries
<1>7. ASSUME NEW t \in Threads,
             \/ \E f \in Filters : SubscribeDraw(t, f)
             \/ \E id \in 1..nextID : Unsubscribe(t, id)
             \/ ClearHistory(t) \/ Close(t) \/ SubscribeAppend(t) \/ Record(t)
             \/ DropSubs(t) \/ DropHistory(t)
      PROVE  Copied'
  <2>1. UNCHANGED <<todo, ev>> /\ Calls' = Calls
    BY <1>7 DEF SubscribeDraw, Unsubscribe, ClearHistory, Close, SubscribeAppend, Record,
        DropSubs, DropHistory, callVars, ghosts, Calls, Entries
  <2>2. \/ pc' = pc
        \/ pc[t] = "record" /\ pc' = [pc EXCEPT ![t] = "snapshot"]
        \/ pc[t] \notin {"record", "snapshot", "deliver"} /\ \E place \in {"append", "idle", "dropSubs", "dropHistory"} :
                                pc' = [pc EXCEPT ![t] = place]
    BY <1>7 DEF SubscribeDraw, Unsubscribe, ClearHistory, Close, SubscribeAppend, Record,
        DropSubs, DropHistory, callVars
  <2>3. \A u \in Threads : /\ pc'[u] = "deliver" <=> pc[u] = "deliver"
                           /\ pc'[u] \in {"record", "snapshot"}
                                 <=> pc[u] \in {"record", "snapshot"}
    BY <1>0, <2>2
  <2> QED
    BY <1>5, <2>1, <2>3
<1> QED
  BY <1>1, <1>2, <1>3, <1>4, <1>6, <1>7 DEF Next, Continue

LEMMA OnceNext == TypeOK /\ Copied /\ AtMostOnce /\ [Next]_vars => AtMostOnce'
<1> SUFFICES ASSUME TypeOK, Copied, AtMostOnce, [Next]_vars PROVE AtMostOnce'
  OBVIOUS
<1>1. ASSUME NEW t \in Threads, Deliver(t) PROVE AtMostOnce'
  <2>1. PICK x \in Entries(todo[t]) :
          /\ delivered' = IF Matches(x, ev[t])
                            THEN Append(delivered, <<x.id, ev[t]>>) ELSE delivered
          /\ <<x.id, ev[t]>> \in Nat \X Event
    BY <1>1, DeliverEffect
  <2> DEFINE c == <<x.id, ev[t]>>
  <2>2. x.id \in Ids(todo[t])
    BY IdsOfEntries
  <2>3. c \notin Calls
    BY <2>2 DEF Copied
  <2>4. \A i \in 1..Len(delivered) : delivered[i] # c
    BY <2>3 DEF Calls, Entries
  <2>5. delivered \in Seq(Nat \X Event)
    BY DEF TypeOK
  <2> HIDE DEF c
  <2>6. CASE delivered' = Append(delivered, c)
    <3>1. /\ Len(delivered') = Len(delivered) + 1 /\ Len(delivered) \in Nat
          /\ \A i \in 1..(Len(delivered) + 1) :
                delivered'[i] = IF i <= Len(delivered) THEN delivered[i] ELSE c
      BY <2>1, <2>5, <2>6 DEF c
    <3> QED
      BY <2>4, <3>1 DEF AtMostOnce
  <2>7. CASE delivered' = delivered
    BY <2>7 DEF AtMostOnce
  <2> QED
    BY <2>1, <2>6, <2>7 DEF c
<1>2. CASE delivered' = delivered
  BY <1>2 DEF AtMostOnce
<1> QED
  BY <1>1, <1>2, CallsStay

LEMMA LeftNext ==
    /\ TypeOK /\ Named /\ Numbered /\ Copied /\ Left /\ NotAfterRemoval
    /\ [Next]_vars
    => Left' /\ NotAfterRemoval'
<1> SUFFICES ASSUME TypeOK, Named, Numbered, Copied, Left, NotAfterRemoval, [Next]_vars
             PROVE  Left' /\ NotAfterRemoval'
  OBVIOUS
<1> USE DEF Goto
<1> DEFINE Spared == \A t \in Threads : \A c \in Calls : c[2] = ev[t] => c[1] \notin gone[t]
<1>0. /\ pubs \in Nat /\ pc \in [Threads -> Places] /\ ev \in [Threads -> Event]
      /\ todo \in [Threads -> Seq(Subscription)] /\ gone \in [Threads -> SUBSET Nat]
      /\ \A c \in Calls : c[2].no \in 1..pubs
  BY DEF TypeOK, Numbered
<1>a. Spared
  BY DEF NotAfterRemoval, Calls, Entries
<1>b. Spared' => NotAfterRemoval'
  BY DEF NotAfterRemoval, Calls, Entries
<1>1. ASSUME NEW t \in Threads, NEW k \in Kinds, NEW a \in BOOLEAN, PublishBegin(t, k, a)
      PROVE  Left' /\ Spared'
  <2>1. /\ todo' = todo /\ Calls' = Calls /\ removed' = removed
        /\ \A u \in Threads : u # t => ev'[u] = ev[u] /\ gone'[u] = gone[u]
        /\ pc[t] = "idle" /\ gone'[t] = removed /\ ev'[t].no = pubs + 1
    BY <1>0, <1>1 DEF PublishBegin, Calls, Entries
  <2>2. Ids(todo[t]) = {}
    BY <2>1, EmptyEntries, IdsOfEntries DEF Copied
  <2>3. \A c \in Calls : c[2] # ev'[t]
    BY <1>0, <2>1
  <2> QED
    BY <1>a, <2>1, <2>2, <2>3 DEF Left
<1>2. ASSUME NEW t \in Threads, PublishReturn(t) PROVE Left' /\ Spared'
  <2>1. /\ todo' = todo /\ Calls' = Calls /\ removed' = removed
        /\ \A u \in Threads : u # t => ev'[u] = ev[u] /\ gone'[u] = gone[u]
        /\ gone'[t] = {}
    BY <1>0, <1>2 DEF PublishReturn, Calls, Entries
  <2> QED
    BY <1>a, <2>1 DEF Left
<1>3. ASSUME NEW t \in Threads, Snapshot(t) PROVE Left' /\ Spared'
  <2>1. /\ ev' = ev /\ Calls' = Calls /\ removed' = removed /\ gone' = gone
        /\ \A u \in Threads : u # t => todo'[u] = todo[u]
        /\ todo'[t] = subs
    BY <1>0, <1>3 DEF Snapshot, Calls, Entries, ghosts
  <2>2. removed \cap Ids(subs) = {}
    BY IdsOfEntries DEF Named
  <2> QED
    BY <1>a, <2>1, <2>2 DEF Left
<1>4. ASSUME NEW t \in Threads, Deliver(t) PROVE Left' /\ Spared'
  <2>1. PICK x \in Entries(todo[t]) :
          /\ Entries(todo'[t]) = Entries(todo[t]) \ {x}
          /\ \A u \in Threads : u # t => todo'[u] = todo[u]
          /\ Calls' \subseteq Calls \cup {<<x.id, ev[t]>>}
    BY <1>4, DeliverEffect
  <2>2. pc' = pc /\ ev' = ev /\ pc[t] = "deliver" /\ gone' = gone /\ removed' = removed
    BY <1>4 DEF Deliver
  <2>3. \A u \in Threads : u # t => ev[u] # ev[t]
    BY <2>2 DEF Numbered, Publishing
  <2>4. Ids(todo'[t]) \subseteq Ids(todo[t]) /\ x.id \in Ids(todo[t])
    BY <2>1, IdsOfEntries
  <2>5. x.id \notin gone[t]
    BY <2>4 DEF Left
  <2>6. Left'
    BY <2>1, <2>2, <2>4 DEF Left
  <2>7. Spared'
    BY <1>a, <2>1, <2>2, <2>3, <2>5
  <2> QED
    BY <2>6, <2>7
<1>5. ASSUME UNCHANGED <<todo, ev, gone>>, Calls' = Calls, removed \subseteq removed'
      PROVE  Left' /\ Spared'
  BY <1>a, <1>5 DEF Left
<1>6. CASE UNCHANGED vars
  BY <1>b, <1>5, <1>6 DEF vars, Calls, Entries
<1>7. ASSUME NEW t \in Threads,
             \/ \E f \in Filters : SubscribeDraw(t, f)
             \/ \E id \in 1..nextID : Unsubscribe(t, id)
             \/ ClearHistory(t) \/ Close(t) \/ SubscribeAppend(t) \/ Record(t)
             \/ DropSubs(t) \/ DropHistory(t)
      PROVE  Left' /\ Spared'
  <2>1. UNCHANGED <<todo, ev, gone>> /\ Calls' = Calls /\ removed \subseteq removed'
    BY <1>7 DEF SubscribeDraw, Unsubscribe, ClearHistory, Close, SubscribeAppend, Record,
        DropSubs, DropHistory, callVars, ghosts, Calls, Entries
  <2> QED
    BY <1>5, <2>1
<1> QED
  BY <1>b, <1>1, <1>2, <1>3, <1>4, <1>6, <1>7 DEF Next, Continue

LEMMA DueNext ==
    TypeOK /\ Named /\ Numbered /\ Copied /\ Due /\ [Next]_vars => Due'
<1> SUFFICES ASSUME TypeOK, Named, Numbered, Copied, Due, [Next]_vars PROVE Due'
  OBVIOUS
<1> USE DEF Goto
<1>0. /\ pc \in [Threads -> Places] /\ ev \in [Threads -> Event]
      /\ todo \in [Threads -> Seq(Subscription)] /\ owed \in [Threads -> SUBSET Nat]
      /\ subs \in Seq(Subscription) /\ new \in [Threads -> Subscription]
  BY DEF TypeOK
<1>1. ASSUME NEW t \in Threads, NEW k \in Kinds, NEW a \in BOOLEAN, PublishBegin(t, k, a)
      PROVE  Due'
  <2>1. /\ todo' = todo /\ Calls' = Calls /\ subs' = subs
        /\ \A u \in Threads : u # t => ev'[u] = ev[u] /\ owed'[u] = owed[u] /\ pc'[u] = pc[u]
        /\ pc'[t] # "deliver" /\ ev'[t].kind = k
        /\ owed'[t] = {subs[i].id : i \in {j \in 1..Len(subs) : k \in subs[j].filter}}
    BY <1>0, <1>1 DEF PublishBegin, Calls, Entries, busVars
  <2>2. \A id \in owed'[t] : Waiting(subs, id, ev'[t])
    BY <2>1 DEF Waiting, Matches, Entries
  <2> QED
    BY <2>1, <2>2 DEF Due, Waiting
<1>2. ASSUME NEW t \in Threads, PublishReturn(t) PROVE Due'
  <2>1. /\ todo' = todo /\ Calls' = Calls /\ subs' = subs
        /\ \A u \in Threads : u # t => ev'[u] = ev[u] /\ owed'[u] = owed[u] /\ pc'[u] = pc[u]
        /\ owed'[t] = {}
    BY <1>0, <1>2 DEF PublishReturn, Calls, Entries, busVars
  <2> QED
    BY <2>1 DEF Due, Waiting
<1>3. ASSUME NEW t \in Threads, Snapshot(t) PROVE Due'
  <2>1. /\ ev' = ev /\ Calls' = Calls /\ owed' = owed /\ subs' = subs
        /\ \A u \in Threads : u # t => todo'[u] = todo[u] /\ pc'[u] = pc[u]
        /\ todo'[t] = subs /\ pc[t] = "snapshot" /\ pc'[t] = "deliver"
    BY <1>0, <1>3 DEF Snapshot, Calls, Entries, ghosts, busVars
  <2> QED
    BY <2>1 DEF Due, Waiting
<1>4. ASSUME NEW t \in Threads, Deliver(t) PROVE Due'
  <2>1. PICK x \in Entries(todo[t]) :
          /\ Entries(todo'[t]) = Entries(todo[t]) \ {x}
          /\ \A u \in Threads : u # t => todo'[u] = todo[u]
          /\ Calls' = IF Matches(x, ev[t]) THEN Calls \cup {<<x.id, ev[t]>>} ELSE Calls
    BY <1>4, DeliverEffect
  <2>2. pc' = pc /\ ev' = ev /\ owed' = owed /\ subs' = subs /\ pc[t] = "deliver"
    BY <1>4 DEF Deliver, busVars
  <2>3. ASSUME NEW id \in owed[t]
        PROVE  Waiting(todo'[t], id, ev[t]) \/ <<id, ev[t]>> \in Calls'
    <3>1. CASE <<id, ev[t]>> \in Calls
      BY <2>1, <3>1
    <3>2. CASE Waiting(todo[t], id, ev[t])
      <4>1. PICK y \in Entries(todo[t]) : y.id = id /\ Matches(y, ev[t])
        BY <3>2 DEF Waiting
      <4> QED
        BY <2>1, <4>1 DEF Waiting
    <3> QED
      BY <2>2, <3>1, <3>2 DEF Due
  <2>4. Calls \subseteq Calls'
    BY <2>1
  <2> QED
    BY <2>1, <2>2, <2>3, <2>4 DEF Due, Waiting
<1>5. ASSUME NEW t \in Threads, NEW id \in 1..nextID, Unsubscribe(t, id) PROVE Due'
  <2>1. PICK i \in 1..Len(subs) : subs[i].id = id /\ subs' = Without(subs, i)
    BY <1>5 DEF Unsubscribe
  <2>2. Entries(subs') = Entries(subs) \ {subs[i]}
    BY <1>0, <2>1, WithoutEntries DEF Named
  <2>3. /\ UNCHANGED <<pc, ev, todo>> /\ Calls' = Calls
        /\ \A u \in Threads : owed'[u] = owed[u] \ {id}
    BY <1>0, <1>5 DEF Unsubscribe, callVars, Calls, Entries
  <2>4. \A d, e : d # id /\ Waiting(subs, d, e) => Waiting(subs', d, e)
    BY <2>1, <2>2 DEF Waiting
  <2> QED
    BY <2>3, <2>4 DEF Due
<1>6. ASSUME NEW t \in Threads, SubscribeAppend(t) PROVE Due'
  <2>1. /\ UNCHANGED <<ev, todo, owed>> /\ Calls' = Calls /\ subs' = Append(subs, new[t])
        /\ pc[t] = "append" /\ pc'[t] = "idle"
        /\ \A u \in Threads : u # t => pc'[u] = pc[u]
    BY <1>0, <1>6 DEF SubscribeAppend, Calls, Entries, ghosts
  <2>2. Entries(subs') = Entries(subs) \cup {new[t]}
    BY <1>0, <2>1, AppendEntries
  <2>3. \A d, e : Waiting(subs, d, e) => Waiting(subs', d, e)
    BY <2>2 DEF Waiting
  <2> QED
    BY <2>1, <2>3 DEF Due
<1>7. ASSUME NEW t \in Threads, DropSubs(t) PROVE Due'
  BY <1>7 DEF DropSubs, Due
<1>8. ASSUME UNCHANGED <<todo, ev, owed, subs>>, Calls' = Calls,
             \A u \in Threads : /\ pc'[u] = "deliver" => pc[u] = "deliver"
                                /\ pc'[u] \in {"record", "snapshot"}
                                      => pc[u] \in {"record", "snapshot"}
      PROVE  Due'
  BY <1>8 DEF Due
<1>9. CASE UNCHANGED vars
  BY <1>8, <1>9 DEF vars, Calls, Entries
<1>10. ASSUME NEW t \in Threads,
              \/ \E f \in Filters : SubscribeDraw(t, f)
              \/ ClearHistory(t) \/ Close(t) \/ Record(t) \/ DropHistory(t)
       PROVE  Due'
  <2>1. UNCHANGED <<todo, ev, owed, subs>> /\ Calls' = Calls
    BY <1>10 DEF SubscribeDraw, ClearHistory, Close, Record, DropHistory, callVars, ghosts,
        Calls, Entries
  <2>2. \/ pc' = pc
        \/ pc[t] = "record" /\ pc' = [pc EXCEPT ![t] = "snapshot"]
        \/ \E place \in {"append", "idle", "dropSubs"} : pc' = [pc EXCEPT ![t] = place]
    BY <1>10 DEF SubscribeDraw, ClearHistory, Close, Record, DropHistory, callVars
  <2>3. \A u \in Threads : /\ pc'[u] = "deliver" => pc[u] = "deliver"
                           /\ pc'[u] \in {"record", "snapshot"}
                                 => pc[u] \in {"record", "snapshot"}
    BY <1>0, <2>2
  <2> QED
    BY <1>8, <2>1, <2>3
<1> QED
  BY <1>1, <1>2, <1>3, <1>4, <1>5, <1>6, <1>7, <1>9, <1>10 DEF Next, Continue

LEMMA BusInit == Init => BusInv
<1> SUFFICES ASSUME Init PROVE BusInv
  OBVIOUS
<1>1. TypeOK
  BY TypeInit
<1>2. Calls = {} /\ Ids(<<>>) = {} /\ Entries(subs) = {} /\ OncePerId(subs)
  BY EmptyEntries, IdsOfEntries DEF Init, Calls
<1>3. \A t \in Threads : /\ pc[t] = "idle" /\ todo[t] = <<>> /\ ev[t].no = 0
                         /\ gone[t] = {} /\ owed[t] = {}
  BY DEF Init, NoEvent
<1>4. removed = {} /\ delivered = <<>>
  BY DEF Init
<1>5. RecordOnlyWithHistory
  BY <1>3 DEF RecordOnlyWithHistory
<1>6. Named
  BY <1>2, <1>3, <1>4 DEF Named
<1>7. Numbered
  BY <1>2, <1>3 DEF Numbered, Publishing
<1>8. Copied
  BY <1>2, <1>3, EmptyEntries DEF Copied
<1>9. AtMostOnce /\ NotAfterRemoval
  BY <1>4 DEF AtMostOnce, NotAfterRemoval
<1>10. Left /\ Due
  BY <1>2, <1>3 DEF Left, Due
<1> QED
  BY <1>1, <1>5, <1>6, <1>7, <1>8, <1>9, <1>10 DEF BusInv

LEMMA BusNext == BusInv /\ [Next]_vars => BusInv'
BY TypeNext, RecordNext, NamedNext, NumberedNext, CopiedNext, OnceNext, LeftNext, DueNext
DEF BusInv

\* When the copy is used up, whoever was owed the publication has had it.
LEMMA NoneSkipped == BusInv => NobodySkipped
<1> SUFFICES ASSUME BusInv PROVE NobodySkipped
  OBVIOUS
<1>1. ASSUME NEW t \in Threads, pc[t] = "deliver", todo[t] = <<>>, NEW id \in owed[t]
      PROVE  \E i \in 1..Len(delivered) : delivered[i] = <<id, ev[t]>>
  <2>1. ~ Waiting(todo[t], id, ev[t])
    BY <1>1, EmptyEntries DEF Waiting
  <2>2. <<id, ev[t]>> \in Calls
    BY <1>1, <2>1 DEF BusInv, Due
  <2> QED
    BY <2>2 DEF Calls, Entries
<1> QED
  BY <1>1 DEF NobodySkipped

\* Every variable of the bus keeps its type; in particular the history never outgrows
\* historySize, whatever order publishers, ClearHistory and Close take historyMu in
\* (bus.go:107-116, 188-197, 210-212).
THEOREM BusTypeCorrect == Spec => []TypeOK
<1>1. BusInv => TypeOK
  BY DEF BusInv
<1> QED
  BY <1>1, BusInit, BusNext, PTL DEF Spec

-----------------------------------------------------------------------------
(* The order of calls.  Until something is removed the list only grows, so   *)
(* a synchronous publication is at some place k of it: it has called entries *)
(* at places up to k, in order, and the copy holds those that follow.        *)

Sequential(t) == pc[t] = "deliver" /\ ~async[t]

UpTo(t, k) ==
    /\ k + Len(todo[t]) <= Len(subs)
    /\ \A i \in 1..Len(todo[t]) : todo[t][i] = subs[k + i]
    /\ \A i \in 1..Len(delivered) : delivered[i][2] = ev[t] =>
          \E a \in 1..k : subs[a].id = delivered[i][1]
    /\ \A i, j \in 1..Len(delivered) :
          (i < j /\ delivered[i][2] = ev[t] /\ delivered[j][2] = ev[t]) =>
              \E a, b \in 1..k : a < b /\ subs[a].id = delivered[i][1] /\ subs[b].id = delivered[j][1]

InListOrder == removed = {} => \A t \in Threads : Sequential(t) => \E k \in Nat : UpTo(t, k)

\* The list may grow and others may be called meanwhile.
LEMMA UpToStays ==
    ASSUME TypeOK, NEW t \in Threads, NEW k \in Nat, UpTo(t, k),
           todo'[t] = todo[t], ev'[t] = ev[t],
           \/ subs' = subs
           \/ \E x \in Subscription : subs' = Append(subs, x),
           \/ delivered' = delivered
           \/ \E c \in Nat \X Event : c[2] # ev[t] /\ delivered' = Append(delivered, c)
    PROVE  UpTo(t, k)'
<1>1. subs \in Seq(Subscription) /\ delivered \in Seq(Nat \X Event)
  BY DEF TypeOK
<1>2. /\ Len(subs') \in Nat /\ Len(subs) \in Nat /\ Len(subs) <= Len(subs')
      /\ \A a \in 1..Len(subs) : subs'[a] = subs[a]
  BY <1>1
<1>3. /\ Len(todo[t]) \in Nat /\ k <= Len(subs)
      /\ \A i \in 1..Len(todo[t]) : k + i \in 1..Len(subs)
      /\ \A a \in 1..k : a \in 1..Len(subs)
  <2>1. Len(todo[t]) \in Nat
    BY DEF TypeOK
  <2> QED
    BY <1>2, <2>1 DEF UpTo
<1>4. \A i \in 1..Len(delivered') : delivered'[i][2] = ev[t] =>
          i \in 1..Len(delivered) /\ delivered'[i] = delivered[i]
  <2>1. ASSUME NEW c \in Nat \X Event, c[2] # ev[t], delivered' = Append(delivered, c)
        PROVE  \A i \in 1..Len(delivered') : delivered'[i][2] = ev[t] =>
                  i \in 1..Len(delivered) /\ delivered'[i] = delivered[i]
    <3>1. /\ Len(delivered) \in Nat /\ Len(delivered') = Len(delivered) + 1
          /\ \A i \in 1..(Len(delivered) + 1) :
                delivered'[i] = IF i <= Len(delivered) THEN delivered[i] ELSE c
      BY <1>1, <2>1, AppendPlaces
    <3> QED
      BY <2>1, <3>1
  <2> QED
    BY <2>1
<1>5. k + Len(todo'[t]) <= Len(subs')
  BY <1>2, <1>3 DEF UpTo
<1>6. \A i \in 1..Len(todo'[t]) : todo'[t][i] = subs'[k + i]
  BY <1>2, <1>3 DEF UpTo
<1>7. \A i \in 1..Len(delivered') : delivered'[i][2] = ev'[t] =>
          \E a \in 1..k : subs'[a].id = delivered'[i][1]
  <2> SUFFICES ASSUME NEW i \in 1..Len(delivered'), delivered'[i][2] = ev[t]
               PROVE  \E a \in 1..k : subs'[a].id = delivered'[i][1]
    OBVIOUS
  <2>1. i \in 1..Len(delivered) /\ delivered'[i] = delivered[i]
    BY <1>4
  <2>2. PICK a \in 1..k : subs[a].id = delivered[i][1]
    BY <2>1 DEF UpTo
  <2> QED
    BY <1>2, <1>3, <2>1, <2>2
<1>8. \A i, j \in 1..Len(delivered') :
          (i < j /\ delivered'[i][2] = ev'[t] /\ delivered'[j][2] = ev'[t]) =>
              \E a, b \in 1..k : a < b /\ subs'[a].id = delivered'[i][1] /\ subs'[b].id = delivered'[j][1]
  <2> SUFFICES ASSUME NEW i \in 1..Len(delivered'), NEW j \in 1..Len(delivered'), i < j,
                      delivered'[i][2] = ev[t], delivered'[j][2] = ev[t]
               PROVE  \E a, b \in 1..k : a < b /\ subs'[a].id = delivered'[i][1] /\ subs'[b].id = delivered'[j][1]
    OBVIOUS
  <2>1. /\ i \in 1..Len(delivered) /\ delivered'[i] = delivered[i]
        /\ j \in 1..Len(delivered) /\ delivered'[j] = delivered[j]
    BY <1>4
  <2>2. delivered[i][2] = ev[t] /\ delivered[j][2] = ev[t]
    BY <2>1
  <2>3. PICK a \in 1..k, b \in 1..k :
            a < b /\ subs[a].id = delivered[i][1] /\ subs[b].id = delivered[j][1]
    BY <2>1, <2>2 DEF UpTo
  <2> QED
    BY <1>2, <1>3, <2>1, <2>3
<1> QED
  BY <1>5, <1>6, <1>7, <1>8 DEF UpTo

\* A delivery in turn moves the publication one place on.
LEMMA InTurnDelivers ==
    ASSUME TypeOK, NEW t \in Threads, Deliver(t), ~async[t], NEW k \in Nat, UpTo(t, k)
    PROVE  UpTo(t, k + 1)'
<1> DEFINE s == todo[t]
           x == s[1]
           c == <<x.id, ev[t]>>
<1>1. /\ s \in Seq(Subscription) /\ s # <<>> /\ ev[t] \in Event
      /\ delivered \in Seq(Nat \X Event) /\ subs \in Seq(Subscription)
      /\ subs' = subs /\ ev' = ev
  BY DEF TypeOK, Deliver, busVars
<1>2. PICK i \in 1..Len(s) :
          /\ i = 1
          /\ todo' = [todo EXCEPT ![t] = SubSeq(s, 1, i - 1) \o SubSeq(s, i + 1, Len(s))]
          /\ delivered' = IF Matches(s[i], ev[t])
                            THEN Append(delivered, <<s[i].id, ev[t]>>) ELSE delivered
  BY DEF Deliver, InTurn
<1>3. todo'[t] = SubSeq(s, 1, i - 1) \o SubSeq(s, i + 1, Len(s))
  BY <1>2 DEF TypeOK
<1>d. delivered' = IF Matches(x, ev[t]) THEN Append(delivered, c) ELSE delivered
  BY <1>2
<1> HIDE DEF s
<1>4. /\ Len(s) \in Nat /\ Len(s) >= 1 /\ Len(todo'[t]) = Len(s) - 1
      /\ \A j \in 1..(Len(s) - 1) : todo'[t][j] = s[j + 1]
  <2>1. Len(s) \in Nat /\ Len(s) >= 1
    BY <1>1
  <2> DEFINE d == SubSeq(s, 1, i - 1) \o SubSeq(s, i + 1, Len(s))
  <2>a. s \in Seq(Subscription)
    BY <1>1
  <2>b. /\ Len(d) = Len(s) - 1
        /\ \A j \in 1..(Len(s) - 1) : d[j] = IF j < i THEN s[j] ELSE s[j + 1]
    BY ONLY <2>a, i \in 1..Len(s), DropPlaces
  <2> HIDE DEF d
  <2>2. /\ Len(todo'[t]) = Len(s) - 1
        /\ \A j \in 1..(Len(s) - 1) : todo'[t][j] = IF j < i THEN s[j] ELSE s[j + 1]
    BY <1>3, <2>b DEF d
  <2> QED
    BY <1>2, <2>1, <2>2
<1>5. x \in Subscription /\ c \in Nat \X Event
  <2>1. x \in Subscription
    BY <1>1, <1>4
  <2> QED
    BY <1>1, <2>1 DEF Subscription
<1>6. x = subs[k + 1] /\ k + Len(s) <= Len(subs) /\ Len(subs) \in Nat
  BY <1>1, <1>4 DEF UpTo, s
<1> HIDE DEF x, c
<1>7. (k + 1) + Len(todo'[t]) <= Len(subs')
  BY <1>1, <1>4, <1>6
<1>8. \A j \in 1..Len(todo'[t]) : todo'[t][j] = subs'[(k + 1) + j]
  <2> SUFFICES ASSUME NEW j \in 1..Len(todo'[t]) PROVE todo'[t][j] = subs'[(k + 1) + j]
    OBVIOUS
  <2>1. j + 1 \in 1..Len(s) /\ k + (j + 1) = (k + 1) + j
    BY <1>4
  <2> QED
    BY <1>1, <1>4, <2>1 DEF UpTo, s
<1>9. /\ Len(delivered) \in Nat
      /\ \A m \in 1..Len(delivered') : \/ m \in 1..Len(delivered) /\ delivered'[m] = delivered[m]
                                       \/ m = Len(delivered) + 1 /\ delivered'[m] = c
      /\ \A m \in 1..Len(delivered') : m <= Len(delivered) + 1
  BY <1>1, <1>d, <1>5
<1>10. /\ \A a \in 1..k : a \in 1..(k + 1) /\ a < k + 1
       /\ k + 1 \in 1..(k + 1) /\ subs'[k + 1].id = c[1]
  BY <1>1, <1>6 DEF c
<1>11. \A m \in 1..Len(delivered') : delivered'[m][2] = ev'[t] =>
          \E a \in 1..(k + 1) : subs'[a].id = delivered'[m][1]
  BY <1>1, <1>9, <1>10 DEF UpTo
<1>12. ASSUME NEW m \in 1..Len(delivered'), NEW n \in 1..Len(delivered'), m < n,
              delivered'[m][2] = ev'[t], delivered'[n][2] = ev'[t]
       PROVE  \E a, b \in 1..(k + 1) :
                  a < b /\ subs'[a].id = delivered'[m][1] /\ subs'[b].id = delivered'[n][1]
  <2>1. m \in 1..Len(delivered) /\ delivered'[m] = delivered[m]
    BY <1>9, <1>12
  <2>2. PICK a \in 1..k : subs[a].id = delivered[m][1]
    BY <1>1, <1>12, <2>1 DEF UpTo
  <2>3. CASE delivered'[n] = c
    BY <1>1, <1>10, <2>1, <2>2, <2>3
  <2>4. CASE n \in 1..Len(delivered) /\ delivered'[n] = delivered[n]
    <3>1. PICK a1 \in 1..k, b1 \in 1..k :
              a1 < b1 /\ subs[a1].id = delivered[m][1] /\ subs[b1].id = delivered[n][1]
      BY <1>1, <1>12, <2>1, <2>4 DEF UpTo
    <3> QED
      BY <1>1, <1>10, <2>1, <2>4, <3>1
  <2> QED
    BY <1>9, <2>3, <2>4
<1> QED
  BY <1>7, <1>8, <1>11, <1>12 DEF UpTo

LEMMA InListOrderNext ==
    TypeOK /\ Numbered /\ Copied /\ InListOrder /\ [Next]_vars => InListOrder'
<1> SUFFICES ASSUME TypeOK, Numbered, Copied, InListOrder, [Next]_vars, removed' = {},
                    NEW t \in Threads, Sequential(t)'
             PROVE  \E k \in Nat : UpTo(t, k)'
  BY DEF InListOrder
<1> USE DEF Goto
<1>0. /\ pc \in [Threads -> Places] /\ ev \in [Threads -> Event]
      /\ todo \in [Threads -> Seq(Subscription)] /\ async \in [Threads -> BOOLEAN]
      /\ subs \in Seq(Subscription) /\ new \in [Threads -> Subscription]
      /\ delivered \in Seq(Nat \X Event)
  BY DEF TypeOK
<1>1. ASSUME removed = {}, Sequential(t), todo'[t] = todo[t], ev'[t] = ev[t],
             subs' = subs \/ \E x \in Subscription : subs' = Append(subs, x),
             \/ delivered' = delivered
             \/ \E c \in Nat \X Event : c[2] # ev[t] /\ delivered' = Append(delivered, c)
      PROVE  \E k \in Nat : UpTo(t, k)'
  <2>1. PICK k \in Nat : UpTo(t, k)
    BY <1>1 DEF InListOrder
  <2> QED
    BY <1>1, <2>1, UpToStays
<1>2. ASSUME NEW u \in Threads, Deliver(u) PROVE \E k \in Nat : UpTo(t, k)'
  <2>1. removed = {} /\ Sequential(t) /\ ev' = ev /\ subs' = subs /\ pc[u] = "deliver"
    BY <1>2 DEF Deliver, Sequential, busVars
  <2>2. CASE u = t
    <3>1. PICK k \in Nat : UpTo(t, k)
      BY <2>1 DEF InListOrder
    <3>2. UpTo(t, k + 1)'
      BY <1>2, <2>1, <2>2, <3>1, InTurnDelivers DEF Sequential
    <3>3. k + 1 \in Nat
      OBVIOUS
    <3> QED
      BY <3>2, <3>3
  <2>3. CASE u # t
    <3>1. ev[u] # ev[t]
      BY <2>1, <2>3 DEF Numbered, Publishing, Sequential
    <3>2. PICK x \in Entries(todo[u]) :
              /\ \A v \in Threads : v # u => todo'[v] = todo[v]
              /\ delivered' = IF Matches(x, ev[u])
                                THEN Append(delivered, <<x.id, ev[u]>>) ELSE delivered
              /\ <<x.id, ev[u]>> \in Nat \X Event
      BY <1>2, DeliverEffect
    <3>3. \/ delivered' = delivered
          \/ \E c \in Nat \X Event : c[2] # ev[t] /\ delivered' = Append(delivered, c)
      <4> DEFINE c == <<x.id, ev[u]>>
      <4>1. c \in Nat \X Event /\ c[2] # ev[t]
        BY <3>1, <3>2
      <4> HIDE DEF c
      <4> QED
        BY <3>2, <4>1 DEF c
    <3> QED
      BY <1>1, <2>1, <2>3, <3>2, <3>3
  <2> QED
    BY <2>2, <2>3
<1>3. ASSUME NEW u \in Threads, Snapshot(u) PROVE \E k \in Nat : UpTo(t, k)'
  <2>1. /\ removed = {} /\ ev' = ev /\ subs' = subs /\ delivered' = delivered /\ async' = async
        /\ pc[u] = "snapshot" /\ todo'[u] = subs
        /\ \A v \in Threads : v # u => todo'[v] = todo[v] /\ pc'[v] = pc[v]
    BY <1>0, <1>3 DEF Snapshot, busVars, ghosts
  <2>2. CASE u = t
    <3>1. \A i \in 1..Len(delivered) : delivered[i][2] # ev[t]
      BY <2>1, <2>2 DEF Copied, Calls, Entries
    <3>2. UpTo(t, 0)'
      BY <1>0, <2>1, <2>2, <3>1 DEF UpTo
    <3> QED
      BY <3>2
  <2>3. CASE u # t
    BY <1>1, <2>1, <2>3 DEF Sequential
  <2> QED
    BY <2>2, <2>3
<1>4. ASSUME NEW u \in Threads, SubscribeAppend(u) PROVE \E k \in Nat : UpTo(t, k)'
  <2>1. /\ removed = {} /\ ev' = ev /\ subs' = Append(subs, new[u]) /\ delivered' = delivered
        /\ todo' = todo /\ async' = async /\ new[u] \in Subscription
        /\ pc' = [pc EXCEPT ![u] = "idle"]
    BY <1>0, <1>4 DEF SubscribeAppend, ghosts
  <2>2. Sequential(t)
    BY <1>0, <2>1 DEF Sequential
  <2> QED
    BY <1>1, <2>1, <2>2
<1>5. ASSUME NEW u \in Threads, DropSubs(u) PROVE \E k \in Nat : UpTo(t, k)'
  <2>1. /\ removed = {} /\ Ids(subs) = {} /\ subs' = <<>>
        /\ UNCHANGED <<ev, delivered, todo, async>> /\ pc' = [pc EXCEPT ![u] = "dropHistory"]
    BY <1>5 DEF DropSubs
  <2>2. subs = <<>>
    <3>1. Len(subs) # 0 => subs[1].id \in Ids(subs)
      <4>1. Len(subs) # 0 => 1 \in 1..Len(subs)
        BY <1>0
      <4> QED
        BY <4>1 DEF Ids
    <3> QED
      BY <1>0, <2>1, <3>1
  <2>3. Sequential(t)
    BY <1>0, <2>1 DEF Sequential
  <2> QED
    BY <1>1, <2>1, <2>2, <2>3
<1>6. ASSUME NEW u \in Threads, NEW id \in 1..nextID, Unsubscribe(u, id) PROVE FALSE
  BY <1>6 DEF Unsubscribe
<1>7. ASSUME NEW u \in Threads,
             \/ \E f \in Filters : SubscribeDraw(u, f)
             \/ \E k \in Kinds, a \in BOOLEAN : PublishBegin(u, k, a)
             \/ ClearHistory(u) \/ Close(u) \/ Record(u) \/ PublishReturn(u) \/ DropHistory(u)
      PROVE  \E k \in Nat : UpTo(t, k)'
  <2>1. UNCHANGED <<removed, subs, delivered, todo>>
    BY <1>7 DEF SubscribeDraw, PublishBegin, ClearHistory, Close, Record, PublishReturn,
        DropHistory, busVars, callVars, ghosts
  <2>2. pc' = pc \/ \E place \in Places \ {"deliver"} : pc' = [pc EXCEPT ![u] = place]
    BY <1>7 DEF SubscribeDraw, PublishBegin, ClearHistory, Close, Record, PublishReturn,
        DropHistory, callVars, Places
  <2>3. \A v \in Threads : /\ v # u \/ pc'[v] = pc[v] => ev'[v] = ev[v] /\ async'[v] = async[v]
    BY <1>0, <1>7 DEF SubscribeDraw, PublishBegin, ClearHistory, Close, Record, PublishReturn,
        DropHistory, callVars
  <2>4. pc'[t] = "deliver" /\ pc'[t] = pc[t]
    BY <1>0, <2>2 DEF Sequential
  <2> QED
    BY <1>1, <2>1, <2>3, <2>4 DEF Sequential
<1>8. CASE UNCHANGED vars
  BY <1>1, <1>8 DEF vars, Sequential
<1> QED
  BY <1>2, <1>3, <1>4, <1>5, <1>6, <1>7, <1>8 DEF Next, Continue

LEMMA InOrderNow == TypeOK /\ InListOrder => OrderUntilRemoval
<1> SUFFICES ASSUME TypeOK, InListOrder, removed = {}, NEW t \in Threads, Sequential(t)
             PROVE  \A i, j \in 1..Len(delivered) :
                        (i < j /\ delivered[i][2] = ev[t] /\ delivered[j][2] = ev[t]) =>
                            \E a, b \in 1..Len(subs) :
                                /\ a < b
                                /\ subs[a].id = delivered[i][1]
                                /\ subs[b].id = delivered[j][1]
  BY DEF OrderUntilRemoval, Sequential
<1>1. PICK k \in Nat : UpTo(t, k)
  BY DEF InListOrder
<1>2. Len(subs) \in Nat /\ Len(todo[t]) \in Nat
  BY DEF TypeOK
<1>3. \A a \in 1..k : a \in 1..Len(subs)
  BY <1>1, <1>2 DEF UpTo
<1> SUFFICES ASSUME NEW i \in 1..Len(delivered), NEW j \in 1..Len(delivered), i < j,
                    delivered[i][2] = ev[t], delivered[j][2] = ev[t]
             PROVE  \E a, b \in 1..Len(subs) :
                        a < b /\ subs[a].id = delivered[i][1] /\ subs[b].id = delivered[j][1]
  OBVIOUS
<1>4. PICK a \in 1..k, b \in 1..k :
          a < b /\ subs[a].id = delivered[i][1] /\ subs[b].id = delivered[j][1]
  BY <1>1 DEF UpTo
<1> QED
  BY <1>3, <1>4

LEMMA BusSound == BusInv /\ InListOrder => DeliverySound
BY NoneSkipped, InOrderNow DEF BusInv, DeliverySound

LEMMA OrderInit == Init => InListOrder
BY DEF Init, InListOrder, Sequential

LEMMA OrderNext == BusInv /\ InListOrder /\ [Next]_vars => InListOrder'
BY InListOrderNext DEF BusInv

\* Every publication calls each handler at most once, none whose removal came before it,
\* everyone who stayed, and in the order of the list until something is removed, for any
\* number of goroutines that subscribe, unsubscribe and close meanwhile (bus.go:63-130,
\* 200-213).
THEOREM DeliveryIsSound == Spec => [](TypeOK /\ DeliverySound)
<1>1. BusInv => TypeOK
  BY DEF BusInv
<1> QED
  BY <1>1, BusInit, BusNext, OrderInit, OrderNext, BusSound, PTL DEF Spec

-----------------------------------------------------------------------------
(* The bus as a PubSub.  Copying the list is the moment that decides; what   *)
(* the other invariants add is that nobody is in a list or a copy twice, so  *)
(* telling an entry of the copy leaves exactly the others.                   *)

\* Who is about to be put on the bus is a subscriber.
Drawn ==
    /\ nextID <= MaxSubs
    /\ \A t \in Threads : pc[t] = "append" => new[t].filter \in Filters

LEMMA DrawnNext == TypeOK /\ Drawn /\ [Next]_vars => Drawn'
<1> SUFFICES ASSUME TypeOK, Drawn, [Next]_vars PROVE Drawn'
  OBVIOUS
<1>0. /\ pc \in [Threads -> Places] /\ new \in [Threads -> Subscription]
      /\ nextID \in Nat /\ MaxSubs \in Nat
  BY BoundsAssumption DEF TypeOK
<1>1. ASSUME NEW t \in Threads, NEW f \in Filters, SubscribeDraw(t, f) PROVE Drawn'
  <2>1. /\ nextID' = nextID + 1 /\ nextID < MaxSubs
        /\ new' = [new EXCEPT ![t] = [id |-> nextID + 1, filter |-> f]]
        /\ pc' = [pc EXCEPT ![t] = "append"]
    BY <1>1 DEF SubscribeDraw, Goto
  <2> QED
    BY <1>0, <2>1 DEF Drawn
<1>2. ASSUME NEW t \in Threads, SubscribeAppend(t) PROVE Drawn'
  <2>1. /\ nextID' = nextID /\ new' = [new EXCEPT ![t] = NoSubscription]
        /\ pc' = [pc EXCEPT ![t] = "idle"]
    BY <1>2 DEF SubscribeAppend, Goto
  <2> QED
    BY <1>0, <2>1 DEF Drawn
<1>3. ASSUME NEW t \in Threads,
             \/ \E id \in 1..nextID : Unsubscribe(t, id)
             \/ \E k \in Kinds, a \in BOOLEAN : PublishBegin(t, k, a)
             \/ ClearHistory(t) \/ Close(t) \/ Record(t) \/ Snapshot(t) \/ Deliver(t)
             \/ PublishReturn(t) \/ DropSubs(t) \/ DropHistory(t)
      PROVE  Drawn'
  <2>1. UNCHANGED <<nextID, new>>
    BY <1>3 DEF Unsubscribe, PublishBegin, ClearHistory, Close, Record, Snapshot, Deliver,
        PublishReturn, DropSubs, DropHistory, busVars, callVars
  <2>2. pc' = pc \/ \E place \in Places \ {"append"} : pc' = [pc EXCEPT ![t] = place]
    BY <1>3 DEF Unsubscribe, PublishBegin, ClearHistory, Close, Record, Snapshot, Deliver,
        PublishReturn, DropSubs, DropHistory, callVars, Goto, Places
  <2> QED
    BY <1>0, <2>1, <2>2 DEF Drawn
<1>4. CASE UNCHANGED vars
  BY <1>4 DEF vars, Drawn
<1> QED
  BY <1>1, <1>2, <1>3, <1>4 DEF Next, Continue

Stages == [t \in Threads |-> Stage(t)]
Awaited == [t \in Threads |-> Awaiting(t)]

LEMMA PromiseInit == Init => Promise!Init
<1> SUFFICES ASSUME Init PROVE Promise!Init
  OBVIOUS
<1>1. Entries(subs) = {} /\ Entries(delivered) = {} /\ \A t \in Threads : Entries(todo[t]) = {}
  BY EmptyEntries DEF Init
<1>2. \A t \in Threads : Stage(t) = "idle" /\ Awaiting(t) = {}
  BY <1>1 DEF Init, Stage, Awaiting
<1> QED
  BY <1>1, <1>2 DEF Init, Promise!Init

\* A step that shows nothing to who looks at the bus as a PubSub.
LEMMA Unseen ==
    ASSUME UNCHANGED <<closed, subs, removed, pubs, ev, todo, delivered>>,
           \A t \in Threads : Stage(t)' = Stage(t)
    PROVE  UNCHANGED Promise!pubSubVars
<1>1. Stages' = Stages
  BY DEF Stages
<1>2. \A t \in Threads : Awaiting(t)' = Awaiting(t)
  BY DEF Awaiting, Entries, Matches
<1>3. Awaited' = Awaited
  BY <1>2 DEF Awaited
<1>4. Entries(subs)' = Entries(subs) /\ Entries(delivered)' = Entries(delivered)
  BY DEF Entries
<1> QED
  BY <1>1, <1>3, <1>4 DEF Promise!pubSubVars, Stages, Awaited

LEMMA PromiseStep ==
    BusInv /\ Drawn /\ [Next]_vars => [Promise!Next]_(Promise!pubSubVars)
<1> SUFFICES ASSUME BusInv, Drawn, [Next]_vars
             PROVE  Promise!Next \/ UNCHANGED Promise!pubSubVars
  OBVIOUS
<1>t. TypeOK /\ Named /\ Copied /\ Numbered
  BY DEF BusInv
<1>0. /\ pc \in [Threads -> Places] /\ ev \in [Threads -> Event]
      /\ todo \in [Threads -> Seq(Subscription)] /\ new \in [Threads -> Subscription]
      /\ subs \in Seq(Subscription) /\ nextID \in Nat /\ MaxSubs \in Nat
  BY <1>t, BoundsAssumption DEF TypeOK
<1> USE DEF Goto
<1>1. ASSUME NEW t \in Threads, SubscribeAppend(t) PROVE Promise!Next
  <2> DEFINE m == new[t]
  <2>1. /\ subs' = Append(subs, m) /\ pc[t] = "append" /\ pc' = [pc EXCEPT ![t] = "idle"]
        /\ UNCHANGED <<closed, removed, pubs, ev, todo, delivered>>
    BY <1>1 DEF SubscribeAppend, ghosts
  <2>2. m \in Subscription /\ m.id \in 1..nextID /\ m.id \notin removed \cup Ids(subs)
    BY <1>0, <1>t, <2>1 DEF Named
  <2>3. m \in [id : 1..MaxSubs, filter : Filters]
    <3>1. m = [id |-> m.id, filter |-> m.filter]
      BY <2>2 DEF Subscription
    <3>2. m.id \in 1..MaxSubs /\ m.filter \in Filters
      BY <1>0, <2>1, <2>2 DEF Drawn
    <3> QED
      BY <3>1, <3>2
  <2>4. Entries(subs)' = Entries(subs) \cup {m}
    BY <1>0, <2>1, <2>2, AppendEntries
  <2>5. Stages' = Stages
    BY <1>0, <2>1 DEF Stages, Stage
  <2>6. Awaited' = Awaited
    BY <2>1 DEF Awaited, Awaiting, Entries, Matches
  <2>7. Entries(delivered)' = Entries(delivered)
    BY <2>1 DEF Entries
  <2>8. Promise!IdsOf(Entries(subs)) = Ids(subs)
    BY IdsOfEntries DEF Promise!IdsOf
  <2>9. Promise!Join(m)
    BY <2>1, <2>2, <2>4, <2>5, <2>6, <2>7, <2>8 DEF Promise!Join, Stages, Awaited
  <2> QED
    BY <2>3, <2>9 DEF Promise!Next
<1>2. ASSUME NEW t \in Threads, NEW id \in 1..nextID, Unsubscribe(t, id) PROVE Promise!Next
  <2>1. PICK i \in 1..Len(subs) : subs[i].id = id /\ subs' = Without(subs, i)
    BY <1>2 DEF Unsubscribe
  <2>2. /\ removed' = removed \cup {id}
        /\ UNCHANGED <<closed, pc, pubs, ev, todo, delivered>>
    BY <1>2 DEF Unsubscribe, callVars
  <2>3. Entries(subs)' = Entries(subs) \ {subs[i]} /\ subs[i] \in Entries(subs)
    <3>1. Entries(Without(subs, i)) = Entries(subs) \ {subs[i]}
      BY <1>0, <1>t, WithoutEntries DEF Named
    <3> QED
      BY <2>1, <3>1 DEF Entries
  <2>4. Stages' = Stages /\ Awaited' = Awaited
    BY <2>2 DEF Stages, Stage, Awaited, Awaiting, Entries, Matches
  <2>5. Entries(delivered)' = Entries(delivered)
    BY <2>2 DEF Entries
  <2>6. Promise!IdsOf({subs[i]}) = {id}
    BY <2>1 DEF Promise!IdsOf
  <2>7. Promise!Leave({subs[i]})
    BY <2>2, <2>3, <2>4, <2>5, <2>6 DEF Promise!Leave, Stages, Awaited
  <2> QED
    BY <2>3, <2>7 DEF Promise!Next
<1>3. ASSUME NEW t \in Threads, NEW k \in Kinds, NEW a \in BOOLEAN, PublishBegin(t, k, a)
      PROVE  Promise!Next
  <2>1. /\ pc[t] = "idle" /\ ~closed /\ pubs' = pubs + 1
        /\ ev' = [ev EXCEPT ![t] = [no |-> pubs + 1, kind |-> k]]
        /\ \E place \in {"record", "snapshot"} : pc' = [pc EXCEPT ![t] = place]
        /\ UNCHANGED <<closed, subs, removed, todo, delivered>>
    BY <1>3 DEF PublishBegin, busVars
  <2>2. Stages[t] = "idle" /\ Stages' = [Stages EXCEPT ![t] = "begun"]
    BY <1>0, <2>1 DEF Stages, Stage
  <2>3. Awaited' = Awaited
    <3>1. \A u \in Threads : Awaiting(u)' = Awaiting(u)
      <4> TAKE u \in Threads
      <4>1. CASE u = t
        <5>1. todo[t] = <<>>
          BY <1>t, <2>1 DEF Copied
        <5>2. Entries(todo'[t]) = {} /\ Entries(todo[t]) = {}
          BY <2>1, <5>1, EmptyEntries
        <5> QED
          BY <4>1, <5>2 DEF Awaiting
      <4>2. CASE u # t
        BY <1>0, <2>1, <4>2 DEF Awaiting, Entries, Matches
      <4> QED
        BY <4>1, <4>2
    <3> QED
      BY <3>1 DEF Awaited
  <2>4. Entries(subs)' = Entries(subs) /\ Entries(delivered)' = Entries(delivered)
    BY <2>1 DEF Entries
  <2>5. Promise!Begin(t, k)
    BY <2>1, <2>2, <2>3, <2>4 DEF Promise!Begin, Stages, Awaited
  <2> QED
    BY <2>5 DEF Promise!Next
<1>4. ASSUME NEW t \in Threads, Close(t) PROVE Promise!Next
  <2>1. /\ pc[t] = "idle" /\ ~closed /\ closed' = TRUE /\ pc' = [pc EXCEPT ![t] = "dropSubs"]
        /\ UNCHANGED <<subs, removed, pubs, ev, todo, delivered>>
    BY <1>4 DEF Close, ghosts
  <2>2. Stages' = Stages /\ Awaited' = Awaited
    BY <1>0, <2>1 DEF Stages, Stage, Awaited, Awaiting, Entries, Matches
  <2>3. Entries(subs)' = Entries(subs) /\ Entries(delivered)' = Entries(delivered)
    BY <2>1 DEF Entries
  <2>4. Promise!Shut
    BY <2>1, <2>2, <2>3 DEF Promise!Shut, Stages, Awaited
  <2> QED
    BY <2>4 DEF Promise!Next
<1>5. ASSUME NEW t \in Threads, DropSubs(t) PROVE Promise!Next \/ UNCHANGED Promise!pubSubVars
  <2>1. /\ pc[t] = "dropSubs" /\ subs' = <<>> /\ removed' = removed \cup Ids(subs)
        /\ pc' = [pc EXCEPT ![t] = "dropHistory"]
        /\ UNCHANGED <<closed, pubs, ev, todo, delivered>>
    BY <1>5 DEF DropSubs
  <2>2. \A u \in Threads : Stage(u)' = Stage(u)
    BY <1>0, <2>1 DEF Stage
  <2>3. Entries(subs)' = {}
    BY <2>1, EmptyEntries
  <2>4. Promise!IdsOf(Entries(subs)) = Ids(subs)
    BY IdsOfEntries DEF Promise!IdsOf
  <2>5. CASE Entries(subs) = {}
    <3>1. Ids(subs) = {} /\ removed' = removed
      BY <2>1, <2>5, IdsOfEntries
    <3>2. subs = <<>>
      <4>1. Len(subs) # 0 => subs[1] \in Entries(subs)
        <5>1. Len(subs) # 0 => 1 \in 1..Len(subs)
          BY <1>0
        <5> QED
          BY <5>1 DEF Entries
      <4> QED
        BY <1>0, <2>5, <4>1
    <3> QED
      BY <2>1, <2>2, <3>1, <3>2, Unseen
  <2>6. CASE Entries(subs) # {}
    <3>1. Stages' = Stages /\ Awaited' = Awaited /\ Entries(delivered)' = Entries(delivered)
      BY <2>1, <2>2 DEF Stages, Awaited, Awaiting, Entries, Matches
    <3>2. Promise!Leave(Entries(subs))
      BY <2>1, <2>3, <2>4, <2>6, <3>1 DEF Promise!Leave, Stages, Awaited
    <3> QED
      BY <3>2 DEF Promise!Next
  <2> QED
    BY <2>5, <2>6
<1>6. ASSUME NEW t \in Threads, Snapshot(t) PROVE Promise!Next
  <2>1. /\ pc[t] = "snapshot" /\ todo' = [todo EXCEPT ![t] = subs]
        /\ pc' = [pc EXCEPT ![t] = "deliver"]
        /\ UNCHANGED <<closed, subs, removed, pubs, ev, delivered>>
    BY <1>6 DEF Snapshot, busVars, ghosts
  <2>2. Stages[t] = "begun" /\ Stages' = [Stages EXCEPT ![t] = "telling"]
    BY <1>0, <2>1 DEF Stages, Stage
  <2>3. /\ Awaiting(t)' = Promise!IdsOf({m \in Entries(subs) : ev[t].kind \in m.filter})
        /\ \A u \in Threads : u # t => Awaiting(u)' = Awaiting(u)
    BY <1>0, <2>1 DEF Awaiting, Entries, Matches, Promise!IdsOf
  <2>4. Awaited' = [Awaited EXCEPT ![t] =
                        Promise!IdsOf({m \in Entries(subs) : ev[t].kind \in m.filter})]
    BY <2>3 DEF Awaited
  <2>5. Entries(subs)' = Entries(subs) /\ Entries(delivered)' = Entries(delivered)
    BY <2>1 DEF Entries
  <2>6. Promise!Choose(t)
    BY <2>1, <2>2, <2>4, <2>5 DEF Promise!Choose, Stages, Awaited
  <2> QED
    BY <2>6 DEF Promise!Next
<1>7. ASSUME NEW t \in Threads, Deliver(t) PROVE Promise!Next \/ UNCHANGED Promise!pubSubVars
  <2>1. PICK x \in Entries(todo[t]) :
          /\ Entries(todo'[t]) = Entries(todo[t]) \ {x}
          /\ \A y \in Entries(todo'[t]) : y.id # x.id
          /\ \A u \in Threads : u # t => todo'[u] = todo[u]
          /\ Calls' = IF Matches(x, ev[t]) THEN Calls \cup {<<x.id, ev[t]>>} ELSE Calls
    BY <1>7, <1>t, DeliverEffect
  <2>2. UNCHANGED <<closed, subs, removed, pubs, ev, pc>>
    BY <1>7 DEF Deliver, busVars
  <2>3. Stages' = Stages /\ Entries(subs)' = Entries(subs)
    BY <2>2 DEF Stages, Stage, Entries
  <2>4. \A u \in Threads : u # t => Awaiting(u)' = Awaiting(u)
    BY <2>1, <2>2 DEF Awaiting, Entries, Matches
  <2>5. CASE Matches(x, ev[t])
    <3>1. x.id \in Awaiting(t) /\ Awaiting(t)' = Awaiting(t) \ {x.id}
      BY <2>1, <2>2, <2>5 DEF Awaiting, Matches
    <3>2. Awaited' = [Awaited EXCEPT ![t] = @ \ {x.id}]
      BY <2>4, <3>1 DEF Awaited
    <3>3. Entries(delivered)' = Entries(delivered) \cup {<<x.id, ev[t]>>}
      BY <2>1, <2>5 DEF Calls
    <3>4. Promise!Tell(t, x.id)
      BY <2>2, <2>3, <3>2, <3>3 DEF Promise!Tell, Stages, Awaited
    <3>5. x.id \in Awaited[t]
      BY <3>1 DEF Awaited
    <3> QED
      BY <3>4, <3>5 DEF Promise!Next, Awaited
  <2>6. CASE ~Matches(x, ev[t])
    <3>1. Awaiting(t)' = Awaiting(t)
      BY <2>1, <2>2, <2>6 DEF Awaiting, Matches
    <3>2. Awaited' = Awaited
      BY <2>4, <3>1 DEF Awaited
    <3>3. Entries(delivered)' = Entries(delivered)
      BY <2>1, <2>6 DEF Calls
    <3> QED
      BY <2>2, <2>3, <3>2, <3>3 DEF Promise!pubSubVars, Stages, Awaited
  <2> QED
    BY <2>5, <2>6
<1>8. ASSUME NEW t \in Threads, PublishReturn(t) PROVE Promise!Next
  <2>1. /\ pc[t] = "deliver" /\ todo[t] = <<>> /\ pc' = [pc EXCEPT ![t] = "idle"]
        /\ ev' = [ev EXCEPT ![t] = NoEvent]
        /\ UNCHANGED <<closed, subs, removed, pubs, todo, delivered>>
    BY <1>8 DEF PublishReturn, busVars
  <2>2. Stages[t] = "telling" /\ Stages' = [Stages EXCEPT ![t] = "idle"]
    BY <1>0, <2>1 DEF Stages, Stage
  <2>3. Entries(todo[t]) = {} /\ Entries(todo'[t]) = {}
    BY <2>1, EmptyEntries
  <2>4. Awaiting(t) = {} /\ Awaiting(t)' = {}
    BY <2>3 DEF Awaiting
  <2>5. \A u \in Threads : u # t => Awaiting(u)' = Awaiting(u)
    BY <1>0, <2>1 DEF Awaiting, Entries, Matches
  <2>6. Awaited[t] = {} /\ Awaited' = Awaited
    BY <2>4, <2>5 DEF Awaited
  <2>7. Entries(subs)' = Entries(subs) /\ Entries(delivered)' = Entries(delivered)
    BY <2>1 DEF Entries
  <2>8. Promise!Return(t)
    BY <2>1, <2>2, <2>6, <2>7 DEF Promise!Return, Stages, Awaited
  <2> QED
    BY <2>8 DEF Promise!Next
<1>9. ASSUME NEW t \in Threads,
             \/ \E f \in Filters : SubscribeDraw(t, f)
             \/ ClearHistory(t) \/ Record(t) \/ DropHistory(t)
      PROVE  UNCHANGED Promise!pubSubVars
  <2>1. UNCHANGED <<closed, subs, removed, pubs, ev, todo, delivered>>
    BY <1>9 DEF SubscribeDraw, ClearHistory, Record, DropHistory, callVars, ghosts
  <2>2. \/ pc' = pc
        \/ pc[t] = "record" /\ pc' = [pc EXCEPT ![t] = "snapshot"]
        \/ pc[t] \in {"idle", "dropHistory"} /\ \E place \in {"append", "idle"} :
                                                   pc' = [pc EXCEPT ![t] = place]
    BY <1>9 DEF SubscribeDraw, ClearHistory, Record, DropHistory, callVars
  <2>3. \A u \in Threads : Stage(u)' = Stage(u)
    BY <1>0, <2>2 DEF Stage
  <2> QED
    BY <2>1, <2>3, Unseen
<1>10. CASE UNCHANGED vars
  <2>1. UNCHANGED <<closed, subs, removed, pubs, ev, todo, delivered, pc>>
    BY <1>10 DEF vars
  <2>2. \A u \in Threads : Stage(u)' = Stage(u)
    BY <2>1 DEF Stage
  <2> QED
    BY <2>1, <2>2, Unseen
<1> QED
  BY <1>1, <1>2, <1>3, <1>4, <1>5, <1>6, <1>7, <1>8, <1>9, <1>10 DEF Next, Continue

\* The bus implements PubSub: a publication decides at one moment whom to tell, tells each
\* of them once, nobody else, and then returns (bus.go:63-152, 201-208).
THEOREM BusKeepsPromise == Spec => KeepsPromise
<1>1. Init => BusInv /\ Drawn
  BY BusInit, BoundsAssumption DEF Init, Drawn
<1>2. BusInv /\ Drawn /\ [Next]_vars => BusInv' /\ Drawn'
  BY BusNext, DrawnNext DEF BusInv
<1> QED
  BY <1>1, <1>2, PromiseInit, PromiseStep, PTL DEF Spec, KeepsPromise, Promise!Spec

-----------------------------------------------------------------------------
(* The registry on top of the bus: every step of a registry call is a step  *)
(* of the bus or leaves it alone, so the bus keeps its promises, and ids    *)
(* the bus hands out are told apart from those the registry lists.          *)

LEMMA UnsubscribeIds ==
    ASSUME TypeOK, Named, NEW t \in Threads, NEW id, BusUnsubscribe(t, id)
    PROVE  /\ Ids(subs') = Ids(subs) \ {id}
           /\ UNCHANGED <<nextID, pc, new>>
           /\ [Next]_vars
<1>1. CASE Unsubscribe(t, id)
  <2>1. PICK i \in 1..Len(subs) : subs[i].id = id /\ subs' = Without(subs, i)
    BY <1>1 DEF Unsubscribe
  <2>2. Entries(subs') = Entries(subs) \ {subs[i]}
    BY <2>1, WithoutEntries DEF TypeOK, Named
  <2>3. \A x \in Entries(subs) : x.id = id <=> x = subs[i]
    BY <2>1 DEF Named, OncePerId, Entries
  <2>4. Ids(subs') = Ids(subs) \ {id}
    BY <2>2, <2>3, IdsOfEntries
  <2>5. subs[i] \in Entries(subs)
    BY DEF Entries
  <2>6. id \in 1..nextID
    BY <2>1, <2>5 DEF Named
  <2>7. Next
    BY <1>1, <2>6 DEF Next
  <2> QED
    BY <1>1, <2>4, <2>7 DEF Unsubscribe, callVars
<1>2. CASE id \notin Ids(subs) /\ UNCHANGED vars
  BY <1>2 DEF vars, Ids
<1> QED
  BY <1>1, <1>2 DEF BusUnsubscribe

LEMMA RegistryUsesBus == TypeOK /\ Named /\ [RNext]_rvars => [Next]_vars
<1> SUFFICES ASSUME TypeOK, Named, [RNext]_rvars PROVE [Next]_vars
  OBVIOUS
<1>1. ASSUME NEW t \in Threads, UnsubscribeEnd(t) \/ AllStep(t) PROVE [Next]_vars
  <2>1. \E id : BusUnsubscribe(t, id)
    BY <1>1 DEF UnsubscribeEnd, AllStep
  <2> QED
    BY <2>1, UnsubscribeIds
<1>2. ASSUME NEW t \in Threads,
             \/ OnClosedBus(t) \/ Track(t) \/ AllBegin(t) \/ AllEnd(t)
             \/ \E id \in 1..nextID : UnsubscribeBegin(t, id)
      PROVE  UNCHANGED vars
  BY <1>2 DEF OnClosedBus, Track, AllBegin, AllEnd, UnsubscribeBegin
<1>3. ASSUME NEW t \in Threads,
             \/ \E f \in Filters : OnSubscribe(t, f)
             \/ OnSubscribed(t) \/ BusStep(t)
      PROVE  Next
  BY <1>3 DEF OnSubscribe, OnSubscribed, BusStep, Next, Continue
<1>4. CASE UNCHANGED rvars
  BY <1>4 DEF rvars
<1> QED
  BY <1>1, <1>2, <1>3, <1>4 DEF RNext, RContinue

\* An id is in the registry's hands from the moment the bus hands it out; one that is
\* still being appended is in nobody else's; and a call that cleans up still has to do
\* whatever of its share is on the bus.
RegistryInv ==
    /\ RTypeOK
    /\ \A t \in Threads :
          /\ rpc[t] = "subscribe" <=> pc[t] = "append"
          /\ rpc[t] = "subscribe" => rid[t] = new[t].id
          /\ rpc[t] \in {"out", "all"} => rid[t] = 0
          /\ rpc[t] # "all" => rtodo[t] = {}
    /\ \A t, u \in Threads : rpc[t] = "subscribe" /\ rid[t] = rid[u] => t = u
    /\ \A t, u \in Threads : rpc[t] = "subscribe" => rid[t] \notin tracked \cup doomed[u]
    /\ \A t \in Threads : rpc[t] = "all" => doomed[t] \cap Ids(subs) \subseteq rtodo[t]
    /\ NoOrphan

LEMMA RegistryNext == BusInv /\ RegistryInv /\ [RNext]_rvars => RegistryInv'
<1> SUFFICES ASSUME BusInv, RegistryInv, [RNext]_rvars PROVE RegistryInv'
  OBVIOUS
<1> USE DEF RGoto, Goto
<1>0. /\ TypeOK /\ Named /\ nextID \in Nat /\ Ids(subs) \subseteq 1..nextID
      /\ pc \in [Threads -> Places] /\ new \in [Threads -> Subscription]
      /\ subs \in Seq(Subscription)
      /\ tracked \subseteq 0..nextID
      /\ rpc \in [Threads -> RegistryPlaces]
      /\ rid \in [Threads -> 0..nextID]
      /\ rtodo \in [Threads -> SUBSET (0..nextID)]
      /\ doomed \in [Threads -> SUBSET (1..nextID)]
  <2>1. Ids(subs) \subseteq 1..nextID
    BY IdsOfEntries DEF BusInv, Named
  <2> QED
    BY <2>1 DEF BusInv, TypeOK, RegistryInv, RTypeOK
<1>t. TypeOK'
  BY <1>0, RegistryUsesBus, TypeNext DEF BusInv
<1>1. ASSUME NEW t \in Threads, NEW f \in Filters, OnSubscribe(t, f) PROVE RegistryInv'
  <2>1. /\ nextID' = nextID + 1 /\ subs' = subs
        /\ UNCHANGED <<tracked, rtodo, doomed>>
        /\ rpc[t] = "out" /\ rpc' = [rpc EXCEPT ![t] = "subscribe"]
        /\ pc' = [pc EXCEPT ![t] = "append"]
        /\ rid' = [rid EXCEPT ![t] = nextID + 1]
        /\ new'[t].id = nextID + 1
        /\ \A u \in Threads : u # t => new'[u] = new[u]
    BY <1>0, <1>1 DEF OnSubscribe, SubscribeDraw, ghosts
  <2>2. nextID + 1 \notin 0..nextID /\ 0..nextID \subseteq 0..nextID' /\ 1..nextID \subseteq 1..nextID'
        /\ nextID + 1 \in 0..nextID'
    BY <1>0, <2>1
  <2>3. rid' \in [Threads -> 0..nextID'] /\ rpc' \in [Threads -> RegistryPlaces]
    BY <1>0, <2>1, <2>2 DEF RegistryPlaces
  <2>4. RTypeOK'
    BY <1>0, <1>t, <2>1, <2>2, <2>3 DEF RTypeOK
  <2>5. \A u \in Threads :
          /\ rpc'[u] = "subscribe" <=> pc'[u] = "append"
          /\ rpc'[u] = "subscribe" => rid'[u] = new'[u].id
          /\ rpc'[u] \in {"out", "all"} => rid'[u] = 0
          /\ rpc'[u] # "all" => rtodo'[u] = {}
    BY <1>0, <2>1 DEF RegistryInv
  <2>6. \A u, v \in Threads : rpc'[u] = "subscribe" /\ rid'[u] = rid'[v] => u = v
    BY <1>0, <2>1, <2>2 DEF RegistryInv
  <2>7. \A u, v \in Threads : rpc'[u] = "subscribe" => rid'[u] \notin tracked' \cup doomed'[v]
    <3>1. \A v \in Threads : nextID + 1 \notin tracked \cup doomed[v]
      BY <1>0
    <3> QED
      BY <1>0, <2>1, <3>1 DEF RegistryInv
  <2>8. \A u \in Threads : rpc'[u] = "all" => doomed'[u] \cap Ids(subs') \subseteq rtodo'[u]
    BY <1>0, <2>1 DEF RegistryInv
  <2>9. NoOrphan'
    <3>1. 0 \notin Ids(subs) /\ rid[t] = 0
      BY <1>0, <2>1 DEF RegistryInv
    <3> QED
      BY <1>0, <2>1, <3>1 DEF RegistryInv, NoOrphan
  <2> QED
    BY <2>4, <2>5, <2>6, <2>7, <2>8, <2>9 DEF RegistryInv
<1>2. ASSUME NEW t \in Threads, OnClosedBus(t) PROVE RegistryInv'
  <2>1. /\ UNCHANGED <<vars, tracked, rtodo, doomed>>
        /\ rpc[t] = "out" /\ pc[t] = "idle" /\ rid[t] = 0
        /\ rpc' = [rpc EXCEPT ![t] = "track"] /\ rid' = rid
    BY <1>0, <1>2 DEF OnClosedBus, RegistryInv
  <2>2. UNCHANGED <<pc, new, subs, nextID>>
    BY <2>1 DEF vars
  <2>3. RTypeOK'
    BY <1>0, <1>t, <2>1, <2>2 DEF RTypeOK, RegistryPlaces
  <2>4. NoOrphan'
    BY <2>1, <2>2 DEF RegistryInv, NoOrphan, Ids
  <2>5. Ids(subs') = Ids(subs)
    BY <2>2
  <2> QED
    BY <1>0, <2>1, <2>2, <2>3, <2>4, <2>5 DEF RegistryInv
<1>3. ASSUME NEW t \in Threads, OnSubscribed(t) PROVE RegistryInv'
  <2>1. /\ nextID' = nextID /\ subs' = Append(subs, new[t])
        /\ UNCHANGED <<tracked, rid, rtodo, doomed>>
        /\ rpc[t] = "subscribe" /\ rpc' = [rpc EXCEPT ![t] = "track"]
        /\ pc' = [pc EXCEPT ![t] = "idle"]
        /\ \A u \in Threads : u # t => new'[u] = new[u]
    BY <1>0, <1>3 DEF OnSubscribed, SubscribeAppend
  <2>2. Ids(subs') = Ids(subs) \cup {rid[t]}
    <3>1. rid[t] = new[t].id
      BY <2>1 DEF RegistryInv
    <3> QED
      BY <1>0, <2>1, <3>1, AppendEntries, IdsOfEntries
  <2>3. RTypeOK'
    BY <1>0, <1>t, <2>1 DEF RTypeOK, RegistryPlaces
  <2>4. \A u \in Threads : rid[t] \notin doomed[u]
    BY <2>1 DEF RegistryInv
  <2>5. \A u \in Threads : rpc'[u] = "all" => doomed'[u] \cap Ids(subs') \subseteq rtodo'[u]
    BY <1>0, <2>1, <2>2, <2>4 DEF RegistryInv
  <2>6. NoOrphan'
    BY <2>1, <2>2 DEF RegistryInv, NoOrphan
  <2>7. \A u \in Threads :
          /\ rpc'[u] = "subscribe" <=> pc'[u] = "append"
          /\ rpc'[u] = "subscribe" => rid'[u] = new'[u].id
          /\ rpc'[u] \in {"out", "all"} => rid'[u] = 0
          /\ rpc'[u] # "all" => rtodo'[u] = {}
    BY <1>0, <2>1 DEF RegistryInv
  <2>8. \A u \in Threads : rpc'[u] = "subscribe" => rpc[u] = "subscribe"
    BY <1>0, <2>1
  <2> QED
    BY <2>1, <2>3, <2>5, <2>6, <2>7, <2>8 DEF RegistryInv
<1>4. ASSUME NEW t \in Threads, Track(t) PROVE RegistryInv'
  <2>1. /\ UNCHANGED <<pc, new, subs, nextID, rtodo, doomed>>
        /\ tracked' = tracked \cup {rid[t]}
        /\ rpc[t] = "track" /\ rpc' = [rpc EXCEPT ![t] = "out"]
        /\ rid' = [rid EXCEPT ![t] = 0]
    BY <1>4 DEF Track, vars
  <2>2. RTypeOK'
    <3>1. rid[t] \in 0..nextID /\ 0 \in 0..nextID
      BY <1>0
    <3> QED
      BY <1>0, <1>t, <2>1, <3>1 DEF RTypeOK, RegistryPlaces
  <2>3. \A u \in Threads :
          /\ rpc'[u] = "subscribe" <=> pc'[u] = "append"
          /\ rpc'[u] = "subscribe" => rid'[u] = new'[u].id
          /\ rpc'[u] \in {"out", "all"} => rid'[u] = 0
          /\ rpc'[u] # "all" => rtodo'[u] = {}
    BY <1>0, <2>1 DEF RegistryInv
  <2>4. \A u \in Threads : rpc'[u] = "subscribe" =>
          u # t /\ rpc[u] = "subscribe" /\ rid'[u] = rid[u] /\ rid[u] # rid[t] /\ rid[u] # 0
    <3>1. ASSUME NEW u \in Threads, rpc[u] = "subscribe" PROVE rid[u] # 0
      BY <3>1 DEF RegistryInv, BusInv, Named
    <3> QED
      BY <1>0, <2>1, <3>1 DEF RegistryInv
  <2>5. \A u, v \in Threads : rpc'[u] = "subscribe" /\ rid'[u] = rid'[v] => u = v
    BY <1>0, <2>1, <2>4 DEF RegistryInv
  <2>6. \A u, v \in Threads : rpc'[u] = "subscribe" => rid'[u] \notin tracked' \cup doomed'[v]
    BY <2>1, <2>4 DEF RegistryInv
  <2>7. Ids(subs') = Ids(subs)
    BY <2>1
  <2>8. \A u \in Threads : rpc'[u] = "all" => doomed'[u] \cap Ids(subs') \subseteq rtodo'[u]
    BY <1>0, <2>1, <2>7 DEF RegistryInv
  <2>9. NoOrphan'
    BY <1>0, <2>1, <2>7 DEF RegistryInv, NoOrphan
  <2> QED
    BY <2>2, <2>3, <2>5, <2>6, <2>8, <2>9 DEF RegistryInv
<1>5. ASSUME NEW t \in Threads, NEW id \in 1..nextID, UnsubscribeBegin(t, id)
      PROVE  RegistryInv'
  <2>1. /\ UNCHANGED <<pc, new, subs, nextID, rtodo, doomed>>
        /\ tracked' = tracked \ {id} /\ \A u \in Threads : rid[u] # id
        /\ rpc[t] = "out" /\ rpc' = [rpc EXCEPT ![t] = "unsubscribe"] /\ pc[t] = "idle"
        /\ rid' = [rid EXCEPT ![t] = id] /\ id \in 0..nextID
    BY <1>0, <1>5 DEF UnsubscribeBegin, vars
  <2>2. RTypeOK'
    BY <1>0, <1>t, <2>1 DEF RTypeOK, RegistryPlaces
  <2>3. \A u \in Threads :
          /\ rpc'[u] = "subscribe" <=> pc'[u] = "append"
          /\ rpc'[u] = "subscribe" => rid'[u] = new'[u].id
          /\ rpc'[u] \in {"out", "all"} => rid'[u] = 0
          /\ rpc'[u] # "all" => rtodo'[u] = {}
    BY <1>0, <2>1 DEF RegistryInv
  <2>4. \A u, v \in Threads : rpc'[u] = "subscribe" /\ rid'[u] = rid'[v] => u = v
    BY <1>0, <2>1 DEF RegistryInv
  <2>5. \A u, v \in Threads : rpc'[u] = "subscribe" => rid'[u] \notin tracked' \cup doomed'[v]
    BY <1>0, <2>1 DEF RegistryInv
  <2>6. Ids(subs') = Ids(subs)
    BY <2>1
  <2>7. \A u \in Threads : rpc'[u] = "all" => doomed'[u] \cap Ids(subs') \subseteq rtodo'[u]
    BY <1>0, <2>1, <2>6 DEF RegistryInv
  <2>8. NoOrphan'
    <3>1. 0 \notin Ids(subs) /\ rid[t] = 0
      BY <1>0, <2>1 DEF RegistryInv
    <3> QED
      BY <1>0, <2>1, <2>6, <3>1 DEF RegistryInv, NoOrphan
  <2> QED
    BY <2>2, <2>3, <2>4, <2>5, <2>7, <2>8 DEF RegistryInv
<1>6. ASSUME NEW t \in Threads, UnsubscribeEnd(t) PROVE RegistryInv'
  <2>1. /\ UNCHANGED <<tracked, rtodo, doomed>>
        /\ rpc[t] = "unsubscribe" /\ rpc' = [rpc EXCEPT ![t] = "out"]
        /\ rid' = [rid EXCEPT ![t] = 0] /\ BusUnsubscribe(t, rid[t])
    BY <1>6 DEF UnsubscribeEnd
  <2>2. Ids(subs') = Ids(subs) \ {rid[t]} /\ UNCHANGED <<nextID, pc, new>>
    BY <1>0, <2>1, UnsubscribeIds
  <2>3. RTypeOK'
    BY <1>0, <1>t, <2>1, <2>2 DEF RTypeOK, RegistryPlaces
  <2>4. \A u \in Threads :
          /\ rpc'[u] = "subscribe" <=> pc'[u] = "append"
          /\ rpc'[u] = "subscribe" => rid'[u] = new'[u].id
          /\ rpc'[u] \in {"out", "all"} => rid'[u] = 0
          /\ rpc'[u] # "all" => rtodo'[u] = {}
    BY <1>0, <2>1, <2>2 DEF RegistryInv
  <2>5. \A u \in Threads : rpc'[u] = "subscribe" => u # t /\ rpc[u] = "subscribe" /\ rid[u] # 0
    <3>1. ASSUME NEW u \in Threads, rpc[u] = "subscribe" PROVE rid[u] # 0
      BY <3>1 DEF RegistryInv, BusInv, Named
    <3> QED
      BY <1>0, <2>1, <3>1
  <2>6. \A u, v \in Threads : rpc'[u] = "subscribe" /\ rid'[u] = rid'[v] => u = v
    BY <1>0, <2>1, <2>5 DEF RegistryInv
  <2>7. \A u, v \in Threads : rpc'[u] = "subscribe" => rid'[u] \notin tracked' \cup doomed'[v]
    BY <1>0, <2>1, <2>5 DEF RegistryInv
  <2>8. \A u \in Threads : rpc'[u] = "all" => doomed'[u] \cap Ids(subs') \subseteq rtodo'[u]
    BY <1>0, <2>1, <2>2 DEF RegistryInv
  <2>9. NoOrphan'
    BY <1>0, <2>1, <2>2 DEF RegistryInv, NoOrphan
  <2> QED
    BY <2>3, <2>4, <2>6, <2>7, <2>8, <2>9 DEF RegistryInv
<1>7. ASSUME NEW t \in Threads, AllBegin(t) PROVE RegistryInv'
  <2>1. /\ UNCHANGED <<pc, new, subs, nextID, rid>>
        /\ tracked' = {} /\ rtodo' = [rtodo EXCEPT ![t] = tracked]
        /\ doomed' = [doomed EXCEPT ![t] = tracked \ {0}]
        /\ rpc[t] = "out" /\ rpc' = [rpc EXCEPT ![t] = "all"] /\ pc[t] = "idle"
    BY <1>7 DEF AllBegin, vars
  <2>2. tracked \ {0} \subseteq 1..nextID
    BY <1>0
  <2>3. RTypeOK'
    BY <1>0, <1>t, <2>1, <2>2 DEF RTypeOK, RegistryPlaces
  <2>4. \A u \in Threads :
          /\ rpc'[u] = "subscribe" <=> pc'[u] = "append"
          /\ rpc'[u] = "subscribe" => rid'[u] = new'[u].id
          /\ rpc'[u] \in {"out", "all"} => rid'[u] = 0
          /\ rpc'[u] # "all" => rtodo'[u] = {}
    BY <1>0, <2>1 DEF RegistryInv
  <2>5. \A u \in Threads : rpc'[u] = "subscribe" => rpc[u] = "subscribe"
    BY <1>0, <2>1
  <2>6. \A u, v \in Threads : rpc'[u] = "subscribe" => rid'[u] \notin tracked' \cup doomed'[v]
    BY <1>0, <2>1, <2>5 DEF RegistryInv
  <2>7. Ids(subs') = Ids(subs)
    BY <2>1
  <2>8. \A u \in Threads : rpc'[u] = "all" => doomed'[u] \cap Ids(subs') \subseteq rtodo'[u]
    BY <1>0, <2>1, <2>7 DEF RegistryInv
  <2>9. NoOrphan'
    <3>1. rtodo[t] = {}
      BY <2>1 DEF RegistryInv
    <3> QED
      BY <1>0, <2>1, <2>7, <3>1 DEF RegistryInv, NoOrphan
  <2> QED
    BY <2>1, <2>3, <2>4, <2>5, <2>6, <2>8, <2>9 DEF RegistryInv
<1>8. ASSUME NEW t \in Threads, AllStep(t) PROVE RegistryInv'
  <2>1. PICK id \in rtodo[t] : BusUnsubscribe(t, id) /\ rtodo' = [rtodo EXCEPT ![t] = @ \ {id}]
    BY <1>8 DEF AllStep
  <2>2. UNCHANGED <<tracked, rpc, rid, doomed>> /\ rpc[t] = "all"
    BY <1>8 DEF AllStep
  <2>3. Ids(subs') = Ids(subs) \ {id} /\ UNCHANGED <<nextID, pc, new>>
    BY <1>0, <2>1, UnsubscribeIds
  <2>4. RTypeOK'
    BY <1>0, <1>t, <2>1, <2>2, <2>3 DEF RTypeOK
  <2>5. \A u \in Threads : rpc'[u] = "all" => doomed'[u] \cap Ids(subs') \subseteq rtodo'[u]
    BY <1>0, <2>1, <2>2, <2>3 DEF RegistryInv
  <2>6. NoOrphan'
    BY <1>0, <2>1, <2>2, <2>3 DEF RegistryInv, NoOrphan
  <2>7. \A u \in Threads : rpc'[u] # "all" => rtodo'[u] = {}
    BY <1>0, <2>1, <2>2 DEF RegistryInv
  <2> QED
    BY <2>2, <2>3, <2>4, <2>5, <2>6, <2>7 DEF RegistryInv
<1>9. ASSUME NEW t \in Threads, AllEnd(t) PROVE RegistryInv'
  <2>1. /\ UNCHANGED <<pc, new, subs, nextID, rid, tracked, rtodo>>
        /\ doomed' = [doomed EXCEPT ![t] = {}] /\ rtodo[t] = {}
        /\ rpc[t] = "all" /\ rpc' = [rpc EXCEPT ![t] = "out"]
    BY <1>9 DEF AllEnd, vars
  <2>2. RTypeOK'
    BY <1>0, <1>t, <2>1 DEF RTypeOK, RegistryPlaces
  <2>3. \A u \in Threads :
          /\ rpc'[u] = "subscribe" <=> pc'[u] = "append"
          /\ rpc'[u] = "subscribe" => rid'[u] = new'[u].id
          /\ rpc'[u] \in {"out", "all"} => rid'[u] = 0
          /\ rpc'[u] # "all" => rtodo'[u] = {}
    BY <1>0, <2>1 DEF RegistryInv
  <2>4. \A u \in Threads : /\ rpc'[u] = "subscribe" => rpc[u] = "subscribe"
                           /\ rpc'[u] = "all" => rpc[u] = "all"
    BY <1>0, <2>1
  <2>5. \A u \in Threads : doomed'[u] \subseteq doomed[u]
    BY <1>0, <2>1
  <2>6. Ids(subs') = Ids(subs)
    BY <2>1
  <2>7. NoOrphan'
    BY <2>1, <2>6 DEF RegistryInv, NoOrphan
  <2> QED
    BY <2>1, <2>2, <2>3, <2>4, <2>5, <2>6, <2>7 DEF RegistryInv
<1>10. ASSUME UNCHANGED regVars, UNCHANGED <<nextID, new>>, Ids(subs') \subseteq Ids(subs),
              \A u \in Threads : pc'[u] = "append" <=> pc[u] = "append"
       PROVE  RegistryInv'
  <2>1. RTypeOK'
    BY <1>0, <1>t, <1>10 DEF RTypeOK, regVars
  <2>2. NoOrphan'
    BY <1>10 DEF RegistryInv, NoOrphan, regVars
  <2> QED
    BY <1>10, <2>1, <2>2 DEF RegistryInv, regVars
<1>11. ASSUME NEW t \in Threads, BusStep(t) PROVE RegistryInv'
  <2>1. UNCHANGED regVars /\ UNCHANGED <<nextID, new>>
    BY <1>11 DEF BusStep, PublishBegin, Record, Snapshot, Deliver, PublishReturn, Close,
        DropSubs, DropHistory, busVars
  <2>2. subs' \in {subs, <<>>}
    BY <1>11 DEF BusStep, PublishBegin, Record, Snapshot, Deliver, PublishReturn, Close,
        DropSubs, DropHistory, busVars
  <2>3. Ids(subs') \subseteq Ids(subs)
    BY <2>2, EmptyEntries, IdsOfEntries
  <2>4. rpc[t] = "out" /\ pc[t] # "append"
    BY <1>11 DEF BusStep, RegistryInv
  <2>5. pc' = pc \/ \E place \in Places \ {"append"} : pc' = [pc EXCEPT ![t] = place]
    BY <1>11 DEF BusStep, PublishBegin, Record, Snapshot, Deliver, PublishReturn, Close,
        DropSubs, DropHistory, Places
  <2>6. \A u \in Threads : pc'[u] = "append" <=> pc[u] = "append"
    BY <1>0, <2>4, <2>5
  <2> QED
    BY <1>10, <2>1, <2>3, <2>6
<1>12. CASE UNCHANGED rvars
  BY <1>10, <1>12 DEF rvars, vars
<1> QED
  BY <1>1, <1>2, <1>3, <1>4, <1>5, <1>6, <1>7, <1>8, <1>9, <1>11, <1>12 DEF RNext, RContinue

LEMMA RegistryStart == RInit => RegistryInv
<1> SUFFICES ASSUME RInit PROVE RegistryInv
  OBVIOUS
<1>1. TypeOK /\ Ids(subs) = {}
  BY TypeInit, EmptyEntries, IdsOfEntries DEF RInit, Init
<1>2. /\ \A t \in Threads : /\ rpc[t] = "out" /\ pc[t] = "idle" /\ rid[t] = 0
                            /\ rtodo[t] = {} /\ doomed[t] = {}
      /\ tracked = {} /\ nextID = 0
  BY DEF RInit, Init
<1>3. RTypeOK
  BY <1>1 DEF RTypeOK, RInit, Init, RegistryPlaces
<1>4. NoOrphan
  BY <1>1 DEF NoOrphan
<1> QED
  BY <1>1, <1>2, <1>3, <1>4 DEF RegistryInv

LEMMA RegistrySoundNow == RegistryInv => RegistrySound
BY DEF RegistryInv, RegistrySound, AllRemoved

\* No handler leaks and none that UnsubscribeAll found listed survives it, for any number
\* of goroutines that register, unregister, clean up, publish and close (handler.go:48-52,
\* 237-261 against bus.go:63-97); and the bus keeps its own promises under a registry.
THEOREM RegistryIsSound == RSpec => [](RTypeOK /\ DeliverySound /\ RegistrySound)
<1>1. RInit => BusInv /\ InListOrder /\ RegistryInv
  BY BusInit, OrderInit, RegistryStart DEF RInit
<1>2. BusInv /\ InListOrder /\ RegistryInv /\ [RNext]_rvars => BusInv' /\ InListOrder' /\ RegistryInv'
  BY RegistryUsesBus, BusNext, OrderNext, RegistryNext DEF BusInv
<1>3. BusInv /\ InListOrder /\ RegistryInv => RTypeOK /\ DeliverySound /\ RegistrySound
  BY BusSound, RegistrySoundNow DEF RegistryInv
<1> QED
  BY <1>1, <1>2, <1>3, PTL DEF RSpec

EventsInv ==
    /\ BusInv /\ HistoryWindow /\ InListOrder /\ Drawn
    /\ part = "registry" => RegistryInv

LEMMA EventsInit == MCInit => EventsInv
BY BusInit, RegistryStart, HistorySizeAssumption, BoundsAssumption
DEF MCInit, RInit, Init, HistoryWindow, InListOrder, Sequential, Drawn, EventsInv

\* Every step of the composition is a step of the bus or leaves it alone.
LEMMA EventsUseBus ==
    BusInv /\ [MCNext]_<<part, rvars>> => [Next]_vars /\ (part = "registry" => [RNext]_rvars)
<1> SUFFICES ASSUME BusInv, [MCNext]_<<part, rvars>>
             PROVE  [Next]_vars /\ (part = "registry" => [RNext]_rvars)
  OBVIOUS
<1>1. CASE part = "registry" /\ RNext
  BY <1>1, RegistryUsesBus DEF BusInv
<1>2. CASE part = "bus" /\ Next
  BY <1>2
<1>3. CASE UNCHANGED <<part, rvars>>
  BY <1>3 DEF rvars
<1> QED
  BY <1>1, <1>2, <1>3 DEF MCNext

LEMMA EventsNext == EventsInv /\ [MCNext]_<<part, rvars>> => EventsInv'
<1> SUFFICES ASSUME EventsInv, [MCNext]_<<part, rvars>> PROVE EventsInv'
  OBVIOUS
<1>1. [Next]_vars /\ (part = "registry" => [RNext]_rvars) /\ part' = part
  BY EventsUseBus DEF EventsInv, MCNext
<1>2. BusInv' /\ HistoryWindow' /\ InListOrder' /\ Drawn'
  BY <1>1, BusNext, WindowNext, InListOrderNext, DrawnNext DEF EventsInv, BusInv
<1> QED
  BY <1>1, <1>2, RegistryNext DEF EventsInv

\* The checked composition: a behaviour is the bus by itself or the bus under a registry.
THEOREM EventsAreSound ==
    MCSpec => [](TypeOK /\ HistoryWindow /\ DeliverySound /\ HandlersTracked)
<1>1. EventsInv => TypeOK /\ HistoryWindow /\ DeliverySound /\ HandlersTracked
  BY BusSound, RegistrySoundNow DEF EventsInv, BusInv, HandlersTracked
<1> QED
  BY <1>1, EventsInit, EventsNext, PTL DEF MCSpec

\* The bus implements PubSub under a registry too (handler.go:48-52, 237-261).
THEOREM EventsKeepPromise == MCSpec => KeepsPromise
<1>1. MCInit => Promise!Init
  BY PromiseInit DEF MCInit, RInit
<1>2. EventsInv /\ [MCNext]_<<part, rvars>> => [Promise!Next]_(Promise!pubSubVars)
  BY EventsUseBus, PromiseStep DEF EventsInv
<1> QED
  BY <1>1, <1>2, EventsInit, EventsNext, PTL DEF MCSpec, KeepsPromise, Promise!Spec

=============================================================================
