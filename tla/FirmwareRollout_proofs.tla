----------------------- MODULE FirmwareRollout_proofs -----------------------
(***************************************************************************)
(* Theorems about FirmwareRollout, for any goroutines, devices, batch size *)
(* and percentages.                                                        *)
(***************************************************************************)
EXTENDS FirmwareRollout, TLAPS

Running(t) == pc[t] # "idle"
InBatch(t) == pc[t] \in {"update", "record"}

\* How far a Start is: between batches all results are in, within a batch those
\* of the batch are the next devices.
Between(t) ==
    /\ pc[t] \in {"idle", "select"} => begun[t] = 0
    /\ pc[t] = "select" => results = <<>>
    /\ pc[t] = "check" =>
            Len(results) = IF begun[t] < Len(selected[t]) THEN begun[t] ELSE Len(selected[t])
    /\ pc[t] = "delay" => begun[t] < Len(selected[t]) /\ Len(results) = begun[t]

Within(t) ==
    /\ InBatch(t) =>
            /\ begun[t] < Len(selected[t])
            /\ Len(results) = begun[t] + recorded[t]
            /\ begun[t] + Len(batch[t]) <= BatchEnd(t, begun[t])
            /\ \A j \in 1..Len(batch[t]) : batch[t][j].device = selected[t][begun[t] + j]
    /\ pc[t] = "update" => recorded[t] = 0 /\ begun[t] + Len(batch[t]) < BatchEnd(t, begun[t])
    /\ pc[t] = "record" => recorded[t] < Len(batch[t]) /\ begun[t] + Len(batch[t]) = BatchEnd(t, begun[t])

InOrder(t) ==
    pc[t] \notin {"idle", "select"} =>
        /\ Len(results) <= Len(selected[t])
        /\ \A i \in 1..Len(results) : results[i].device = selected[t][i]

\* A cancelled Start begins no batch.
Stopping(t) ==
    Running(t) /\ atCancel # Never =>
        /\ canceled
        /\ IF InBatch(t) THEN begun[t] <= atCancel ELSE Len(results) - atCancel <= BatchSize

Of(t) == Between(t) /\ Within(t) /\ InOrder(t) /\ Stopping(t)

RInv ==
    /\ TypeOK
    /\ OneRollout
    /\ ~inProgress => atCancel = Never
    /\ \A t \in Starters : Of(t)

LEMMA Constants == /\ BatchSize \in Nat /\ BatchSize >= 1
                   /\ Devices \in Seq(Fleet) /\ Percentages \subseteq Int
BY BatchAssumption, DevicesAssumption, PercentagesAssumption

LEMMA ClampedType == ASSUME NEW p \in Int PROVE Clamped(p) \in 0..100
BY DEF Clamped

LEMMA BatchEndType ==
    ASSUME TypeOK, NEW t \in Starters, begun[t] < Len(selected[t])
    PROVE  /\ BatchEnd(t, begun[t]) \in Nat
           /\ begun[t] < BatchEnd(t, begun[t])
           /\ BatchEnd(t, begun[t]) <= begun[t] + BatchSize
           /\ BatchEnd(t, begun[t]) <= Len(selected[t])
           /\ BatchEnd(t, begun[t]) < Len(selected[t]) => BatchEnd(t, begun[t]) = begun[t] + BatchSize
<1>1. begun[t] \in Nat /\ Len(selected[t]) \in Nat
  BY DEF TypeOK
<1> QED
  BY <1>1, Constants DEF BatchEnd

\* SelectDevices returns devices of the fleet.
LEMMA SelectionType ==
    ASSUME NEW k \in Int, NEW s \in Selections(k)
    PROVE  s \in Seq(Fleet)
<1>1. CASE k >= Len(Devices)
  BY <1>1, Constants DEF Selections
<1>2. CASE ~(k >= Len(Devices))
  <2>1. s \in [1..k -> Fleet]
    BY <1>2 DEF Selections, Orders
  <2>2. CASE k >= 0
    BY <2>1, <2>2
  <2>3. CASE k < 0
    <3>1. 1..k = 1..0
      BY <2>3
    <3> QED
      BY <2>1, <3>1
  <2> QED
    BY <2>2, <2>3
<1> QED
  BY <1>1, <1>2

LEMMA RInit == Init => RInv
<1> SUFFICES ASSUME Init PROVE RInv
  OBVIOUS
<1>1. percentage \in 0..100
  BY Constants, ClampedType DEF Init
<1>2. /\ pc \in [Starters -> Places] /\ ctxDone \in [Starters -> BOOLEAN]
      /\ selected \in [Starters -> Seq(Fleet)] /\ batch \in [Starters -> Seq(Result)]
      /\ begun \in [Starters -> Nat] /\ recorded \in [Starters -> Nat]
      /\ results \in Seq(Result)
  BY DEF Init, Places
<1>3. inProgress \in BOOLEAN /\ canceled \in BOOLEAN
  BY DEF Init
<1>5. atCancel \in Int
  BY DEF Init, Never
<1>4. TypeOK
  BY <1>1, <1>2, <1>3, <1>5 DEF TypeOK
<1> QED
  BY <1>4 DEF Init, RInv, OneRollout, Of, Between, Within, InOrder, Stopping, Running, InBatch

\* What Asked counts, by place.
LEMMA AskedIs ==
    ASSUME RInv, NEW t \in Starters
    PROVE  /\ Asked(t) \in Int
           /\ Running(t) => Asked(t) = IF InBatch(t) THEN begun[t] + Len(batch[t]) ELSE Len(results)
           /\ Running(t) => Asked(t) >= 0
<1>1. begun[t] \in Nat /\ recorded[t] \in Nat /\ batch[t] \in Seq(Result) /\ results \in Seq(Result)
  BY DEF RInv, TypeOK
<1>2. Len(batch[t]) \in Nat /\ Len(results) \in Nat
  BY <1>1
<1>3. Within(t)
  BY DEF RInv, Of
<1>4. CASE pc[t] = "update"
  <2>1. Len(results) = begun[t] + recorded[t] /\ recorded[t] = 0
    BY <1>3, <1>4 DEF Within, InBatch
  <2>2. Asked(t) = Len(results) + Len(batch[t])
    BY <1>4 DEF Asked
  <2> QED
    BY <1>1, <1>2, <1>4, <2>1, <2>2 DEF InBatch
<1>5. CASE pc[t] = "record"
  BY <1>1, <1>2, <1>3, <1>5 DEF Asked, Within, Running, InBatch
<1>6. CASE ~InBatch(t)
  BY <1>2, <1>6 DEF Asked, InBatch
<1> QED
  BY <1>4, <1>5, <1>6 DEF InBatch

\* The one that runs is t: nobody else's place constrains the results.
LEMMA Alone ==
    ASSUME RInv, NEW t \in Starters, Running(t)
    PROVE  inProgress /\ \A u \in Starters \ {t} : pc[u] = "idle" /\ begun[u] = 0
BY DEF RInv, OneRollout, Running, Of, Between

\* A step of the Start that runs.
LEMMA StepOf ==
    ASSUME RInv, NEW t \in Starters, Running(t),
           TypeOK', Of(t)', inProgress' <=> Running(t)', ~inProgress' => atCancel' = Never,
           \A u \in Starters \ {t} : pc'[u] = pc[u] /\ begun'[u] = begun[u]
    PROVE  RInv'
<1>1. \A u \in Starters \ {t} : pc'[u] = "idle" /\ begun'[u] = 0
  BY Alone
<1>2. \A u \in Starters \ {t} : Of(u)'
  BY <1>1 DEF Of, Between, Within, InOrder, Stopping, Running, InBatch
<1>3. OneRollout'
  BY <1>1 DEF OneRollout, Running
<1> QED
  BY <1>2, <1>3 DEF RInv

LEMMA RNext == RInv /\ [Next]_vars => RInv'
<1> SUFFICES ASSUME RInv, [Next]_vars PROVE RInv'
  OBVIOUS
<1>t. TypeOK
  BY DEF RInv
<1>1. ASSUME NEW t \in Starters, Begin(t) PROVE RInv'
  <2>1. /\ pc[t] = "idle" /\ ~inProgress /\ inProgress' = TRUE /\ canceled' = FALSE
        /\ results' = <<>> /\ pc' = [pc EXCEPT ![t] = "select"]
        /\ UNCHANGED <<percentage, selected, begun, batch, recorded, ctxDone, atCancel>>
    BY <1>1 DEF Begin, Goto, locals
  <2>2. pc \in [Starters -> Places]
    BY <1>t DEF TypeOK
  <2>3. pc' \in [Starters -> Places] /\ pc'[t] = "select"
        /\ \A u \in Starters : pc[u] = "idle" /\ (u # t => pc'[u] = "idle")
    BY <2>1, <2>2 DEF Places, RInv, OneRollout
  <2>4. atCancel = Never /\ \A u \in Starters : begun[u] = 0
    BY <2>1, <2>3 DEF RInv, Of, Between
  <2>5. results' \in Seq(Result) /\ Len(results') = 0
    BY <2>1
  <2>6. TypeOK'
    BY <1>t, <2>1, <2>3, <2>5 DEF TypeOK
  <2>7. \A u \in Starters : Of(u)'
    BY <2>1, <2>3, <2>4 DEF Of, Between, Within, InOrder, Stopping, Running, InBatch
  <2>8. OneRollout'
    BY <2>1, <2>3 DEF OneRollout
  <2> QED
    BY <2>1, <2>6, <2>7, <2>8 DEF RInv
<1>2. ASSUME NEW t \in Starters, SelectDevices(t) PROVE RInv'
  <2>1. PICK s \in Selections(TargetDeviceCount) :
            /\ pc[t] = "select"
            /\ selected' = [selected EXCEPT ![t] = s]
            /\ pc' = [pc EXCEPT ![t] = IF s = <<>> THEN "end" ELSE "check"]
            /\ UNCHANGED <<percentage, inProgress, canceled, results, begun, batch, recorded, ctxDone, atCancel>>
    BY <1>2 DEF SelectDevices, Goto, shared
  <2>2. TargetDeviceCount \in Int
    BY <1>t, Constants DEF TypeOK, TargetDeviceCount, Share
  <2>3. s \in Seq(Fleet)
    BY <2>2, SelectionType
  <2>4. pc \in [Starters -> Places] /\ selected \in [Starters -> Seq(Fleet)]
    BY <1>t DEF TypeOK
  <2>5. /\ pc' \in [Starters -> Places] /\ selected' \in [Starters -> Seq(Fleet)]
        /\ selected'[t] = s /\ pc'[t] \in {"check", "end"}
        /\ \A u \in Starters \ {t} : pc'[u] = pc[u]
    BY <2>1, <2>3, <2>4 DEF Places
  <2>6. TypeOK'
    BY <1>t, <2>1, <2>5 DEF TypeOK
  <2>7. Running(t) /\ inProgress /\ results = <<>> /\ begun[t] = 0 /\ Stopping(t) /\ ~InBatch(t)
    BY <2>1, Alone DEF Running, RInv, Of, Between, InBatch
  <2>8. Len(results) = 0 /\ Len(s) \in Nat
    BY <2>3, <2>7
  <2>9. Of(t)'
    BY <2>1, <2>5, <2>7, <2>8 DEF Of, Between, Within, InOrder, Stopping, Running, InBatch
  <2> QED
    BY <2>1, <2>5, <2>6, <2>7, <2>9, StepOf DEF Running
<1>3. ASSUME NEW t \in Starters, CheckBatch(t) PROVE RInv'
  <2>1. /\ pc[t] = "check"
        /\ pc' = [pc EXCEPT ![t] = IF begun[t] >= Len(selected[t]) \/ MustStop(t) THEN "end" ELSE "update"]
        /\ batch' = [batch EXCEPT ![t] = <<>>] /\ recorded' = [recorded EXCEPT ![t] = 0]
        /\ UNCHANGED <<percentage, inProgress, canceled, results, selected, begun, ctxDone, atCancel>>
    BY <1>3 DEF CheckBatch, Goto, shared
  <2>2. /\ pc \in [Starters -> Places] /\ batch \in [Starters -> Seq(Result)]
        /\ recorded \in [Starters -> Nat]
    BY <1>t DEF TypeOK
  <2>3. /\ pc' \in [Starters -> Places] /\ batch' \in [Starters -> Seq(Result)]
        /\ recorded' \in [Starters -> Nat] /\ batch'[t] = <<>> /\ recorded'[t] = 0
        /\ pc'[t] = IF begun[t] >= Len(selected[t]) \/ MustStop(t) THEN "end" ELSE "update"
        /\ \A u \in Starters \ {t} : pc'[u] = pc[u]
    BY <2>1, <2>2 DEF Places
  <2>4. TypeOK'
    BY <1>t, <2>1, <2>3 DEF TypeOK
  <2>5. /\ Running(t) /\ inProgress /\ Stopping(t) /\ ~InBatch(t) /\ InOrder(t)
        /\ Len(results) = IF begun[t] < Len(selected[t]) THEN begun[t] ELSE Len(selected[t])
    BY <2>1, Alone DEF Running, RInv, Of, Between, InBatch
  <2>6. begun[t] \in Nat /\ Len(selected[t]) \in Nat /\ Len(batch'[t]) = 0
    BY <1>t, <2>3 DEF TypeOK
  <2>7. CASE pc'[t] = "end"
    <3>1. Of(t)'
      BY <2>1, <2>5, <2>7 DEF Of, Between, Within, InOrder, Stopping, Running, InBatch
    <3> QED
      BY <2>1, <2>3, <2>4, <2>5, <2>7, <3>1, StepOf DEF Running
  <2>8. CASE pc'[t] = "update"
    <3>1. begun[t] < Len(selected[t]) /\ ~canceled
      BY <2>3, <2>6, <2>8 DEF MustStop
    <3>2. BatchEnd(t, begun[t])' = BatchEnd(t, begun[t])
      BY <2>1 DEF BatchEnd
    <3>3. begun[t] < BatchEnd(t, begun[t])
      BY <1>t, <3>1, BatchEndType
    <3>a. begun'[t] = begun[t] /\ selected'[t] = selected[t] /\ Len(results') = begun[t]
          /\ BatchEnd(t, begun[t]) \in Nat
      BY <1>t, <2>1, <2>5, <3>1, BatchEndType
    <3>b. begun[t] + Len(batch'[t]) = begun[t] /\ begun[t] + recorded'[t] = begun[t]
      BY <2>3, <2>6
    <3>c. \A j \in 1..Len(batch'[t]) : batch'[t][j].device = selected'[t][begun'[t] + j]
      BY <2>6
    <3>d. Len(results') = begun'[t] + recorded'[t] /\ begun'[t] + Len(batch'[t]) < BatchEnd(t, begun[t])'
          /\ begun'[t] < Len(selected'[t]) /\ recorded'[t] = 0
      BY <2>3, <3>1, <3>2, <3>3, <3>a, <3>b
    <3>e. begun'[t] + Len(batch'[t]) <= BatchEnd(t, begun[t])'
      BY <2>6, <3>2, <3>3, <3>a, <3>b
    <3>4. Within(t)'
      BY <2>8, <3>c, <3>d, <3>e DEF Within, InBatch
    <3>5. InOrder(t)' /\ Stopping(t)' /\ Between(t)'
      BY <2>1, <2>5, <2>8, <3>1 DEF InOrder, Stopping, Between, Running
    <3> QED
      BY <2>1, <2>3, <2>4, <2>5, <2>8, <3>4, <3>5, StepOf DEF Running, Of
  <2> QED
    BY <2>3, <2>7, <2>8
<1>4. ASSUME NEW t \in Starters, UpdateDevice(t) PROVE RInv'
  <2> DEFINE b == begun[t]
             n == Len(batch[t])
  <2>1. PICK ok \in BOOLEAN :
            /\ pc[t] = "update"
            /\ batch' = [batch EXCEPT ![t] = Append(@, [device |-> selected[t][b + Len(@) + 1], success |-> ok])]
            /\ pc' = [pc EXCEPT ![t] = IF b + Len(batch'[t]) >= BatchEnd(t, b) THEN "record" ELSE "update"]
            /\ UNCHANGED <<percentage, inProgress, canceled, results, selected, begun, recorded, ctxDone, atCancel>>
    BY <1>4 DEF UpdateDevice, Goto, shared
  <2>2. /\ pc \in [Starters -> Places] /\ batch \in [Starters -> Seq(Result)] /\ b \in Nat
        /\ selected[t] \in Seq(Fleet)
    BY <1>t DEF TypeOK
  <2>3. /\ Running(t) /\ inProgress /\ Stopping(t) /\ InBatch(t) /\ InOrder(t)
        /\ b < Len(selected[t]) /\ Len(results) = b + recorded[t] /\ recorded[t] = 0
        /\ b + n < BatchEnd(t, b)
        /\ \A j \in 1..n : batch[t][j].device = selected[t][b + j]
    BY <2>1, Alone DEF Running, RInv, Of, Within, InBatch
  <2>4. BatchEnd(t, b) \in Nat /\ BatchEnd(t, b) <= Len(selected[t]) /\ n \in Nat
    BY <1>t, <2>2, <2>3, BatchEndType
  <2>5. b + n + 1 \in 1..Len(selected[t])
    BY <2>2, <2>3, <2>4
  <2> DEFINE new == [device |-> selected[t][b + n + 1], success |-> ok]
  <2>6. new \in Result /\ new.device = selected[t][b + n + 1]
    BY <2>2, <2>5 DEF Result
  <2>7. batch[t] \in Seq(Result) /\ batch'[t] = Append(batch[t], new)
    BY <2>1, <2>2
  <2> HIDE DEF new
  <2>8. /\ Append(batch[t], new) \in Seq(Result) /\ Len(batch'[t]) = n + 1 /\ batch'[t][n + 1] = new
        /\ \A j \in 1..n : batch'[t][j] = batch[t][j]
    BY <2>6, <2>7
  <2>9. /\ pc' \in [Starters -> Places] /\ batch' \in [Starters -> Seq(Result)]
        /\ pc'[t] = IF b + (n + 1) >= BatchEnd(t, b) THEN "record" ELSE "update"
        /\ \A u \in Starters \ {t} : pc'[u] = pc[u]
    <3>1. batch' = [batch EXCEPT ![t] = Append(batch[t], new)]
      BY <2>1 DEF new
    <3>2. batch' \in [Starters -> Seq(Result)]
      BY <2>2, <2>8, <3>1
    <3>3. pc' = [pc EXCEPT ![t] = IF b + (n + 1) >= BatchEnd(t, b) THEN "record" ELSE "update"]
      BY <2>1, <2>8
    <3> HIDE DEF b, n
    <3> QED
      BY <2>2, <3>2, <3>3 DEF Places
  <2>10. TypeOK'
    BY <1>t, <2>1, <2>9 DEF TypeOK
  <2>11. BatchEnd(t, begun[t])' = BatchEnd(t, b)
    BY <2>1 DEF BatchEnd
  <2> HIDE DEF b, n
  <2>12. \A j \in 1..(n + 1) : batch'[t][j].device = selected[t][b + j]
    <3> SUFFICES ASSUME NEW j \in 1..(n + 1) PROVE batch'[t][j].device = selected[t][b + j]
      OBVIOUS
    <3>1. CASE j = n + 1
      <4>1. b + j = b + n + 1
        BY <2>2, <2>4, <3>1
      <4> QED
        BY <2>6, <2>8, <3>1, <4>1
    <3>2. CASE j # n + 1
      <4>1. j \in 1..n
        BY <2>4, <3>2
      <4> QED
        BY <2>3, <2>8, <4>1
    <3> QED
      BY <3>1, <3>2
  <2>13. InBatch(t)' /\ Running(t)'
    BY <2>9 DEF InBatch, Running
  <2>b. begun'[t] = b /\ selected'[t] = selected[t] /\ recorded'[t] = 0 /\ Len(results') = b
    BY <2>1, <2>2, <2>3 DEF b
  <2>c. \A j \in 1..Len(batch'[t]) : batch'[t][j].device = selected'[t][begun'[t] + j]
    BY <2>8, <2>12, <2>b
  <2>d. /\ begun'[t] < Len(selected'[t]) /\ Len(results') = begun'[t] + recorded'[t]
        /\ begun'[t] + Len(batch'[t]) <= BatchEnd(t, begun[t])'
        /\ recorded'[t] < Len(batch'[t])
        /\ (pc'[t] = "update" => begun'[t] + Len(batch'[t]) < BatchEnd(t, begun[t])')
        /\ (pc'[t] = "record" => begun'[t] + Len(batch'[t]) = BatchEnd(t, begun[t])')
    BY <2>2, <2>3, <2>4, <2>8, <2>9, <2>11, <2>b
  <2>14. Within(t)'
    BY <2>b, <2>c, <2>d DEF Within, InBatch
  <2>15. InOrder(t)' /\ Stopping(t)' /\ Between(t)'
    BY <2>1, <2>3, <2>9, <2>13 DEF InOrder, Stopping, Between, Running, InBatch
  <2> QED
    BY <2>1, <2>3, <2>9, <2>10, <2>13, <2>14, <2>15, StepOf DEF Of
<1>5. ASSUME NEW t \in Starters, RecordResult(t) PROVE RInv'
  <2> DEFINE b == begun[t]
             n == Len(batch[t])
             m == recorded[t]
  <2>1. /\ pc[t] = "record"
        /\ results' = Append(results, batch[t][m + 1])
        /\ recorded' = [recorded EXCEPT ![t] = m + 1]
        /\ IF m + 1 < n THEN UNCHANGED <<pc, begun>> ELSE AfterBatch(t)
        /\ UNCHANGED <<percentage, inProgress, canceled, selected, batch, ctxDone, atCancel>>
    BY <1>5 DEF RecordResult
  <2>2. /\ pc \in [Starters -> Places] /\ batch[t] \in Seq(Result) /\ b \in Nat /\ m \in Nat
        /\ begun \in [Starters -> Nat] /\ recorded \in [Starters -> Nat]
        /\ selected[t] \in Seq(Fleet) /\ results \in Seq(Result) /\ n \in Nat /\ Len(selected[t]) \in Nat
    BY <1>t DEF TypeOK
  <2>3. /\ Running(t) /\ inProgress /\ Stopping(t) /\ InBatch(t)
        /\ b < Len(selected[t]) /\ Len(results) = b + m /\ m < n
        /\ b + n = BatchEnd(t, b)
        /\ (\A j \in 1..n : batch[t][j].device = selected[t][b + j])
        /\ (\A i \in 1..Len(results) : results[i].device = selected[t][i])
    BY <2>1, Alone DEF Running, RInv, Of, Within, InOrder, InBatch
  <2>4. /\ BatchEnd(t, b) <= Len(selected[t]) /\ BatchEnd(t, b) <= b + BatchSize
        /\ (b + n < Len(selected[t]) => b + n = b + BatchSize)
    BY <1>t, <2>3, BatchEndType
  <2>5. m + 1 \in 1..n /\ batch[t][m + 1] \in Result
    BY <2>2, <2>3
  <2>6. /\ results' \in Seq(Result) /\ Len(results') = b + m + 1
        /\ results'[b + m + 1] = batch[t][m + 1]
        /\ \A i \in 1..(b + m) : results'[i] = results[i]
    BY <2>1, <2>2, <2>3, <2>5
  <2>7. recorded' \in [Starters -> Nat] /\ recorded'[t] = m + 1
    <3> HIDE DEF b, n, m
    <3>1. m + 1 \in Nat
      BY <2>2
    <3> QED
      BY <2>1, <2>2, <3>1
  <2>8. /\ Len(results') <= Len(selected[t])
        /\ \A i \in 1..Len(results') : results'[i].device = selected[t][i]
    <3>1. batch[t][m + 1].device = selected[t][b + m + 1]
      BY <2>2, <2>3, <2>5
    <3> HIDE DEF b, n, m
    <3>2. Len(results') <= Len(selected[t])
      BY <2>2, <2>3, <2>4, <2>6
    <3>3. ASSUME NEW i \in 1..(b + m + 1) PROVE results'[i].device = selected[t][i]
      <4>1. CASE i = b + m + 1
        BY <2>6, <3>1, <4>1
      <4>2. CASE i # b + m + 1
        <5>1. i \in 1..(b + m)
          BY <2>2, <4>2
        <5> QED
          BY <2>3, <2>6, <5>1
      <4> QED
        BY <4>1, <4>2
    <3> QED
      BY <2>6, <3>2, <3>3
  <2>9. CASE m + 1 < n
    <3>1. UNCHANGED <<pc, begun>>
      BY <2>1, <2>9
    <3>2. TypeOK'
      BY <1>t, <2>1, <2>6, <2>7, <3>1 DEF TypeOK
    <3>3. BatchEnd(t, begun[t])' = BatchEnd(t, b)
      BY <2>1, <3>1 DEF BatchEnd
    <3>a. /\ pc'[t] = "record" /\ begun'[t] = b /\ batch'[t] = batch[t] /\ selected'[t] = selected[t]
          /\ recorded'[t] = m + 1 /\ Len(results') = b + m + 1
      BY <2>1, <2>6, <2>7, <3>1
    <3>b. \A j \in 1..Len(batch'[t]) : batch'[t][j].device = selected'[t][begun'[t] + j]
      BY <2>3, <3>a
    <3>c. /\ begun'[t] < Len(selected'[t]) /\ Len(results') = begun'[t] + recorded'[t]
          /\ begun'[t] + Len(batch'[t]) = BatchEnd(t, begun[t])'
          /\ recorded'[t] < Len(batch'[t])
      <4> HIDE DEF m
      <4> QED
        BY <2>2, <2>3, <2>9, <3>3, <3>a
    <3>d. begun'[t] + Len(batch'[t]) <= BatchEnd(t, begun[t])'
      BY <2>2, <3>a, <3>c
    <3>4. Within(t)'
      BY <3>a, <3>b, <3>c, <3>d DEF Within, InBatch
    <3>5. InOrder(t)' /\ Stopping(t)' /\ Between(t)'
      BY <2>1, <2>3, <2>8, <3>1 DEF InOrder, Stopping, Between, Running, InBatch
    <3> QED
      BY <2>1, <2>3, <3>1, <3>2, <3>4, <3>5, StepOf DEF Of, Running
  <2>10. CASE ~(m + 1 < n)
    <3>1. /\ begun' = [begun EXCEPT ![t] = b + BatchSize]
          /\ \/ b + n < Len(selected[t]) /\ pc' = [pc EXCEPT ![t] = "delay"]
             \/ pc' = [pc EXCEPT ![t] = "check"]
      BY <2>1, <2>3, <2>10 DEF AfterBatch, NextBatch, Goto
    <3>2. m + 1 = n /\ Len(results') = b + n
      BY <2>2, <2>3, <2>6, <2>10
    <3>3. begun' \in [Starters -> Nat] /\ begun'[t] = b + BatchSize
      <4>1. b + BatchSize \in Nat
        BY <2>2, Constants
      <4> HIDE DEF b
      <4> QED
        BY <2>2, <3>1, <4>1
    <3>4. /\ pc' \in [Starters -> Places] /\ pc'[t] \in {"delay", "check"}
          /\ (pc'[t] = "delay" => b + n < Len(selected[t]))
          /\ \A u \in Starters \ {t} : pc'[u] = pc[u] /\ begun'[u] = begun[u]
      BY <2>2, <3>1 DEF Places
    <3>5. TypeOK'
      BY <1>t, <2>1, <2>6, <2>7, <3>3, <3>4 DEF TypeOK
    <3>6. Between(t)'
      <4>1. CASE b + n < Len(selected[t])
        BY <2>1, <2>2, <2>4, <3>2, <3>3, <3>4, <4>1, Constants DEF Between
      <4>2. CASE ~(b + n < Len(selected[t]))
        <5>1. b + n = Len(selected[t]) /\ b + BatchSize >= Len(selected[t])
          <6> DEFINE len == Len(selected[t])
          <6>1. b \in Nat /\ n \in Nat /\ len \in Nat /\ BatchSize \in Nat
            BY <2>2, Constants
          <6>2. b + n <= len /\ b + n <= b + BatchSize /\ ~(b + n < len)
            BY <2>3, <2>4, <4>2
          <6> HIDE DEF b, n, m, len
          <6>3. b + n = len /\ b + BatchSize >= len
            BY <6>1, <6>2
          <6> QED
            BY <6>3 DEF len
        <5> QED
          BY <2>1, <2>2, <3>2, <3>3, <3>4, <4>2, <5>1, Constants DEF Between
      <4> QED
        BY <4>1, <4>2
    <3>7. Within(t)' /\ InOrder(t)'
      BY <2>1, <2>8, <3>4 DEF Within, InOrder, InBatch
    <3>8. Stopping(t)'
      <4>1. atCancel # Never => canceled /\ b <= atCancel /\ atCancel \in Int
        BY <1>t, <2>3 DEF Stopping, TypeOK
      <4>2. atCancel # Never => b + n - atCancel <= BatchSize
        BY <2>2, <2>3, <2>4, <4>1, Constants
      <4>3. ~InBatch(t)' /\ canceled' = canceled
        BY <2>1, <3>4 DEF InBatch
      <4>6. atCancel' = atCancel /\ Len(results') = b + n
        BY <2>1, <3>2
      <4>7. b \in Nat /\ n \in Nat /\ atCancel \in Int /\ BatchSize \in Nat
        BY <1>t, <2>2, Constants DEF TypeOK
      <4> HIDE DEF b, n, m
      <4>4. atCancel' # Never => canceled'
        BY <4>1, <4>3, <4>6
      <4>5. atCancel' # Never => Len(results') - atCancel' <= BatchSize
        BY <4>2, <4>6, <4>7
      <4> QED
        BY <4>3, <4>4, <4>5 DEF Stopping
    <3> QED
      BY <2>1, <2>3, <3>4, <3>5, <3>6, <3>7, <3>8, StepOf DEF Of, Running
  <2> QED
    BY <2>9, <2>10
<1>6. ASSUME NEW t \in Starters, Delay(t) PROVE RInv'
  <2>1. /\ pc[t] = "delay"
        /\ pc' = [pc EXCEPT ![t] = "check"] \/ pc' = [pc EXCEPT ![t] = "end"]
        /\ UNCHANGED <<percentage, inProgress, canceled, results, selected, begun, batch, recorded, ctxDone, atCancel>>
    BY <1>6 DEF Delay, Goto, shared, locals
  <2>2. pc \in [Starters -> Places]
    BY <1>t DEF TypeOK
  <2>3. pc' \in [Starters -> Places] /\ pc'[t] \in {"check", "end"}
        /\ \A u \in Starters \ {t} : pc'[u] = pc[u]
    BY <2>1, <2>2 DEF Places
  <2>4. TypeOK'
    BY <1>t, <2>1, <2>3 DEF TypeOK
  <2>5. /\ Running(t) /\ inProgress /\ Stopping(t) /\ ~InBatch(t) /\ InOrder(t)
        /\ begun[t] < Len(selected[t]) /\ Len(results) = begun[t]
    BY <2>1, Alone DEF Running, RInv, Of, Between, InBatch
  <2>6. Of(t)'
    BY <2>1, <2>3, <2>5 DEF Of, Between, Within, InOrder, Stopping, Running, InBatch
  <2> QED
    BY <2>1, <2>3, <2>4, <2>5, <2>6, StepOf DEF Running
<1>7. ASSUME NEW t \in Starters, End(t) PROVE RInv'
  <2>1. /\ pc[t] = "end" /\ inProgress' = FALSE /\ atCancel' = Never
        /\ pc' = [pc EXCEPT ![t] = "idle"]
        /\ selected' = [selected EXCEPT ![t] = <<>>] /\ begun' = [begun EXCEPT ![t] = 0]
        /\ batch' = [batch EXCEPT ![t] = <<>>] /\ recorded' = [recorded EXCEPT ![t] = 0]
        /\ ctxDone' = [ctxDone EXCEPT ![t] = FALSE]
        /\ UNCHANGED <<percentage, canceled, results>>
    BY <1>7 DEF End, Goto
  <2>2. /\ pc \in [Starters -> Places] /\ selected \in [Starters -> Seq(Fleet)]
        /\ begun \in [Starters -> Nat] /\ batch \in [Starters -> Seq(Result)]
        /\ recorded \in [Starters -> Nat] /\ ctxDone \in [Starters -> BOOLEAN]
    BY <1>t DEF TypeOK
  <2>3. pc' \in [Starters -> Places] /\ pc'[t] = "idle" /\ begun'[t] = 0 /\ begun' \in [Starters -> Nat]
        /\ \A u \in Starters \ {t} : pc'[u] = pc[u] /\ begun'[u] = begun[u]
    BY <2>1, <2>2 DEF Places
  <2>4. selected' \in [Starters -> Seq(Fleet)] /\ batch' \in [Starters -> Seq(Result)]
    BY <2>1, <2>2
  <2>5. recorded' \in [Starters -> Nat] /\ ctxDone' \in [Starters -> BOOLEAN] /\ atCancel' \in Int
    BY <2>1, <2>2 DEF Never
  <2>6. TypeOK'
    BY <1>t, <2>1, <2>3, <2>4, <2>5 DEF TypeOK
  <2>7. Of(t)'
    BY <2>1, <2>3 DEF Of, Between, Within, InOrder, Stopping, Running, InBatch
  <2>8. Running(t)
    BY <2>1 DEF Running
  <2> QED
    BY <2>1, <2>3, <2>6, <2>7, <2>8, StepOf DEF Running
<1>8. CASE Cancel
  <2>1. /\ canceled' = TRUE
        /\ atCancel' = IF atCancel = Never /\ inProgress
                       THEN Asked(CHOOSE t \in Starters : pc[t] # "idle") ELSE atCancel
        /\ UNCHANGED <<percentage, inProgress, results, pc, selected, begun, batch, recorded, ctxDone>>
    BY <1>8 DEF Cancel, locals
  <2>2. CASE ~inProgress
    <3>1. \A t \in Starters : pc[t] = "idle" /\ begun[t] = 0
      BY <2>2 DEF RInv, OneRollout, Of, Between
    <3>2. \A t \in Starters : Of(t)'
      BY <2>1, <3>1 DEF Of, Between, Within, InOrder, Stopping, Running, InBatch
    <3> QED
      BY <1>t, <2>1, <2>2, <3>2 DEF RInv, TypeOK, OneRollout
  <2>3. CASE inProgress
    <3>1. PICK t \in Starters : Running(t) /\ t = (CHOOSE u \in Starters : pc[u] # "idle")
      BY <2>3 DEF RInv, OneRollout, Running
    <3>2. Asked(t) \in Int /\ Asked(t) >= 0
          /\ Asked(t) = IF InBatch(t) THEN begun[t] + Len(batch[t]) ELSE Len(results)
      BY <3>1, AskedIs
    <3>3. atCancel' = (IF atCancel = Never THEN Asked(t) ELSE atCancel) /\ atCancel' \in Int
      BY <1>t, <2>1, <2>3, <3>1, <3>2 DEF TypeOK
    <3>4. TypeOK'
      BY <1>t, <2>1, <3>3 DEF TypeOK
    <3>5. Stopping(t)'
      <4>1. Stopping(t) /\ begun[t] \in Nat /\ Len(batch[t]) \in Nat /\ Len(results) \in Nat
        BY <1>t DEF RInv, Of, TypeOK
      <4>2. (InBatch(t)' <=> InBatch(t)) /\ Running(t)'
        BY <2>1, <3>1 DEF InBatch, Running
      <4>3. CASE atCancel # Never
        BY <2>1, <3>1, <3>3, <4>1, <4>2, <4>3 DEF Stopping
      <4>4. CASE atCancel = Never
        BY <2>1, <3>2, <3>3, <4>1, <4>2, <4>4, Constants DEF Stopping
      <4> QED
        BY <4>3, <4>4
    <3>6. BatchEnd(t, begun[t])' = BatchEnd(t, begun[t])
      BY <2>1 DEF BatchEnd
    <3>7. Between(t)' /\ Within(t)' /\ InOrder(t)'
      BY <2>1, <3>6 DEF RInv, Of, Between, Within, InOrder, InBatch
    <3> QED
      BY <2>1, <2>3, <3>1, <3>4, <3>5, <3>7, StepOf DEF Of, Running
  <2> QED
    BY <1>t, <2>2, <2>3
<1>9. ASSUME UNCHANGED <<inProgress, canceled, results, pc, locals, atCancel>>,
             percentage' \in 0..100, ctxDone' \in [Starters -> BOOLEAN]
      PROVE  RInv'
  <2>1. TypeOK'
    BY <1>t, <1>9 DEF TypeOK, locals
  <2>2. \A t \in Starters : BatchEnd(t, begun[t])' = BatchEnd(t, begun[t])
    BY <1>9 DEF BatchEnd, locals
  <2>3. \A t \in Starters : Of(t)'
    BY <1>9, <2>2 DEF RInv, Of, Between, Within, InOrder, Stopping, Running, InBatch, locals
  <2> QED
    BY <1>9, <2>1, <2>3 DEF RInv, OneRollout
<1>10. CASE \E p \in Percentages : SetPercentage(p)
  <2>1. percentage' \in 0..100
    BY <1>10, Constants, ClampedType DEF SetPercentage
  <2> QED
    BY <1>t, <1>9, <1>10, <2>1 DEF SetPercentage, TypeOK
<1>11. ASSUME NEW t \in Starters, CancelContext(t) PROVE RInv'
  <2>1. ctxDone' = [ctxDone EXCEPT ![t] = TRUE] /\ ctxDone \in [Starters -> BOOLEAN]
        /\ percentage \in 0..100 /\ UNCHANGED <<percentage, inProgress, canceled, results, pc, locals, atCancel>>
    BY <1>t, <1>11 DEF CancelContext, shared, TypeOK
  <2> QED
    BY <1>9, <2>1
<1>12. CASE UNCHANGED vars
  BY <1>t, <1>9, <1>12 DEF vars, shared, TypeOK
<1> QED
  BY <1>1, <1>2, <1>3, <1>4, <1>5, <1>6, <1>7, <1>8, <1>10, <1>11, <1>12 DEF Next, Step

\* What the invariant says of the history.
LEMMA RSafe == RInv => OneRollout /\ ResultsInOrder /\ CancelWithinBatch
<1> SUFFICES ASSUME RInv PROVE OneRollout /\ ResultsInOrder /\ CancelWithinBatch
  OBVIOUS
<1>1. ASSUME NEW t \in Starters, Running(t), atCancel # Never
      PROVE  Asked(t) - atCancel <= BatchSize
  <2>1. /\ begun[t] \in Nat /\ Len(batch[t]) \in Nat /\ Len(results) \in Nat /\ atCancel \in Int
        /\ TypeOK
    BY DEF RInv, TypeOK
  <2>2. Stopping(t) /\ Within(t)
    BY DEF RInv, Of
  <2>3. CASE InBatch(t)
    <3>1. Asked(t) = begun[t] + Len(batch[t]) /\ begun[t] <= atCancel
      BY <1>1, <2>2, <2>3, AskedIs DEF Stopping
    <3>2. begun[t] + Len(batch[t]) <= BatchEnd(t, begun[t]) /\ BatchEnd(t, begun[t]) \in Nat
          /\ BatchEnd(t, begun[t]) <= begun[t] + BatchSize
      BY <2>1, <2>2, <2>3, BatchEndType DEF Within
    <3> QED
      BY <2>1, <3>1, <3>2, Constants
  <2>4. CASE ~InBatch(t)
    BY <1>1, <2>2, <2>4, AskedIs DEF Stopping
  <2> QED
    BY <2>3, <2>4
<1>2. CancelWithinBatch
  BY <1>1 DEF CancelWithinBatch, Running
<1>3. ResultsInOrder
  BY DEF ResultsInOrder, RInv, Of, InOrder
<1> QED
  BY <1>2, <1>3 DEF RInv

\* One rollout runs at a time (firmware.go:519-536), reports the devices it
\* selected in order and once each (548-594), and asks at most the rest of one
\* more batch once it is cancelled (557-562).
THEOREM RolloutSafe == Spec => []RolloutSound
<1>1. RInv => RolloutSound
  BY RSafe DEF RolloutSound
<1> QED
  BY <1>1, RInit, RNext, PTL DEF Spec
-----------------------------------------------------------------------------
(* How far a Start is from its end.                                        *)

\* What is left to ask and to record is never less than nothing.
Measured(t) ==
    /\ Asked(t) \in Int /\ Len(results) \in Nat /\ Len(selected[t]) \in Nat
    /\ pc[t] = "select" => Asked(t) = 0 /\ Len(results) = 0
    /\ pc[t] # "select" => Asked(t) <= Len(selected[t]) /\ Len(results) <= Len(selected[t])
    /\ Rank(pc[t]) \in 1..4

LEMMA AllMeasured == RInv => \A t \in Starters : Running(t) => Measured(t)
<1> SUFFICES ASSUME RInv, NEW t \in Starters, Running(t) PROVE Measured(t)
  OBVIOUS
<1>1. Len(results) \in Nat /\ Len(selected[t]) \in Nat /\ begun[t] \in Nat /\ Len(batch[t]) \in Nat
  BY DEF RInv, TypeOK
<1>2. Asked(t) \in Int /\ Asked(t) = IF InBatch(t) THEN begun[t] + Len(batch[t]) ELSE Len(results)
  BY AskedIs
<1>3. pc[t] = "select" => Asked(t) = 0 /\ Len(results) = 0
  BY <1>2 DEF RInv, Of, Between, InBatch
<1>4. pc[t] # "select" => Len(results) <= Len(selected[t])
  BY DEF RInv, Of, InOrder, Running
<1>5. InBatch(t) => begun[t] + Len(batch[t]) <= Len(selected[t])
  <2> SUFFICES ASSUME InBatch(t) PROVE begun[t] + Len(batch[t]) <= Len(selected[t])
    OBVIOUS
  <2>1. begun[t] < Len(selected[t]) /\ begun[t] + Len(batch[t]) <= BatchEnd(t, begun[t])
    BY DEF RInv, Of, Within
  <2>2. BatchEnd(t, begun[t]) \in Nat /\ BatchEnd(t, begun[t]) <= Len(selected[t])
    BY <2>1, BatchEndType DEF RInv
  <2> QED
    BY <1>1, <2>1, <2>2
<1>6. Rank(pc[t]) \in 1..4
  BY DEF Rank
<1> QED
  BY <1>1, <1>2, <1>3, <1>4, <1>5, <1>6 DEF Measured

\* A selection is no larger than the fleet.
LEMMA SelectionSize ==
    ASSUME NEW k \in Int, NEW s \in Selections(k)
    PROVE  Len(s) \in Nat /\ Len(s) <= Len(Devices)
<1>1. CASE k >= Len(Devices)
  BY <1>1, Constants DEF Selections
<1>2. CASE ~(k >= Len(Devices))
  <2>1. s \in [1..k -> Fleet] /\ Len(Devices) \in Nat
    BY <1>2, Constants DEF Selections, Orders
  <2>2. CASE k >= 0
    BY <1>2, <2>1, <2>2
  <2>3. CASE k < 0
    <3>1. 1..k = 1..0
      BY <2>3
    <3> QED
      BY <2>1, <3>1
  <2> QED
    BY <2>2, <2>3
<1> QED
  BY <1>1, <1>2

LEMMA ToGoPositive ==
    ASSUME RInv, NEW t \in Starters, Running(t)
    PROVE  ToGo(t) > 0
<1>1. Measured(t) /\ Len(Devices) \in Nat
  BY AllMeasured, Constants
<1>2. ToGo(t) = LET all == IF pc[t] = "select" THEN Len(Devices) ELSE Len(selected[t])
                IN  3 * (all - Asked(t)) + 3 * (all - Len(results)) + Rank(pc[t])
  BY DEF ToGo, Running
<1>3. CASE pc[t] = "select"
  BY <1>1, <1>2, <1>3 DEF Measured
<1>4. CASE pc[t] # "select"
  BY <1>1, <1>2, <1>4 DEF Measured
<1> QED
  BY <1>3, <1>4

\* A step after the selection leads nearer to the end when it asks a device or records a
\* result, or else goes to a place further on.
LEMMA Nearer ==
    ASSUME NEW t \in Starters, Running(t), Measured(t), Running(t)', Measured(t)',
           pc[t] # "select", pc'[t] # "select", selected'[t] = selected[t],
           \/ /\ Asked(t)' = Asked(t) /\ Len(results') = Len(results)
              /\ Rank(pc'[t]) < Rank(pc[t])
           \/ /\ Asked(t)' + Len(results') = Asked(t) + Len(results) + 1
              /\ Rank(pc'[t]) <= Rank(pc[t]) + 2
    PROVE  ToGo(t)' < ToGo(t)
<1> DEFINE all == Len(selected[t])
           r == Rank(pc[t])
           q == Rank(pc'[t])
<1>1. /\ Asked(t) \in Int /\ Len(results) \in Nat /\ all \in Nat /\ r \in 1..4
      /\ Asked(t)' \in Int /\ Len(results') \in Nat /\ q \in 1..4
  BY DEF Measured
<1>2. /\ ToGo(t) = 3 * (all - Asked(t)) + 3 * (all - Len(results)) + r
      /\ ToGo(t)' = 3 * (all - Asked(t)') + 3 * (all - Len(results')) + q
  BY DEF ToGo, Running
<1>3. \/ /\ Asked(t)' = Asked(t) /\ Len(results') = Len(results)
         /\ q < r
      \/ /\ Asked(t)' + Len(results') = Asked(t) + Len(results) + 1
         /\ q <= r + 2
  OBVIOUS
<1> DEFINE a == Asked(t)  b == Asked(t)'  m == Len(results)  n == Len(results')
<1>4. \/ b = a /\ n = m /\ q < r
      \/ b + n = a + m + 1 /\ q <= r + 2
  BY <1>3
<1>5. a \in Int /\ b \in Int /\ m \in Int /\ n \in Int /\ all \in Int /\ r \in Int /\ q \in Int
  BY <1>1
<1>6. /\ ToGo(t) = 3 * (all - a) + 3 * (all - m) + r
      /\ ToGo(t)' = 3 * (all - b) + 3 * (all - n) + q
  BY <1>2
<1> HIDE DEF all, r, q, a, b, m, n
<1> QED
  BY <1>4, <1>5, <1>6

LEMMA StepIsNearer ==
    ASSUME RInv, RInv', NEW t \in Starters, Running(t), Step(t),
           Running(t)' => Measured(t)'
    PROVE  ToGo(t)' < ToGo(t)
<1>t. TypeOK
  BY DEF RInv
<1>m. Measured(t) /\ (Running(t)' => Measured(t)')
  BY AllMeasured
<1>p. pc \in [Starters -> Places]
  BY <1>t DEF TypeOK
<1>a. /\ Asked(t) = IF InBatch(t) THEN begun[t] + Len(batch[t]) ELSE Len(results)
      /\ Within(t) /\ Between(t)
  BY AskedIs DEF RInv, Of
<1>b. /\ Len(results) \in Nat /\ begun[t] \in Nat /\ Len(batch[t]) \in Nat /\ recorded[t] \in Nat
      /\ batch[t] \in Seq(Result) /\ results \in Seq(Result) /\ Len(selected[t]) \in Nat
  BY <1>t DEF TypeOK
<1>1. CASE SelectDevices(t)
  <2>1. PICK s \in Selections(TargetDeviceCount) :
            /\ pc[t] = "select" /\ results' = results
            /\ selected' = [selected EXCEPT ![t] = s]
            /\ pc' = [pc EXCEPT ![t] = IF s = <<>> THEN "end" ELSE "check"]
    BY <1>1 DEF SelectDevices, Goto, shared
  <2>2. TargetDeviceCount \in Int
    BY <1>t, Constants DEF TypeOK, TargetDeviceCount, Share
  <2>3. Len(s) \in Nat /\ Len(s) <= Len(Devices) /\ selected'[t] = s /\ Len(Devices) \in Nat
    BY <1>t, <2>1, <2>2, SelectionSize, Constants DEF TypeOK
  <2>4. pc'[t] \in {"end", "check"}
    BY <1>p, <2>1
  <2>5. Asked(t) = 0 /\ Len(results) = 0 /\ Asked(t)' = 0 /\ Len(results') = 0
    BY <1>m, <2>1, <2>4 DEF Measured, Asked
  <2>6. ToGo(t) = 3 * Len(Devices) + 3 * Len(Devices) + 4
    BY <2>1, <2>3, <2>5 DEF ToGo, Rank
  <2>7. Rank(pc'[t]) \in 1..3
    BY <2>4 DEF Rank
  <2>8. ToGo(t)' = 3 * Len(s) + 3 * Len(s) + Rank(pc'[t])
    BY <2>3, <2>4, <2>5, <2>7 DEF ToGo
  <2> QED
    BY <2>3, <2>6, <2>7, <2>8
<1>2. CASE CheckBatch(t)
  <2>1. /\ pc[t] = "check" /\ results' = results /\ selected' = selected /\ begun' = begun
        /\ pc' = [pc EXCEPT ![t] = IF begun[t] >= Len(selected[t]) \/ MustStop(t) THEN "end" ELSE "update"]
        /\ batch' = [batch EXCEPT ![t] = <<>>]
    BY <1>2 DEF CheckBatch, Goto, shared
  <2>2. /\ pc'[t] = IF begun[t] >= Len(selected[t]) \/ MustStop(t) THEN "end" ELSE "update"
        /\ batch'[t] = <<>>
    BY <1>p, <1>t, <2>1 DEF TypeOK
  <2>3. Asked(t) = Len(results) /\ Asked(t)' = Len(results')
    BY <1>b, <2>1, <2>2 DEF Asked
  <2>4. Rank(pc'[t]) < Rank(pc[t]) /\ pc'[t] \notin {"idle", "select"}
    BY <2>1, <2>2 DEF Rank
  <2> QED
    BY <1>m, <2>1, <2>3, <2>4, Nearer DEF Running
<1>3. CASE UpdateDevice(t)
  <2>1. PICK ok \in BOOLEAN :
            /\ pc[t] = "update" /\ results' = results /\ selected' = selected
            /\ begun' = begun /\ recorded' = recorded
            /\ batch' = [batch EXCEPT ![t] =
                            Append(@, [device |-> selected[t][begun[t] + Len(@) + 1], success |-> ok])]
            /\ \E place \in {"record", "update"} : pc' = [pc EXCEPT ![t] = place]
    BY <1>3 DEF UpdateDevice, Goto, shared
  <2>2. pc'[t] \in {"record", "update"}
    BY <1>p, <2>1
  <2>3. Len(batch'[t]) = Len(batch[t]) + 1
    BY <1>b, <1>t, <2>1 DEF TypeOK
  <2>4. recorded[t] = 0 /\ Asked(t) = Len(results) + Len(batch[t])
    BY <1>a, <2>1 DEF Within, Asked
  <2>5. Asked(t)' = Len(results) + Len(batch[t]) + 1
    BY <1>b, <2>1, <2>2, <2>3, <2>4 DEF Asked
  <2>6. Rank(pc'[t]) <= Rank(pc[t]) + 2 /\ pc'[t] \notin {"idle", "select"}
    BY <2>1, <2>2 DEF Rank
  <2>7. Asked(t)' + Len(results') = Asked(t) + Len(results) + 1
    BY <1>b, <2>1, <2>4, <2>5
  <2> QED
    BY <1>m, <2>1, <2>6, <2>7, Nearer DEF Running
<1>4. CASE RecordResult(t)
  <2>1. /\ pc[t] = "record" /\ selected' = selected /\ batch' = batch
        /\ results' = Append(results, batch[t][recorded[t] + 1])
        /\ recorded' = [recorded EXCEPT ![t] = @ + 1]
        /\ IF recorded[t] + 1 < Len(batch[t]) THEN UNCHANGED <<pc, begun>> ELSE AfterBatch(t)
    BY <1>4 DEF RecordResult
  <2>2. recorded'[t] = recorded[t] + 1 /\ recorded[t] < Len(batch[t])
    BY <1>a, <1>t, <2>1 DEF TypeOK, Within
  <2>3. Len(results') = Len(results) + 1
    BY <1>b, <2>1
  <2>4. Asked(t) = Len(results) + Len(batch[t]) - recorded[t]
    BY <2>1 DEF Asked
  <2>5. CASE recorded[t] + 1 < Len(batch[t])
    <3>1. pc'[t] = "record"
      BY <2>1, <2>5
    <3>2. Asked(t)' = Len(results') + Len(batch[t]) - recorded'[t]
      BY <2>1, <3>1 DEF Asked
    <3>3. Asked(t)' + Len(results') = Asked(t) + Len(results) + 1
      <4> DEFINE a == Asked(t)  b == Asked(t)'  m == Len(results)  n == Len(results')
                 k == Len(batch[t])  c == recorded[t]
      <4>1. m \in Int /\ n = m + 1 /\ k \in Int /\ c \in Int
        BY <1>b, <2>3
      <4>2. a = m + k - c /\ b = n + k - (c + 1)
        BY <2>2, <2>4, <3>2
      <4> HIDE DEF a, b, m, n, k, c
      <4>3. b + n = a + m + 1
        BY <4>1, <4>2
      <4> QED
        BY <4>3 DEF a, b, m, n
    <3>4. Rank(pc'[t]) <= Rank(pc[t]) + 2
      BY <2>1, <3>1 DEF Rank
    <3> QED
      BY <1>m, <2>1, <3>1, <3>3, <3>4, Nearer DEF Running
  <2>6. CASE ~(recorded[t] + 1 < Len(batch[t]))
    <3>1. pc'[t] \in {"delay", "check"}
      BY <1>p, <2>1, <2>6 DEF AfterBatch, Goto
    <3>2. Asked(t)' = Len(results')
      BY <3>1 DEF Asked
    <3>3. Asked(t)' + Len(results') = Asked(t) + Len(results) + 1
      <4> DEFINE a == Asked(t)  b == Asked(t)'  m == Len(results)  n == Len(results')
                 k == Len(batch[t])  c == recorded[t]
      <4>1. m \in Int /\ n = m + 1 /\ k \in Int /\ c \in Int /\ c < k /\ ~(c + 1 < k)
        BY <1>b, <2>2, <2>3, <2>6
      <4>2. a = m + k - c /\ b = n
        BY <2>4, <3>2
      <4> HIDE DEF a, b, m, n, k, c
      <4>3. b + n = a + m + 1
        BY <4>1, <4>2
      <4> QED
        BY <4>3 DEF a, b, m, n
    <3>4. Rank(pc'[t]) <= Rank(pc[t]) + 2
      BY <2>1, <3>1 DEF Rank
    <3> QED
      BY <1>m, <2>1, <3>1, <3>3, <3>4, Nearer DEF Running
  <2> QED
    BY <2>5, <2>6
<1>5. CASE Delay(t)
  <2>1. /\ pc[t] = "delay" /\ results' = results /\ selected' = selected
        /\ \E place \in {"check", "end"} : pc' = [pc EXCEPT ![t] = place]
    BY <1>5 DEF Delay, Goto, shared, locals
  <2>2. pc'[t] \in {"check", "end"}
    BY <1>p, <2>1
  <2>3. Asked(t) = Len(results) /\ Asked(t)' = Len(results')
    BY <2>1, <2>2 DEF Asked
  <2>4. Rank(pc'[t]) < Rank(pc[t])
    BY <2>1, <2>2 DEF Rank
  <2> QED
    BY <1>m, <2>1, <2>2, <2>3, <2>4, Nearer DEF Running
<1>6. CASE End(t)
  <2>1. pc'[t] = "idle"
    BY <1>6, <1>p DEF End, Goto
  <2>2. ToGo(t)' = 0
    BY <2>1 DEF ToGo
  <2>3. ToGo(t) > 0
    BY ToGoPositive
  <2> QED
    BY <2>2, <2>3
<1> QED
  BY <1>1, <1>2, <1>3, <1>4, <1>5, <1>6 DEF Step

\* Nobody else moves a Start: the others are not running, and whoever cancels it or sets
\* its percentage changes neither its devices nor its results.
LEMMA OthersLeaveIt ==
    ASSUME RInv, NEW t \in Starters, Running(t), [Next]_vars, ~Step(t)
    PROVE  ToGo(t)' = ToGo(t)
<1> SUFFICES UNCHANGED <<results, pc, selected, batch, recorded>>
  BY DEF ToGo, Asked, Rank
<1>1. inProgress /\ \A u \in Starters \ {t} : pc[u] = "idle"
  BY Alone
<1>2. ASSUME NEW u \in Starters, Begin(u) \/ Step(u) PROVE FALSE
  <2>1. CASE Begin(u)
    BY <1>1, <2>1 DEF Begin
  <2>2. CASE Step(u)
    <3>1. pc[u] # "idle"
      BY <2>2 DEF Step, SelectDevices, CheckBatch, UpdateDevice, RecordResult, Delay, End
    <3> QED
      BY <1>1, <2>2, <3>1
  <2> QED
    BY <1>2, <2>1, <2>2
<1>3. ASSUME NEW u \in Starters, CancelContext(u)
      PROVE  UNCHANGED <<results, pc, selected, batch, recorded>>
  BY <1>3 DEF CancelContext, shared, locals
<1>4. CASE Cancel
  BY <1>4 DEF Cancel, locals
<1>5. ASSUME NEW p \in Percentages, SetPercentage(p)
      PROVE  UNCHANGED <<results, pc, selected, batch, recorded>>
  BY <1>5 DEF SetPercentage, locals
<1>6. CASE UNCHANGED vars
  BY <1>6 DEF vars, shared, locals
<1> QED
  BY <1>2, <1>3, <1>4, <1>5, <1>6 DEF Next

\* A Start comes nearer to its end with every step it takes and with no step of anybody
\* else gets further from it, so it takes finitely many (firmware.go:548-594).
THEOREM StartAdvances == Spec => Advances
<1> DEFINE AnyMeasured == \A t \in Starters : Running(t) => Measured(t)
           Nearing == \A t \in Starters : pc[t] # "idle" =>
                         /\ ToGo(t) > 0
                         /\ IF Step(t) THEN ToGo(t)' < ToGo(t) ELSE ToGo(t)' = ToGo(t)
<1>1. RInv => AnyMeasured
  BY AllMeasured
<1>2. RInv /\ RInv' /\ AnyMeasured' /\ [Next]_vars => Nearing
  <2> SUFFICES ASSUME RInv, RInv', AnyMeasured', [Next]_vars, NEW t \in Starters, pc[t] # "idle"
               PROVE  /\ ToGo(t) > 0
                      /\ IF Step(t) THEN ToGo(t)' < ToGo(t) ELSE ToGo(t)' = ToGo(t)
    OBVIOUS
  <2>1. Running(t) /\ (Running(t)' => Measured(t)')
    BY DEF Running
  <2> HIDE DEF AnyMeasured
  <2>2. ToGo(t) > 0
    BY <2>1, ToGoPositive
  <2>3. CASE Step(t)
    BY <2>1, <2>2, <2>3, StepIsNearer
  <2>4. CASE ~Step(t)
    BY <2>1, <2>2, <2>4, OthersLeaveIt
  <2> QED
    BY <2>3, <2>4
<1>3. RInv /\ RInv' /\ AnyMeasured' /\ [Next]_vars => [Nearing]_vars
  BY <1>2
<1> HIDE DEF AnyMeasured, Nearing
<1>4. Spec => [][Nearing]_vars
  BY <1>1, <1>3, RInit, RNext, PTL DEF Spec
<1> QED
  BY <1>4 DEF Nearing, Advances
=============================================================================
