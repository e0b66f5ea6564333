-------------------------- MODULE FirmwareRollout --------------------------
(***************************************************************************)
(* firmware/firmware.go: StagedRollout updates a percentage of a fleet in  *)
(* batches.  Goroutines Start it, one of them at a time; anybody Cancels   *)
(* it and sets its percentage while it runs.                               *)
(*                                                                         *)
(* A step is a critical section of s.mu, or one update of one device; the  *)
(* percentage is read by SelectDevices without the lock.  OnProgress and   *)
(* OnComplete are user code; what they may do to the rollout (Cancel,      *)
(* SetPercentage) anybody does here at any time.                           *)
(***************************************************************************)
EXTENDS Integers, Sequences, FiniteSets

CONSTANTS
    Starters,       \* goroutines that call Start
    Devices,        \* s.Devices, a sequence
    BatchSize,      \* s.BatchSize
    Percentages     \* what SetPercentage is called with

Fleet == {Devices[i] : i \in 1..Len(Devices)}
ASSUME DevicesAssumption ==
    /\ Devices \in Seq(Fleet)
    /\ \A i, j \in 1..Len(Devices) : Devices[i] = Devices[j] => i = j
ASSUME BatchAssumption == BatchSize \in Nat \ {0}
ASSUME PercentagesAssumption == Percentages \subseteq Int

Result == [device : Fleet, success : BOOLEAN]

VARIABLES
    percentage,     \* s.Percentage
    inProgress,     \* s.inProgress
    canceled,       \* s.canceled
    results,        \* s.Results
    pc,             \* where each Start is
    selected,       \* its devices
    begun,          \* i, how many devices the finished batches had
    batch,          \* batchResults
    recorded,       \* how many of them are in s.Results
    ctxDone,        \* whether its context has ended
    atCancel        \* history: how many devices the running Start had updated
                    \* when it was first cancelled, or Never

shared == <<percentage, inProgress, canceled, results>>
locals == <<selected, begun, batch, recorded>>
vars == <<shared, pc, locals, ctxDone, atCancel>>

Never == -1
Places == {"idle", "select", "check", "update", "record", "delay", "end"}

\* Mutant of Clamped: no upper limit.
ClampedBelow(p) == IF p < 0 THEN 0 ELSE p

Clamped(p) == IF p < 0 THEN 0 ELSE IF p > 100 THEN 100 ELSE p

Init ==
    /\ percentage \in {Clamped(p) : p \in Percentages}
    /\ inProgress = FALSE
    /\ canceled = FALSE
    /\ results = <<>>
    /\ pc = [t \in Starters |-> "idle"]
    /\ selected = [t \in Starters |-> <<>>]
    /\ begun = [t \in Starters |-> 0]
    /\ batch = [t \in Starters |-> <<>>]
    /\ recorded = [t \in Starters |-> 0]
    /\ ctxDone = [t \in Starters |-> FALSE]
    /\ atCancel = Never

-----------------------------------------------------------------------------
(* Which devices.                                                          *)

\* How many of n devices p percent are: rounded down, and one when that is none.
Share(n, p) == IF (n * p) \div 100 = 0 /\ p > 0 /\ n > 0 THEN 1 ELSE (n * p) \div 100

TargetDeviceCount == Share(Len(Devices), percentage)

\* The shuffle may put any devices first.
Orders(k) == {s \in [1..k -> Fleet] : \A i, j \in 1..k : s[i] = s[j] => i = j}
Selections(k) == IF k >= Len(Devices) THEN {Devices} ELSE Orders(k)

-----------------------------------------------------------------------------
Goto(t, place) == pc' = [pc EXCEPT ![t] = place]

\* Mutant of Begin: the guard is not taken.
BeginUnguarded(t) ==
    /\ pc[t] = "idle"
    /\ inProgress' = TRUE
    /\ canceled' = FALSE
    /\ results' = <<>>
    /\ Goto(t, "select")
    /\ UNCHANGED <<percentage, locals, ctxDone, atCancel>>

\* A Start that finds one in progress returns ErrRolloutInProgress.
Begin(t) ==
    /\ pc[t] = "idle"
    /\ ~inProgress
    /\ inProgress' = TRUE
    /\ canceled' = FALSE
    /\ results' = <<>>
    /\ Goto(t, "select")
    /\ UNCHANGED <<percentage, locals, ctxDone, atCancel>>

SelectDevices(t) ==
    /\ pc[t] = "select"
    /\ \E s \in Selections(TargetDeviceCount) :
          /\ selected' = [selected EXCEPT ![t] = s]
          /\ Goto(t, IF s = <<>> THEN "end" ELSE "check")
    /\ UNCHANGED <<shared, begun, batch, recorded, ctxDone, atCancel>>

\* How many devices are in the batches up to and with the one that follows b.
BatchEnd(t, b) ==
    IF b + BatchSize > Len(selected[t]) THEN Len(selected[t]) ELSE b + BatchSize

\* Mutant of MustStop: canceled is not looked at.
MustStopOnContext(t) == ctxDone[t]

MustStop(t) == ctxDone[t] \/ canceled

\* The loop ends when every device had its batch; the context and canceled are
\* looked at before each batch.
CheckBatch(t) ==
    /\ pc[t] = "check"
    /\ Goto(t, IF begun[t] >= Len(selected[t]) \/ MustStop(t) THEN "end" ELSE "update")
    /\ batch' = [batch EXCEPT ![t] = <<>>]
    /\ recorded' = [recorded EXCEPT ![t] = 0]
    /\ UNCHANGED <<shared, selected, begun, ctxDone, atCancel>>

\* BatchUpdate asks the devices of the batch one after the other.  A device that
\* has no client, does not answer or refuses gives a failed result; no device is
\* asked with a context that has ended.
UpdateDevice(t) ==
    /\ pc[t] = "update"
    /\ \E ok \in BOOLEAN :
          /\ ok => ~ctxDone[t]
          /\ batch' = [batch EXCEPT ![t] =
                Append(@, [device |-> selected[t][begun[t] + Len(@) + 1], success |-> ok])]
    /\ Goto(t, IF begun[t] + Len(batch'[t]) >= BatchEnd(t, begun[t]) THEN "record" ELSE "update")
    /\ UNCHANGED <<shared, selected, begun, recorded, ctxDone, atCancel>>

\* Mutants of NextBatch: the index is advanced by one, and not at all.
NextDevice(t) == begun[t] + 1
SameBatch(t) == begun[t]

NextBatch(t) == begun[t] + BatchSize

\* The last result of a batch, and no delay after the last batch.
AfterBatch(t) ==
    /\ begun' = [begun EXCEPT ![t] = NextBatch(t)]
    /\ \/ BatchEnd(t, begun[t]) < Len(selected[t]) /\ Goto(t, "delay")
       \/ Goto(t, "check")

RecordResult(t) ==
    /\ pc[t] = "record"
    /\ results' = Append(results, batch[t][recorded[t] + 1])
    /\ recorded' = [recorded EXCEPT ![t] = @ + 1]
    /\ IF recorded[t] + 1 < Len(batch[t])
       THEN UNCHANGED <<pc, begun>>
       ELSE AfterBatch(t)
    /\ UNCHANGED <<percentage, inProgress, canceled, selected, batch, ctxDone, atCancel>>

\* Mutant of Delay: only the context ends it.
DelayOnContext(t) ==
    /\ pc[t] = "delay"
    /\ ctxDone[t]
    /\ Goto(t, "end")
    /\ UNCHANGED <<shared, locals, ctxDone, atCancel>>

\* Cancel does not wake the delay, the context does.
Delay(t) ==
    /\ pc[t] = "delay"
    /\ \/ Goto(t, "check")
       \/ ctxDone[t] /\ Goto(t, "end")
    /\ UNCHANGED <<shared, locals, ctxDone, atCancel>>

\* The deferred function.  The variables of the call are gone.
End(t) ==
    /\ pc[t] = "end"
    /\ inProgress' = FALSE
    /\ Goto(t, "idle")
    /\ selected' = [selected EXCEPT ![t] = <<>>]
    /\ begun' = [begun EXCEPT ![t] = 0]
    /\ batch' = [batch EXCEPT ![t] = <<>>]
    /\ recorded' = [recorded EXCEPT ![t] = 0]
    /\ ctxDone' = [ctxDone EXCEPT ![t] = FALSE]
    /\ atCancel' = Never
    /\ UNCHANGED <<percentage, canceled, results>>

-----------------------------------------------------------------------------
\* History: how many devices the Start in progress has asked.
Asked(t) == IF pc[t] = "update" THEN Len(results) + Len(batch[t])
            ELSE IF pc[t] = "record" THEN Len(results) + Len(batch[t]) - recorded[t]
            ELSE Len(results)

Cancel ==
    /\ canceled' = TRUE
    /\ atCancel' = IF atCancel = Never /\ inProgress
                   THEN Asked(CHOOSE t \in Starters : pc[t] # "idle") ELSE atCancel
    /\ UNCHANGED <<percentage, inProgress, results, pc, locals, ctxDone>>

CancelContext(t) ==
    /\ pc[t] # "idle"
    /\ ctxDone' = [ctxDone EXCEPT ![t] = TRUE]
    /\ UNCHANGED <<shared, pc, locals, atCancel>>

SetPercentage(p) ==
    /\ percentage' = Clamped(p)
    /\ UNCHANGED <<inProgress, canceled, results, pc, locals, ctxDone, atCancel>>

Step(t) ==
    \/ SelectDevices(t) \/ CheckBatch(t) \/ UpdateDevice(t)
    \/ RecordResult(t) \/ Delay(t) \/ End(t)

Next ==
    \/ \E t \in Starters : Begin(t) \/ Step(t) \/ CancelContext(t)
    \/ Cancel
    \/ \E p \in Percentages : SetPercentage(p)

Spec == Init /\ [][Next]_vars

\* A goroutine inside Start is scheduled, a device's call ends (transports have a
\* timeout) and the delay passes.
FairSpec == Spec /\ \A t \in Starters : WF_vars(Step(t))

-----------------------------------------------------------------------------
TypeOK ==
    /\ percentage \in 0..100
    /\ inProgress \in BOOLEAN
    /\ canceled \in BOOLEAN
    /\ results \in Seq(Result)
    /\ pc \in [Starters -> Places]
    /\ selected \in [Starters -> Seq(Fleet)]
    /\ begun \in [Starters -> Nat]
    /\ batch \in [Starters -> Seq(Result)]
    /\ recorded \in [Starters -> Nat]
    /\ ctxDone \in [Starters -> BOOLEAN]
    /\ atCancel \in Int

\* One Start runs at a time, and inProgress says whether one does: the flag is
\* set and cleared in different critical sections (firmware.go:521-536).
OneRollout ==
    /\ \A t, u \in Starters : pc[t] # "idle" /\ pc[u] # "idle" => t = u
    /\ inProgress <=> \E t \in Starters : pc[t] # "idle"

\* While a rollout runs its results are those of the devices it selected, in that
\* order, each once, whatever the batch boundaries (firmware.go:548-594).
ResultsInOrder ==
    \A t \in Starters : pc[t] \notin {"idle", "select"} =>
        /\ Len(results) <= Len(selected[t])
        /\ \A i \in 1..Len(results) : results[i].device = selected[t][i]

\* A cancelled rollout asks at most the rest of one more batch (firmware.go:557-562).
CancelWithinBatch ==
    \A t \in Starters : (pc[t] # "idle" /\ atCancel # Never) => Asked(t) - atCancel <= BatchSize

\* A rollout is alone, reports in order and heeds Cancel.
RolloutSound == OneRollout /\ ResultsInOrder /\ CancelWithinBatch

\* How far a Start is from its end: devices to ask, results to record, and its place.
Rank(place) ==
    IF place = "end" THEN 1 ELSE IF place \in {"update", "record"} THEN 2
    ELSE IF place = "check" THEN 3 ELSE 4

ToGo(t) ==
    LET all == IF pc[t] = "select" THEN Len(Devices) ELSE Len(selected[t])
    IN  IF pc[t] = "idle" THEN 0
        ELSE 3 * (all - Asked(t)) + 3 * (all - Len(results)) + Rank(pc[t])

\* Each step of a Start brings it nearer to its end, whatever the batch boundaries are and
\* which updates fail, and nothing anybody else does, SetPercentage and Cancel included,
\* moves it further away (firmware.go:548-594).
Advances ==
    [][\A t \in Starters : pc[t] # "idle" =>
          /\ ToGo(t) > 0
          /\ IF Step(t) THEN ToGo(t)' < ToGo(t) ELSE ToGo(t)' = ToGo(t)]_vars

\* Every Start returns (firmware.go:549).
StartEnds == \A t \in Starters : pc[t] # "idle" ~> pc[t] = "idle"

-----------------------------------------------------------------------------
(* What the documents say and the code does not do.                        *)

\* firmware.go:616 "This only affects future calls to Start, not in-progress
\* rollouts": GetStatus of a rollout in progress reports no more completed devices
\* than targeted ones.
CompletedWithinTarget == inProgress => Len(results) <= TargetDeviceCount
=============================================================================
