---------------------------- MODULE AddressScan ----------------------------
(***************************************************************************)
(* Looking for devices by asking every address: three worker pools over a  *)
(* semaphore of Limit slots.                                               *)
(*   "zigbee"    zigbee/zigbee.go, Scanner.DiscoverDevices: the loop takes *)
(*               a slot for each goroutine it starts, but once the context *)
(*               has ended it also starts them without one, and each of    *)
(*               them gives a slot back all the same;                      *)
(*   "identify"  discovery/identify.go, ProbeAddressesWithProgress: the    *)
(*               goroutines are all started first and take a slot each;    *)
(*   "tool"      tools/discover/main.go, probeNetwork: as "zigbee", with   *)
(*               no context in the loop.                                   *)
(* A probe asks one or two questions; the fault is a lost answer.          *)
(***************************************************************************)
EXTENDS Naturals, Sequences, FiniteSets

CONSTANTS
    Addresses,     \* the addresses to ask, in order
    Generation,    \* address -> generation of the device there, 0 for none
    Limit,         \* slots of the semaphore (10, 20 and 50 in the code)
    MaxLost        \* bound: answers lost

VARIABLES
    pool,      \* which of the three
    next,      \* index of the address the loop is at
    job,       \* address -> where its goroutine is
    slots,     \* slots taken: len(sem)
    found,     \* devices appended to the result
    done,      \* goroutines that counted themselves
    number,    \* address -> the count its callback reports
    reports,   \* the counts reported, in the order of the callbacks
    vetoed,    \* a callback returned false
    late,      \* goroutines started after that
    ended,     \* the context has ended
    lost,      \* addresses of which an answer was lost
    returned   \* the call has returned

scanVars == <<pool, next, job, slots, found, done, number, reports,
              vetoed, late, ended, lost, returned>>

Targets == {Addresses[i] : i \in DOMAIN Addresses}

\* No address is asked twice.
ASSUME ScanAssumption ==
    /\ Addresses \in Seq(Targets)
    /\ \A i, j \in DOMAIN Addresses : Addresses[i] = Addresses[j] => i = j
    /\ Generation \in [Targets -> 0 .. 4]
    /\ Limit \in Nat

Pools == {"zigbee", "identify", "tool"}

(* The goroutines of each place, and those at work on an address.            *)
At(place) == {a \in Targets : job[a] = place}
Probing == At("first") \cup At("second")

ScanInit ==
    /\ pool \in Pools
    /\ next = 1
    /\ job = [a \in Targets |-> "idle"]
    /\ slots = 0
    /\ found = {}
    /\ done = 0
    /\ number = [a \in Targets |-> 0]
    /\ reports = <<>>
    /\ vetoed = FALSE
    /\ late = {}
    /\ ended = FALSE
    /\ lost = {}
    /\ returned = FALSE

(* The loop of "zigbee" and "tool" waits for a slot before it starts the     *)
(* goroutine.                                                                *)
LaunchWithSlot ==
    /\ pool # "identify"
    /\ next <= Len(Addresses)
    /\ slots < Limit
    /\ slots' = slots + 1
    /\ job' = [job EXCEPT ![Addresses[next]] = "first"]
    /\ next' = next + 1
    /\ UNCHANGED <<pool, found, done, number, reports, vetoed, late, ended, lost, returned>>

(* The break of "zigbee" leaves the select and not the loop: the goroutine   *)
(* starts all the same.                                                      *)
LaunchWithoutSlot ==
    /\ pool = "zigbee"
    /\ ended
    /\ next <= Len(Addresses)
    /\ job' = [job EXCEPT ![Addresses[next]] = "first"]
    /\ next' = next + 1
    /\ UNCHANGED <<pool, slots, found, done, number, reports, vetoed,
                   late, ended, lost, returned>>

(* The loop of "identify" stops for a callback that said so, and for nothing *)
(* else.                                                                     *)
LaunchUnlessVetoed ==
    /\ pool = "identify"
    /\ next <= Len(Addresses)
    /\ ~vetoed
    /\ job' = [job EXCEPT ![Addresses[next]] = "queued"]
    /\ next' = next + 1
    /\ UNCHANGED <<pool, slots, found, done, number, reports, vetoed,
                   late, ended, lost, returned>>

\* Mutant of TakeSlot: a select with a default; who finds the semaphore full
\* asks all the same.
EveryoneAsks(a) ==
    /\ job[a] = "queued"
    /\ slots' = IF slots < Limit THEN slots + 1 ELSE slots
    /\ job' = [job EXCEPT ![a] = IF ended THEN "leaving" ELSE "first"]
    /\ late' = IF vetoed /\ ~ended THEN late \cup {a} ELSE late
    /\ UNCHANGED <<pool, next, found, done, number, reports, vetoed, ended, lost, returned>>

TakeSlot(a) ==
    /\ job[a] = "queued"
    /\ slots < Limit
    /\ slots' = slots + 1
    /\ job' = [job EXCEPT ![a] = IF ended THEN "leaving" ELSE "first"]
    /\ late' = IF vetoed /\ ~ended THEN late \cup {a} ELSE late
    /\ UNCHANGED <<pool, next, found, done, number, reports, vetoed, ended, lost, returned>>

(* identifyGen2 and the zigbee probe know generations 2 to 4 and take any    *)
(* other for 2; identifyGen1 says 1 of whatever answers.                     *)
Known(g) == IF g \in 2 .. 4 THEN g ELSE 2
AfterProbe == IF pool = "identify" THEN "found" ELSE "leaving"

Record(a, g) ==
    /\ found' = found \cup {[address |-> a, generation |-> g]}
    /\ job' = [job EXCEPT ![a] = AfterProbe]

(* The first question is answered by a device of generation 2 or later; the  *)
(* zigbee scan goes on only with a fallback of none.                         *)
FirstAnswer(a) ==
    /\ job[a] = "first"
    /\ ~ended
    /\ IF Generation[a] >= 2
       THEN Record(a, Known(Generation[a]))
       ELSE /\ job' = [job EXCEPT ![a] = IF pool = "zigbee" THEN "leaving" ELSE "second"]
            /\ UNCHANGED found
    /\ UNCHANGED <<pool, next, slots, done, number, reports, vetoed,
                   late, ended, lost, returned>>

(* The second question is asked when the first brought nothing, for whatever *)
(* reason.                                                                   *)
SecondAnswer(a) ==
    /\ job[a] = "second"
    /\ ~ended
    /\ IF Generation[a] >= 1
       THEN Record(a, 1)
       ELSE /\ job' = [job EXCEPT ![a] = AfterProbe]
            /\ UNCHANGED found
    /\ UNCHANGED <<pool, next, slots, done, number, reports, vetoed,
                   late, ended, lost, returned>>

(* No answer: the context ended, or the answer is lost until the timeout.    *)
NoAnswer(a) ==
    /\ job[a] \in {"first", "second"}
    /\ \/ ended /\ UNCHANGED lost
       \/ /\ Cardinality(lost) < MaxLost
          /\ Generation[a] >= 1
          /\ lost' = lost \cup {a}
    /\ job' = [job EXCEPT ![a] =
                 IF job[a] = "first" /\ pool # "zigbee" THEN "second" ELSE AfterProbe]
    /\ UNCHANGED <<pool, next, slots, found, done, number, reports,
                   vetoed, late, ended, returned>>

(* The count is taken in one critical section and reported after it.         *)
Count(a) ==
    /\ job[a] = "found"
    /\ done' = done + 1
    /\ number' = [number EXCEPT ![a] = done']
    /\ job' = [job EXCEPT ![a] = "counted"]
    /\ UNCHANGED <<pool, next, slots, found, reports, vetoed, late,
                   ended, lost, returned>>

Callback(a) ==
    /\ job[a] = "counted"
    /\ reports' = Append(reports, number[a])
    /\ \E goOn \in BOOLEAN : vetoed' = (vetoed \/ ~goOn)
    /\ job' = [job EXCEPT ![a] = "leaving"]
    /\ UNCHANGED <<pool, next, slots, found, done, number, late,
                   ended, lost, returned>>

\* Mutant of GiveSlotBack: the goroutine ends and keeps its slot.
KeepSlot(a) ==
    /\ job[a] = "leaving"
    /\ slots > 0
    /\ job' = [job EXCEPT ![a] = "gone"]
    /\ UNCHANGED <<pool, next, slots, found, done, number, reports, vetoed,
                   late, ended, lost, returned>>

(* The deferred receive takes a slot out of the channel and waits for one.   *)
GiveSlotBack(a) ==
    /\ job[a] = "leaving"
    /\ slots > 0
    /\ slots' = slots - 1
    /\ job' = [job EXCEPT ![a] = "gone"]
    /\ UNCHANGED <<pool, next, found, done, number, reports, vetoed,
                   late, ended, lost, returned>>

LoopOver == next > Len(Addresses) \/ (pool = "identify" /\ vetoed)

(* wg.Wait: every goroutine that was started has left.                       *)
Return ==
    /\ ~returned
    /\ LoopOver
    /\ \A a \in Targets : job[a] \in {"idle", "gone"}
    /\ returned' = TRUE
    /\ UNCHANGED <<pool, next, job, slots, found, done, number,
                   reports, vetoed, late, ended, lost>>

ContextEnds ==
    /\ ~ended
    /\ ~returned
    /\ ended' = TRUE
    /\ UNCHANGED <<pool, next, job, slots, found, done, number,
                   reports, vetoed, late, lost, returned>>

Work(a) ==
    \/ TakeSlot(a)
    \/ FirstAnswer(a)
    \/ SecondAnswer(a)
    \/ NoAnswer(a)
    \/ Count(a)
    \/ Callback(a)
    \/ GiveSlotBack(a)

Launch == LaunchWithSlot \/ LaunchWithoutSlot \/ LaunchUnlessVetoed

ScanNext ==
    \/ Launch
    \/ \E a \in Targets : Work(a)
    \/ Return
    \/ ContextEnds

(* Goroutines run, a request ends within its timeout, and a slot goes to a   *)
(* goroutine that has waited.                                                *)
ScanFair ==
    /\ WF_scanVars(Launch)
    /\ WF_scanVars(Return)
    /\ \A a \in Targets : SF_scanVars(Work(a))

ScanSpec == ScanInit /\ [][ScanNext]_scanVars /\ ScanFair

-----------------------------------------------------------------------------
(* The state of a scan.                                                      *)
ScanTypeOK ==
    /\ pool \in Pools
    /\ next \in 1 .. Len(Addresses) + 1
    /\ job \in [Targets -> {"idle", "queued", "first", "second", "found",
                            "counted", "leaving", "gone"}]
    /\ slots \in 0 .. Limit
    /\ found \subseteq [address : Targets, generation : 1 .. 4]
    /\ number \in [Targets -> 0 .. Cardinality(Targets)]
    /\ late \cup lost \subseteq Targets

(* The three pools keep their promise while the context lives: no more than  *)
(* Limit probes at once (Concurrency "controls how many devices are probed   *)
(* in parallel", zigbee.go:304), no address twice in the result, and a call  *)
(* that returns has found every device none of whose answers was lost, with  *)
(* the generation it has, unless a callback stopped it.                      *)
ScanSound ==
    /\ ended \/ Cardinality(Probing) <= Limit
    /\ \A d, e \in found : d.address = e.address => d = e
    /\ returned /\ ~ended /\ ~vetoed =>
          \A a \in Targets \ lost :
             (Generation[a] >= (IF pool = "zigbee" THEN 2 ELSE 1)) <=>
                [address |-> a, generation |-> Generation[a]] \in found

(* A scan returns. Not so the zigbee scan once its context has ended: see    *)
(* NoStrandedProbe.                                                          *)
ScanReturns == <>(returned \/ (pool = "zigbee" /\ ended))

(* Violated. Cancelling a zigbee scan ends it (zigbee_test.go cancels the    *)
(* context and says it "should return quickly", with no address to probe):   *)
(* a goroutine started without a slot (zigbee.go:362) takes one out of the   *)
(* semaphore, and the last to leave waits for ever.                          *)
NoStrandedProbe ==
    LoopOver /\ Probing = {} /\ At("leaving") # {} => slots > 0

(* Violated. "Return false from the callback to cancel the operation"        *)
(* (identify.go:266): the goroutines are started long before the first       *)
(* callback and none of them looks at the flag.                              *)
CancelStopsProbes == late = {}

(* Violated. Done is the "number of addresses probed so far"                 *)
(* (identify.go:245): the callbacks run after the count is taken, so a later *)
(* report may show a smaller number.                                         *)
ProgressGrows == \A i, j \in DOMAIN reports : i < j => reports[i] < reports[j]

(* Violated. Identify "auto-detects" the generation: with the answer to the  *)
(* first question lost, the second answer of a Gen2 device is read as that   *)
(* of a Gen1 device (identify.go:74, main.go:447).                           *)
RightGeneration == \A d \in found : d.generation = Generation[d.address]
=============================================================================
