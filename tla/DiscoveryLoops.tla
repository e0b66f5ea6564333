--------------------------- MODULE DiscoveryLoops ---------------------------
(***************************************************************************)
(* Continuous discovery: StartDiscovery, StopDiscovery and the loop of the *)
(* four discoverers of discovery/ (mdns.go, coiot.go, ble.go, wifi.go).    *)
(* Start makes a channel of devices and a stop channel and starts a loop;  *)
(* the loop looks at both fields anew each time, without the mutex.  They  *)
(* differ in what a round of the loop is:                                  *)
(*   "mdns", "wifi"  a scan of seconds, then its devices one by one;       *)
(*   "coiot"         one datagram, or the read deadline;                   *)
(*   "ble"           a scan of the one adapter, whose callback sends each  *)
(*                   device; a scanner that scans already returns at once. *)
(***************************************************************************)
EXTENDS Naturals, FiniteSets, Sequences

CONSTANTS
    Devices,     \* the devices that can be found
    Capacity,    \* buffer of a channel of devices, 100 in the code
    MaxSessions  \* bound: calls of StartDiscovery that start

VARIABLES
    kind,       \* which discoverer
    running,
    session,    \* number of the start whose channels the fields hold
    stopped,    \* starts whose stop channel is closed
    loops,      \* loop (numbered by its start) -> [at, batch]
    channel,    \* start -> devices in its channel
    scanning,   \* the loop whose scan the BLE adapter runs, 0 for none
    late        \* a scan began for a caller whose Stop had returned

discoveryVars == <<kind, running, session, stopped, loops, channel, scanning, late>>

Kinds == {"mdns", "wifi", "coiot", "ble"}
Sessions == 1 .. MaxSessions
Places == {"none", "test", "scan", "deliver", "ended"}
LiveLoops == {l \in Sessions : loops[l].at \notin {"none", "ended"}}

DInit ==
    /\ kind \in Kinds
    /\ running = FALSE
    /\ session = 0
    /\ stopped = {}
    /\ loops = [l \in Sessions |-> [at |-> "none", batch |-> {}]]
    /\ channel = [s \in Sessions |-> <<>>]
    /\ scanning = 0
    /\ late = FALSE

StartDiscovery ==
    /\ ~running
    /\ session < MaxSessions
    /\ running' = TRUE
    /\ session' = session + 1
    /\ loops' = [loops EXCEPT ![session + 1].at = "test"]
    /\ UNCHANGED <<kind, stopped, channel, scanning, late>>

(* The BLE discoverer stops the scanner as well; its scan then ends.         *)
StopDiscovery ==
    /\ running
    /\ running' = FALSE
    /\ stopped' = stopped \cup {session}
    /\ scanning' = 0
    /\ UNCHANGED <<kind, session, loops, channel, late>>

Goto(l, place, batch) == loops' = [loops EXCEPT ![l] = [at |-> place, batch |-> batch]]

\* Mutant of TestStop: the loop never looks at the channel.
TestNothing(l) ==
    /\ loops[l].at = "test"
    /\ Goto(l, "scan", {})
    /\ UNCHANGED <<kind, running, session, stopped, channel, scanning, late>>

(* select on the field stopCh, then the round begins.                        *)
TestStop(l) ==
    /\ loops[l].at = "test"
    /\ Goto(l, IF session \in stopped THEN "ended" ELSE "scan", {})
    /\ UNCHANGED <<kind, running, session, stopped, channel, scanning, late>>

(* The BLE scanner starts only when it is not running.                       *)
StartScanner(l) ==
    /\ kind = "ble"
    /\ loops[l].at = "scan"
    /\ scanning = 0
    /\ scanning' = l
    /\ late' = (late \/ ~running)
    /\ Goto(l, "deliver", {})
    /\ UNCHANGED <<kind, running, session, stopped, channel>>

ScannerBusy(l) ==
    /\ kind = "ble"
    /\ loops[l].at = "scan"
    /\ scanning # 0
    /\ Goto(l, "test", {})
    /\ UNCHANGED <<kind, running, session, stopped, channel, scanning, late>>

(* The scan ends because the scanner was stopped, or with its context: then  *)
(* it stops the scanner itself, whoever's scan that is by now.               *)
ScannerEnds(l) ==
    /\ kind = "ble"
    /\ loops[l].at = "deliver"
    /\ scanning' \in {0, IF scanning = l THEN 0 ELSE scanning}
    /\ Goto(l, "test", {})
    /\ UNCHANGED <<kind, running, session, stopped, channel, late>>

(* A round of the others: what it found, at most one device for "coiot".     *)
Round(l) ==
    /\ kind # "ble"
    /\ loops[l].at = "scan"
    /\ \E found \in SUBSET Devices :
          /\ kind = "coiot" => Cardinality(found) <= 1
          /\ Goto(l, IF found = {} THEN "test" ELSE "deliver", found)
    /\ UNCHANGED <<kind, running, session, stopped, channel, scanning, late>>

(* A send that gives up when the buffer is full, to the channel the field    *)
(* holds now.                                                                *)
Offer(d) ==
    channel' = IF Len(channel[session]) < Capacity
               THEN [channel EXCEPT ![session] = Append(@, d)]
               ELSE channel

\* Mutant of Deliver: the send waits for room.
DeliverAndWait(l) ==
    /\ kind # "ble"
    /\ loops[l].at = "deliver"
    /\ \E d \in loops[l].batch :
          /\ Len(channel[session]) < Capacity
          /\ Offer(d)
          /\ Goto(l, IF loops[l].batch = {d} THEN "test" ELSE "deliver", loops[l].batch \ {d})
    /\ UNCHANGED <<kind, running, session, stopped, scanning, late>>

Deliver(l) ==
    /\ kind # "ble"
    /\ loops[l].at = "deliver"
    /\ \E d \in loops[l].batch :
          /\ Offer(d)
          /\ Goto(l, IF loops[l].batch = {d} THEN "test" ELSE "deliver", loops[l].batch \ {d})
    /\ UNCHANGED <<kind, running, session, stopped, scanning, late>>

(* handleAdvertisement, called while the adapter scans.                      *)
Advertisement(l) ==
    /\ kind = "ble"
    /\ scanning = l
    /\ \E d \in Devices : Offer(d)
    /\ UNCHANGED <<kind, running, session, stopped, loops, scanning, late>>

Receive(s) ==
    /\ channel[s] # <<>>
    /\ channel' = [channel EXCEPT ![s] = Tail(@)]
    /\ UNCHANGED <<kind, running, session, stopped, loops, scanning, late>>

LoopStep(l) ==
    \/ TestStop(l)
    \/ StartScanner(l)
    \/ ScannerBusy(l)
    \/ ScannerEnds(l)
    \/ Round(l)
    \/ Deliver(l)

DNext ==
    \/ StartDiscovery
    \/ StopDiscovery
    \/ \E l \in Sessions : LoopStep(l) \/ Advertisement(l)
    \/ \E s \in Sessions : Receive(s)

(* A loop runs: a round ends by its deadline and a send never waits.  Nobody *)
(* has to start, to stop or to receive.                                      *)
DFair == \A l \in Sessions : WF_discoveryVars(LoopStep(l))

DSpec == DInit /\ [][DNext]_discoveryVars /\ DFair

-----------------------------------------------------------------------------
(* The state of a discoverer and its loops.                                  *)
DTypeOK ==
    /\ kind \in Kinds
    /\ running \in BOOLEAN
    /\ session \in 0 .. MaxSessions
    /\ stopped \subseteq Sessions
    /\ loops \in [Sessions -> [at : Places, batch : SUBSET Devices]]
    /\ channel \in [Sessions -> UNION {[1 .. n -> Devices] : n \in 0 .. Capacity}]
    /\ scanning \in {0} \cup Sessions

(* A discovery that is stopped and not started again comes to rest: every    *)
(* loop ends, those of earlier starts too, and the adapter stops scanning,   *)
(* although nobody reads the channel (its sends give up) and a scan may      *)
(* begin after the Stop that should have prevented it.                       *)
DiscoveryStops == ~running ~> (running \/ (LiveLoops = {} /\ scanning = 0))

(* Violated. "StopDiscovery stops continuous discovery" (types.go:67): a     *)
(* loop that is in a round when the channel is closed looks at the field     *)
(* after another start and goes on; there are two loops from then on.        *)
OneDiscovery == Cardinality(LiveLoops) <= 1

(* Violated. Nothing scans after StopDiscovery has returned: the scanner is  *)
(* stopped before the loop has started it (ble.go:490).                      *)
NoScanAfterStop == ~late
=============================================================================
