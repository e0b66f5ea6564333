--------------------------- MODULE BleProvisioning ---------------------------
(***************************************************************************)
(* provisioning/ble_transmitter.go, and ProvisionViaBLE over it: programs  *)
(* that provision one device each share the only transmitter.  Connect     *)
(* leaves the dialling to a goroutine that sets t.device without the mutex *)
(* and goes on when the caller has given up.  What the characteristics     *)
(* belong to is what t.device was when they were discovered.               *)
(***************************************************************************)
EXTENDS Naturals, FiniteSets

CONSTANTS
    Provisioners,       \* each for the device of its name
    Commands            \* how many each transmits

VARIABLES
    known,              \* BLEProvisioner.devices
    holder,             \* t.mu: {} or {the one in Connect}
    linked,             \* tinyGoBLETransmitter.connected
    target,             \* t.device: {} or {device}
    chars,              \* the device of t.rpcChar and t.notifyChar: {} or {device}
    links,              \* the adapter: devices it is connected to
    dialing,            \* goroutines of Connect that have not finished
    dialed,             \* those whose answer waits in `done': p -> whether it connected
    ble,                \* provisioner -> [at, sent]
    written,            \* history: <<provisioner, device its command went to>>
    forsaken            \* history: goroutines whose Connect did not wait for them

bleVars == <<known, holder, linked, target, chars, links, dialing, dialed, ble, written, forsaken>>

PInit ==
    /\ known = {} /\ holder = {} /\ linked = FALSE /\ target = {} /\ chars = {}
    /\ links = {} /\ dialing = {} /\ dialed = [p \in {} |-> TRUE]
    /\ ble = [p \in Provisioners |-> [at |-> "idle", sent |-> 0]]
    /\ written = {} /\ forsaken = {}

To(p, at) == ble' = [ble EXCEPT ![p].at = at]

AddDiscoveredDevice(d) ==
    /\ d \notin known /\ known' = known \cup {d}
    /\ UNCHANGED <<holder, linked, target, chars, links, dialing, dialed, ble, written, forsaken>>

ClearDevices ==
    /\ known # {} /\ known' = {}
    /\ UNCHANGED <<holder, linked, target, chars, links, dialing, dialed, ble, written, forsaken>>

\* ProvisionViaBLE needs a discovered device.
Begin(p) ==
    /\ ble[p].at = "idle" /\ p \in known
    /\ To(p, "begun")
    /\ UNCHANGED <<known, holder, linked, target, chars, links, dialing, dialed, written, forsaken>>

\* Mutant of Connect: it does not ask whether there is a connection.
ConnectAnyway(p) ==
    /\ ble[p].at = "begun" /\ holder = {}
    /\ To(p, "connect") /\ holder' = {p} /\ dialing' = dialing \cup {p}
    /\ UNCHANGED <<known, linked, target, chars, links, dialed, written, forsaken>>

Connect(p) ==
    /\ ble[p].at = "begun" /\ holder = {}
    /\ IF linked
       THEN To(p, "failed") /\ UNCHANGED <<holder, dialing>>
       ELSE To(p, "connect") /\ holder' = {p} /\ dialing' = dialing \cup {p}
    /\ UNCHANGED <<known, linked, target, chars, links, dialed, written, forsaken>>

\* The goroutine, in one step each: the adapter connects and t.device is set, or it fails.
Dialed(p, ok) ==
    /\ p \in dialing
    /\ dialing' = dialing \ {p}
    /\ links' = IF ok THEN links \cup {p} ELSE links
    /\ target' = IF ok THEN {p} ELSE target
    /\ dialed' = IF p \in forsaken THEN dialed
                 ELSE [q \in DOMAIN dialed \cup {p} |-> IF q = p THEN ok ELSE dialed[q]]
    /\ UNCHANGED <<known, holder, linked, chars, ble, written, forsaken>>

\* The context ends first: Connect returns and nobody will read `done'.
GiveUp(p) ==
    /\ ble[p].at = "connect" /\ p \notin DOMAIN dialed
    /\ forsaken' = forsaken \cup {p}
    /\ To(p, "failed") /\ holder' = {}
    /\ UNCHANGED <<known, linked, target, chars, links, dialing, dialed, written>>

\* Services and characteristics are those of t.device, which is let go if one is missing.
Discover(p) ==
    /\ ble[p].at = "connect" /\ p \in DOMAIN dialed
    /\ holder' = {}
    /\ \/ ~dialed[p] /\ To(p, "failed") /\ UNCHANGED <<linked, chars, links>>
       \/ dialed[p] /\ To(p, "connected") /\ chars' = target /\ linked' = TRUE /\ UNCHANGED links
       \/ dialed[p] /\ To(p, "failed") /\ links' = links \ target /\ UNCHANGED <<linked, chars>>
    /\ UNCHANGED <<known, target, dialing, dialed, written, forsaken>>

\* The next command: written, with an answer or none within its time, or not written.
WriteCharacteristic(p) ==
    /\ ble[p].at = "connected" /\ holder = {} /\ ble[p].sent < Commands
    /\ IF linked
       THEN /\ written' = written \cup {<<p, d>> : d \in chars \cap links}
            /\ \/ ble' = [ble EXCEPT ![p].sent = @ + 1]
               \/ To(p, "error")
       ELSE To(p, "error") /\ UNCHANGED written
    /\ UNCHANGED <<known, holder, linked, target, chars, links, dialing, dialed, forsaken>>

\* Mutant of Disconnect: only the flag is cleared.
DisconnectFlag(p) ==
    /\ holder = {}
    /\ \/ ble[p].at = "error" /\ To(p, "failed")
       \/ ble[p].at = "connected" /\ ble[p].sent = Commands /\ To(p, "done")
    /\ linked' = FALSE
    /\ UNCHANGED <<known, holder, target, chars, links, dialing, dialed, written, forsaken>>

\* The deferred Disconnect of transmitCommands.
Disconnect(p) ==
    /\ holder = {}
    /\ \/ ble[p].at = "error" /\ To(p, "failed")
       \/ ble[p].at = "connected" /\ ble[p].sent = Commands /\ To(p, "done")
    /\ links' = IF linked THEN links \ target ELSE links
    /\ linked' = FALSE
    /\ UNCHANGED <<known, holder, target, chars, dialing, dialed, written, forsaken>>

PNext ==
    \/ ClearDevices
    \/ \E p \in Provisioners :
          \/ AddDiscoveredDevice(p) \/ Begin(p) \/ Connect(p) \/ GiveUp(p) \/ Discover(p)
          \/ WriteCharacteristic(p) \/ Disconnect(p)
          \/ \E ok \in BOOLEAN : Dialed(p, ok)

PSpec == PInit /\ [][PNext]_bleVars

-----------------------------------------------------------------------------
PTypeOK ==
    /\ holder \subseteq Provisioners /\ Cardinality(holder) <= 1
    /\ known \cup target \cup chars \cup links \cup dialing \cup forsaken \subseteq Provisioners
    /\ \A p \in Provisioners :
          /\ ble[p].at \in {"idle", "begun", "connect", "connected", "error", "failed", "done"}
          /\ ble[p].sent \in 0..Commands

\* provisioning.go:433: Connect connects "to a BLE device by address": what is written
\* after it goes to that device.
OwnDevice == \A c \in written : c[1] = c[2]

\* Programs that share the transmitter write to their own devices only, and when all are
\* done nothing is connected; unless one gave up a Connect whose goroutine went on.
BleSound ==
    forsaken = {} =>
        /\ OwnDevice
        /\ (\A p \in Provisioners : ble[p].at \in {"idle", "failed", "done"}) => links = {}
=============================================================================
