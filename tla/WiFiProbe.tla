----------------------------- MODULE WiFiProbe -----------------------------
(***************************************************************************)
(* discovery/wifi.go: a scan for the access points of unprovisioned        *)
(* devices that joins each of them to ask what it is, and so takes the     *)
(* host off its own network.  The host's link is the shared state: the     *)
(* scan, the operating system and the radio all change it.                 *)
(***************************************************************************)
EXTENDS Naturals, Sequences

CONSTANTS
    Home,       \* the network the host is on
    APs,        \* the access points in the scan's result, in its order
    MaxFaults   \* bound: joins that fail and links that drop

VARIABLES
    link,       \* the network the host is on now
    home,       \* [password]: joining Home without a password fails
    place,      \* where the scan is: "next" | "join" | "ask" | "rejoin" | "returned"
    index,      \* the access point it is at
    original,   \* the network remembered for this one
    devices,    \* [ssid, answered]: who answered for which access point
    expired,    \* the context has ended
    faults

wifiVars == <<link, home, place, index, original, devices, expired, faults>>

Off == "off"
AP == APs[index]
AccessPoints == {APs[i] : i \in DOMAIN APs}

WInit ==
    /\ link \in {Home, Off}
    /\ home \in [password : BOOLEAN, was : {link}]
    /\ place = "next"
    /\ index = 1
    /\ original = Off
    /\ devices = {}
    /\ expired = FALSE
    /\ faults = 0

(* probeDevice remembers the network of the moment, none when there is none  *)
(* or when the context no longer lets the tool say.                          *)
Remember ==
    /\ place = "next"
    /\ index <= Len(APs)
    /\ original' = IF expired THEN Off ELSE link
    /\ place' = "join"
    /\ UNCHANGED <<link, home, index, devices, expired, faults>>

ListDevice(answered) == devices' = devices \cup {[ssid |-> AP, answered |-> answered]}

NextNetwork ==
    /\ index' = index + 1
    /\ place' = "next"

Join ==
    /\ place = "join"
    /\ ~expired
    /\ link' = AP
    /\ place' = "ask"
    /\ UNCHANGED <<home, index, original, devices, expired, faults>>

(* A join that fails may have left the network already; the function returns *)
(* before it has deferred the way back, and the scan lists what the SSID says.*)
JoinFails ==
    /\ place = "join"
    /\ \/ expired /\ UNCHANGED <<link, faults>>
       \/ /\ faults < MaxFaults
          /\ faults' = faults + 1
          /\ link' \in {link, Off}
    /\ ListDevice(Off)
    /\ NextNetwork
    /\ UNCHANGED <<home, original, expired>>

\* Mutant of Ask: the answer is taken for that of the network remembered.
AskBefore ==
    /\ place = "ask"
    /\ ListDevice(IF expired THEN Off ELSE original)
    /\ place' = "rejoin"
    /\ UNCHANGED <<link, home, index, original, expired, faults>>

(* Both generations are asked at the address every access point has, so the  *)
(* one the host is linked to answers, if it is one.                          *)
Ask ==
    /\ place = "ask"
    /\ ListDevice(IF expired \/ link \notin AccessPoints THEN Off ELSE link)
    /\ place' = "rejoin"
    /\ UNCHANGED <<link, home, index, original, expired, faults>>

\* Mutant of Rejoin: the way back is taken after the last device only.
RejoinAtTheEnd ==
    /\ place = "rejoin"
    /\ IF index < Len(APs) \/ original = Off \/ expired THEN UNCHANGED link
       ELSE link' = IF original = Home /\ home.password THEN Off ELSE original
    /\ NextNetwork
    /\ UNCHANGED <<home, original, devices, expired, faults>>

(* The deferred way back: without the password, and under the same context.  *)
Rejoin ==
    /\ place = "rejoin"
    /\ IF original = Off \/ expired THEN UNCHANGED link
       ELSE link' = IF original = Home /\ home.password THEN Off ELSE original
    /\ NextNetwork
    /\ UNCHANGED <<home, original, devices, expired, faults>>

Return ==
    /\ place = "next"
    /\ index > Len(APs)
    /\ place' = "returned"
    /\ UNCHANGED <<link, home, index, original, devices, expired, faults>>

ContextEnds ==
    /\ ~expired
    /\ place # "returned"
    /\ expired' = TRUE
    /\ UNCHANGED <<link, home, place, index, original, devices, faults>>

(* The radio loses the access point, and the system may go home by itself.   *)
LinkDrops ==
    /\ place = "ask"
    /\ faults < MaxFaults
    /\ faults' = faults + 1
    /\ link' \in {Off, home.was}
    /\ UNCHANGED <<home, place, index, original, devices, expired>>

WNext ==
    \/ Remember
    \/ Join
    \/ JoinFails
    \/ Ask
    \/ Rejoin
    \/ Return
    \/ ContextEnds
    \/ LinkDrops

WSpec == WInit /\ [][WNext]_wifiVars

-----------------------------------------------------------------------------
(* The state of a scan and of the host's link.                               *)
WTypeOK ==
    /\ link \in {Home, Off} \cup AccessPoints
    /\ place \in {"next", "join", "ask", "rejoin", "returned"}
    /\ index \in 1 .. Len(APs) + 1
    /\ original \in {Home, Off} \cup AccessPoints
    /\ devices \subseteq [ssid : AccessPoints, answered : AccessPoints \cup {Off}]
    /\ expired \in BOOLEAN

(* One host, one link, many devices with one address: what is listed for an  *)
(* access point was said by it or read from its name, every access point is  *)
(* listed, and with no fault, a context that lives and no password needed    *)
(* the host is back on its network at the end.                               *)
WiFiSound ==
    /\ \A d \in devices : d.answered \in {Off, d.ssid}
    /\ place = "returned" =>
          /\ {d.ssid : d \in devices} = AccessPoints
          /\ faults = 0 /\ ~expired /\ ~home.password /\ home.was = Home => link = Home

(* Violated. "Ensure we reconnect to original network" (wifi.go:323): the    *)
(* way back needs a live context and no password, and when it fails the next *)
(* probe remembers the device's access point as the network to go back to.   *)
BackHome == place = "returned" => link = home.was
=============================================================================
