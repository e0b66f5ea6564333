---------------------------- MODULE MCDiscovery ----------------------------
(***************************************************************************)
(* The ways devices are found and listened to: a scan of addresses, the    *)
(* CoIoT listener, the discovery loops and the Wi-Fi probe.  A behaviour   *)
(* is in one of them (part); one set of device names serves all.           *)
(***************************************************************************)
EXTENDS AddressScan, TLC

CONSTANTS
    MaxStarts, MaxDatagrams, MaxHandlers,
    Devices, Capacity, MaxSessions,
    Home, APs, MaxFaults

VARIABLES part,
    listening, connection, shut, readers, arrived, waiting, workers, handlers, calls,
    kind, running, session, stopped, loops, channel, scanning, tardy,
    link, home, place, index, original, devices, expired, faults

listenerVars == <<listening, connection, shut, readers, arrived, waiting, workers,
                  handlers, calls>>
loopVars == <<kind, running, session, stopped, loops, channel, scanning, tardy>>
wifiVars == <<link, home, place, index, original, devices, expired, faults>>

\* A Gen1 device, a Gen3 one, and an address where nothing answers.
MCAddresses == <<"a", "b", "c">>
MCGeneration == "a" :> 1 @@ "b" :> 3 @@ "c" :> 0

MCAPs == <<"ap1", "ap2">>

Listener == INSTANCE CoIoTListener
                WITH running <- listening, session <- connection, stopped <- shut,
                     loops <- readers
Discovery == INSTANCE DiscoveryLoops WITH late <- tardy
WiFi == INSTANCE WiFiProbe

\* The host's own network is none of the devices'.
ASSUME DiscoveryAssumption ==
    /\ MaxDatagrams \in Nat
    /\ APs \in Seq(WiFi!AccessPoints)
    /\ Home # WiFi!Off /\ {Home, WiFi!Off} \cap WiFi!AccessPoints = {}

MCInit ==
    /\ part \in {"scan", "listener", "discovery", "wifi"}
    /\ ScanInit /\ Listener!CInit /\ Discovery!DInit /\ WiFi!WInit
    /\ part # "scan" => pool = "zigbee"
    /\ part # "discovery" => kind = "ble"
    /\ part # "wifi" => ~home.password /\ link = "home"

MCNext ==
    \/ part = "scan" /\ ScanNext /\ UNCHANGED <<part, listenerVars, loopVars, wifiVars>>
    \/ part = "listener" /\ Listener!CNext /\ UNCHANGED <<part, scanVars, loopVars, wifiVars>>
    \/ part = "discovery" /\ Discovery!DNext
       /\ UNCHANGED <<part, scanVars, listenerVars, wifiVars>>
    \/ part = "wifi" /\ WiFi!WNext /\ UNCHANGED <<part, scanVars, listenerVars, loopVars>>

MCSpec ==
    /\ MCInit /\ [][MCNext]_<<part, scanVars, listenerVars, loopVars, wifiVars>>
    /\ part = "scan" => ScanFair
    /\ part = "listener" => Listener!CFair
    /\ part = "discovery" => Discovery!DFair

\* A scan returns, except the zigbee one whose context ended (zigbee.go:341-391,
\* identify.go:205-345, main.go:330-380).
ScanEnds == part = "scan" => ScanReturns

\* A handler is given the datagram its goroutine was started for or a later one, never an
\* earlier one or none, and no loop reads from a connection older than itself
\* (coiot.go:189, 218).
NeverOlder == Listener!NeverOlder

\* When the listener is stopped and not started again, every read loop ends
\* (coiot.go:200).
LoopsEnd == Listener!LoopsEnd

\* A discovery that is stopped and not started again comes to rest, although nobody reads
\* its channel and a scan may begin after the Stop that should have prevented it
\* (types.go:67, ble.go:490).
DiscoveryStops == Discovery!DiscoveryStops

\* What is listed for an access point was said by it, every access point is listed, and
\* without a fault the host is back on its network (wifi.go:280-330).
WiFiSound == WiFi!WiFiSound
=============================================================================
