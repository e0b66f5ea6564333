-------------------------- MODULE Discovery_proofs --------------------------
(***************************************************************************)
(* Theorems about how devices are found: the scans of addresses, the CoIoT *)
(* listener and the Wi-Fi probe, for any addresses, slots and lost         *)
(* answers, any starts and datagrams, any access points and faults.        *)
(***************************************************************************)
EXTENDS MCDiscovery, Integers, FiniteSetTheorems, TLAPS

-----------------------------------------------------------------------------
(* WiFiProbe.                                                              *)

Networks == {Home, WiFi!Off} \cup WiFi!AccessPoints

WiFiTyped ==
    /\ place \in {"next", "join", "ask", "rejoin", "returned"}
    /\ index \in 1 .. Len(APs) + 1
    /\ place \in {"join", "ask", "rejoin"} => index <= Len(APs)
    /\ place = "returned" => index = Len(APs) + 1
    /\ link \in Networks /\ original \in Networks /\ home.was \in {Home, WiFi!Off}
    /\ expired \in BOOLEAN /\ faults \in Nat

\* The access points before the one the scan is at are listed, and no other, each
\* with what it said itself; the one that is asked is that of the link, if any is.
Listed ==
    /\ {d.ssid : d \in devices} =
          {APs[i] : i \in 1 .. (IF place = "rejoin" THEN index ELSE index - 1)}
    /\ \A d \in devices : d.answered \in {WiFi!Off, d.ssid}
    /\ place = "ask" => link \in {APs[index], Home, WiFi!Off}

\* Where the host and its way back are while nothing went wrong.
Untroubled == faults = 0 /\ ~expired /\ ~home.password /\ home.was = Home
WayBack ==
    Untroubled =>
        /\ place \in {"next", "join", "returned"} => link = Home
        /\ place \in {"join", "ask", "rejoin"} => original = Home

WiFiInv == WiFiTyped /\ Listed /\ WayBack

LEMMA WiFiInit == WiFi!WInit => WiFiInv
<1> SUFFICES ASSUME WiFi!WInit PROVE WiFiInv
  OBVIOUS
<1>0. Len(APs) \in Nat
  BY DiscoveryAssumption
<1>1. /\ place = "next" /\ index = 1 /\ original = WiFi!Off /\ devices = {}
      /\ expired = FALSE /\ faults = 0 /\ link \in {Home, WiFi!Off} /\ home.was = link
  BY DEF WiFi!WInit
<1>2. WiFiTyped
  <2>1. index \in 1 .. Len(APs) + 1 /\ faults \in Nat
    BY <1>0, <1>1
  <2> QED
    BY <1>1, <2>1 DEF WiFiTyped, Networks
<1>3. Listed
  <2>1. 1 .. (index - 1) = {}
    BY <1>1
  <2> QED
    BY <1>1, <2>1 DEF Listed
<1>4. WayBack
  BY <1>1 DEF WayBack, Untroubled
<1> QED
  BY <1>2, <1>3, <1>4 DEF WiFiInv

\* Whoever answers for an access point, the list grows by it.
LEMMA WiFiLists ==
    ASSUME WiFiInv, place \in {"join", "ask"}, NEW answered \in {WiFi!Off, APs[index]},
           WiFi!ListDevice(answered)
    PROVE  /\ {d.ssid : d \in devices'} = {APs[i] : i \in 1 .. index}
           /\ \A d \in devices' : d.answered \in {WiFi!Off, d.ssid}
<1>1. index \in Nat /\ index >= 1
  BY DiscoveryAssumption DEF WiFiInv, WiFiTyped
<1> DEFINE new == [ssid |-> APs[index], answered |-> answered]
<1>2. devices' = devices \cup {new} /\ new.ssid = APs[index] /\ new.answered = answered
  BY DEF WiFi!ListDevice, WiFi!AP
<1> HIDE DEF new
<1>3. {d.ssid : d \in devices} = {APs[i] : i \in 1 .. (index - 1)}
  BY DEF WiFiInv, Listed
<1>4. {d.ssid : d \in devices'} = {d.ssid : d \in devices} \cup {APs[index]}
  BY <1>2
<1>5. 1 .. index = (1 .. (index - 1)) \cup {index}
  BY <1>1
<1>6. {APs[i] : i \in 1 .. index} = {APs[i] : i \in 1 .. (index - 1)} \cup {APs[index]}
  BY <1>5
<1> QED
  BY <1>2, <1>3, <1>4, <1>6 DEF WiFiInv, Listed

LEMMA WiFiStep == WiFiInv /\ [WiFi!WNext]_wifiVars => WiFiInv'
<1> SUFFICES ASSUME WiFiInv, [WiFi!WNext]_wifiVars PROVE WiFiInv'
  OBVIOUS
<1>t. /\ Len(APs) \in Nat /\ index \in Nat /\ index >= 1 /\ index <= Len(APs) + 1
      /\ \A i \in 1 .. Len(APs) : APs[i] \in WiFi!AccessPoints
      /\ faults \in Nat /\ WiFi!Off \in Networks /\ Home \in Networks
      /\ Home # WiFi!Off
      /\ Home \notin WiFi!AccessPoints /\ WiFi!Off \notin WiFi!AccessPoints
  <2>1. Len(APs) \in Nat /\ \A i \in 1 .. Len(APs) : APs[i] \in WiFi!AccessPoints
    BY DiscoveryAssumption
  <2> QED
    BY <2>1, DiscoveryAssumption DEF WiFiInv, WiFiTyped, Networks
<1>1. CASE WiFi!Remember
  <2>1. /\ place = "next" /\ index <= Len(APs) /\ place' = "join"
        /\ original' = IF expired THEN WiFi!Off ELSE link
        /\ UNCHANGED <<link, home, index, devices, expired, faults>>
    BY <1>1 DEF WiFi!Remember
  <2> QED
    BY <1>t, <2>1 DEF WiFiInv, WiFiTyped, Listed, WayBack, Untroubled
<1>2. CASE WiFi!Join
  <2>1. /\ place = "join" /\ ~expired /\ link' = APs[index] /\ place' = "ask"
        /\ UNCHANGED <<home, index, original, devices, expired, faults>>
    BY <1>2 DEF WiFi!Join, WiFi!AP
  <2>2. APs[index] \in Networks
    BY <1>t, <2>1 DEF WiFiInv, WiFiTyped, Networks
  <2> QED
    BY <1>t, <2>1, <2>2 DEF WiFiInv, WiFiTyped, Listed, WayBack, Untroubled
<1>3. CASE WiFi!JoinFails
  <2>1. /\ place = "join" /\ index' = index + 1 /\ place' = "next"
        /\ WiFi!ListDevice(WiFi!Off)
        /\ \/ expired /\ UNCHANGED <<link, faults>>
           \/ faults' = faults + 1 /\ link' \in {link, WiFi!Off}
        /\ UNCHANGED <<home, original, expired>>
    BY <1>3 DEF WiFi!JoinFails, WiFi!NextNetwork
  <2>2. /\ {d.ssid : d \in devices'} = {APs[i] : i \in 1 .. index}
        /\ \A d \in devices' : d.answered \in {WiFi!Off, d.ssid}
    BY <2>1, WiFiLists
  <2>3. WiFiTyped' /\ index' - 1 = index
    BY <1>t, <2>1 DEF WiFiInv, WiFiTyped
  <2>4. Listed'
    BY <2>1, <2>2, <2>3 DEF Listed
  <2>5. WayBack'
    BY <1>t, <2>1 DEF WiFiInv, WayBack, Untroubled
  <2> QED
    BY <2>3, <2>4, <2>5 DEF WiFiInv
<1>4. CASE WiFi!Ask
  <2> DEFINE answered == IF expired \/ link \notin WiFi!AccessPoints THEN WiFi!Off ELSE link
  <2>1. /\ place = "ask" /\ place' = "rejoin" /\ WiFi!ListDevice(answered)
        /\ UNCHANGED <<link, home, index, original, expired, faults>>
    BY <1>4 DEF WiFi!Ask
  <2>2. answered \in {WiFi!Off, APs[index]}
    BY <1>t, <2>1 DEF WiFiInv, Listed
  <2> HIDE DEF answered
  <2>3. /\ {d.ssid : d \in devices'} = {APs[i] : i \in 1 .. index}
        /\ \A d \in devices' : d.answered \in {WiFi!Off, d.ssid}
    BY <2>1, <2>2, WiFiLists
  <2> QED
    BY <1>t, <2>1, <2>3 DEF WiFiInv, WiFiTyped, Listed, WayBack, Untroubled
<1>5. CASE WiFi!Rejoin
  <2>1. /\ place = "rejoin" /\ index' = index + 1 /\ place' = "next"
        /\ link' = IF original = WiFi!Off \/ expired THEN link
                   ELSE IF original = Home /\ home.password THEN WiFi!Off ELSE original
        /\ UNCHANGED <<home, original, devices, expired, faults>>
    BY <1>5 DEF WiFi!Rejoin, WiFi!NextNetwork
  <2>2. WiFiTyped' /\ index' - 1 = index
    BY <1>t, <2>1 DEF WiFiInv, WiFiTyped
  <2>3. Listed'
    BY <2>1, <2>2 DEF WiFiInv, Listed
  <2>4. WayBack'
    BY <1>t, <2>1 DEF WiFiInv, WayBack, Untroubled
  <2> QED
    BY <2>2, <2>3, <2>4 DEF WiFiInv
<1>6. CASE WiFi!Return
  <2>1. /\ place = "next" /\ index > Len(APs) /\ place' = "returned"
        /\ UNCHANGED <<link, home, index, original, devices, expired, faults>>
    BY <1>6 DEF WiFi!Return
  <2>2. WiFiTyped'
    BY <1>t, <2>1 DEF WiFiInv, WiFiTyped
  <2>3. Listed' /\ WayBack'
    BY <2>1 DEF WiFiInv, Listed, WayBack, Untroubled
  <2> QED
    BY <2>2, <2>3 DEF WiFiInv
<1>7. CASE WiFi!ContextEnds
  BY <1>t, <1>7 DEF WiFi!ContextEnds, WiFiInv, WiFiTyped, Listed, WayBack, Untroubled
<1>8. CASE WiFi!LinkDrops
  <2>1. /\ place = "ask" /\ faults' = faults + 1 /\ link' \in {WiFi!Off, home.was}
        /\ UNCHANGED <<home, place, index, original, devices, expired>>
    BY <1>8 DEF WiFi!LinkDrops
  <2>2. link' \in {Home, WiFi!Off}
    BY <2>1 DEF WiFiInv, WiFiTyped
  <2>3. WiFiTyped'
    BY <1>t, <2>1, <2>2 DEF WiFiInv, WiFiTyped, Networks
  <2>4. Listed'
    BY <2>1, <2>2 DEF WiFiInv, Listed
  <2>5. WayBack'
    BY <1>t, <2>1 DEF WiFiInv, WayBack, Untroubled
  <2> QED
    BY <2>3, <2>4, <2>5 DEF WiFiInv
<1>9. CASE UNCHANGED wifiVars
  BY <1>9 DEF wifiVars, WiFiInv, WiFiTyped, Listed, WayBack, Untroubled
<1> QED
  BY <1>1, <1>2, <1>3, <1>4, <1>5, <1>6, <1>7, <1>8, <1>9 DEF WiFi!WNext

LEMMA WiFiHolds == WiFiInv => WiFi!WiFiSound
<1> SUFFICES ASSUME WiFiInv PROVE WiFi!WiFiSound
  OBVIOUS
<1>1. ASSUME place = "returned" PROVE {d.ssid : d \in devices} = WiFi!AccessPoints
  <2>1. index - 1 = Len(APs)
    BY <1>1, DiscoveryAssumption DEF WiFiInv, WiFiTyped
  <2>2. DOMAIN APs = 1 .. Len(APs)
    BY DiscoveryAssumption
  <2>3. {d.ssid : d \in devices} = {APs[i] : i \in 1 .. (index - 1)}
    BY <1>1 DEF WiFiInv, Listed
  <2> QED
    BY <2>1, <2>2, <2>3 DEF WiFi!AccessPoints
<1> QED
  BY <1>1 DEF WiFi!WiFiSound, WiFiInv, Listed, WayBack, Untroubled

-----------------------------------------------------------------------------
(* CoIoTListener.                                                          *)

LoopType == [at : {"test", "read", "ended"}, of : Nat, buf : Nat]
WorkerType == [loop : Nat, about : Nat, reads : Nat, at : {"parse", "call"}]

ListenerTyped ==
    /\ connection \in Nat /\ arrived \in 0 .. MaxDatagrams
    /\ readers \in [1 .. connection -> LoopType]
    /\ waiting \in [1 .. connection -> SUBSET (1 .. arrived)]
    /\ workers \subseteq WorkerType
    /\ \A w \in workers : w.loop \in 1 .. connection
    /\ \A l \in 1 .. connection : readers[l].at = "read" => readers[l].of \in 1 .. connection

\* Only the connection of the last Start is open, and what waits on it is later than
\* what any loop has in its buffer.
Fresh ==
    /\ \A s \in 1 .. connection :
          s # connection \/ ~listening => s \in shut /\ waiting[s] = {}
    /\ \A l \in 1 .. connection : readers[l].buf <= arrived
    /\ \A l, s \in 1 .. connection : \A x \in waiting[s] : readers[l].buf < x

\* A goroutine is about a datagram its loop has read, and reads that or a later one.
Later ==
    \A w \in workers : w.about <= readers[w.loop].buf /\ (w.at = "call" => w.about <= w.reads)

ListenerInv == ListenerTyped /\ Fresh /\ Later /\ NeverOlder

LEMMA ListenerInit == Listener!CInit => ListenerInv
<1> SUFFICES ASSUME Listener!CInit PROVE ListenerInv
  OBVIOUS
<1>1. /\ connection = 0 /\ arrived = 0 /\ workers = {} /\ calls = {} /\ 1 .. connection = {}
      /\ readers = [l \in {} |-> 0] /\ waiting = [s \in {} |-> {}] /\ listening = FALSE
  BY DEF Listener!CInit
<1>2. ListenerTyped
  BY <1>1, DiscoveryAssumption DEF ListenerTyped
<1> QED
  BY <1>1, <1>2 DEF ListenerInv, Fresh, Later, NeverOlder, Listener!NeverOlder

LEMMA ListenerStep == ListenerInv /\ [Listener!CNext]_listenerVars => ListenerInv'
<1> SUFFICES ASSUME ListenerInv, [Listener!CNext]_listenerVars PROVE ListenerInv'
  OBVIOUS
<1>t. /\ connection \in Nat /\ arrived \in 0 .. MaxDatagrams /\ MaxDatagrams \in Nat
      /\ arrived \in Nat
      /\ readers \in [1 .. connection -> LoopType]
      /\ waiting \in [1 .. connection -> SUBSET (1 .. arrived)]
      /\ workers \subseteq WorkerType
      /\ \A w \in workers : w.loop \in 1 .. connection
  BY DiscoveryAssumption DEF ListenerInv, ListenerTyped
<1>u. \A l \in 1 .. connection : readers[l].at = "read" => readers[l].of \in 1 .. connection
  BY DEF ListenerInv, ListenerTyped
<1>f. /\ \A s \in 1 .. connection :
            s # connection \/ ~listening => s \in shut /\ waiting[s] = {}
      /\ \A l \in 1 .. connection : readers[l].buf <= arrived
      /\ \A l, s \in 1 .. connection : \A x \in waiting[s] : readers[l].buf < x
  BY DEF ListenerInv, Fresh
<1>l. \A w \in workers : w.about <= readers[w.loop].buf /\ (w.at = "call" => w.about <= w.reads)
  BY DEF ListenerInv, Later
<1>n. /\ \A c \in calls : c[1] <= c[2]
      /\ \A l \in DOMAIN readers : readers[l].at = "read" => readers[l].of >= l
  BY DEF ListenerInv, NeverOlder, Listener!NeverOlder
<1>1. CASE Listener!OnStatus \/ UNCHANGED listenerVars
  BY <1>1 DEF Listener!OnStatus, listenerVars, ListenerInv, ListenerTyped, Fresh, Later,
              NeverOlder, Listener!NeverOlder
<1>2. CASE Listener!Start
  <2> DEFINE new == connection + 1
  <2>1. /\ ~listening /\ listening' /\ connection' = new
        /\ readers' = [l \in DOMAIN readers \cup {new} |->
               IF l \in DOMAIN readers THEN readers[l] ELSE [at |-> "test", of |-> 0, buf |-> 0]]
        /\ waiting' = [s \in DOMAIN waiting \cup {new} |->
               IF s \in DOMAIN waiting THEN waiting[s] ELSE {}]
        /\ UNCHANGED <<shut, arrived, workers, calls>>
    BY <1>2 DEF Listener!Start
  <2>2. 1 .. new = (1 .. connection) \cup {new} /\ new \notin 1 .. connection /\ new \in Nat
    BY <1>t
  <2> HIDE DEF new
  <2>3. /\ DOMAIN readers' = 1 .. new /\ DOMAIN waiting' = 1 .. new
        /\ \A l \in 1 .. connection : readers'[l] = readers[l] /\ waiting'[l] = waiting[l]
        /\ readers'[new] = [at |-> "test", of |-> 0, buf |-> 0] /\ waiting'[new] = {}
    BY <1>t, <2>1, <2>2
  <2>4. readers' \in [1 .. new -> LoopType]
    <3>1. readers'[new] \in LoopType
      BY <2>3 DEF LoopType
    <3> QED
      BY <1>t, <2>1, <2>2, <2>3, <3>1
  <2>5. waiting' \in [1 .. new -> SUBSET (1 .. arrived)]
    BY <1>t, <2>1, <2>2, <2>3
  <2>6. ListenerTyped'
    BY <1>t, <1>u, <2>1, <2>2, <2>3, <2>4, <2>5 DEF ListenerTyped
  <2>7. \A s \in 1 .. new : waiting'[s] = {}
    BY <1>f, <2>1, <2>2, <2>3
  <2>8. Fresh'
    <3>1. \A l \in 1 .. new : readers'[l].buf <= arrived
      BY <1>t, <1>f, <2>2, <2>3
    <3>2. \A m \in 1 .. new : m # new \/ ~listening' => m \in shut
      BY <1>f, <2>1, <2>2
    <3> QED
      BY <2>1, <2>7, <3>1, <3>2 DEF Fresh
  <2>9. Later'
    BY <1>t, <1>l, <2>1, <2>2, <2>3 DEF Later
  <2>10. NeverOlder'
    BY <1>t, <1>n, <2>1, <2>2, <2>3 DEF NeverOlder, Listener!NeverOlder
  <2> QED
    BY <2>6, <2>8, <2>9, <2>10 DEF ListenerInv
<1>3. CASE Listener!Stop
  <2>1. /\ listening /\ ~listening' /\ shut' = shut \cup {connection}
        /\ waiting' = [waiting EXCEPT ![connection] = {}]
        /\ UNCHANGED <<connection, readers, arrived, workers, calls>>
    BY <1>3 DEF Listener!Stop
  <2>2. /\ waiting' \in [1 .. connection -> SUBSET (1 .. arrived)]
        /\ \A s \in 1 .. connection : waiting'[s] = {}
    BY <1>t, <1>f, <2>1
  <2> QED
    BY <1>t, <1>f, <1>l, <1>n, <2>1, <2>2
       DEF ListenerInv, ListenerTyped, Fresh, Later, NeverOlder, Listener!NeverOlder
<1>4. CASE Listener!Datagram
  <2>1. /\ arrived < MaxDatagrams /\ arrived' = arrived + 1
        /\ waiting' = [s \in DOMAIN waiting |->
                         IF s \in shut THEN waiting[s] ELSE waiting[s] \cup {arrived + 1}]
        /\ UNCHANGED <<listening, connection, shut, readers, workers, calls>>
    BY <1>4 DEF Listener!Datagram
  <2>2. arrived' \in 0 .. MaxDatagrams /\ 1 .. arrived' = (1 .. arrived) \cup {arrived'}
    BY <1>t, <2>1
  <2>3. waiting' \in [1 .. connection -> SUBSET (1 .. arrived')]
    BY <1>t, <2>1, <2>2
  <2>4. ListenerTyped'
    BY <1>t, <1>u, <2>1, <2>2, <2>3 DEF ListenerTyped
  <2>5. \A s \in 1 .. connection : s # connection \/ ~listening => waiting'[s] = {}
    BY <1>t, <1>f, <2>1
  <2>6. \A l, s \in 1 .. connection : \A x \in waiting'[s] : readers[l].buf < x
    <3> SUFFICES ASSUME NEW l \in 1 .. connection, NEW s \in 1 .. connection,
                        NEW x \in waiting'[s]
                 PROVE  readers[l].buf < x
      OBVIOUS
    <3>1. x \in waiting[s] \/ x = arrived + 1
      BY <1>t, <2>1
    <3>2. readers[l].buf \in Nat
      BY <1>t DEF LoopType
    <3> QED
      BY <1>t, <1>f, <3>1, <3>2
  <2>7. Fresh'
    <3>1. \A l \in 1 .. connection : readers[l].buf <= arrived'
      BY <1>t, <1>f, <2>1 DEF LoopType
    <3> QED
      BY <1>f, <2>1, <2>5, <2>6, <3>1 DEF Fresh
  <2> QED
    BY <1>l, <1>n, <2>1, <2>4, <2>7 DEF ListenerInv, Later, NeverOlder, Listener!NeverOlder
<1>5. ASSUME NEW l \in DOMAIN readers, Listener!TestStop(l) \/ Listener!ReadFails(l)
      PROVE  ListenerInv'
  <2>1. /\ UNCHANGED <<listening, connection, shut, arrived, waiting, workers, calls>>
        /\ l \in 1 .. connection
    BY <1>5, <1>t DEF Listener!TestStop, Listener!ReadFails
  <2>2. PICK r \in LoopType : /\ readers' = [readers EXCEPT ![l] = r] /\ r.buf = readers[l].buf
                              /\ r.at = "read" => r.of >= l /\ r.of \in 1 .. connection
    <3>1. readers[l] \in LoopType
      BY <1>t
    <3>2. CASE Listener!TestStop(l) /\ connection \in shut
      <4> DEFINE r == [readers[l] EXCEPT !.at = "ended"]
      <4>0. r \in LoopType /\ r.buf = readers[l].buf
            /\ (r.at = "read" => r.of >= l /\ r.of \in 1 .. connection)
        BY <1>t, <2>1, <3>1 DEF LoopType
      <4>1. readers' = [readers EXCEPT ![l] = r]
        BY <3>2 DEF Listener!TestStop
      <4> QED
        BY <4>0, <4>1
    <3>3. CASE Listener!TestStop(l) /\ connection \notin shut
      <4> DEFINE r == [readers[l] EXCEPT !.at = "read", !.of = connection]
      <4>c. connection \in Nat /\ connection >= l /\ connection \in 1 .. connection
        BY <1>t, <2>1
      <4>0. r \in LoopType /\ r.buf = readers[l].buf
            /\ (r.at = "read" => r.of >= l /\ r.of \in 1 .. connection)
        BY <4>c, <3>1 DEF LoopType
      <4>1. readers' = [readers EXCEPT ![l] = r]
        BY <3>3 DEF Listener!TestStop
      <4> QED
        BY <4>0, <4>1
    <3>4. CASE Listener!ReadFails(l)
      <4> DEFINE r == [readers[l] EXCEPT !.at = "test"]
      <4>0. r \in LoopType /\ r.buf = readers[l].buf
            /\ (r.at = "read" => r.of >= l /\ r.of \in 1 .. connection)
        BY <1>t, <2>1, <3>1 DEF LoopType
      <4>1. readers' = [readers EXCEPT ![l] = r]
        BY <3>4 DEF Listener!ReadFails
      <4> QED
        BY <4>0, <4>1
    <3> QED
      BY <1>5, <3>2, <3>3, <3>4
  <2>3. /\ readers' \in [1 .. connection -> LoopType] /\ readers'[l] = r
        /\ \A m \in 1 .. connection : readers'[m].buf = readers[m].buf
        /\ \A m \in 1 .. connection : m # l => readers'[m] = readers[m]
    BY <1>t, <2>1, <2>2
  <2>4. ListenerTyped'
    BY <1>t, <1>u, <2>1, <2>2, <2>3 DEF ListenerTyped
  <2>5. Fresh' /\ Later'
    BY <1>t, <1>f, <1>l, <2>1, <2>3 DEF Fresh, Later
  <2>6. NeverOlder'
    BY <1>t, <1>n, <2>1, <2>2, <2>3 DEF NeverOlder, Listener!NeverOlder
  <2> QED
    BY <2>4, <2>5, <2>6 DEF ListenerInv
<1>6. ASSUME NEW l \in DOMAIN readers, Listener!Read(l) PROVE ListenerInv'
  <2> DEFINE s == readers[l].of
  <2>1. PICK d \in waiting[s] :
           /\ \A x \in waiting[s] : d <= x
           /\ waiting' = [waiting EXCEPT ![s] = @ \ {d}]
           /\ readers' = [readers EXCEPT ![l].at = "test", ![l].buf = d]
           /\ workers' = workers \cup {[loop |-> l, about |-> d, reads |-> 0, at |-> "parse"]}
    BY <1>6 DEF Listener!Read
  <2>2. UNCHANGED <<listening, connection, shut, arrived, calls>> /\ l \in 1 .. connection
    BY <1>6, <1>t DEF Listener!Read
  <2>3. s \in 1 .. connection /\ readers[l].at = "read"
    BY <1>6, <1>u, <2>2 DEF Listener!Read
  <2>4. d \in 1 .. arrived
    BY <1>t, <2>1, <2>3
  <2> DEFINE r == [readers[l] EXCEPT !.at = "test", !.buf = d]
             w1 == [loop |-> l, about |-> d, reads |-> 0, at |-> "parse"]
  <2>5. r \in LoopType /\ r.at = "test" /\ r.buf = d /\ readers' = [readers EXCEPT ![l] = r]
    <3>1. readers[l] \in LoopType /\ d \in Nat
      BY <1>t, <2>2, <2>4
    <3> QED
      BY <2>1, <2>2, <3>1 DEF LoopType
  <2>6. w1 \in WorkerType /\ w1.loop = l /\ w1.about = d /\ w1.at = "parse"
    BY <2>2, <2>4, <1>t DEF WorkerType
  <2>7. workers' = workers \cup {w1}
    BY <2>1
  <2> HIDE DEF s, r, w1
  <2>8. /\ readers' \in [1 .. connection -> LoopType] /\ readers'[l] = r
        /\ \A m \in 1 .. connection : m # l => readers'[m] = readers[m]
    BY <1>t, <2>2, <2>5
  <2>9. /\ waiting' \in [1 .. connection -> SUBSET (1 .. arrived)]
        /\ waiting'[s] = waiting[s] \ {d}
        /\ \A m \in 1 .. connection : m # s => waiting'[m] = waiting[m]
    BY <1>t, <2>1, <2>3
  <2>10. ListenerTyped'
    <3>1. \A w \in workers' : w.loop \in 1 .. connection
      BY <1>t, <2>2, <2>6, <2>7
    <3>2. workers' \subseteq WorkerType
      BY <1>t, <2>6, <2>7
    <3>3. \A m \in 1 .. connection : readers'[m].at = "read" => readers'[m].of \in 1 .. connection
      BY <1>u, <2>5, <2>8
    <3> QED
      BY <1>t, <2>2, <2>8, <2>9, <3>1, <3>2, <3>3 DEF ListenerTyped
  <2>11. \A m \in 1 .. connection : m # s => waiting'[m] = {}
    BY <1>f, <2>3, <2>1, <2>9
  <2>12. Fresh'
    <3>1. \A m \in 1 .. connection : readers'[m].buf <= arrived
      BY <1>t, <1>f, <2>4, <2>5, <2>8
    <3>2. \A m \in 1 .. connection : \A x \in waiting'[s] : readers'[m].buf < x
      <4> SUFFICES ASSUME NEW m \in 1 .. connection, NEW x \in waiting'[s]
                   PROVE  readers'[m].buf < x
        OBVIOUS
      <4>1. x \in waiting[s] /\ x # d /\ d <= x /\ x \in Nat /\ d \in Nat
        BY <1>t, <2>1, <2>3, <2>4, <2>9
      <4>2. CASE m = l
        BY <2>5, <2>8, <4>1, <4>2
      <4>3. CASE m # l
        BY <1>f, <2>3, <2>8, <4>1, <4>3
      <4> QED
        BY <4>2, <4>3
    <3>3. \A m, n \in 1 .. connection : \A x \in waiting'[n] : readers'[m].buf < x
      BY <2>11, <3>2
    <3>4. \A n \in 1 .. connection : n # connection \/ ~listening => n \in shut /\ waiting'[n] = {}
      BY <1>f, <2>1, <2>3, <2>9
    <3> QED
      BY <2>2, <3>1, <3>3, <3>4 DEF Fresh
  <2>13. Later'
    <3>1. \A m \in 1 .. connection : readers[m].buf <= readers'[m].buf
      <4>1. readers[l].buf < d /\ readers[l].buf \in Nat /\ d \in Nat
        BY <1>t, <1>f, <2>2, <2>1, <2>3, <2>4 DEF LoopType
      <4>2. \A m \in 1 .. connection : readers[m].buf \in Nat
        BY <1>t DEF LoopType
      <4> QED
        BY <2>5, <2>8, <4>1, <4>2
    <3>2. ASSUME NEW w \in workers
          PROVE  w.about <= readers'[w.loop].buf /\ (w.at = "call" => w.about <= w.reads)
      <4>1. w.loop \in 1 .. connection /\ w.about \in Nat
        BY <1>t DEF WorkerType
      <4>2. readers[w.loop].buf \in Nat /\ readers'[w.loop].buf \in Nat
        BY <1>t, <2>8, <4>1 DEF LoopType
      <4> QED
        BY <1>l, <3>1, <4>1, <4>2
    <3>3. w1.about <= readers'[w1.loop].buf /\ w1.at # "call"
      BY <2>4, <2>5, <2>6, <2>8
    <3> QED
      BY <2>7, <3>2, <3>3 DEF Later
  <2>14. NeverOlder'
    BY <1>t, <1>n, <2>2, <2>5, <2>8 DEF NeverOlder, Listener!NeverOlder
  <2> QED
    BY <2>10, <2>12, <2>13, <2>14 DEF ListenerInv
<1>7. ASSUME NEW w \in workers, Listener!Parse(w) PROVE ListenerInv'
  <2> DEFINE now == readers[w.loop].buf
  <2>1. /\ w.at = "parse"
        /\ \/ \E r \in {now, Listener!Torn} :
                workers' = (workers \ {w}) \cup {[w EXCEPT !.at = "call", !.reads = r]}
           \/ workers' = workers \ {w}
        /\ UNCHANGED <<listening, connection, shut, readers, arrived, waiting, calls>>
    BY <1>7 DEF Listener!Parse
  <2>2. /\ w \in WorkerType /\ w.loop \in 1 .. connection /\ w.about <= now
        /\ w.about \in Nat /\ now \in Nat /\ now <= arrived
    BY <1>t, <1>f, <1>l DEF WorkerType, LoopType
  <2>3. Listener!Torn \in Nat /\ w.about <= Listener!Torn
    BY <1>t, <2>2 DEF Listener!Torn
  <2> HIDE DEF now
  <2>4. ASSUME NEW r \in {now, Listener!Torn}
        PROVE  LET v == [w EXCEPT !.at = "call", !.reads = r]
               IN  v \in WorkerType /\ v.loop = w.loop /\ v.about = w.about
                   /\ v.at = "call" /\ v.reads = r /\ v.about <= v.reads
    <3>1. r \in Nat /\ w.about <= r
      BY <2>2, <2>3
    <3> QED
      BY <2>2, <3>1 DEF WorkerType
  <2>5. \A v \in workers' : v \in WorkerType /\ v.loop \in 1 .. connection
          /\ v.about <= readers[v.loop].buf /\ (v.at = "call" => v.about <= v.reads)
    <3>1. CASE workers' = workers \ {w}
      BY <1>t, <1>l, <3>1
    <3>2. ASSUME NEW r \in {now, Listener!Torn},
                 workers' = (workers \ {w}) \cup {[w EXCEPT !.at = "call", !.reads = r]}
          PROVE  \A v \in workers' : v \in WorkerType /\ v.loop \in 1 .. connection
                    /\ v.about <= readers[v.loop].buf /\ (v.at = "call" => v.about <= v.reads)
      <4> DEFINE new == [w EXCEPT !.at = "call", !.reads = r]
      <4>1. new \in WorkerType /\ new.loop = w.loop /\ new.about = w.about
            /\ new.about <= new.reads
        BY <2>4
      <4>2. workers' = (workers \ {w}) \cup {new}
        BY <3>2
      <4> HIDE DEF new
      <4>3. new.about <= readers[new.loop].buf /\ new.loop \in 1 .. connection
        BY <2>2, <4>1 DEF now
      <4> QED
        BY <1>t, <1>l, <4>1, <4>2, <4>3
    <3> QED
      BY <2>1, <3>1, <3>2
  <2>6. ListenerTyped' /\ Later'
    BY <1>t, <1>u, <2>1, <2>5 DEF ListenerTyped, Later
  <2> QED
    BY <1>f, <1>n, <2>1, <2>6 DEF ListenerInv, Fresh, NeverOlder, Listener!NeverOlder
<1>8. ASSUME NEW w \in workers, Listener!Dispatch(w) PROVE ListenerInv'
  <2>1. /\ w.at = "call" /\ workers' = workers \ {w}
        /\ calls' = calls \/ calls' = calls \cup {<<w.about, w.reads>>}
        /\ UNCHANGED <<listening, connection, shut, readers, arrived, waiting>>
    BY <1>8 DEF Listener!Dispatch
  <2>2. \A c \in calls' : c[1] <= c[2]
    BY <1>l, <1>n, <2>1
  <2> QED
    BY <1>t, <1>u, <1>f, <1>l, <1>n, <2>1, <2>2
       DEF ListenerInv, ListenerTyped, Fresh, Later, NeverOlder, Listener!NeverOlder
<1> QED
  BY <1>1, <1>2, <1>3, <1>4, <1>5, <1>6, <1>7, <1>8 DEF Listener!CNext

-----------------------------------------------------------------------------
(* AddressScan.                                                            *)

Asked == {"found", "counted", "leaving", "gone"}
Holding == {a \in Targets : job[a] \in {"first", "second", "found", "counted", "leaving"}}
Least == IF pool = "zigbee" THEN 2 ELSE 1

ScanTyped ==
    /\ next \in 1 .. Len(Addresses) + 1
    /\ job \in [Targets -> {"idle", "queued", "first", "second"} \cup Asked]
    /\ slots \in Nat
    /\ \A i \in 1 .. Len(Addresses) : job[Addresses[i]] = "idle" <=> i >= next
    /\ returned => LoopOver /\ \A a \in Targets : job[a] \in {"idle", "gone"}

\* While the context lives, a slot is taken for every goroutine past the semaphore.
SlotsTaken == ~ended => slots = Cardinality(Holding) /\ slots <= Limit

\* What is found was asked, once; and who was asked and heard is found or has nothing.
Heard ==
    /\ \A d \in found : d.address \in Targets /\ job[d.address] \in Asked
    /\ \A d, e \in found : d.address = e.address => d = e
    /\ ~ended => \A a \in Targets \ lost :
          /\ job[a] = "second" => Generation[a] < 2 /\ pool # "zigbee"
          /\ job[a] \in Asked =>
                (Generation[a] >= Least <=>
                    [address |-> a, generation |-> Generation[a]] \in found)

ScanInv == ScanTyped /\ SlotsTaken /\ Heard

LEMMA TargetsFacts ==
    /\ Len(Addresses) \in Nat /\ DOMAIN Addresses = 1 .. Len(Addresses)
    /\ \A i \in 1 .. Len(Addresses) : Addresses[i] \in Targets
    /\ \A a \in Targets : \E i \in 1 .. Len(Addresses) : a = Addresses[i]
    /\ IsFiniteSet(Targets) /\ Limit \in Nat /\ Generation \in [Targets -> 0 .. 4]
<1>1. Len(Addresses) \in Nat /\ DOMAIN Addresses = 1 .. Len(Addresses)
      /\ Addresses \in [1 .. Len(Addresses) -> Targets]
  BY ScanAssumption
<1>2. /\ \A i \in 1 .. Len(Addresses) : Addresses[i] \in Targets
      /\ \A a \in Targets : \E i \in 1 .. Len(Addresses) : a = Addresses[i]
  BY <1>1 DEF Targets
<1>3. Addresses \in Surjection(1 .. Len(Addresses), Targets)
  BY <1>1, <1>2 DEF Surjection
<1>4. IsFiniteSet(Targets)
  BY <1>1, <1>3, FS_Interval, FS_Surjection
<1> QED
  BY <1>1, <1>2, <1>4, ScanAssumption

LEMMA ScanStarts == ScanInit => ScanInv
<1> SUFFICES ASSUME ScanInit PROVE ScanInv
  OBVIOUS
<1>1. /\ next = 1 /\ slots = 0 /\ found = {} /\ returned = FALSE
      /\ job = [a \in Targets |-> "idle"]
  BY DEF ScanInit
<1>2. ScanTyped
  BY <1>1, TargetsFacts DEF ScanTyped
<1>3. Holding = {}
  BY <1>1 DEF Holding
<1>4. SlotsTaken
  BY <1>1, <1>3, TargetsFacts, FS_EmptySet DEF SlotsTaken
<1>5. Heard
  BY <1>1 DEF Heard, Asked
<1> QED
  BY <1>2, <1>4, <1>5 DEF ScanInv

LEMMA HoldingFinite == IsFiniteSet(Holding) /\ Cardinality(Holding) \in Nat
BY TargetsFacts, FS_Subset, FS_CardinalityType DEF Holding

\* A goroutine at work goes from one place to another.
LEMMA GoroutineMoves ==
    ASSUME ScanInv, NEW a \in Targets, job[a] \notin {"idle", "gone"},
           NEW to \in {"first", "second"} \cup Asked, job' = [job EXCEPT ![a] = to],
           UNCHANGED <<pool, next, returned>>, slots' \in Nat
    PROVE  ScanTyped' /\ ~returned /\ job'[a] = to /\ \A b \in Targets \ {a} : job'[b] = job[b]
<1>1. job'[a] = to /\ \A b \in Targets \ {a} : job'[b] = job[b]
  BY DEF ScanInv, ScanTyped
<1>2. ~returned
  BY DEF ScanInv, ScanTyped
<1>3. \A b \in Targets : job'[b] = "idle" <=> job[b] = "idle"
  BY <1>1 DEF Asked
<1>4. ScanTyped'
  BY <1>2, <1>3, TargetsFacts DEF ScanInv, ScanTyped
<1> QED
  BY <1>1, <1>2, <1>4

\* It keeps the slot it has.
LEMMA SlotKept ==
    ASSUME ScanInv, NEW a \in Targets, a \in Holding,
           job'[a] \in {"first", "second", "found", "counted", "leaving"},
           \A b \in Targets \ {a} : job'[b] = job[b], UNCHANGED <<slots, ended>>
    PROVE  SlotsTaken'
<1>1. Holding' = Holding
  BY DEF Holding
<1> QED
  BY <1>1 DEF ScanInv, SlotsTaken

\* It goes on without having found anything.
LEMMA NothingFound ==
    ASSUME ScanInv, NEW a \in Targets, \A b \in Targets \ {a} : job'[b] = job[b],
           UNCHANGED <<pool, found>>, lost \subseteq lost', ended => ended',
           job[a] \in Asked => job'[a] \in Asked,
           ~ended' /\ a \notin lost' =>
               /\ job'[a] = "second" => Generation[a] < 2 /\ pool # "zigbee"
               /\ job'[a] \in Asked =>
                     job[a] \in Asked \/ Generation[a] < Least
    PROVE  Heard'
<1>1. Generation[a] \in 0 .. 4 /\ Least \in 1 .. 2 /\ Least' = Least
  BY TargetsFacts DEF Least
<1>2. \A d \in found : d.address \in Targets /\ job'[d.address] \in Asked
  BY DEF ScanInv, Heard
<1>3. ASSUME job[a] \notin Asked
      PROVE  [address |-> a, generation |-> Generation[a]] \notin found
  BY <1>3 DEF ScanInv, Heard
<1>4. ASSUME ~ended', a \notin lost', job'[a] \in Asked
      PROVE  Generation[a] >= Least <=> [address |-> a, generation |-> Generation[a]] \in found
  <2>1. CASE job[a] \in Asked
    BY <1>4, <2>1 DEF ScanInv, Heard
  <2>2. CASE job[a] \notin Asked
    BY <1>1, <1>3, <1>4, <2>2
  <2> QED
    BY <2>1, <2>2
<1>5. ASSUME NEW b \in Targets \ lost', ~ended'
      PROVE  /\ job'[b] = "second" => Generation[b] < 2 /\ pool # "zigbee"
             /\ job'[b] \in Asked =>
                   (Generation[b] >= Least <=>
                       [address |-> b, generation |-> Generation[b]] \in found)
  <2>1. CASE b = a
    BY <1>4, <1>5, <2>1
  <2>2. CASE b # a
    BY <1>5, <2>2 DEF ScanInv, Heard
  <2> QED
    BY <2>1, <2>2
<1> QED
  BY <1>1, <1>2, <1>5 DEF ScanInv, Heard

\* It found a device and has asked.
LEMMA DeviceFound ==
    ASSUME ScanInv, NEW a \in Targets, NEW g \in 1 .. 4, ~ended, Record(a, g),
           job[a] \in {"first", "second"}, UNCHANGED <<pool, lost, ended>>,
           a \notin lost => g = Generation[a] /\ g >= Least
    PROVE  Heard'
<1> DEFINE dev == [address |-> a, generation |-> g]
<1>1. found' = found \cup {dev} /\ dev.address = a /\ dev.generation = g
  BY DEF Record
<1>2. job'[a] \in Asked /\ job'[a] # "second" /\ \A b \in Targets \ {a} : job'[b] = job[b]
  BY DEF Record, AfterProbe, Asked, ScanInv, ScanTyped
<1>3. \A d \in found : d.address # a
  BY DEF ScanInv, Heard, Asked
<1>4. Least' = Least
  BY DEF Least
<1>5. ASSUME a \notin lost PROVE [address |-> a, generation |-> Generation[a]] = dev
  BY <1>5
<1> HIDE DEF dev
<1>6. \A d \in found' : d.address \in Targets /\ job'[d.address] \in Asked
  BY <1>1, <1>2 DEF ScanInv, Heard
<1>7. \A d, e \in found' : d.address = e.address => d = e
  BY <1>1, <1>3 DEF ScanInv, Heard
<1>8. ASSUME NEW b \in Targets \ lost
      PROVE  /\ job'[b] = "second" => Generation[b] < 2 /\ pool # "zigbee"
             /\ job'[b] \in Asked =>
                   (Generation[b] >= Least <=>
                       [address |-> b, generation |-> Generation[b]] \in found')
  <2>1. CASE b = a
    BY <1>1, <1>2, <1>5, <2>1
  <2>2. CASE b # a
    <3>1. [address |-> b, generation |-> Generation[b]] # dev
      BY <1>1, <2>2
    <3> QED
      BY <1>1, <1>2, <2>2, <3>1 DEF ScanInv, Heard
  <2> QED
    BY <2>1, <2>2
<1> QED
  BY <1>4, <1>6, <1>7, <1>8 DEF Heard

LEMMA ScanLaunch == ScanInv /\ Launch => ScanInv'
<1> SUFFICES ASSUME ScanInv, Launch PROVE ScanInv'
  OBVIOUS
<1> DEFINE a == Addresses[next]
<1>1. PICK to \in {"first", "queued"} :
        /\ next <= Len(Addresses) /\ job' = [job EXCEPT ![a] = to] /\ next' = next + 1
        /\ UNCHANGED <<pool, found, vetoed, ended, lost, returned>>
        /\ \/ to = "first" /\ pool # "identify" /\ slots < Limit /\ slots' = slots + 1
           \/ to = "first" /\ pool # "identify" /\ ended /\ UNCHANGED slots
           \/ to = "queued" /\ pool = "identify" /\ ~vetoed /\ UNCHANGED slots
  BY DEF Launch, LaunchWithSlot, LaunchWithoutSlot, LaunchUnlessVetoed
<1>2. /\ next \in 1 .. Len(Addresses) /\ Len(Addresses) \in Nat /\ a \in Targets
      /\ job \in [Targets -> {"idle", "queued", "first", "second"} \cup Asked] /\ slots \in Nat
      /\ \A i \in 1 .. Len(Addresses) : job[Addresses[i]] = "idle" <=> i >= next
  BY <1>1, TargetsFacts DEF ScanInv, ScanTyped
<1>3. \A i \in 1 .. Len(Addresses) : Addresses[i] = a => i = next
  BY <1>2, ScanAssumption, TargetsFacts
<1>4. job[a] = "idle"
  BY <1>2
<1>5. ~returned
  BY <1>1, <1>2 DEF ScanInv, ScanTyped, LoopOver
<1> HIDE DEF a
<1>6. job'[a] = to /\ \A b \in Targets \ {a} : job'[b] = job[b]
  BY <1>1, <1>2
<1>7. ScanTyped'
  <2>1. ASSUME NEW i \in 1 .. Len(Addresses)
        PROVE  job'[Addresses[i]] = "idle" <=> i >= next'
    <3>1. CASE i = next
      BY <1>1, <1>2, <1>6, <3>1 DEF a
    <3>2. CASE i # next
      <4>1. job'[Addresses[i]] = job[Addresses[i]]
        BY <1>3, <1>6, <3>2, TargetsFacts
      <4> QED
        BY <1>1, <1>2, <3>2, <4>1
    <3> QED
      BY <3>1, <3>2
  <2>2. /\ next' \in 1 .. Len(Addresses) + 1 /\ slots' \in Nat
        /\ job' \in [Targets -> {"idle", "queued", "first", "second"} \cup Asked]
    BY <1>1, <1>2, TargetsFacts
  <2> QED
    BY <1>1, <1>5, <2>1, <2>2 DEF ScanTyped
<1>8. SlotsTaken'
  <2> SUFFICES ASSUME ~ended PROVE slots' = Cardinality(Holding') /\ slots' <= Limit
    BY <1>1 DEF SlotsTaken
  <2>0. slots = Cardinality(Holding) /\ slots <= Limit /\ a \notin Holding
    BY <1>4 DEF ScanInv, SlotsTaken, Holding
  <2>1. CASE to = "first"
    <3>1. Holding' = Holding \cup {a}
      BY <1>2, <1>6, <2>1 DEF Holding
    <3>2. Cardinality(Holding') = Cardinality(Holding) + 1
      BY <2>0, <3>1, HoldingFinite, FS_AddElement
    <3> QED
      BY <1>1, <1>2, <2>0, <2>1, <3>2, TargetsFacts
  <2>2. CASE to = "queued"
    <3>1. Holding' = Holding
      BY <1>2, <1>4, <1>6, <2>2 DEF Holding
    <3> QED
      BY <1>1, <2>0, <2>2, <3>1
  <2> QED
    BY <2>1, <2>2
<1>9. Heard'
  <2>1. job'[a] \notin Asked /\ job'[a] # "second" /\ job[a] \notin Asked
    BY <1>4, <1>6 DEF Asked
  <2> QED
    BY <1>1, <1>2, <1>6, <2>1, NothingFound
<1> QED
  BY <1>7, <1>8, <1>9 DEF ScanInv

LEMMA ScanTakesSlot == ASSUME ScanInv, NEW a \in Targets, TakeSlot(a) PROVE ScanInv'
<1> DEFINE to == IF ended THEN "leaving" ELSE "first"
<1>1. /\ job[a] = "queued" /\ slots < Limit /\ slots' = slots + 1
      /\ job' = [job EXCEPT ![a] = to]
      /\ UNCHANGED <<pool, next, found, ended, lost, returned, vetoed>>
  BY DEF TakeSlot
<1>2. to \in {"first", "second"} \cup Asked /\ (~ended => to = "first") /\ slots' \in Nat
  BY <1>1 DEF Asked, ScanInv, ScanTyped
<1> HIDE DEF to
<1>3. ScanTyped' /\ job'[a] = to /\ \A b \in Targets \ {a} : job'[b] = job[b]
  BY <1>1, <1>2, GoroutineMoves
<1>4. SlotsTaken'
  <2> SUFFICES ASSUME ~ended PROVE slots' = Cardinality(Holding') /\ slots' <= Limit
    BY <1>1 DEF SlotsTaken
  <2>0. slots = Cardinality(Holding) /\ a \notin Holding /\ slots \in Nat
    BY <1>1 DEF ScanInv, ScanTyped, SlotsTaken, Holding
  <2>1. Holding' = Holding \cup {a}
    BY <1>2, <1>3 DEF Holding
  <2>2. Cardinality(Holding') = Cardinality(Holding) + 1
    BY <2>0, <2>1, HoldingFinite, FS_AddElement
  <2> QED
    BY <1>1, <2>0, <2>2, TargetsFacts
<1>5. Heard'
  <2>1. job[a] \notin Asked /\ (~ended' => job'[a] = "first") /\ "first" \notin Asked
    BY <1>1, <1>2, <1>3 DEF Asked
  <2> QED
    BY <1>1, <1>3, <2>1, NothingFound
<1> QED
  BY <1>3, <1>4, <1>5 DEF ScanInv

\* A question that is answered.
LEMMA ScanAnswers ==
    ASSUME ScanInv, NEW a \in Targets, FirstAnswer(a) \/ SecondAnswer(a)
    PROVE  ScanInv'
<1>0. Generation[a] \in 0 .. 4
  BY TargetsFacts
<1>1. /\ job[a] \in {"first", "second"} /\ ~ended
      /\ UNCHANGED <<pool, next, slots, vetoed, ended, lost, returned>>
  BY DEF FirstAnswer, SecondAnswer
<1>2. a \in Holding /\ slots \in Nat /\ job[a] \notin Asked
  BY <1>1 DEF Holding, ScanInv, ScanTyped, Asked
<1>3. ASSUME NEW g \in 1 .. 4, Record(a, g), a \notin lost => g = Generation[a] /\ g >= Least
      PROVE  ScanInv'
  <2>1. AfterProbe \in Asked /\ AfterProbe \in {"found", "leaving"}
        /\ job' = [job EXCEPT ![a] = AfterProbe]
    BY <1>3 DEF AfterProbe, Asked, Record
  <2>2. ScanTyped' /\ job'[a] = AfterProbe /\ \A b \in Targets \ {a} : job'[b] = job[b]
    BY <1>1, <1>2, <2>1, GoroutineMoves
  <2>3. SlotsTaken'
    BY <1>1, <1>2, <2>1, <2>2, SlotKept
  <2>4. Heard'
    BY <1>1, <1>3, DeviceFound
  <2> QED
    BY <2>2, <2>3, <2>4 DEF ScanInv
<1>4. ASSUME NEW to \in {"second", "found", "leaving"}, job' = [job EXCEPT ![a] = to],
             UNCHANGED found,
             IF to = "second" THEN Generation[a] < 2 /\ pool # "zigbee"
             ELSE a \notin lost => Generation[a] < Least
      PROVE  ScanInv'
  <2>1. ScanTyped' /\ job'[a] = to /\ \A b \in Targets \ {a} : job'[b] = job[b]
    BY <1>1, <1>2, <1>4, GoroutineMoves DEF Asked
  <2>2. SlotsTaken'
    BY <1>1, <1>2, <2>1, SlotKept
  <2>3. Heard'
    BY <1>1, <1>2, <1>4, <2>1, NothingFound DEF Asked
  <2> QED
    BY <2>1, <2>2, <2>3 DEF ScanInv
<1>5. CASE FirstAnswer(a)
  <2>1. CASE Generation[a] >= 2
    <3>1. Known(Generation[a]) = Generation[a] /\ Generation[a] >= Least /\ Generation[a] \in 1 .. 4
      BY <1>0, <2>1 DEF Known, Least
    <3>2. Record(a, Known(Generation[a]))
      BY <1>5, <2>1 DEF FirstAnswer
    <3> QED
      BY <1>3, <3>1, <3>2
  <2>2. CASE ~(Generation[a] >= 2)
    <3>1. /\ job' = [job EXCEPT ![a] = IF pool = "zigbee" THEN "leaving" ELSE "second"]
          /\ UNCHANGED found /\ Generation[a] < 2
      BY <1>0, <1>5, <2>2 DEF FirstAnswer
    <3>2. CASE pool = "zigbee"
      BY <1>4, <3>1, <3>2 DEF Least
    <3>3. CASE pool # "zigbee"
      BY <1>4, <3>1, <3>3
    <3> QED
      BY <3>2, <3>3
  <2> QED
    BY <2>1, <2>2
<1>6. CASE SecondAnswer(a)
  <2>1. a \notin lost => Generation[a] < 2 /\ pool # "zigbee"
    BY <1>1, <1>6 DEF SecondAnswer, ScanInv, Heard
  <2>2. CASE Generation[a] >= 1
    <3>1. Record(a, 1)
      BY <1>6, <2>2 DEF SecondAnswer
    <3>2. a \notin lost => 1 = Generation[a] /\ 1 >= Least
      BY <1>0, <2>1, <2>2 DEF Least
    <3> QED
      BY <1>3, <3>1, <3>2
  <2>3. CASE ~(Generation[a] >= 1)
    <3>1. job' = [job EXCEPT ![a] = AfterProbe] /\ UNCHANGED found
      BY <1>6, <2>3 DEF SecondAnswer
    <3>2. AfterProbe \in {"found", "leaving"}
      BY DEF AfterProbe
    <3>3. Generation[a] < Least
      BY <1>0, <2>3 DEF Least
    <3> QED
      BY <1>4, <3>1, <3>2, <3>3
  <2> QED
    BY <2>2, <2>3
<1> QED
  BY <1>5, <1>6

LEMMA ScanNoAnswer == ASSUME ScanInv, NEW a \in Targets, NoAnswer(a) PROVE ScanInv'
<1> DEFINE to == IF job[a] = "first" /\ pool # "zigbee" THEN "second" ELSE AfterProbe
<1>1. /\ job[a] \in {"first", "second"} /\ job' = [job EXCEPT ![a] = to]
      /\ \/ ended /\ UNCHANGED lost
         \/ lost' = lost \cup {a}
      /\ UNCHANGED <<pool, next, slots, found, vetoed, ended, returned>>
  BY DEF NoAnswer
<1>2. to \in {"second", "found", "leaving"}
  BY DEF AfterProbe
<1> HIDE DEF to
<1>3. a \in Holding /\ slots \in Nat /\ job[a] \notin Asked /\ to \in {"first", "second"} \cup Asked
  BY <1>1, <1>2 DEF Holding, ScanInv, ScanTyped, Asked
<1>4. ScanTyped' /\ job'[a] = to /\ \A b \in Targets \ {a} : job'[b] = job[b]
  BY <1>1, <1>3, GoroutineMoves
<1>5. SlotsTaken'
  BY <1>1, <1>2, <1>3, <1>4, SlotKept
<1>6. Heard'
  BY <1>1, <1>3, <1>4, NothingFound
<1> QED
  BY <1>4, <1>5, <1>6 DEF ScanInv

LEMMA ScanReports ==
    ASSUME ScanInv, NEW a \in Targets, Count(a) \/ Callback(a)
    PROVE  ScanInv'
<1>1. PICK to \in {"counted", "leaving"} :
        /\ job[a] \in {"found", "counted"} /\ job' = [job EXCEPT ![a] = to]
        /\ UNCHANGED <<pool, next, slots, found, ended, lost, returned>>
  BY DEF Count, Callback
<1>2. a \in Holding /\ slots \in Nat /\ job[a] \in Asked /\ to \in Asked
  BY <1>1 DEF Holding, ScanInv, ScanTyped, Asked
<1>3. ScanTyped' /\ job'[a] = to /\ \A b \in Targets \ {a} : job'[b] = job[b]
  BY <1>1, <1>2, GoroutineMoves
<1>4. SlotsTaken'
  BY <1>1, <1>2, <1>3, SlotKept
<1>5. Heard'
  BY <1>1, <1>2, <1>3, NothingFound
<1> QED
  BY <1>3, <1>4, <1>5 DEF ScanInv

LEMMA ScanGivesSlotBack == ASSUME ScanInv, NEW a \in Targets, GiveSlotBack(a) PROVE ScanInv'
<1>1. /\ job[a] = "leaving" /\ slots > 0 /\ slots' = slots - 1
      /\ job' = [job EXCEPT ![a] = "gone"]
      /\ UNCHANGED <<pool, next, found, ended, lost, returned>>
  BY DEF GiveSlotBack
<1>2. slots \in Nat /\ slots' \in Nat /\ job[a] \in Asked /\ "gone" \in Asked
  BY <1>1 DEF ScanInv, ScanTyped, Asked
<1>3. ScanTyped' /\ job'[a] = "gone" /\ \A b \in Targets \ {a} : job'[b] = job[b]
  BY <1>1, <1>2, GoroutineMoves
<1>4. SlotsTaken'
  <2> SUFFICES ASSUME ~ended PROVE slots' = Cardinality(Holding') /\ slots' <= Limit
    BY <1>1 DEF SlotsTaken
  <2>0. slots = Cardinality(Holding) /\ slots <= Limit /\ a \in Holding
    BY <1>1 DEF ScanInv, SlotsTaken, Holding
  <2>1. Holding' = Holding \ {a}
    BY <1>3 DEF Holding
  <2>2. Cardinality(Holding') = Cardinality(Holding) - 1
    BY <2>0, <2>1, HoldingFinite, FS_RemoveElement
  <2> QED
    BY <1>1, <1>2, <2>0, <2>2, TargetsFacts
<1>5. Heard'
  BY <1>1, <1>2, <1>3, NothingFound
<1> QED
  BY <1>3, <1>4, <1>5 DEF ScanInv

LEMMA ScanStep == ScanInv /\ [ScanNext]_scanVars => ScanInv'
<1> SUFFICES ASSUME ScanInv, [ScanNext]_scanVars PROVE ScanInv'
  OBVIOUS
<1>1. CASE Return
  <2>1. /\ LoopOver /\ \A a \in Targets : job[a] \in {"idle", "gone"}
        /\ UNCHANGED <<pool, next, job, slots, found, vetoed, ended, lost>>
    BY <1>1 DEF Return
  <2>2. ScanTyped'
    BY <2>1 DEF ScanInv, ScanTyped, LoopOver
  <2>3. SlotsTaken' /\ Heard'
    BY <2>1 DEF ScanInv, SlotsTaken, Holding, Heard, Least
  <2> QED
    BY <2>2, <2>3 DEF ScanInv
<1>2. CASE ContextEnds
  <2>1. ended' /\ UNCHANGED <<pool, next, job, slots, found, vetoed, lost, returned>>
    BY <1>2 DEF ContextEnds
  <2> QED
    BY <2>1 DEF ScanInv, ScanTyped, LoopOver, SlotsTaken, Heard
<1>3. CASE UNCHANGED scanVars
  BY <1>3 DEF scanVars, ScanInv, ScanTyped, LoopOver, SlotsTaken, Holding, Heard, Least
<1> QED
  BY <1>1, <1>2, <1>3, ScanLaunch, ScanTakesSlot, ScanAnswers, ScanNoAnswer, ScanReports,
     ScanGivesSlotBack DEF ScanNext, Work

LEMMA ScanHolds == ScanInv => ScanSound
<1> SUFFICES ASSUME ScanInv PROVE ScanSound
  OBVIOUS
<1>1. ended \/ Cardinality(Probing) <= Limit
  <2>1. Probing \subseteq Holding
    BY DEF Probing, At, Holding
  <2>2. Cardinality(Probing) <= Cardinality(Holding) /\ Cardinality(Probing) \in Nat
    BY <2>1, HoldingFinite, FS_Subset, FS_CardinalityType
  <2> QED
    BY <2>2, HoldingFinite, TargetsFacts DEF ScanInv, SlotsTaken
<1>2. ASSUME returned, ~ended, ~vetoed, NEW a \in Targets \ lost
      PROVE  (Generation[a] >= (IF pool = "zigbee" THEN 2 ELSE 1)) <=>
                [address |-> a, generation |-> Generation[a]] \in found
  <2>1. next > Len(Addresses) /\ job[a] \in {"idle", "gone"}
    BY <1>2 DEF ScanInv, ScanTyped, LoopOver
  <2>2. PICK i \in 1 .. Len(Addresses) : a = Addresses[i]
    BY TargetsFacts
  <2>3. job[a] # "idle"
    BY <2>1, <2>2, TargetsFacts DEF ScanInv, ScanTyped
  <2>4. job[a] \in Asked
    BY <2>1, <2>3 DEF Asked
  <2> QED
    BY <1>2, <2>4 DEF ScanInv, Heard, Least
<1> QED
  BY <1>1, <1>2 DEF ScanSound, ScanInv, Heard

-----------------------------------------------------------------------------
(* The behaviours of MCDiscovery.                                          *)

\* A step of one part leaves the variables of the others alone.
LEMMA PartsStep ==
    ASSUME [MCNext]_<<part, scanVars, listenerVars, loopVars, wifiVars>>
    PROVE  [ScanNext]_scanVars /\ [Listener!CNext]_listenerVars /\ [WiFi!WNext]_wifiVars
BY DEF MCNext

\* Whichever of the three pools asks, however many addresses and slots there are and
\* wherever answers are lost: while the context lives no more probe than there are slots,
\* no address is listed twice, and a scan that returns has found every device that was
\* heard (zigbee.go:341-391, identify.go:205-345, main.go:330-380).
THEOREM ScanIsSound == MCSpec => []ScanSound
<1>1. MCInit => ScanInv
  BY ScanStarts DEF MCInit
<1>2. ScanInv /\ [MCNext]_<<part, scanVars, listenerVars, loopVars, wifiVars>> => ScanInv'
  BY ScanStep, PartsStep
<1>3. ScanInv => ScanSound
  BY ScanHolds
<1> QED
  BY <1>1, <1>2, <1>3, PTL DEF MCSpec

\* However many access points there are, wherever a join fails, the link drops or the
\* context ends, what is listed for one was said by it, every one is listed, and when
\* nothing went wrong the host is back on its network (wifi.go:280-330).
THEOREM WiFiIsSound == MCSpec => []WiFiSound
<1>1. MCInit => WiFiInv
  BY WiFiInit DEF MCInit
<1>2. WiFiInv /\ [MCNext]_<<part, scanVars, listenerVars, loopVars, wifiVars>> => WiFiInv'
  BY WiFiStep, PartsStep
<1>3. WiFiInv => WiFiSound
  BY WiFiHolds DEF WiFiSound
<1> QED
  BY <1>1, <1>2, <1>3, PTL DEF MCSpec

\* However often the listener is started and stopped and whatever its read loops share,
\* a handler is given the datagram its goroutine was started for or a later one, and no
\* loop reads from a connection older than itself (coiot.go:189-240).
THEOREM NoneIsOlder == MCSpec => []NeverOlder
<1>1. MCInit => ListenerInv
  BY ListenerInit DEF MCInit
<1>2. ListenerInv /\ [MCNext]_<<part, scanVars, listenerVars, loopVars, wifiVars>>
      => ListenerInv'
  BY ListenerStep, PartsStep
<1>3. ListenerInv => NeverOlder
  BY DEF ListenerInv
<1> QED
  BY <1>1, <1>2, <1>3, PTL DEF MCSpec

=============================================================================
