------------------------ MODULE FleetManager_proofs ------------------------
(***************************************************************************)
(* Theorems about AccountManager as FleetManager uses it, about the        *)
(* connections FleetManager and its client keep, and about the tokens they *)
(* are made with: for any users, devices, hosts and callers and any number *)
(* of changes.                                                             *)
(***************************************************************************)
EXTENDS MCFleet, Integers, TLAPS

Listing(account) ==
    /\ account = [array |-> account.array, len |-> account.len]
    /\ account.array \in Seq(AccountDevice)
    /\ account.len \in 0..Len(account.array)

AInv == (\A u \in DOMAIN accounts : Listing(accounts[u])) /\ IndexSound

LEMMA ListType ==
    ASSUME NEW list \in DeviceLists
    PROVE  /\ Listing(Account(list))
           /\ Ids(Account(list)) \subseteq Devices
<1>1. PICK n \in 0..MaxDevices : list \in [1..n -> AccountDevice]
  BY DEF DeviceLists
<1>2. n \in Nat /\ list \in Seq(AccountDevice) /\ Len(list) = n
  BY <1>1, BoundsAssumption
<1>3. Listing(Account(list))
  BY <1>2 DEF Listing, Account
<1>4. \A i \in 1..Len(list) : list[i].device \in Devices
  BY <1>1, <1>2, DeviceAssumption
<1> QED
  BY <1>3, <1>4 DEF Ids, Account

\* The account of d in the new index is the old one and still lists it.
LEMMA StillListed ==
    ASSUME AInv, NEW d \in DOMAIN index,
           index[d] \in DOMAIN accounts', accounts'[index[d]] = accounts[index[d]]
    PROVE  d \in Ids(accounts'[index[d]])
BY DEF AInv, IndexSound

LEMMA AddAccountSound ==
    ASSUME AInv, NEW u \in Users, NEW list \in DeviceLists, AddAccount(u, list)
    PROVE  AInv'
<1> DEFINE ids == Ids(Account(list))
           old == IF u \in DOMAIN accounts THEN Ids(accounts[u]) ELSE {}
           indexed == [d \in DOMAIN index \cup ids |-> IF d \in ids THEN u ELSE index[d]]
<1>1. accounts' = Put(accounts, u, Account(list)) /\ index' = Drop(indexed, old \ ids)
  BY DEF AddAccount
<1>2. Listing(Account(list))
  BY ListType
<1>3. DOMAIN accounts' = DOMAIN accounts \cup {u} /\ accounts'[u] = Account(list)
      /\ \A v \in DOMAIN accounts \ {u} : accounts'[v] = accounts[v]
  BY <1>1 DEF Put
<1>4. \A v \in DOMAIN accounts' : Listing(accounts'[v])
  BY <1>2, <1>3 DEF AInv
<1>5. ASSUME NEW d \in DOMAIN index'
      PROVE  index'[d] \in DOMAIN accounts' /\ d \in Ids(accounts'[index'[d]])
  <2>1. CASE d \in ids
    <3>1. index'[d] = u
      BY <1>1, <1>5, <2>1 DEF Drop
    <3> QED
      BY <1>3, <2>1, <3>1
  <2>2. CASE d \notin ids
    <3>1. d \in DOMAIN index /\ d \notin old /\ index'[d] = index[d]
      BY <1>1, <1>5, <2>2 DEF Drop
    <3>2. index[d] \in DOMAIN accounts /\ index[d] # u
      BY <3>1 DEF AInv, IndexSound
    <3> QED
      BY <1>3, <3>1, <3>2, StillListed
  <2> QED
    BY <2>1, <2>2
<1> QED
  BY <1>4, <1>5 DEF AInv, IndexSound

LEMMA RemoveAccountSound ==
    ASSUME AInv, NEW u \in Users, RemoveAccount(u)
    PROVE  AInv'
<1>1. DOMAIN accounts' = DOMAIN accounts \ {u} /\ \A v \in DOMAIN accounts' : accounts'[v] = accounts[v]
  BY DEF RemoveAccount, Drop
<1>2. DOMAIN index' = DOMAIN index \ Ids(accounts[u]) /\ \A d \in DOMAIN index' : index'[d] = index[d]
  BY DEF RemoveAccount, Drop
<1>3. ASSUME NEW d \in DOMAIN index'
      PROVE  index'[d] \in DOMAIN accounts' /\ d \in Ids(accounts'[index'[d]])
  <2>1. d \in DOMAIN index /\ index'[d] = index[d] /\ index[d] \in DOMAIN accounts /\ index[d] # u
    BY <1>2, <1>3 DEF AInv, IndexSound
  <2> QED
    BY <1>1, <2>1, StillListed
<1> QED
  BY <1>1, <1>3 DEF AInv, IndexSound

\* AddDevice, whichever way: the account of u lists what it listed and r.
LEMMA AddDeviceSound ==
    ASSUME AInv, NEW u \in Users, NEW r \in AccountDevice,
           DOMAIN accounts' = DOMAIN accounts \cup {u},
           \A v \in DOMAIN accounts \ {u} : accounts'[v] = accounts[v],
           Listing(accounts'[u]),
           r.device \in Ids(accounts'[u]),
           u \in DOMAIN accounts => Ids(accounts[u]) \subseteq Ids(accounts'[u]),
           index' = Put(index, r.device, u)
    PROVE  AInv'
<1>1. \A v \in DOMAIN accounts' : Listing(accounts'[v])
  BY DEF AInv
<1>2. ASSUME NEW d \in DOMAIN index'
      PROVE  index'[d] \in DOMAIN accounts' /\ d \in Ids(accounts'[index'[d]])
  <2>1. CASE d = r.device
    BY <1>2, <2>1 DEF Put
  <2>2. CASE d # r.device
    <3>1. d \in DOMAIN index /\ index'[d] = index[d]
      BY <1>2, <2>2 DEF Put
    <3>2. index[d] \in DOMAIN accounts /\ d \in Ids(accounts[index[d]])
      BY <3>1 DEF AInv, IndexSound
    <3> QED
      BY <3>1, <3>2
  <2> QED
    BY <2>1, <2>2
<1> QED
  BY <1>1, <1>2 DEF AInv, IndexSound

LEMMA UpdateDeviceSound ==
    ASSUME AInv, NEW u \in Users, NEW r \in AccountDevice, UpdateDevice(u, r)
    PROVE  AInv'
<1>1. u \in DOMAIN accounts /\ index' = Put(index, r.device, u)
  BY DEF UpdateDevice
<1>2. PICK i \in 1..accounts[u].len :
        /\ accounts[u].array[i].device = r.device
        /\ accounts' = [accounts EXCEPT ![u].array[i] = r]
  BY DEF UpdateDevice
<1> DEFINE array == accounts[u].array
           n == accounts[u].len
<1>3. array \in Seq(AccountDevice) /\ n \in 0..Len(array)
      /\ accounts[u] = [array |-> array, len |-> n]
  BY <1>1 DEF AInv, Listing
<1>4. i \in 1..Len(array)
  BY <1>2, <1>3
<1>5. /\ DOMAIN accounts' = DOMAIN accounts \cup {u}
      /\ \A v \in DOMAIN accounts \ {u} : accounts'[v] = accounts[v]
      /\ accounts'[u] = [accounts[u] EXCEPT !.array[i] = r]
  BY <1>1, <1>2
<1>6. /\ accounts'[u].array = [array EXCEPT ![i] = r]
      /\ accounts'[u].len = n
      /\ accounts'[u] = [array |-> accounts'[u].array, len |-> accounts'[u].len]
  BY <1>3, <1>5
<1>7. [array EXCEPT ![i] = r] \in Seq(AccountDevice) /\ Len([array EXCEPT ![i] = r]) = Len(array)
      /\ \A k \in 1..Len(array) : [array EXCEPT ![i] = r][k] = IF k = i THEN r ELSE array[k]
  BY <1>3, <1>4
<1>8. Listing(accounts'[u])
  BY <1>3, <1>6, <1>7 DEF Listing
<1>9. \A k \in 1..n : accounts'[u].array[k].device = array[k].device
  BY <1>2, <1>3, <1>6, <1>7
<1>10. Ids(accounts'[u]) = Ids(accounts[u]) /\ r.device \in Ids(accounts[u])
  BY <1>2, <1>6, <1>9 DEF Ids
<1> QED
  BY <1>1, <1>5, <1>8, <1>10, AddDeviceSound

LEMMA AppendDeviceSound ==
    ASSUME AInv, NEW u \in Users, NEW r \in AccountDevice, AppendDevice(u, r)
    PROVE  AInv'
<1> DEFINE account == IF u \in DOMAIN accounts THEN accounts[u] ELSE Account(<<>>)
           array == account.array
           n == account.len
           front == Append(SubSeq(array, 1, n), r)
           rest == SubSeq(array, n + 2, Len(array))
           new == [array |-> front \o rest, len |-> n + 1]
<1>1. accounts' = Put(accounts, u, new) /\ index' = Put(index, r.device, u)
  BY DEF AppendDevice
<1>2. array \in Seq(AccountDevice) /\ n \in 0..Len(array)
  <2>1. CASE u \in DOMAIN accounts
    BY <2>1 DEF AInv, Listing
  <2>2. CASE u \notin DOMAIN accounts
    BY <2>2 DEF Account
  <2> QED
    BY <2>1, <2>2
<1> HIDE DEF account
<1>3. SubSeq(array, 1, n) \in Seq(AccountDevice) /\ Len(SubSeq(array, 1, n)) = n
      /\ \A k \in 1..n : SubSeq(array, 1, n)[k] = array[k]
  BY <1>2
<1>4. front \in Seq(AccountDevice) /\ Len(front) = n + 1 /\ front[n + 1] = r
      /\ \A k \in 1..n : front[k] = array[k]
  BY <1>2, <1>3
<1>5. rest \in Seq(AccountDevice)
  BY <1>2
<1> HIDE DEF front, rest
<1>6. front \o rest \in Seq(AccountDevice) /\ n + 1 \in 0..Len(front \o rest)
      /\ \A k \in 1..(n + 1) : (front \o rest)[k] = front[k]
  BY <1>2, <1>4, <1>5
<1>7. Listing(new)
  BY <1>6 DEF Listing
<1>8. r.device \in Ids(new) /\ Ids(account) \subseteq Ids(new)
  <2>1. \A k \in 1..n : k \in 1..(n + 1) /\ new.array[k] = array[k]
    BY <1>2, <1>4, <1>6
  <2>2. n + 1 \in 1..(n + 1) /\ new.array[n + 1] = r
    BY <1>2, <1>4, <1>6
  <2> QED
    BY <2>1, <2>2 DEF Ids
<1>9. /\ DOMAIN accounts' = DOMAIN accounts \cup {u} /\ accounts'[u] = new
      /\ \A v \in DOMAIN accounts \ {u} : accounts'[v] = accounts[v]
  BY <1>1 DEF Put
<1>10. u \in DOMAIN accounts => account = accounts[u]
  BY DEF account
<1> HIDE DEF new
<1> QED
  BY <1>1, <1>7, <1>8, <1>9, <1>10, AddDeviceSound

LEMMA RemoveDeviceSound ==
    ASSUME AInv, NEW u \in Users, NEW d \in Devices, RemoveDevice(u, d)
    PROVE  AInv'
<1> DEFINE array == accounts[u].array
           n == accounts[u].len
<1>1. u \in DOMAIN accounts /\ index' = Drop(index, {d})
  BY DEF RemoveDevice
<1>2. PICK i \in 1..n :
        /\ array[i].device = d
        /\ accounts' = [accounts EXCEPT ![u] =
                [array |-> [j \in 1..Len(array) |-> IF j \in i..(n - 1) THEN array[j + 1] ELSE array[j]],
                 len |-> n - 1]]
  BY DEF RemoveDevice
<1> DEFINE shifted == [j \in 1..Len(array) |-> IF j \in i..(n - 1) THEN array[j + 1] ELSE array[j]]
<1>3. array \in Seq(AccountDevice) /\ n \in 0..Len(array)
  BY <1>1 DEF AInv, Listing
<1>4. \A j \in 1..Len(array) : shifted[j] \in AccountDevice
  BY <1>2, <1>3
<1>5. shifted \in Seq(AccountDevice) /\ Len(shifted) = Len(array)
  BY <1>3, <1>4
<1>6. \A k \in 1..n : k # i => \E j \in 1..(n - 1) : shifted[j] = array[k]
  <2> SUFFICES ASSUME NEW k \in 1..n, k # i PROVE \E j \in 1..(n - 1) : shifted[j] = array[k]
    OBVIOUS
  <2>1. CASE k < i
    <3>1. k \in 1..(n - 1) /\ shifted[k] = array[k]
      BY <1>2, <1>3, <2>1
    <3> QED
      BY <3>1
  <2>2. CASE k > i
    <3>1. k - 1 \in 1..(n - 1) /\ shifted[k - 1] = array[k]
      BY <1>2, <1>3, <2>2
    <3> QED
      BY <3>1
  <2> QED
    BY <1>2, <1>3, <2>1, <2>2
<1>7. /\ DOMAIN accounts' = DOMAIN accounts
      /\ accounts'[u] = [array |-> shifted, len |-> n - 1]
      /\ \A v \in DOMAIN accounts \ {u} : accounts'[v] = accounts[v]
  BY <1>1, <1>2
<1> HIDE DEF shifted
<1>8. Listing(accounts'[u])
  <2>1. n - 1 \in 0..Len(shifted)
    BY <1>2, <1>3, <1>5
  <2> HIDE DEF n
  <2>2. accounts'[u].array = shifted /\ accounts'[u].len = n - 1
    BY <1>7
  <2> QED
    BY <1>5, <1>7, <2>1, <2>2 DEF Listing
<1>9. ASSUME NEW e \in Ids(accounts[u]), e # d PROVE e \in Ids(accounts'[u])
  <2>1. PICK k \in 1..n : e = array[k].device
    BY <1>9 DEF Ids
  <2>2. PICK j \in 1..(n - 1) : shifted[j] = array[k]
    BY <1>2, <1>6, <1>9, <2>1
  <2> QED
    BY <1>7, <2>1, <2>2 DEF Ids
<1>10. ASSUME NEW e \in DOMAIN index'
       PROVE  index'[e] \in DOMAIN accounts' /\ e \in Ids(accounts'[index'[e]])
  <2>1. e \in DOMAIN index /\ e # d /\ index'[e] = index[e]
    BY <1>1, <1>10 DEF Drop
  <2>2. index[e] \in DOMAIN accounts /\ e \in Ids(accounts[index[e]])
    BY <2>1 DEF AInv, IndexSound
  <2> QED
    BY <1>7, <1>9, <2>1, <2>2
<1> QED
  BY <1>7, <1>8, <1>10 DEF AInv, IndexSound

LEMMA FromJSONSound ==
    ASSUME AInv, NEW U \in SUBSET Users, NEW saved \in [U -> DeviceLists], FromJSON(saved)
    PROVE  AInv'
<1>1. accounts' = [u \in U |-> Account(saved[u])]
  BY DEF FromJSON
<1>2. \A u \in U : saved[u] \in DeviceLists /\ accounts'[u] = Account(saved[u])
  BY <1>1
<1>3. \A u \in DOMAIN accounts' : Listing(accounts'[u])
  BY <1>1, <1>2, ListType
<1>4. \A d \in DOMAIN index' : index'[d] \in U /\ d \in Ids(Account(saved[index'[d]]))
  BY DEF FromJSON
<1> QED
  BY <1>1, <1>2, <1>3, <1>4 DEF AInv, IndexSound

LEMMA ANext == AInv /\ [Next]_vars => AInv'
<1> SUFFICES ASSUME AInv, [Next]_vars PROVE AInv'
  OBVIOUS
<1>1. CASE ChangeAccounts
  BY <1>1, AddAccountSound, RemoveAccountSound, UpdateDeviceSound, AppendDeviceSound,
     RemoveDeviceSound, FromJSONSound DEF ChangeAccounts
<1>2. ASSUME UNCHANGED <<accounts, index>> PROVE AInv'
  BY <1>2 DEF AInv, IndexSound
<1>3. CASE SendCommand \/ UNCHANGED <<accountVars>> \/ UNCHANGED vars
  BY <1>2, <1>3 DEF SendCommand, accountVars, vars
<1> QED
  BY <1>1, <1>3 DEF Next

\* GetDevice may follow an index entry without a test (accounts.go:220-238):
\* whatever is granted, revoked or reloaded, the account is there and lists the
\* device.
THEOREM IndexIsSound == Spec => []IndexSound
<1>1. Init => AInv
  BY DEF Init, AccountInit, AInv, IndexSound
<1>2. AInv => IndexSound
  BY DEF AInv
<1> QED
  BY <1>1, <1>2, ANext, PTL DEF Spec

-----------------------------------------------------------------------------
(* Connections.  Connect dials under fm.mu and only when the fleet manager  *)
(* has no live connection of the host; what keeps the client's map complete *)
(* is that whatever is open is in the fleet manager's map too, except for   *)
(* the connection that is just being added.                                 *)

\* What the connection code needs of the types.
ConnTypes ==
    /\ pc \in [Callers -> {"idle", "dial", "add", "close"}]
    /\ closing \in [Callers -> SUBSET Conns]
    /\ dest = [c \in Callers |-> dest[c]]
    /\ hostOf \in Seq(Hosts)
    /\ \A c \in Callers : pc[c] \in {"dial", "add"} <=> mu = c
    /\ \A c \in Callers : pc[c] \in {"dial", "add"} => dest[c] \in Hosts
    /\ \A c \in Callers : pc[c] = "add" => Len(hostOf) \in Conns /\ hostOf[Len(hostOf)] = dest[c]
    /\ \A c \in Callers : pc[c] # "close" => closing[c] = {}
    /\ \A h \in DOMAIN fleet : fleet[h] \in Conns
    /\ \A h \in DOMAIN client : client[h] \in Conns

BeingAdded == {Len(hostOf)} \cap {n \in Conns : \E c \in Callers : pc[c] = "add"}

FleetOwns ==
    \A n \in Open \ BeingAdded : hostOf[n] \in DOMAIN fleet /\ fleet[hostOf[n]] = n

\* Nobody else has a connection to the host that is dialled.
DialsAlone ==
    \A c \in Callers : pc[c] \in {"dial", "add"} =>
        \A n \in Open \ BeingAdded : hostOf[n] # dest[c]

FleetInv == ConnTypes /\ FleetOwns /\ DialsAlone /\ ClientOwnsAll

LEMMA ConnInit == Init => FleetInv
<1> SUFFICES ASSUME Init PROVE FleetInv
  OBVIOUS
<1>1. Conns = {} /\ Open = {}
  BY DEF Init, Conns, Open
<1>2. ConnTypes
  BY CallersAssumption DEF Init, ConnTypes
<1> QED
  BY <1>1, <1>2 DEF Init, FleetInv, FleetOwns, DialsAlone, ClientOwnsAll

\* A step that dials nothing: nothing becomes open that was not.
LEMMA NoneOpened ==
    ASSUME FleetInv, ConnTypes', hostOf' = hostOf,
           Open' \subseteq Open,
           Open' \cap BeingAdded \subseteq BeingAdded',
           \A c \in Callers : pc'[c] \in {"dial", "add"} =>
              pc[c] \in {"dial", "add"} /\ dest'[c] = dest[c],
           \A n \in Open' : hostOf[n] \in DOMAIN fleet /\ fleet[hostOf[n]] = n
                => hostOf[n] \in DOMAIN fleet' /\ fleet'[hostOf[n]] = n,
           \A n \in Open' : hostOf[n] \in DOMAIN client /\ client[hostOf[n]] = n
                => hostOf[n] \in DOMAIN client' /\ client'[hostOf[n]] = n
    PROVE  FleetInv'
BY DEF FleetInv, FleetOwns, DialsAlone, ClientOwnsAll

LEMMA ConnNext == FleetInv /\ [Next]_vars => FleetInv'
<1> SUFFICES ASSUME FleetInv, [Next]_vars PROVE FleetInv'
  OBVIOUS
<1> USE CallersAssumption DEF Go
<1>t. /\ pc \in [Callers -> {"idle", "dial", "add", "close"}]
      /\ closing \in [Callers -> SUBSET Conns]
      /\ dest = [c \in Callers |-> dest[c]]
      /\ hostOf \in Seq(Hosts) /\ Len(hostOf) \in Nat
      /\ \A c \in Callers : pc[c] \in {"dial", "add"} <=> mu = c
      /\ \A c \in Callers : pc[c] \in {"dial", "add"} => dest[c] \in Hosts
      /\ \A c \in Callers : pc[c] = "add" => Len(hostOf) \in Conns /\ hostOf[Len(hostOf)] = dest[c]
      /\ \A c \in Callers : pc[c] # "close" => closing[c] = {}
      /\ \A h \in DOMAIN fleet : fleet[h] \in Conns
      /\ \A h \in DOMAIN client : client[h] \in Conns
  BY DEF FleetInv, ConnTypes
<1>a. mu = Nobody => BeingAdded = {}
  BY <1>t DEF BeingAdded
<1>o. /\ Open \subseteq Conns
      /\ \A n \in Conns : n \notin Open <=> n \in closed \/ \E c \in Callers : n \in closing[c]
  BY DEF Open, BeingClosed
<1>1. ASSUME NEW c \in Callers, NEW h \in Hosts, ConnectBegin(c, h) PROVE FleetInv'
  <2>1. /\ pc[c] = "idle" /\ mu = Nobody /\ mu' = c /\ ~HasConnection(h)
        /\ dest' = [dest EXCEPT ![c] = h] /\ pc' = [pc EXCEPT ![c] = "dial"]
        /\ UNCHANGED <<fleet, client, hostOf, closed, closing>>
    BY <1>1 DEF ConnectBegin
  <2>2. \A d \in Callers : pc[d] \notin {"dial", "add"}
    BY <1>t, <2>1
  <2>3. Conns' = Conns /\ Open' = Open /\ BeingAdded' = {}
    BY <1>t, <2>1, <2>2 DEF Conns, Open, BeingClosed, BeingAdded
  <2>4. \A d \in Callers : pc'[d] \in {"dial", "add"} => d = c /\ dest'[d] = h /\ pc'[d] = "dial"
    BY <1>t, <2>1, <2>2
  <2>5. ConnTypes'
    BY <1>t, <2>1, <2>3, <2>4 DEF ConnTypes
  <2>6. \A n \in Open : hostOf[n] \in DOMAIN fleet /\ fleet[hostOf[n]] = n
    BY <1>a, <2>1 DEF FleetInv, FleetOwns
  <2>7. \A n \in Open : hostOf[n] # h
    BY <1>o, <2>1, <2>6 DEF HasConnection
  <2> QED
    BY <2>1, <2>3, <2>4, <2>5, <2>6, <2>7 DEF FleetInv, FleetOwns, DialsAlone, ClientOwnsAll
<1>2. ASSUME NEW c \in Callers, ConnectFails(c) PROVE FleetInv'
  <2>1. /\ pc[c] = "dial" /\ mu' = Nobody /\ dest' = [dest EXCEPT ![c] = AnyHost]
        /\ pc' = [pc EXCEPT ![c] = "idle"]
        /\ UNCHANGED <<fleet, client, hostOf, closed, closing>>
    BY <1>2 DEF ConnectFails
  <2>2. \A d \in Callers : d # c => pc[d] \notin {"dial", "add"}
    BY <1>t, <2>1
  <2>3. Conns' = Conns /\ Open' = Open /\ BeingAdded = {}
    BY <1>t, <2>1, <2>2 DEF Conns, Open, BeingClosed, BeingAdded
  <2>4. \A d \in Callers : pc'[d] \notin {"dial", "add"}
    BY <1>t, <2>1, <2>2
  <2>5. ConnTypes'
    BY <1>t, <2>1, <2>3, <2>4 DEF ConnTypes
  <2> QED
    BY <2>1, <2>3, <2>4, <2>5, NoneOpened
<1>3. ASSUME NEW c \in Callers, Dial(c) PROVE FleetInv'
  <2> DEFINE k == Len(hostOf) + 1
             h == dest[c]
  <2>1. /\ pc[c] = "dial" /\ hostOf' = Append(hostOf, h) /\ client' = Put(client, h, k)
        /\ pc' = [pc EXCEPT ![c] = "add"] /\ UNCHANGED <<mu, fleet, closed, dest, closing>>
    BY <1>3 DEF Dial
  <2>2. h \in Hosts /\ \A d \in Callers : d # c => pc[d] \notin {"dial", "add"}
    BY <1>t, <2>1
  <2>3. /\ hostOf' \in Seq(Hosts) /\ Len(hostOf') = k /\ hostOf'[k] = h
        /\ \A n \in Conns : hostOf'[n] = hostOf[n]
        /\ Conns' = Conns \cup {k} /\ k \notin Conns
    BY <1>t, <2>1, <2>2 DEF Conns
  <2>4. BeingAdded = {}
    BY <1>t, <2>1, <2>2 DEF BeingAdded
  <2>5. BeingAdded' = {k}
    BY <1>t, <2>1, <2>3 DEF BeingAdded
  <2>6. \A d \in Callers : pc'[d] \in {"dial", "add"} => d = c
    BY <1>t, <2>1, <2>2
  <2>7. ConnTypes'
    <3>1. \A x \in DOMAIN client' : client'[x] \in Conns'
      BY <1>t, <2>1, <2>3 DEF Put
    <3> QED
      BY <1>t, <2>1, <2>2, <2>3, <2>6, <3>1 DEF ConnTypes
  <2>8. Open' \ {k} \subseteq Open /\ Open' \subseteq Conns'
    BY <1>o, <2>1, <2>3 DEF Open, BeingClosed
  <2>9. \A n \in Open : hostOf[n] # h
    BY <2>1, <2>4 DEF FleetInv, DialsAlone
  <2>10. FleetOwns'
    BY <1>o, <2>1, <2>3, <2>4, <2>5, <2>8 DEF FleetInv, FleetOwns
  <2>11. DialsAlone'
    BY <1>o, <2>1, <2>3, <2>5, <2>6, <2>8, <2>9 DEF DialsAlone
  <2>12. ClientOwnsAll'
    <3>1. DOMAIN client' = DOMAIN client \cup {h} /\ client'[h] = k
          /\ \A x \in DOMAIN client \ {h} : client'[x] = client[x]
      BY <2>1 DEF Put
    <3> QED
      BY <1>o, <2>3, <2>8, <2>9, <3>1 DEF FleetInv, ClientOwnsAll
  <2> QED
    BY <2>7, <2>10, <2>11, <2>12 DEF FleetInv
<1>4. ASSUME NEW c \in Callers, ConnectEnd(c) PROVE FleetInv'
  <2> DEFINE k == Len(hostOf)
             h == dest[c]
  <2>1. /\ pc[c] = "add" /\ fleet' = Put(fleet, h, k) /\ mu' = Nobody
        /\ dest' = [dest EXCEPT ![c] = AnyHost] /\ pc' = [pc EXCEPT ![c] = "idle"]
        /\ UNCHANGED <<client, hostOf, closed, closing>>
    BY <1>4 DEF ConnectEnd
  <2>2. k \in Conns /\ hostOf[k] = h /\ \A d \in Callers : d # c => pc[d] \notin {"dial", "add"}
    BY <1>t, <2>1
  <2>3. BeingAdded = {k} /\ Open' = Open /\ Conns' = Conns
    BY <2>1, <2>2 DEF BeingAdded, Open, BeingClosed, Conns
  <2>4. \A d \in Callers : pc'[d] \notin {"dial", "add"}
    BY <1>t, <2>1, <2>2
  <2>5. ConnTypes'
    <3>1. \A x \in DOMAIN fleet' : fleet'[x] \in Conns
      BY <1>t, <2>1, <2>2 DEF Put
    <3> QED
      BY <1>t, <2>1, <2>3, <2>4, <3>1 DEF ConnTypes
  <2>6. \A n \in Open : n # k => hostOf[n] # h
    BY <2>1, <2>3 DEF FleetInv, DialsAlone
  <2>7. FleetOwns'
    <3>1. DOMAIN fleet' = DOMAIN fleet \cup {h} /\ fleet'[h] = k
          /\ \A x \in DOMAIN fleet \ {h} : fleet'[x] = fleet[x]
      BY <2>1 DEF Put
    <3> QED
      BY <2>1, <2>2, <2>3, <2>6, <3>1 DEF FleetInv, FleetOwns
  <2>8. DialsAlone' /\ ClientOwnsAll'
    BY <2>1, <2>3, <2>4 DEF FleetInv, DialsAlone, ClientOwnsAll
  <2> QED
    BY <2>5, <2>7, <2>8 DEF FleetInv
<1>5. ASSUME NEW c \in Callers, NEW H \in SUBSET Hosts, FleetDisconnect(c, H) PROVE FleetInv'
  <2> DEFINE gone == {fleet[h] : h \in H \cap DOMAIN fleet}
  <2>1. /\ pc[c] = "idle" /\ mu = Nobody
        /\ closing' = [closing EXCEPT ![c] = gone]
        /\ fleet' = Drop(fleet, H) /\ pc' = [pc EXCEPT ![c] = "close"]
        /\ UNCHANGED <<mu, client, hostOf, closed, dest>>
    BY <1>5 DEF FleetDisconnect
  <2>2. gone \subseteq Conns /\ Conns' = Conns
    BY <1>t, <2>1 DEF Conns
  <2>3. BeingAdded' = {} /\ \A d \in Callers : pc'[d] \in {"dial", "add"} => FALSE
    BY <1>t, <2>1 DEF BeingAdded
  <2>4. closing' \in [Callers -> SUBSET Conns]
    BY <1>t, <2>1, <2>2
  <2>5. /\ DOMAIN fleet' = DOMAIN fleet \ H
        /\ \A h \in DOMAIN fleet' : fleet'[h] = fleet[h]
    BY <2>1 DEF Drop
  <2>6. ConnTypes'
    BY <1>t, <2>1, <2>2, <2>3, <2>4, <2>5 DEF ConnTypes
  <2>7. Open' = Open \ gone
    BY <1>t, <2>1, <2>2 DEF Open, BeingClosed
  <2>8. \A n \in Open' : hostOf[n] \in DOMAIN fleet /\ fleet[hostOf[n]] = n
           => hostOf[n] \in DOMAIN fleet' /\ fleet'[hostOf[n]] = n
    BY <2>1, <2>5, <2>7
  <2>9. BeingAdded = {}
    BY <1>a, <2>1
  <2> QED
    BY <2>1, <2>3, <2>6, <2>7, <2>8, <2>9, NoneOpened
<1>6. ASSUME NEW c \in Callers, NEW H \in SUBSET Hosts, ClientDisconnect(c, H) PROVE FleetInv'
  <2> DEFINE gone == {client[h] : h \in H \cap DOMAIN client}
  <2>1. /\ pc[c] = "idle" /\ closing' = [closing EXCEPT ![c] = gone]
        /\ client' = Drop(client, H) /\ pc' = [pc EXCEPT ![c] = "close"]
        /\ UNCHANGED <<mu, fleet, hostOf, closed, dest>>
    BY <1>6 DEF ClientDisconnect
  <2>2. gone \subseteq Conns /\ Conns' = Conns
    BY <1>t, <2>1 DEF Conns
  <2>3. \A d \in Callers : pc'[d] \in {"dial", "add"} => pc'[d] = pc[d] /\ d # c
    BY <1>t, <2>1
  <2>4. BeingAdded' = BeingAdded
    BY <1>t, <2>1, <2>2 DEF BeingAdded
  <2>5. closing' \in [Callers -> SUBSET Conns]
    BY <1>t, <2>1, <2>2
  <2>6. /\ DOMAIN client' = DOMAIN client \ H
        /\ \A h \in DOMAIN client' : client'[h] = client[h]
    BY <2>1 DEF Drop
  <2>7. ConnTypes'
    BY <1>t, <2>1, <2>2, <2>3, <2>5, <2>6 DEF ConnTypes
  <2>8. Open' = Open \ gone
    BY <1>t, <2>1, <2>2 DEF Open, BeingClosed
  <2>9. \A n \in Open' : hostOf[n] \in DOMAIN client /\ client[hostOf[n]] = n
           => hostOf[n] \in DOMAIN client' /\ client'[hostOf[n]] = n
    BY <2>1, <2>6, <2>8
  <2> QED
    BY <2>1, <2>3, <2>4, <2>7, <2>8, <2>9, NoneOpened
<1>7. ASSUME NEW c \in Callers, Close(c) PROVE FleetInv'
  <2>1. PICK n \in closing[c] :
          /\ closed' = closed \cup {n}
          /\ closing' = [closing EXCEPT ![c] = @ \ {n}]
    BY <1>7 DEF Close
  <2>2. /\ pc[c] = "close" /\ UNCHANGED <<mu, fleet, client, hostOf, dest>>
        /\ pc' = [pc EXCEPT ![c] = IF closing'[c] = {} THEN "idle" ELSE "close"]
    BY <1>7 DEF Close
  <2>3. Conns' = Conns /\ closing' \in [Callers -> SUBSET Conns]
    BY <1>t, <2>1, <2>2 DEF Conns
  <2>4. \A d \in Callers : pc'[d] \in {"dial", "add"} => pc'[d] = pc[d] /\ d # c
    BY <1>t, <2>2
  <2>5. BeingAdded' = BeingAdded
    BY <1>t, <2>2, <2>3 DEF BeingAdded
  <2>6. ConnTypes'
    BY <1>t, <2>1, <2>2, <2>3, <2>4 DEF ConnTypes
  <2>7. Open' = Open
    BY <1>t, <2>1, <2>3 DEF Open, BeingClosed
  <2> QED
    BY <2>2, <2>4, <2>5, <2>6, <2>7, NoneOpened
<1>8. CASE UNCHANGED connVars
  <2>1. UNCHANGED <<Conns, Open, BeingAdded>>
    BY <1>8 DEF connVars, Conns, Open, BeingClosed, BeingAdded
  <2>2. ConnTypes'
    BY <1>t, <1>8, <2>1 DEF connVars, ConnTypes
  <2> QED
    BY <1>8, <2>1, <2>2, NoneOpened DEF connVars
<1>9. CASE Connections
  <2>1. \A H \in {{h} : h \in Hosts} \cup {Hosts} : H \in SUBSET Hosts
    OBVIOUS
  <2> QED
    BY <1>1, <1>2, <1>3, <1>4, <1>5, <1>6, <1>7, <1>9, <2>1 DEF Connections
<1> QED
  BY <1>8, <1>9 DEF Next, vars

\* Whoever connects and disconnects at the same time, through the fleet manager or its
\* client, every open connection nobody is closing is the client's for its host, so there
\* is one for each host and Client.Close leaves none (fleet.go:60-115, client.go:150-255).
THEOREM FleetIsSound == Spec => []FleetSound
<1>1. FleetInv => FleetSound
  BY DEF FleetInv, FleetSound, ClientOwnsAll, OneConnectionPerHost
<1> QED
  BY <1>1, ConnInit, ConnNext, PTL DEF Spec

-----------------------------------------------------------------------------
(* Tokens: the interval is looked at and noted in one critical section.     *)

Spaced ==
    /\ now \in Nat
    /\ claims \in {0, 1}
    /\ claims = 1 => last = now

LEMMA SpacedNext == Spaced /\ [Tokens!TokenNext]_(Tokens!tokenVars) => Spaced'
<1> SUFFICES ASSUME Spaced, [Tokens!TokenNext]_(Tokens!tokenVars) PROVE Spaced'
  OBVIOUS
<1>1. ASSUME NEW w \in Tokens!Who, Tokens!Claim(w) PROVE Spaced'
  <2>1. CASE claims = 0
    BY <1>1, <2>1 DEF Spaced, Tokens!Claim
  <2>2. CASE claims = 1
    <3>1. Tokens!TooSoon
      BY <2>2 DEF Spaced, Tokens!TooSoon, Tokens!Never
    <3> QED
      BY <1>1, <3>1 DEF Spaced, Tokens!Claim
  <2> QED
    BY <2>1, <2>2 DEF Spaced
<1>2. CASE Tokens!TimePasses
  BY <1>2 DEF Spaced, Tokens!TimePasses
<1>3. ASSUME UNCHANGED <<now, last, claims>> PROVE Spaced'
  BY <1>3 DEF Spaced
<1>4. CASE UNCHANGED Tokens!tokenVars
  BY <1>3, <1>4 DEF Tokens!tokenVars
<1>5. ASSUME \/ \E a \in Askers : Tokens!EnsureValid(a)
             \/ \E w \in Tokens!Who : Tokens!Authenticate(w)
             \/ Tokens!StartAutoRefresh
             \/ Tokens!StopAutoRefresh
             \/ \E l \in Loops : \/ Tokens!ContextEnds(l) \/ Tokens!LoopEnds(l)
                                 \/ Tokens!LoopTick(l)
      PROVE  UNCHANGED <<now, last, claims>>
  BY <1>5 DEF Tokens!EnsureValid, Tokens!Authenticate, Tokens!StartAutoRefresh,
      Tokens!StopAutoRefresh, Tokens!ContextEnds, Tokens!LoopEnds, Tokens!LoopTick
<1> QED
  BY <1>1, <1>2, <1>3, <1>4, <1>5 DEF Tokens!TokenNext

\* However many users and left-over loops ask for a token, no two authentications begin
\* within one interval, for any life and buffer of a token (auth.go:24, 75-160).
THEOREM RefreshesApart == MCSpec => []RefreshApart
<1>1. MCInit => Spaced
  <2> SUFFICES ASSUME MCInit PROVE Spaced
    OBVIOUS
  <2>1. now = 0 /\ claims = 0
    BY DEF MCInit, Tokens!TokenInit
  <2> QED
    BY <2>1 DEF Spaced
<1>2. Spaced /\ [MCNext]_<<part, vars, tokenVars>> => Spaced'
  <2>1. UNCHANGED tokenVars => UNCHANGED Tokens!tokenVars
    BY DEF tokenVars, Tokens!tokenVars
  <2> QED
    BY <2>1, SpacedNext DEF MCNext
<1>3. Spaced => RefreshApart
  BY DEF Spaced, RefreshApart, Tokens!RefreshApart
<1> QED
  BY <1>1, <1>2, <1>3, PTL DEF MCSpec

-----------------------------------------------------------------------------
(* Tokens: how many failures there must have been when one expires.         *)

\* As many authentications failed as units were watched, or as units have gone by since the
\* token came within the buffer of its expiry.
FailedFor(w, t) == fails >= w \/ fails >= t - expires + Buffer

\* Somebody has yet to look at the token in this unit, or is at it.
Asking == \E w \in Tokens!Who : asker[w] = "asking"
InHand == due \cap Tokens!Live # {} \/ checked # {} \/ Asking

\* Who looks at the token or asks for one is not doing so twice, and a loop that is at it is
\* busy.
InTurn ==
    /\ \A w \in checked : asker[w] # "asking" /\ (w \in Loops => loops[w] = "busy")
    /\ \A l \in Loops : loops[l] # "busy" => asker[l] # "asking"

LapseInv ==
    /\ now \in Nat /\ fails \in Nat /\ watched \in Nat /\ expires \in Nat
    /\ last \in Int /\ last <= now
    /\ asker \in [Tokens!Who -> {"idle", "checked", "asking"}]
    /\ loops \in [Loops -> {"none", "select", "busy", "ended"}]
    /\ FailedFor(watched - 1, now - 1)
    /\ InHand \/ FailedFor(watched, now)
    /\ last = now => Asking \/ FailedFor(watched, now)
    /\ checked \subseteq Tokens!Who
    /\ InTurn

LEMMA InTurnNext == LapseInv /\ [Tokens!TokenNext]_(Tokens!tokenVars) => InTurn'
<1> SUFFICES ASSUME LapseInv, [Tokens!TokenNext]_(Tokens!tokenVars) PROVE InTurn'
  OBVIOUS
<1> USE TokensAssumption DEF LapseInv, InTurn, Tokens!Who
<1>1. ASSUME NEW a \in Askers, Tokens!EnsureValid(a) PROVE InTurn'
  <2>1. /\ asker[a] = "idle" /\ loops' = loops
        /\ \/ checked' = checked \cup {a} /\ asker' = [asker EXCEPT ![a] = "checked"]
           \/ checked' = checked /\ asker' = asker
    BY <1>1 DEF Tokens!EnsureValid, Tokens!looping
  <2>2. a \notin Loops
    OBVIOUS
  <2> QED
    BY <2>1, <2>2
<1>2. ASSUME NEW w \in Tokens!Who, Tokens!Claim(w) PROVE InTurn'
  BY <1>2 DEF Tokens!Claim, Tokens!Done
<1>3. ASSUME NEW w \in Tokens!Who, Tokens!Authenticate(w) PROVE InTurn'
  BY <1>3 DEF Tokens!Authenticate, Tokens!Done
<1>4. CASE Tokens!StartAutoRefresh
  BY <1>4 DEF Tokens!StartAutoRefresh
<1>5. CASE Tokens!StopAutoRefresh
  BY <1>5 DEF Tokens!StopAutoRefresh
<1>6. ASSUME NEW l \in Loops, Tokens!LoopEnds(l) PROVE InTurn'
  BY <1>6 DEF Tokens!LoopEnds
<1>7. ASSUME NEW l \in Loops, Tokens!LoopTick(l) PROVE InTurn'
  BY <1>7 DEF Tokens!LoopTick
<1>8. ASSUME UNCHANGED <<checked, asker, loops>> PROVE InTurn'
  BY <1>8
<1>9. ASSUME \/ \E l \in Loops : Tokens!ContextEnds(l)
             \/ Tokens!TimePasses
             \/ UNCHANGED Tokens!tokenVars
      PROVE  UNCHANGED <<checked, asker, loops>>
  BY <1>9 DEF Tokens!ContextEnds, Tokens!TimePasses, Tokens!tokenVars
<1> QED
  BY <1>1, <1>2, <1>3, <1>4, <1>5, <1>6, <1>7, <1>8, <1>9 DEF Tokens!TokenNext

LEMMA LapseNext == LapseInv /\ [Tokens!TokenNext]_(Tokens!tokenVars) => LapseInv'
<1> SUFFICES ASSUME LapseInv, [Tokens!TokenNext]_(Tokens!tokenVars) PROVE LapseInv'
  OBVIOUS
<1>0. InTurn'
  BY InTurnNext
<1> USE <1>0, TokensAssumption DEF Tokens!Live, Tokens!Who
<1>1. ASSUME NEW a \in Askers, Tokens!EnsureValid(a) PROVE LapseInv'
  <2>1. InHand => InHand'
    BY <1>1 DEF Tokens!EnsureValid, Tokens!looping, LapseInv, InHand, Asking
  <2>2. Asking => Asking'
    BY <1>1 DEF Tokens!EnsureValid, LapseInv, Asking
  <2> QED
    BY <1>1, <2>1, <2>2 DEF Tokens!EnsureValid, Tokens!looping, LapseInv, FailedFor
<1>2. ASSUME NEW w \in Tokens!Who, Tokens!Claim(w) PROVE LapseInv'
  <2>1. CASE Tokens!TooSoon
    <3>1. last = now
      BY <2>1 DEF Tokens!TooSoon, Tokens!Never, LapseInv
    <3>2. Asking => Asking'
      <4> SUFFICES ASSUME NEW v \in Tokens!Who, asker[v] = "asking" PROVE Asking'
        BY DEF Asking
      <4>1. CASE v # w
        BY <1>2, <2>1, <4>1 DEF Tokens!Claim, LapseInv, Asking
      <4>2. asker[w] # "asking"
        BY <1>2 DEF Tokens!Claim, LapseInv, InTurn
      <4> QED
        BY <4>1, <4>2
    <3>3. Asking' => InHand'
      BY DEF InHand
    <3>4. loops' \in [Loops -> {"none", "select", "busy", "ended"}]
      BY <1>2, <2>1 DEF Tokens!Claim, Tokens!Done, LapseInv
    <3> QED
      BY <1>2, <2>1, <3>1, <3>2, <3>3, <3>4 DEF Tokens!Claim, LapseInv, FailedFor
  <2>2. CASE ~Tokens!TooSoon
    <3>1. Asking'
      BY <1>2, <2>2 DEF Tokens!Claim, LapseInv, Asking
    <3> QED
      BY <1>2, <2>2, <3>1 DEF Tokens!Claim, LapseInv, InHand, FailedFor
  <2> QED
    BY <2>1, <2>2
<1>3. ASSUME NEW w \in Tokens!Who, Tokens!Authenticate(w) PROVE LapseInv'
  <2>1. FailedFor(watched, now)' /\ FailedFor(watched - 1, now - 1)'
    <3>1. CASE fails' = 0 /\ expires' = now + Lifetime
      BY <1>3, <3>1 DEF Tokens!Authenticate, LapseInv, FailedFor
    <3>2. CASE fails' = fails + 1 /\ UNCHANGED expires
      BY <1>3, <3>2 DEF Tokens!Authenticate, LapseInv, FailedFor
    <3> QED
      BY <1>3, <3>1, <3>2 DEF Tokens!Authenticate
  <2>2. loops' \in [Loops -> {"none", "select", "busy", "ended"}]
    BY <1>3 DEF Tokens!Authenticate, Tokens!Done, LapseInv
  <2> QED
    BY <1>3, <2>1, <2>2 DEF Tokens!Authenticate, LapseInv
<1>4. CASE Tokens!StartAutoRefresh
  <2>1. Tokens!Live \subseteq Tokens!Live'
    BY <1>4 DEF Tokens!StartAutoRefresh, LapseInv
  <2>2. InHand => InHand'
    BY <1>4, <2>1 DEF Tokens!StartAutoRefresh, InHand, Asking
  <2> QED
    BY <1>4, <2>2 DEF Tokens!StartAutoRefresh, LapseInv, FailedFor, Asking
<1>5. ASSUME watched' = 0,
             loops' \in [Loops -> {"none", "select", "busy", "ended"}],
             UNCHANGED <<now, last, expires, asker, checked, fails>>
      PROVE  LapseInv'
  BY <1>5 DEF LapseInv, FailedFor
<1>6. CASE Tokens!StopAutoRefresh
  BY <1>5, <1>6 DEF Tokens!StopAutoRefresh, LapseInv
<1>7. ASSUME NEW l \in Loops, Tokens!ContextEnds(l) \/ Tokens!LoopEnds(l) PROVE LapseInv'
  BY <1>5, <1>7 DEF Tokens!ContextEnds, Tokens!LoopEnds, LapseInv
<1>8. ASSUME NEW l \in Loops, Tokens!LoopTick(l) PROVE LapseInv'
  <2>1. CASE Tokens!NeedsRefresh
    <3>1. InHand'
      BY <1>8, <2>1 DEF Tokens!LoopTick, InHand
    <3> QED
      BY <1>8, <2>1, <3>1 DEF Tokens!LoopTick, LapseInv, FailedFor, Asking
  <2>2. CASE ~Tokens!NeedsRefresh
    <3>1. FailedFor(watched, now)
      BY <2>2 DEF Tokens!NeedsRefresh, LapseInv, FailedFor
    <3> QED
      BY <1>8, <2>2, <3>1 DEF Tokens!LoopTick, LapseInv, FailedFor
  <2> QED
    BY <2>1, <2>2
<1>9. CASE Tokens!TimePasses
  <2>1. FailedFor(watched, now)
    BY <1>9 DEF Tokens!TimePasses, Tokens!Quiet, LapseInv, InHand, Asking
  <2>2. CASE Tokens!Live \ ctxEnded # {}
    <3>1. InHand'
      BY <1>9, <2>2 DEF Tokens!TimePasses, InHand
    <3>2. watched' = watched + 1 /\ now' = now + 1 /\ UNCHANGED <<expires, fails, last>>
      BY <1>9, <2>2 DEF Tokens!TimePasses
    <3>3. FailedFor(watched - 1, now - 1)'
      BY <2>1, <3>2 DEF LapseInv, FailedFor
    <3> QED
      BY <1>9, <3>1, <3>2, <3>3 DEF Tokens!TimePasses, LapseInv
  <2>3. CASE Tokens!Live \ ctxEnded = {}
    BY <1>9, <2>3 DEF Tokens!TimePasses, LapseInv, FailedFor
  <2> QED
    BY <2>2, <2>3
<1>10. CASE UNCHANGED Tokens!tokenVars
  BY <1>10 DEF Tokens!tokenVars, LapseInv, FailedFor, InHand, Asking
<1> QED
  BY <1>1, <1>2, <1>3, <1>4, <1>6, <1>7, <1>8, <1>9, <1>10 DEF Tokens!TokenNext

\* The step in which a token expires comes after the failures there was room for.
LEMMA LapseStep ==
    ASSUME LapseInv, [Tokens!TokenNext]_(Tokens!tokenVars), Tokens!Expired', ~Tokens!Expired
    PROVE  fails >= Buffer - 1 \/ watched < Buffer - 1
<1> USE TokensAssumption
<1>1. ASSUME UNCHANGED <<now, expires>> PROVE FALSE
  BY <1>1 DEF Tokens!Expired
<1>2. ASSUME NEW w \in Tokens!Who, Tokens!Authenticate(w), expires' = now + Lifetime
      PROVE  fails >= Buffer - 1
  BY <1>2 DEF Tokens!Authenticate, Tokens!Expired, LapseInv
<1>3. CASE Tokens!TimePasses
  <2>1. FailedFor(watched, now)
    BY <1>3 DEF Tokens!TimePasses, Tokens!Quiet, LapseInv, InHand, Asking
  <2>2. expires = now + 1
    BY <1>3 DEF Tokens!TimePasses, Tokens!Expired, LapseInv
  <2> QED
    BY <2>1, <2>2 DEF LapseInv, FailedFor
<1>4. ASSUME NEW w \in Tokens!Who, Tokens!Authenticate(w), UNCHANGED expires PROVE FALSE
  BY <1>1, <1>4 DEF Tokens!Authenticate
<1>5. ASSUME \/ \E a \in Askers : Tokens!EnsureValid(a)
             \/ \E w \in Tokens!Who : Tokens!Claim(w)
             \/ Tokens!StartAutoRefresh
             \/ Tokens!StopAutoRefresh
             \/ \E l \in Loops : \/ Tokens!ContextEnds(l) \/ Tokens!LoopEnds(l)
                                 \/ Tokens!LoopTick(l)
             \/ UNCHANGED Tokens!tokenVars
      PROVE  FALSE
  BY <1>1, <1>5 DEF Tokens!EnsureValid, Tokens!Claim, Tokens!StartAutoRefresh,
      Tokens!StopAutoRefresh, Tokens!ContextEnds, Tokens!LoopEnds, Tokens!LoopTick,
      Tokens!tokenVars
<1>6. ASSUME NEW w \in Tokens!Who, Tokens!Authenticate(w)
      PROVE  fails >= Buffer - 1
  BY <1>2, <1>4, <1>6 DEF Tokens!Authenticate
<1> QED
  BY <1>3, <1>5, <1>6 DEF Tokens!TokenNext

\* A token that a loop watches expires only after as many failures in a row as its buffer has
\* intervals, less one, for any users, loops and lives of tokens (auth.go:105-160).
THEOREM TokensLast == MCSpec => NeverLapses
<1>1. MCInit => LapseInv
  <2> SUFFICES ASSUME MCInit PROVE LapseInv
    OBVIOUS
  <2>1. Tokens!TokenInit
    BY DEF MCInit
  <2>2. /\ now = 0 /\ fails = 0 /\ watched = 0
        /\ expires \in {0, Lifetime} /\ last = Tokens!Never
    BY <2>1 DEF Tokens!TokenInit
  <2>3. asker \in [Tokens!Who -> {"idle", "checked", "asking"}]
    BY <2>1 DEF Tokens!TokenInit
  <2>4. loops \in [Loops -> {"none", "select", "busy", "ended"}]
    BY <2>1 DEF Tokens!TokenInit
  <2>5. checked = {} /\ InTurn
    BY <2>1 DEF Tokens!TokenInit, Tokens!Who, InTurn
  <2> QED
    BY <2>2, <2>3, <2>4, <2>5, TokensAssumption DEF Tokens!Never, LapseInv, FailedFor
<1>2. [MCNext]_<<part, vars, tokenVars>> => [Tokens!TokenNext]_(Tokens!tokenVars)
  BY DEF MCNext, tokenVars, Tokens!tokenVars
<1>3. LapseInv /\ [MCNext]_<<part, vars, tokenVars>> => LapseInv'
  BY <1>2, LapseNext
<1>4. /\ LapseInv
      /\ [MCNext]_<<part, vars, tokenVars>>
      => [Tokens!Expired' /\ ~Tokens!Expired
            => fails >= Buffer - 1 \/ watched < Buffer - 1]_(Tokens!tokenVars)
  BY <1>2, LapseStep
<1> QED
  BY <1>1, <1>3, <1>4, PTL DEF MCSpec, NeverLapses, Tokens!NeverLapses

=============================================================================
