-------------------------- MODULE AccountManager --------------------------
(***************************************************************************)
(* integrator/accounts.go: the accounts that granted the integrator access *)
(* and the index from a device to the account that lists it.  Every        *)
(* operation is one critical section of am.mu, so it is one step.          *)
(*                                                                         *)
(* What is not atomic is what GetDevice returns: a pointer into the slice  *)
(* Account.Devices, which its caller reads after the lock is released.     *)
(* held[h] is the pointer goroutine h keeps: a slot of an account's        *)
(* current array, which RemoveDevice shifts and AddDevice overwrites in    *)
(* place, or a slot of an array the account no longer uses, whose content  *)
(* no longer changes.                                                      *)
(*                                                                         *)
(* An account is its array and how many slots of it are in use; the slots  *)
(* past len keep what RemoveDevice left in them.  Maps are functions whose *)
(* domain is the set of their keys.                                        *)
(***************************************************************************)
EXTENDS Naturals, Sequences, FiniteSets

CONSTANTS
    Users,          \* user ids
    Devices,        \* device ids
    Hosts,          \* cloud servers
    AccountDevice,  \* the listings of a device that occur
    Holders,        \* goroutines that keep a *AccountDevice
    MaxDevices,     \* bound: devices in an account handed to AddAccount or FromJSON
    MaxChanges      \* bound: changes to the accounts in a behaviour

ASSUME BoundsAssumption == MaxDevices \in Nat /\ MaxChanges \in Nat
ASSUME DeviceAssumption == AccountDevice \subseteq [device : Devices, host : Hosts, control : BOOLEAN]

VARIABLES
    accounts,       \* am.accounts
    index,          \* am.deviceIndex
    held,           \* the *AccountDevice each holder keeps
    changes         \* changes so far

accountVars == <<accounts, index, held, changes>>

Put(f, k, v) == [x \in DOMAIN f \cup {k} |-> IF x = k THEN v ELSE f[x]]
Drop(f, S) == [x \in DOMAIN f \ S |-> f[x]]

\* The device lists a caller can hand to AddAccount: no device twice.
DeviceLists ==
    {s \in UNION {[1..n -> AccountDevice] : n \in 0..MaxDevices} :
        \A i, j \in DOMAIN s : s[i].device = s[j].device => i = j}

Account(list) == [array |-> list, len |-> Len(list)]
Ids(account) == {account.array[i].device : i \in 1..account.len}

Nil == [at |-> "nil"]
Slot(u, i) == [at |-> "slot", user |-> u, slot |-> i]
Copy(r) == [at |-> "copy", record |-> r]
Deref(p) == IF p.at = "slot" THEN accounts[p.user].array[p.slot] ELSE p.record

\* The accounts U get new arrays (or go): pointers into the old ones keep
\* seeing what is there now.
Detach(U) ==
    held' = [h \in Holders |->
                IF held[h].at = "slot" /\ held[h].user \in U THEN Copy(Deref(held[h])) ELSE held[h]]

AccountInit ==
    /\ accounts = <<>>
    /\ index = <<>>
    /\ held = [h \in Holders |-> Nil]
    /\ changes = 0

AddAccount(u, list) ==
    LET ids == Ids(Account(list))
        old == IF u \in DOMAIN accounts THEN Ids(accounts[u]) ELSE {}
        indexed == [d \in DOMAIN index \cup ids |-> IF d \in ids THEN u ELSE index[d]]
    IN  /\ accounts' = Put(accounts, u, Account(list))
        /\ index' = Drop(indexed, old \ ids)
        /\ Detach({u})

RemoveAccountKeepsIndex(u) ==
    /\ u \in DOMAIN accounts
    /\ accounts' = Drop(accounts, {u})
    /\ UNCHANGED index
    /\ Detach({u})

RemoveAccount(u) ==
    /\ u \in DOMAIN accounts
    /\ index' = Drop(index, Ids(accounts[u]))
    /\ accounts' = Drop(accounts, {u})
    /\ Detach({u})

\* AddDevice finds the device listed already and overwrites its slot.
UpdateDevice(u, r) ==
    /\ u \in DOMAIN accounts
    /\ \E i \in 1..accounts[u].len :
        /\ accounts[u].array[i].device = r.device
        /\ \A j \in 1..(i - 1) : accounts[u].array[j].device # r.device
        /\ accounts' = [accounts EXCEPT ![u].array[i] = r]
    /\ index' = Put(index, r.device, u)
    /\ UNCHANGED held

\* AddDevice appends: in place where the array has room, which Go leaves open
\* for the slots never used, else in a new array.
AppendDevice(u, r) ==
    LET account == IF u \in DOMAIN accounts THEN accounts[u] ELSE Account(<<>>)
        n == account.len
        appended == Append(SubSeq(account.array, 1, n), r)
                        \o SubSeq(account.array, n + 2, Len(account.array))
    IN  /\ r.device \notin Ids(account)
        /\ accounts' = Put(accounts, u, [array |-> appended, len |-> n + 1])
        /\ index' = Put(index, r.device, u)
        /\ \/ UNCHANGED held
           \/ n = Len(account.array) /\ Detach({u})

RemoveDevice(u, d) ==
    /\ u \in DOMAIN accounts
    /\ \E i \in 1..accounts[u].len :
        LET n == accounts[u].len
            array == accounts[u].array
        IN  /\ array[i].device = d
            /\ \A j \in 1..(i - 1) : array[j].device # d
            /\ accounts' = [accounts EXCEPT ![u] =
                    [array |-> [j \in 1..Len(array) |->
                                    IF j \in i..(n - 1) THEN array[j + 1] ELSE array[j]],
                     len |-> n - 1]]
    /\ index' = Drop(index, {d})
    /\ UNCHANGED held

\* FromJSON of what some ToJSON wrote: any accounts, no user twice.  The order
\* of the accounts decides whose device one is that several of them list.
FromJSON(saved) ==
    LET Lists(u, d) == d \in Ids(Account(saved[u]))
        listed == {d \in Devices : \E u \in DOMAIN saved : Lists(u, d)}
    IN  /\ accounts' = [u \in DOMAIN saved |-> Account(saved[u])]
        /\ \E place \in [DOMAIN saved -> 1..Cardinality(DOMAIN saved)] :
           \E owner \in [listed -> DOMAIN saved] :
            /\ \A u, v \in DOMAIN saved : place[u] = place[v] => u = v
            /\ \A d \in listed :
                /\ Lists(owner[d], d)
                /\ \A u \in DOMAIN saved : Lists(u, d) => place[u] <= place[owner[d]]
            /\ index' = owner
        /\ Detach(Users)

ChangeAccounts ==
    /\ changes < MaxChanges
    /\ changes' = changes + 1
    /\ \/ \E u \in Users, list \in DeviceLists : AddAccount(u, list)
       \/ \E u \in Users : RemoveAccount(u)
       \/ \E u \in Users, r \in AccountDevice : UpdateDevice(u, r) \/ AppendDevice(u, r)
       \/ \E u \in Users, d \in Devices : RemoveDevice(u, d)
       \/ \E U \in SUBSET Users : \E saved \in [U -> DeviceLists] : FromJSON(saved)

\* Where GetDevice finds d: the index, then the account, then its slots.  An
\* index entry whose account is gone would make it dereference nil.
Slots(d) ==
    IF d \in DOMAIN index /\ index[d] \in DOMAIN accounts
    THEN LET account == accounts[index[d]]
         IN  {i \in 1..account.len :
                /\ account.array[i].device = d
                /\ \A j \in 1..(i - 1) : account.array[j].device # d}
    ELSE {}

AccountsTypeOK ==
    /\ DOMAIN accounts \subseteq Users
    /\ \A u \in DOMAIN accounts :
        /\ accounts[u].array \in Seq(AccountDevice)
        /\ accounts[u].len \in 0..Len(accounts[u].array)
    /\ DOMAIN index \subseteq Devices
    /\ changes \in 0..MaxChanges
    /\ \A h \in Holders :
        \/ held[h] = Nil
        \/ held[h].at = "copy" /\ held[h].record \in AccountDevice
        \/ /\ held[h].at = "slot"
           /\ held[h].user \in DOMAIN accounts
           /\ held[h].slot \in 1..Len(accounts[held[h].user].array)

\* GetDevice dereferences the account the index names and must find the device
\* in it: an index entry never outlives the account or its listing, whichever
\* of the six operations removed it.
IndexSound ==
    \A d \in DOMAIN index : index[d] \in DOMAIN accounts /\ d \in Ids(accounts[index[d]])

\* accounts.go:220 "GetDevice returns a device by ID": a device some account
\* lists can be found.
ListedIsFound == \A u \in DOMAIN accounts : Ids(accounts[u]) \subseteq DOMAIN index
===========================================================================
