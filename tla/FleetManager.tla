--------------------------- MODULE FleetManager ---------------------------
(***************************************************************************)
(* integrator/fleet.go over client.go and connection.go: the connections   *)
(* the fleet manager and its client keep to the cloud servers, and the     *)
(* commands sent over them to the devices of the accounts.                 *)
(*                                                                         *)
(* fm.mu is a variable because Connect holds it while it dials; client.mu  *)
(* and Connection.mu guard single steps.  Connections are numbered in the  *)
(* order they were dialled.  Connection.Close sets closed, which is all    *)
(* that IsClosed reads: readLoop's exit on a broken link changes neither a *)
(* map nor closed, so Connect keeps returning the dead connection.         *)
(*                                                                         *)
(* Left out: status events and the health monitor, which only write a      *)
(* cache, and device groups.                                               *)
(***************************************************************************)
EXTENDS AccountManager

CONSTANTS
    Callers,        \* goroutines that connect and disconnect
    Nobody,         \* holds no lock
    MaxDials        \* bound: connections dialled in a behaviour

Senders == Holders  \* goroutines in SendCommand

ASSUME CallersAssumption == Nobody \notin Callers
ASSUME DialsAssumption == MaxDials \in Nat

VARIABLES
    mu,             \* who holds fm.mu while dialling
    fleet,          \* fm.connections
    client,         \* client.connections
    hostOf,         \* the host of each connection dialled
    closed,         \* the connections whose closed flag is set
    pc,             \* where each caller is
    dest,           \* the host it connects to
    closing,        \* the connections it took out of a map and is to close
    spc,            \* where each sender is
    target          \* the device it commands

connVars == <<mu, fleet, client, hostOf, closed, pc, dest, closing>>
sendVars == <<spc, target>>
vars == <<accountVars, connVars, sendVars>>

Conns == 1..Len(hostOf)
AnyHost == CHOOSE h \in Hosts : TRUE
AnyDevice == CHOOSE d \in Devices : TRUE

Init ==
    /\ AccountInit
    /\ mu = Nobody
    /\ fleet = <<>> /\ client = <<>> /\ hostOf = <<>>
    /\ closed = {}
    /\ pc = [c \in Callers |-> "idle"]
    /\ dest = [c \in Callers |-> AnyHost]
    /\ closing = [c \in Callers |-> {}]
    /\ spc = [s \in Senders |-> "idle"]
    /\ target = [s \in Senders |-> AnyDevice]

Go(c, place) == pc' = [pc EXCEPT ![c] = place]

---------------------------------------------------------------------------
\* FleetManager.Connect returns the connection it has unless that is closed.
HasConnection(h) == h \in DOMAIN fleet /\ fleet[h] \notin closed

ConnectBeginUnlocked(c, h) ==
    /\ pc[c] = "idle" /\ mu = Nobody
    /\ ~HasConnection(h)
    /\ dest' = [dest EXCEPT ![c] = h]
    /\ Go(c, "dial")
    /\ UNCHANGED <<mu, fleet, client, hostOf, closed, closing>>

ConnectBegin(c, h) ==
    /\ pc[c] = "idle" /\ mu = Nobody
    /\ ~HasConnection(h)
    /\ mu' = c
    /\ dest' = [dest EXCEPT ![c] = h]
    /\ Go(c, "dial")
    /\ UNCHANGED <<fleet, client, hostOf, closed, closing>>

ConnectFailsLocked(c) ==
    /\ pc[c] = "dial"
    /\ Go(c, "idle")
    /\ UNCHANGED <<mu, fleet, client, hostOf, closed, dest, closing>>

ConnectFails(c) ==
    /\ pc[c] = "dial"
    /\ mu' = Nobody
    /\ dest' = [dest EXCEPT ![c] = AnyHost]
    /\ Go(c, "idle")
    /\ UNCHANGED <<fleet, client, hostOf, closed, closing>>

Dial(c) ==
    /\ pc[c] = "dial" /\ Len(hostOf) < MaxDials
    /\ hostOf' = Append(hostOf, dest[c])
    /\ client' = Put(client, dest[c], Len(hostOf) + 1)
    /\ Go(c, "add")
    /\ UNCHANGED <<mu, fleet, closed, dest, closing>>

\* client.Connect returned: the connection this caller dialled is the last.
ConnectEnd(c) ==
    /\ pc[c] = "add"
    /\ fleet' = Put(fleet, dest[c], Len(hostOf))
    /\ mu' = Nobody
    /\ dest' = [dest EXCEPT ![c] = AnyHost]
    /\ Go(c, "idle")
    /\ UNCHANGED <<client, hostOf, closed, closing>>

\* Disconnect and DisconnectAll of either: take the connections of the hosts H
\* out of the map, then close them outside the lock.
FleetForget(c, H) ==
    /\ pc[c] = "idle" /\ mu = Nobody
    /\ H \cap DOMAIN fleet # {}
    /\ fleet' = Drop(fleet, H)
    /\ UNCHANGED <<mu, client, hostOf, closed, pc, dest, closing>>

FleetDisconnect(c, H) ==
    /\ pc[c] = "idle" /\ mu = Nobody
    /\ H \cap DOMAIN fleet # {}
    /\ closing' = [closing EXCEPT ![c] = {fleet[h] : h \in H \cap DOMAIN fleet}]
    /\ fleet' = Drop(fleet, H)
    /\ Go(c, "close")
    /\ UNCHANGED <<mu, client, hostOf, closed, dest>>

ClientDisconnect(c, H) ==
    /\ pc[c] = "idle"
    /\ H \cap DOMAIN client # {}
    /\ closing' = [closing EXCEPT ![c] = {client[h] : h \in H \cap DOMAIN client}]
    /\ client' = Drop(client, H)
    /\ Go(c, "close")
    /\ UNCHANGED <<mu, fleet, hostOf, closed, dest>>

Close(c) ==
    /\ pc[c] = "close"
    /\ \E n \in closing[c] :
        /\ closed' = closed \cup {n}
        /\ closing' = [closing EXCEPT ![c] = @ \ {n}]
    /\ Go(c, IF closing'[c] = {} THEN "idle" ELSE "close")
    /\ UNCHANGED <<mu, fleet, client, hostOf, dest>>

Connections ==
    \E c \in Callers :
        \/ \E h \in Hosts : ConnectBegin(c, h)
        \/ ConnectFails(c) \/ Dial(c) \/ ConnectEnd(c)
        \/ \E H \in {{h} : h \in Hosts} \cup {Hosts} : FleetDisconnect(c, H) \/ ClientDisconnect(c, H)
        \/ Close(c)

---------------------------------------------------------------------------
SendGoes(s, place) == spc' = [spc EXCEPT ![s] = place]
SendReturns(s) ==
    /\ SendGoes(s, "idle")
    /\ held' = [held EXCEPT ![s] = Nil]
    /\ target' = [target EXCEPT ![s] = AnyDevice]

\* SendCommand of a device GetDevice finds: it keeps a pointer to the slot.
SendLookup(s, d) ==
    /\ spc[s] = "idle"
    /\ \E i \in Slots(d) : held' = [held EXCEPT ![s] = Slot(index[d], i)]
    /\ target' = [target EXCEPT ![s] = d]
    /\ SendGoes(s, "control")

SendCheckControl(s) ==
    /\ spc[s] = "control"
    /\ \/ Deref(held[s]).control /\ SendGoes(s, "host") /\ UNCHANGED <<held, target>>
       \/ ~Deref(held[s]).control /\ SendReturns(s)

\* Finding the connection of the host waits for a Connect that dials.  Whether
\* there is one, and whether the write on it succeeds, changes nothing here.
SendRoute(s) ==
    /\ spc[s] = "host" /\ mu = Nobody
    /\ SendReturns(s)

SendCommand ==
    \E s \in Senders :
        /\ (\E d \in Devices : SendLookup(s, d)) \/ SendCheckControl(s) \/ SendRoute(s)
        /\ UNCHANGED <<accounts, index, changes>>

Next ==
    \/ ChangeAccounts /\ UNCHANGED <<connVars, sendVars>>
    \/ Connections /\ UNCHANGED <<accountVars, sendVars>>
    \/ SendCommand /\ UNCHANGED connVars

Spec == Init /\ [][Next]_vars

---------------------------------------------------------------------------
\* A pointer held by a sender always denotes a slot that exists, the lock is
\* held by the caller that dials, and maps name connections of their host.
TypeOK ==
    /\ AccountsTypeOK
    /\ \A s \in Senders : spc[s] \in {"idle", "control", "host"} /\ (spc[s] = "idle" <=> held[s] = Nil)
    /\ mu \in Callers \cup {Nobody}
    /\ \A c \in Callers :
        /\ pc[c] \in {"idle", "dial", "add", "close"}
        /\ pc[c] \in {"dial", "add"} <=> mu = c
        /\ closing[c] \subseteq Conns
    /\ hostOf \in Seq(Hosts) /\ Len(hostOf) <= MaxDials
    /\ closed \subseteq Conns
    /\ \A map \in {fleet, client} : \A h \in DOMAIN map : map[h] \in Conns /\ hostOf[map[h]] = h

BeingClosed == UNION {closing[c] : c \in Callers}
Open == Conns \ (closed \cup BeingClosed)

\* client.go:244 Close "closes all connections": whatever is open can be reached
\* through the client, so Client.Close leaves none behind, although the fleet
\* manager and the client keep their own maps, close each other's connections
\* and overwrite entries.
ClientOwnsAll == \A n \in Open : hostOf[n] \in DOMAIN client /\ client[hostOf[n]] = n

\* fleet.go:67 "Check if already connected": of the connections nobody is about
\* to close there is one for each host, whoever connects at the same time.
OneConnectionPerHost == \A m, n \in Open : hostOf[m] = hostOf[n] => m = n

\* One open connection for each host, and the client has it.
FleetSound == ClientOwnsAll /\ OneConnectionPerHost

\* accounts.go:41 "CanControl returns true if the integrator has control access
\* to this device": SendCommand decides on, and routes by, the listing of the
\* device it commands.
DecidesOnTheDevice == \A s \in Senders : spc[s] \in {"control", "host"} => Deref(held[s]).device = target[s]
===========================================================================
