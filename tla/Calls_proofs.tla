---------------------------- MODULE Calls_proofs ----------------------------
(***************************************************************************)
(* Theorems about what MCCalls composes: the MQTT transport, HTTP under an *)
(* RPC client, the rate limiter of the cloud client, backups, provisioning *)
(* over Bluetooth and in bulk, for any number of goroutines, requests,     *)
(* retries, faults, accounts, targets and workers, any interval, and any   *)
(* jobs, hooks, scripts and values to copy.                                *)
(***************************************************************************)
EXTENDS MCCalls, Integers, FiniteSetTheorems, TLAPS

-----------------------------------------------------------------------------
(* MqttTransport.                                                          *)

MqttIds == 1..MqttRequests

MqttTyped ==
    /\ lastReq \in 0..MqttRequests
    /\ req \in [Callers -> 0..MqttRequests]
    /\ ch \in [Callers -> 0..(MqttRequests + 1)]
    /\ mpc \in [Callers -> {"idle", "connect", "dial", "register", "publish", "wait", "cleanup"}]
    /\ waiters \in [MqttIds -> {{}} \cup {{t} : t \in Callers}]
    /\ published \subseteq MqttIds
    /\ \A a \in arriving : a[2] \in MqttIds

MqttRegistered == {"publish", "wait", "cleanup"}

\* Past Connect a thread has a request in hand, one that is idle has none, and the
\* map holds a thread only under its own request; only a thread in the map is told.
MqttInHand ==
    \A t \in Callers :
        /\ mpc[t] = "idle" => req[t] = 0
        /\ mpc[t] \in {"register"} \cup MqttRegistered => req[t] # 0
        /\ \A i \in MqttIds : t \in waiters[i] => mpc[t] \in MqttRegistered /\ req[t] = i
        /\ ch[t] # 0 => mpc[t] \in MqttRegistered

MqttInv == MqttTyped /\ MqttInHand

LEMMA MqttInit == Mqtt!MInit => MqttInv /\ Mqtt!Calls!Init
<1> SUFFICES ASSUME Mqtt!MInit PROVE MqttInv /\ Mqtt!Calls!Init
  OBVIOUS
<1> USE CallsAssumption DEF Mqtt!MInit, Mqtt!NoReq, Mqtt!NoAnswer
<1>1. MqttTyped
  BY DEF MqttTyped, MqttIds
<1>2. MqttInHand
  BY DEF MqttInHand, MqttIds, MqttRegistered
<1>3. 1..lastReq = {}
  OBVIOUS
<1> QED
  BY <1>1, <1>2, <1>3 DEF MqttInv, Mqtt!Calls!Init

\* Closing the channels of everyone in the map tells those who wait, who have a request.
LEMMA MqttSweep ==
    ASSUME MqttInv, Mqtt!Sweep, UNCHANGED <<lastReq, req, mpc, published>>,
           arriving' \subseteq arriving
    PROVE  MqttInv' /\ Mqtt!Calls!Break
<1> DEFINE S == {t \in Callers : ch[t] = 0 /\ \E i \in MqttIds : t \in waiters[i]}
<1>1. /\ ch' = [t \in Callers |-> IF t \in S THEN MqttRequests + 1 ELSE ch[t]]
      /\ waiters' = [i \in MqttIds |-> {}]
  BY DEF Mqtt!Sweep, Mqtt!NoAnswer, Mqtt!BrokenChan, MqttIds
<1>2. \A t \in S : mpc[t] \in MqttRegistered /\ req[t] # 0
  BY DEF MqttInv, MqttInHand
<1>3. S \in SUBSET {t \in Callers : req[t] # 0 /\ ch[t] = 0}
  BY <1>2
<1> HIDE DEF S
<1>4. MqttTyped'
  BY <1>1, CallsAssumption DEF MqttInv, MqttTyped
<1>5. MqttInHand'
  BY <1>1, <1>2 DEF MqttInv, MqttInHand
<1> QED
  BY <1>1, <1>3, <1>4, <1>5
     DEF MqttInv, Mqtt!Calls!Break, Mqtt!NoReq, Mqtt!NoAnswer, Mqtt!BrokenChan

\* Every step keeps the invariant and is one of the abstract Call, or none.
LEMMA MqttStep ==
    ASSUME MqttInv, [Mqtt!MNext]_mqttVars
    PROVE  MqttInv' /\ [Mqtt!Calls!Next]_(Mqtt!Calls!callVars)
<1> DEFINE Same == UNCHANGED <<req, ch, lastReq>>
<1> USE DEF Mqtt!NoReq, Mqtt!NoAnswer, Mqtt!BrokenChan
<1>t. /\ lastReq \in 0..MqttRequests /\ MqttRequests \in Nat
      /\ req \in [Callers -> 0..MqttRequests] /\ ch \in [Callers -> 0..(MqttRequests + 1)]
      /\ mpc \in [Callers -> {"idle", "connect", "dial", "register", "publish", "wait", "cleanup"}]
      /\ waiters \in [MqttIds -> {{}} \cup {{t} : t \in Callers}]
      /\ published \subseteq MqttIds /\ \A a \in arriving : a[2] \in MqttIds
  BY CallsAssumption DEF MqttInv, MqttTyped
<1>s. Same => UNCHANGED Mqtt!Calls!callVars
  BY DEF Mqtt!Calls!callVars
<1>1. ASSUME NEW t \in Callers, Mqtt!CallBegin(t) PROVE MqttInv' /\ Mqtt!Calls!Ask(t)
  <2>1. /\ mpc[t] = "idle" /\ lastReq < MqttRequests /\ lastReq' = lastReq + 1
        /\ req' = [req EXCEPT ![t] = lastReq + 1]
        /\ \E p \in {"register", "connect"} : mpc' = [mpc EXCEPT ![t] = p]
        /\ UNCHANGED <<waiters, ch, published, arriving>>
    BY <1>1 DEF Mqtt!CallBegin
  <2>2. MqttTyped'
    BY <1>t, <2>1 DEF MqttTyped
  <2>3. MqttInHand'
    BY <1>t, <2>1 DEF MqttInv, MqttInHand, MqttRegistered
  <2>4. /\ lastReq + 1 \in MqttIds \ 1..lastReq
        /\ (1..lastReq)' = 1..lastReq \cup {lastReq + 1}
        /\ req[t] = 0
    BY <1>t, <2>1 DEF MqttIds, MqttInv, MqttInHand
  <2> QED
    BY <2>1, <2>2, <2>3, <2>4 DEF MqttInv, Mqtt!Calls!Ask, MqttIds
\* A thread that leaves from Connect, with or without a request.
<1>2. ASSUME NEW t \in Callers, mpc[t] \in {"connect", "dial"}, Mqtt!Leave(t),
             UNCHANGED <<lastReq, waiters, ch, published, arriving>>
      PROVE  MqttInv' /\ (Same \/ Mqtt!Calls!Return(t))
  <2>1. mpc' = [mpc EXCEPT ![t] = "idle"] /\ req' = [req EXCEPT ![t] = 0]
    BY <1>2 DEF Mqtt!Leave
  <2>2. ch[t] = 0
    BY <1>2 DEF MqttInv, MqttInHand, MqttRegistered
  <2>3. ch' = [ch EXCEPT ![t] = 0]
    BY <1>t, <1>2, <2>2
  <2>4. MqttTyped'
    BY <1>t, <1>2, <2>1 DEF MqttTyped
  <2>5. MqttInHand'
    BY <1>t, <1>2, <2>1 DEF MqttInv, MqttInHand, MqttRegistered
  <2>6. req[t] = 0 => req' = req
    BY <1>t, <2>1
  <2> QED
    BY <1>2, <2>1, <2>3, <2>4, <2>5, <2>6 DEF MqttInv, Mqtt!Calls!Return
\* A thread that goes on with the request it has, if it is not idle.
<1>3. ASSUME NEW t \in Callers, NEW p \in {"connect", "dial", "register"},
             mpc[t] \in {"idle", "connect", "dial"}, p = "register" => req[t] # 0,
             mpc' = [mpc EXCEPT ![t] = p],
             UNCHANGED <<lastReq, req, waiters, ch, published, arriving>>
      PROVE  MqttInv' /\ Same
  <2>1. MqttTyped'
    BY <1>t, <1>3 DEF MqttTyped
  <2>2. MqttInHand'
    BY <1>t, <1>3 DEF MqttInv, MqttInHand, MqttRegistered
  <2> QED
    BY <1>3, <2>1, <2>2 DEF MqttInv
<1>4. ASSUME NEW t \in Callers, req[t] = 0, mpc[t] \in {"connect", "dial"},
             mpc' = [mpc EXCEPT ![t] = "idle"],
             UNCHANGED <<lastReq, req, waiters, ch, published, arriving>>
      PROVE  MqttInv' /\ Same
  <2>1. MqttTyped'
    BY <1>t, <1>4 DEF MqttTyped
  <2>2. MqttInHand'
    BY <1>t, <1>4 DEF MqttInv, MqttInHand, MqttRegistered
  <2> QED
    BY <1>4, <2>1, <2>2 DEF MqttInv
<1>5. ASSUME NEW t \in Callers, Mqtt!ConnectBegin(t) PROVE MqttInv' /\ Same
  BY <1>3, <1>5 DEF Mqtt!ConnectBegin
<1>6. ASSUME NEW t \in Callers, Mqtt!Connect(t)
      PROVE  MqttInv' /\ (Same \/ Mqtt!Calls!Return(t))
  BY <1>2, <1>3, <1>4, <1>6 DEF Mqtt!Connect, Mqtt!Connected
<1>7. ASSUME NEW t \in Callers, Mqtt!ConnectReturns(t)
      PROVE  MqttInv' /\ (Same \/ Mqtt!Calls!Return(t))
  BY <1>2, <1>3, <1>4, <1>7 DEF Mqtt!ConnectReturns, Mqtt!Connected
<1>8. ASSUME NEW t \in Callers, Mqtt!Register(t) PROVE MqttInv' /\ Same
  <2>1. /\ mpc[t] = "register" /\ waiters' = [waiters EXCEPT ![req[t]] = {t}]
        /\ ch' = [ch EXCEPT ![t] = 0] /\ mpc' = [mpc EXCEPT ![t] = "publish"]
        /\ UNCHANGED <<lastReq, req, published, arriving>>
    BY <1>8 DEF Mqtt!Register
  <2>2. req[t] \in MqttIds
    BY <1>t, <2>1 DEF MqttInv, MqttInHand, MqttIds
  <2>u. ch[t] = 0
    BY <2>1 DEF MqttInv, MqttInHand, MqttRegistered
  <2>3. ch' = ch
    BY <1>t, <2>1, <2>u
  <2>4. MqttTyped'
    BY <1>t, <2>1, <2>2, <2>3 DEF MqttTyped
  <2>5. MqttInHand'
    BY <1>t, <2>1, <2>2, <2>3 DEF MqttInv, MqttInHand, MqttRegistered
  <2> QED
    BY <2>1, <2>3, <2>4, <2>5 DEF MqttInv
<1>9. ASSUME NEW t \in Callers, Mqtt!Publish(t) \/ Mqtt!ContextDone(t) PROVE MqttInv' /\ Same
  <2>1. /\ mpc[t] \in {"publish", "wait"}
        /\ UNCHANGED mpc \/ \E p \in {"wait", "cleanup"} : mpc' = [mpc EXCEPT ![t] = p]
        /\ UNCHANGED published \/ published' = published \cup {req[t]}
        /\ UNCHANGED <<lastReq, req, waiters, ch, arriving>>
    BY <1>9 DEF Mqtt!Publish, Mqtt!ContextDone
  <2>2. req[t] \in MqttIds
    BY <1>t, <2>1 DEF MqttInv, MqttInHand, MqttRegistered, MqttIds
  <2>3. MqttTyped'
    BY <1>t, <2>1, <2>2 DEF MqttTyped
  <2>4. MqttInHand'
    BY <1>t, <2>1 DEF MqttInv, MqttInHand, MqttRegistered
  <2> QED
    BY <2>1, <2>3, <2>4 DEF MqttInv
<1>10. ASSUME NEW t \in Callers, Mqtt!Receive(t) PROVE MqttInv' /\ Mqtt!Calls!Look(t)
  <2>1. /\ mpc[t] = "wait" /\ ch[t] # 0
        /\ ch' = [ch EXCEPT ![t] = 0] /\ mpc' = [mpc EXCEPT ![t] = "cleanup"]
        /\ UNCHANGED <<lastReq, req, waiters, published, arriving>>
    BY <1>10 DEF Mqtt!Receive
  <2>2. MqttTyped'
    BY <1>t, <2>1 DEF MqttTyped
  <2>3. MqttInHand'
    BY <1>t, <2>1 DEF MqttInv, MqttInHand, MqttRegistered
  <2> QED
    BY <2>1, <2>2, <2>3 DEF MqttInv, Mqtt!Calls!Look
<1>11. ASSUME NEW t \in Callers, Mqtt!Cleanup(t) PROVE MqttInv' /\ Mqtt!Calls!Return(t)
  <2>1. /\ mpc[t] = "cleanup" /\ waiters' = [waiters EXCEPT ![req[t]] = {}]
        /\ ch' = [ch EXCEPT ![t] = 0]
        /\ mpc' = [mpc EXCEPT ![t] = "idle"] /\ req' = [req EXCEPT ![t] = 0]
        /\ UNCHANGED <<lastReq, published, arriving>>
    BY <1>11 DEF Mqtt!Cleanup, Mqtt!Leave
  <2>2. req[t] \in MqttIds
    BY <1>t, <2>1 DEF MqttInv, MqttInHand, MqttRegistered, MqttIds
  <2>3. MqttTyped'
    BY <1>t, <2>1, <2>2 DEF MqttTyped
  <2>4. MqttInHand'
    BY <1>t, <2>1, <2>2 DEF MqttInv, MqttInHand, MqttRegistered
  <2>5. req[t] # 0
    BY <2>2 DEF MqttIds
  <2> QED
    BY <2>1, <2>3, <2>4, <2>5 DEF MqttInv, Mqtt!Calls!Return
\* The answer goes to the thread the map holds under its id, whose request it is.
<1>12. ASSUME NEW a \in arriving, Mqtt!handleResponse(a)
       PROVE  MqttInv' /\ (Same \/ \E t \in Callers : Mqtt!Calls!Reply(t))
  <2> DEFINE i == a[2]
  <2>1. /\ ch' = [t \in Callers |-> IF t \in waiters[i] /\ ch[t] = 0 THEN i ELSE ch[t]]
        /\ arriving' \subseteq arriving
        /\ UNCHANGED <<lastReq, req, mpc, waiters, published>>
    BY <1>12 DEF Mqtt!handleResponse
  <2>2. i \in MqttIds
    BY <1>t
  <2>3. MqttTyped'
    BY <1>t, <2>1, <2>2 DEF MqttTyped, MqttIds
  <2>4. MqttInHand'
    BY <1>t, <2>1, <2>2 DEF MqttInv, MqttInHand
  <2>5. CASE \E t \in Callers : t \in waiters[i] /\ ch[t] = 0
    <3>1. PICK t \in Callers : t \in waiters[i] /\ ch[t] = 0
      BY <2>5
    <3>2. req[t] = i /\ i # 0 /\ waiters[i] = {t}
      <4>1. req[t] = i
        BY <2>2, <3>1 DEF MqttInv, MqttInHand
      <4>2. i # 0
        BY <2>2 DEF MqttIds
      <4>3. PICK u \in Callers : waiters[i] = {} \/ waiters[i] = {u}
        BY <1>t, <2>2, <3>1
      <4> QED
        BY <3>1, <4>1, <4>2, <4>3
    <3>3. ch' = [ch EXCEPT ![t] = req[t]]
      BY <1>t, <2>1, <3>1, <3>2
    <3> QED
      BY <2>1, <2>3, <2>4, <3>1, <3>2, <3>3 DEF MqttInv, Mqtt!Calls!Reply
  <2>6. CASE ~ \E t \in Callers : t \in waiters[i] /\ ch[t] = 0
    BY <1>t, <2>1, <2>3, <2>4, <2>6 DEF MqttInv
  <2> QED
    BY <2>5, <2>6
<1>13. ASSUME NEW i \in MqttIds, Mqtt!Answer(i) PROVE MqttInv' /\ Same
  <2>1. /\ arriving' = arriving \cup {<<n, i>> : n \in topics}
        /\ published' \subseteq published
        /\ UNCHANGED <<lastReq, req, ch, mpc, waiters>>
    BY <1>13 DEF Mqtt!Answer
  <2>2. \A a \in arriving' : a[2] \in MqttIds
    BY <1>t, <2>1
  <2>3. MqttTyped'
    BY <1>t, <2>1, <2>2 DEF MqttTyped
  <2> QED
    BY <2>1, <2>3 DEF MqttInv, MqttInHand
<1>14. ASSUME UNCHANGED <<lastReq, req, ch, mpc, waiters, published>>, arriving' \subseteq arriving
       PROVE  MqttInv' /\ Same
  <2>1. MqttTyped'
    BY <1>14 DEF MqttInv, MqttTyped
  <2> QED
    BY <1>14, <2>1 DEF MqttInv, MqttInHand
<1>15. ASSUME NEW n \in 1..MqttClients,
              Mqtt!Up(n) \/ Mqtt!Refused(n) \/ Mqtt!Lost(n) \/ Mqtt!onConnect(n)
       PROVE  MqttInv' /\ Same
  <2>1. UNCHANGED <<lastReq, req, ch, mpc, waiters, published>> /\ arriving' \subseteq arriving
    BY <1>15 DEF Mqtt!Up, Mqtt!Refused, Mqtt!Lost, Mqtt!onConnect
  <2> QED
    BY <1>14, <2>1
<1>16. ASSUME NEW n \in 1..MqttClients, Mqtt!onConnectionLost(n)
       PROVE  MqttInv' /\ (Same \/ Mqtt!Calls!Break)
  <2>1. /\ UNCHANGED <<lastReq, req, mpc, published, arriving>>
        /\ UNCHANGED <<waiters, ch>> \/ Mqtt!Sweep
    BY <1>16 DEF Mqtt!onConnectionLost
  <2> QED
    BY <1>14, <2>1, MqttSweep
<1>17. ASSUME Mqtt!CloseSweep PROVE MqttInv' /\ Mqtt!Calls!Break
  <2>1. UNCHANGED <<lastReq, req, mpc, published, arriving>> /\ Mqtt!Sweep
    BY <1>17 DEF Mqtt!CloseSweep
  <2> QED
    BY <2>1, MqttSweep
<1>18. ASSUME Mqtt!CloseBegin \/ Mqtt!CloseDisconnect PROVE MqttInv' /\ Same
  BY <1>14, <1>18 DEF Mqtt!CloseBegin, Mqtt!CloseDisconnect
<1>19. CASE UNCHANGED mqttVars
  BY <1>14, <1>19, <1>s DEF mqttVars
<1> HIDE DEF Same
<1> QED
  BY <1>s, <1>1, <1>5, <1>6, <1>7, <1>8, <1>9, <1>10, <1>11, <1>12, <1>13, <1>15, <1>16, <1>17,
     <1>18, <1>19
  DEF Mqtt!MNext, Mqtt!CallStep, Mqtt!Handlers, Mqtt!Calls!Next, MqttIds

-----------------------------------------------------------------------------
(* CloudClient.                                                            *)

Access ==
    [token : CloudAccounts \cup {Cloud!None}, server : CloudAccounts \cup {Cloud!None}]

LimiterTyped ==
    /\ clock \in Int /\ lastCall \in Int /\ gap \in Int
    /\ until \in [Callers -> Int]
    /\ at \in [Callers -> {"idle", "queued", "sleeping", "passed", "sent"}]
    /\ access \in Access
    /\ token \in [Callers -> Access]
    /\ holder \in Callers \cup {Cloud!Unheld}

\* The time the limiter notes is that of the last call that passed, and the one
\* that holds its mutex sleeps until an interval after it.
Spaced ==
    /\ lastCall = passedAt
    /\ \A g \in Callers :
        at[g] = "sleeping" => holder = g /\ until[g] = lastCall + CloudInterval

\* Token and server are stored together.
Paired == access.token = access.server

ClientInv == LimiterTyped /\ Spaced /\ Paired /\ Cloud!ClientSound

LEMMA ClientInitInv == Cloud!ClientInit => ClientInv
<1> SUFFICES ASSUME Cloud!ClientInit PROVE ClientInv
  OBVIOUS
<1> USE CallsAssumption DEF Cloud!ClientInit
<1>1. Cloud!LongAgo \in Int
  BY DEF Cloud!LongAgo
<1>2. LimiterTyped
  BY <1>1 DEF LimiterTyped, Access
<1>3. Spaced /\ Cloud!ClientSound
  BY DEF Spaced, Cloud!ClientSound
<1>4. Paired
  BY DEF Paired
<1> QED
  BY <1>2, <1>3, <1>4 DEF ClientInv

LEMMA ClientStep == ClientInv /\ [Cloud!ClientNext]_clientVars => ClientInv'
<1> SUFFICES ASSUME ClientInv, [Cloud!ClientNext]_clientVars PROVE ClientInv'
  OBVIOUS
<1>t. /\ clock \in Int /\ lastCall \in Int /\ gap \in Int /\ CloudInterval \in Nat
      /\ until \in [Callers -> Int]
      /\ at \in [Callers -> {"idle", "queued", "sleeping", "passed", "sent"}]
      /\ holder \in Callers \cup {Cloud!Unheld} /\ Cloud!Unheld \notin Callers
      /\ access \in Access /\ token \in [Callers -> Access]
  BY CallsAssumption DEF ClientInv, LimiterTyped
<1>s. /\ lastCall = passedAt /\ gap >= CloudInterval
      /\ \A g \in Callers :
            at[g] = "sleeping" => holder = g /\ until[g] = lastCall + CloudInterval
      /\ access.token = access.server
      /\ \A g \in Callers : at[g] = "sent" => token[g].token = token[g].server
  BY DEF ClientInv, Spaced, Paired, Cloud!ClientSound
<1> USE DEF ClientInv, LimiterTyped, Spaced, Paired, Cloud!ClientSound
\* A step that moves a goroutine to a place where it neither sleeps nor has sent.
<1>1. ASSUME NEW g \in Callers, NEW p \in {"idle", "queued", "passed"},
             at' = [at EXCEPT ![g] = p],
             UNCHANGED <<clock, lastCall, gap, until, token, passedAt>>,
             access' \in Access, access'.token = access'.server,
             holder' = holder \/ (at[g] = "sleeping" /\ holder' = Cloud!Unheld)
      PROVE  ClientInv'
  BY <1>t, <1>s, <1>1
<1>2. ASSUME NEW g \in Callers, Cloud!Begin(g) \/ Cloud!Answer(g) PROVE ClientInv'
  BY <1>1, <1>2, <1>s, <1>t DEF Cloud!Begin, Cloud!Answer
<1>3. ASSUME NEW g \in Callers, Cloud!GiveUp(g) PROVE ClientInv'
  BY <1>1, <1>3, <1>s, <1>t DEF Cloud!GiveUp
<1>4. ASSUME NEW g \in Callers, Cloud!LoggedIn(g) PROVE ClientInv'
  <2>1. access' \in Access /\ access'.token = access'.server
    BY <1>4, <1>s, <1>t DEF Cloud!LoggedIn, Access
  <2> QED
    BY <1>1, <1>4, <2>1 DEF Cloud!LoggedIn
<1>5. ASSUME NEW g \in Callers, Cloud!Lock(g) PROVE ClientInv'
  <2>1. /\ at[g] = "queued" /\ holder = Cloud!Unheld /\ holder' = g
        /\ until' = [until EXCEPT ![g] = lastCall + CloudInterval]
        /\ at' = [at EXCEPT ![g] = "sleeping"]
        /\ UNCHANGED <<clock, lastCall, gap, access, token, passedAt>>
    BY <1>5 DEF Cloud!Lock
  <2>2. \A f \in Callers : at[f] # "sleeping"
    BY <1>t, <1>s, <2>1
  <2> QED
    BY <1>t, <1>s, <2>1, <2>2
<1>6. ASSUME NEW g \in Callers, Cloud!Pass(g) PROVE ClientInv'
  <2>1. /\ at[g] = "sleeping" /\ clock >= until[g]
        /\ gap' = clock - passedAt /\ passedAt' = clock /\ lastCall' = clock
        /\ holder' = Cloud!Unheld /\ at' = [at EXCEPT ![g] = "passed"]
        /\ UNCHANGED <<clock, until, access, token>>
    BY <1>6 DEF Cloud!Pass
  <2>2. gap' >= CloudInterval /\ gap' \in Int
    BY <1>t, <1>s, <2>1
  <2>3. \A f \in Callers : at'[f] # "sleeping"
    BY <1>t, <1>s, <2>1
  <2> QED
    BY <1>t, <1>s, <2>1, <2>2, <2>3
<1>7. ASSUME NEW g \in Callers, Cloud!ReadAccess(g) PROVE ClientInv'
  <2>1. CASE at' = [at EXCEPT ![g] = "idle"] /\ UNCHANGED token
    BY <1>1, <1>7, <1>s, <1>t, <2>1 DEF Cloud!ReadAccess
  <2>2. CASE /\ at[g] = "passed" /\ at' = [at EXCEPT ![g] = "sent"]
             /\ token' = [token EXCEPT ![g] = access]
    BY <1>t, <1>s, <1>7, <2>2 DEF Cloud!ReadAccess
  <2> QED
    BY <1>7, <2>1, <2>2 DEF Cloud!ReadAccess
<1>8. ASSUME NEW g \in Callers, Cloud!ContextEnds(g) PROVE ClientInv'
  BY <1>8 DEF Cloud!ContextEnds
<1>9. ASSUME Cloud!Tick PROVE ClientInv'
  BY <1>t, <1>9 DEF Cloud!Tick
<1>10. CASE UNCHANGED clientVars
  BY <1>10 DEF clientVars
<1> QED
  BY <1>2, <1>3, <1>4, <1>5, <1>6, <1>7, <1>8, <1>9, <1>10 DEF Cloud!ClientNext, Cloud!Step

-----------------------------------------------------------------------------
(* RpcHttp.                                                                *)

HttpTyped ==
    /\ auth \in {"none", "basic", "digest"}
    /\ place \in {"idle", "attempt", "send", "backoff"}
    /\ request.kind \in {"rpc", "rest", "batch"}
    /\ tries \in Nat /\ executed \in Nat
    /\ fatal \in BOOLEAN /\ lostAny \in BOOLEAN

\* A call that goes on has no outcome yet and nothing final has failed; while nothing
\* was lost the device has executed nothing of it, and before an answer it has executed
\* at most what the earlier attempts sent.
GoesOn ==
    /\ place # "idle" => outcome = "none" /\ ~fatal
    /\ outcome \in {"none", "result"} \cup Http!Errors
    /\ /\ place \in {"attempt", "send"}
       /\ request.kind # "rest" \/ auth # "digest"
       => executed <= tries

HttpInv == HttpTyped /\ GoesOn /\ Http!HttpSound

LEMMA HttpInit == Http!HInit => HttpInv
<1> SUFFICES ASSUME Http!HInit PROVE HttpInv
  OBVIOUS
<1>1. /\ auth \in {"none", "basic", "digest"} /\ place = "idle" /\ request.kind = "rpc"
      /\ tries = 0 /\ executed = 0 /\ lostAny = FALSE /\ fatal = FALSE /\ outcome = "none"
  BY DEF Http!HInit, Http!NoRequest
<1>2. HttpTyped /\ GoesOn
  BY <1>1 DEF HttpTyped, GoesOn
<1>3. Http!HttpSound
  BY <1>1 DEF Http!HttpSound
<1> QED
  BY <1>2, <1>3 DEF HttpInv

\* What is left of the invariant after an attempt failed, having executed what it had.
LEMMA HttpFailed ==
    ASSUME HttpInv, place \in {"attempt", "send"}, NEW error \in Http!Errors, Http!Failed(error),
           UNCHANGED <<auth, request, tries>>,
           lostAny' \in BOOLEAN, executed' \in Nat,
           executed' <= executed + 1 \/ (request.kind = "rest" /\ auth = "digest"),
           ~lostAny' => ~lostAny
                        /\ (executed' = executed \/ (auth = "digest" /\ request.kind # "rpc"))
    PROVE  HttpInv'
<1>1. /\ fatal' = (fatal \/ ~Http!ShouldRetry(error))
      /\ \/ Http!ShouldRetry(error) /\ place' = "backoff" /\ outcome' = outcome
         \/ place' = "idle" /\ outcome' = error
  BY DEF Http!Failed
<1>2. outcome = "none" /\ ~fatal
  BY DEF HttpInv, GoesOn
<1>3. outcome' # "result" /\ outcome' \in {"none", "result"} \cup Http!Errors
  BY <1>1, <1>2 DEF Http!Errors
<1>4. Http!ShouldRetry(error) \in BOOLEAN
  BY DEF Http!ShouldRetry
<1>5. HttpTyped'
  BY <1>1, <1>2, <1>4 DEF HttpInv, HttpTyped
<1>6. GoesOn'
  BY <1>1, <1>2, <1>3, <1>4 DEF GoesOn
<1>7. Http!HttpSound'
  <2>1. ~lostAny' /\ (auth' # "digest" \/ request'.kind = "rpc") => executed' = 0
    BY <1>2 DEF HttpInv, Http!HttpSound
  <2>2. fatal' => place' = "idle"
    BY <1>1, <1>2, <1>4
  <2>3. request'.kind # "rest" \/ auth' # "digest" => executed' <= tries' + 1
    BY DEF HttpInv, HttpTyped, GoesOn
  <2> QED
    BY <1>3, <2>1, <2>2, <2>3 DEF Http!HttpSound
<1> QED
  BY <1>5, <1>6, <1>7 DEF HttpInv

LEMMA HttpStep == HttpInv /\ [Http!HNext]_httpVars => HttpInv'
<1> SUFFICES ASSUME HttpInv, [Http!HNext]_httpVars PROVE HttpInv'
  OBVIOUS
<1>t. /\ auth \in {"none", "basic", "digest"}
      /\ request.kind \in {"rpc", "rest", "batch"}
      /\ tries \in Nat /\ executed \in Nat
      /\ fatal \in BOOLEAN /\ lostAny \in BOOLEAN
      /\ Http!Runs \in {0, 1}
  BY DEF HttpInv, HttpTyped, Http!Runs
<1>e. "auth" \in Http!Errors /\ "network" \in Http!Errors /\ "context" \in Http!Errors
      /\ "parse" \in Http!Errors /\ "notFound" \in Http!Errors /\ "status" \in Http!Errors
      /\ "rpc" \in Http!Errors
  BY DEF Http!Errors
<1>1. ASSUME NEW k \in {"rpc", "rest", "batch"}, Http!Begin(k) PROVE HttpInv'
  <2>1. /\ request'.kind = k /\ tries' = 0 /\ place' = "attempt" /\ executed' = 0
        /\ lostAny' = FALSE /\ fatal' = FALSE /\ outcome' = "none" /\ auth' = auth
    BY <1>1 DEF Http!Begin
  <2>2. HttpTyped'
    BY <1>t, <2>1 DEF HttpTyped
  <2>3. executed' <= tries'
    BY <2>1
  <2>4. GoesOn'
    BY <2>1, <2>3 DEF GoesOn
  <2>5. Http!HttpSound'
    BY <2>1 DEF Http!HttpSound
  <2> QED
    BY <2>2, <2>4, <2>5 DEF HttpInv
<1>2. ASSUME Http!ApplyAuth PROVE HttpInv'
  BY <1>2, <1>t DEF Http!ApplyAuth, Http!call, HttpInv, HttpTyped, GoesOn, Http!HttpSound
<1>3. ASSUME Http!Challenge PROVE HttpInv'
  BY <1>3, <1>t DEF Http!Challenge, Http!call, HttpInv, HttpTyped, GoesOn, Http!HttpSound
<1>4. ASSUME Http!ChallengeLost PROVE HttpInv'
  <2>1. /\ place = "attempt" /\ auth = "digest"
        /\ UNCHANGED <<auth, request, tries>>
        /\ \E error \in {"context", "network"} : Http!Failed(error)
        /\ \/ UNCHANGED <<executed, lostAny>>
           \/ lostAny' = TRUE /\ executed' \in {executed, executed + 1}
    BY <1>4 DEF Http!ChallengeLost, Http!call
  <2>2. PICK error \in {"context", "network"} : Http!Failed(error)
    BY <2>1
  <2>3. CASE UNCHANGED <<executed, lostAny>>
    BY <1>t, <1>e, <2>1, <2>2, <2>3, HttpFailed
  <2>4. CASE lostAny' = TRUE /\ executed' \in {executed, executed + 1}
    BY <1>t, <1>e, <2>1, <2>2, <2>4, HttpFailed
  <2> QED
    BY <2>1, <2>3, <2>4
<1>5. ASSUME Http!Answered PROVE HttpInv'
  <2>1. place = "send" /\ UNCHANGED <<auth, request, tries, lostAny>>
    BY <1>5 DEF Http!Answered, Http!call
  <2>2. CASE Http!Failed("auth") /\ executed' = executed
    BY <1>t, <1>e, <2>1, <2>2, HttpFailed
  <2>3. CASE /\ executed' = executed + Http!Runs /\ request.kind = "batch"
             /\ Http!Failed("parse")
    BY <1>t, <1>e, <2>1, <2>3, HttpFailed DEF Http!Runs
  <2>4. CASE /\ executed' = executed + Http!Runs /\ request.kind # "batch"
             /\ place' = "idle" /\ outcome' = "result" /\ UNCHANGED fatal
    <3>1. executed' = executed + 1
      BY <2>4 DEF Http!Runs
    <3> QED
      BY <1>t, <2>1, <2>4, <3>1 DEF HttpInv, HttpTyped, GoesOn, Http!HttpSound
  <2> QED
    BY <1>5, <2>2, <2>3, <2>4 DEF Http!Answered
<1>6. ASSUME Http!Refused PROVE HttpInv'
  <2>1. /\ place = "send" /\ UNCHANGED <<auth, request, tries, executed, lostAny>>
        /\ \E error \in Http!Errors : Http!Failed(error)
    BY <1>6, <1>e DEF Http!Refused, Http!call
  <2> QED
    BY <1>t, <2>1, HttpFailed
<1>7. ASSUME Http!Lost \/ Http!TimesOut PROVE HttpInv'
  <2>1. /\ place = "send" /\ UNCHANGED <<auth, request, tries>>
        /\ \E error \in {"network", "context"} : Http!Failed(error)
        /\ lostAny' = TRUE /\ executed' \in {executed, executed + Http!Runs}
    BY <1>7 DEF Http!Lost, Http!TimesOut, Http!call
  <2> QED
    BY <1>t, <1>e, <2>1, HttpFailed
<1>8. ASSUME Http!Backoff PROVE HttpInv'
  BY <1>8, <1>t DEF Http!Backoff, Http!call, HttpInv, HttpTyped, GoesOn, Http!HttpSound
<1>9. ASSUME Http!BackoffEnds PROVE HttpInv'
  BY <1>9, <1>t, <1>e DEF Http!BackoffEnds, Http!call, HttpInv, HttpTyped, GoesOn, Http!HttpSound
<1>10. ASSUME Http!ContextEnds \/ UNCHANGED httpVars PROVE HttpInv'
  BY <1>10, <1>t DEF Http!ContextEnds, Http!call, httpVars, HttpInv, HttpTyped, GoesOn,
     Http!HttpSound
<1> QED
  BY <1>1, <1>2, <1>3, <1>4, <1>5, <1>6, <1>7, <1>8, <1>9, <1>10 DEF Http!HNext

-----------------------------------------------------------------------------
(* BleProvisioning.                                                        *)

BleTyped ==
    /\ ble \in [BleProvisioners ->
                  [at : {"idle", "begun", "connect", "connected", "error", "failed", "done"},
                   sent : Nat]]
    /\ linked \in BOOLEAN
    /\ dialed \in [DOMAIN dialed -> BOOLEAN]

Active(p) == ble[p].at \in {"connect", "connected", "error"}
Linked(p) == p \in DOMAIN dialed /\ dialed[p]

\* While nobody gave up a Connect, one program at most has the transmitter, and the link,
\* the device and the characteristics are its own.
OneActive ==
    /\ Ble!OwnDevice
    /\ \A p \in dialing : p \in BleProvisioners /\ ble[p].at = "connect"
    /\ \A p \in BleProvisioners : ble[p].at \in {"idle", "begun"} => p \notin DOMAIN dialed
    /\ \A p, q \in BleProvisioners : Active(p) /\ Active(q) => p = q
    /\ \A p \in BleProvisioners : ble[p].at = "connect" =>
          /\ owner = {p} /\ ~linked
          /\ p \in dialing <=> p \notin DOMAIN dialed
          /\ links = IF Linked(p) THEN {p} ELSE {}
          /\ Linked(p) => target = {p}
    /\ \A p \in BleProvisioners : ble[p].at \in {"connected", "error"} =>
          owner = {} /\ linked /\ target = {p} /\ chars = {p} /\ links = {p}
    /\ (\A p \in BleProvisioners : ~Active(p)) => owner = {} /\ ~linked /\ links = {}

BleInv == BleTyped /\ (forsaken = {} => OneActive)

LEMMA BleInit == Ble!PInit => BleInv
<1> SUFFICES ASSUME Ble!PInit PROVE BleInv
  OBVIOUS
<1>1. /\ ble = [p \in BleProvisioners |-> [at |-> "idle", sent |-> 0]]
      /\ owner = {} /\ linked = FALSE /\ links = {} /\ dialing = {} /\ written = {}
      /\ DOMAIN dialed = {} /\ dialed = [p \in {} |-> TRUE]
  BY DEF Ble!PInit
<1>2. BleTyped
  BY <1>1 DEF BleTyped
<1>3. \A p \in BleProvisioners : ble[p].at = "idle"
  BY <1>1
<1>4. OneActive
  BY <1>1, <1>3 DEF OneActive, Ble!OwnDevice, Active
<1> QED
  BY <1>2, <1>4 DEF BleInv

\* What To(p, at) leaves and changes.
LEMMA BleMoves ==
    ASSUME BleTyped, NEW p \in BleProvisioners,
           NEW at1 \in {"begun", "connect", "connected", "error", "failed", "done"},
           Ble!To(p, at1)
    PROVE  /\ ble' \in [BleProvisioners ->
                  [at : {"idle", "begun", "connect", "connected", "error", "failed", "done"},
                   sent : Nat]]
           /\ ble'[p].at = at1
           /\ \A q \in BleProvisioners \ {p} : ble'[q] = ble[q]
BY DEF BleTyped, Ble!To

LEMMA BleStep == BleInv /\ [Ble!PNext]_bleVars => BleInv'
<1> SUFFICES ASSUME BleInv, [Ble!PNext]_bleVars PROVE BleInv'
  OBVIOUS
<1>t. BleTyped /\ ble \in [BleProvisioners ->
                  [at : {"idle", "begun", "connect", "connected", "error", "failed", "done"},
                   sent : Nat]]
  BY DEF BleInv, BleTyped
<1>i. forsaken = {} => OneActive
  BY DEF BleInv
<1>1. ASSUME UNCHANGED <<owner, linked, target, chars, links, dialing, dialed, ble, written,
                         forsaken>>
      PROVE  BleInv'
  BY <1>1 DEF BleInv, BleTyped, OneActive, Ble!OwnDevice, Active, Linked
<1>2. ASSUME NEW p \in BleProvisioners, Ble!Begin(p) PROVE BleInv'
  <2>1. /\ ble[p].at = "idle" /\ Ble!To(p, "begun")
        /\ UNCHANGED <<owner, linked, target, chars, links, dialing, dialed, written, forsaken>>
    BY <1>2 DEF Ble!Begin
  <2>2. /\ BleTyped' /\ ble'[p].at = "begun"
        /\ \A q \in BleProvisioners \ {p} : ble'[q] = ble[q]
    BY <1>t, <2>1, BleMoves DEF BleTyped
  <2>3. OneActive => OneActive'
    BY <2>1, <2>2 DEF OneActive, Ble!OwnDevice, Active, Linked
  <2> QED
    BY <1>i, <2>1, <2>2, <2>3 DEF BleInv
<1>3. ASSUME NEW p \in BleProvisioners, Ble!Connect(p) PROVE BleInv'
  <2>1. /\ ble[p].at = "begun" /\ owner = {}
        /\ UNCHANGED <<linked, target, chars, links, dialed, written, forsaken>>
    BY <1>3 DEF Ble!Connect
  <2>2. CASE linked /\ Ble!To(p, "failed") /\ UNCHANGED <<owner, dialing>>
    <3>1. /\ BleTyped' /\ ble'[p].at = "failed"
          /\ \A q \in BleProvisioners \ {p} : ble'[q] = ble[q]
      BY <1>t, <2>1, <2>2, BleMoves DEF BleTyped
    <3>2. OneActive => OneActive'
      BY <2>1, <2>2, <3>1 DEF OneActive, Ble!OwnDevice, Active, Linked
    <3> QED
      BY <1>i, <2>1, <3>1, <3>2 DEF BleInv
  <2>3. CASE ~linked /\ Ble!To(p, "connect") /\ owner' = {p} /\ dialing' = dialing \cup {p}
    <3>1. /\ BleTyped' /\ ble'[p].at = "connect"
          /\ \A q \in BleProvisioners \ {p} : ble'[q] = ble[q]
      BY <1>t, <2>1, <2>3, BleMoves DEF BleTyped
    <3>2. OneActive => \A q \in BleProvisioners : ~Active(q)
      BY <2>1, <2>3 DEF OneActive, Active
    <3>3. OneActive => p \notin DOMAIN dialed /\ links = {}
      BY <2>1, <3>2 DEF OneActive
    <3>4. OneActive => OneActive'
      BY <2>1, <2>3, <3>1, <3>2, <3>3 DEF OneActive, Ble!OwnDevice, Active, Linked
    <3> QED
      BY <1>i, <2>1, <3>1, <3>4 DEF BleInv
  <2> QED
    BY <1>3, <2>2, <2>3 DEF Ble!Connect
<1>4. ASSUME NEW p \in BleProvisioners, NEW ok \in BOOLEAN, Ble!Dialed(p, ok) PROVE BleInv'
  <2>1. /\ p \in dialing /\ dialing' = dialing \ {p}
        /\ links' = IF ok THEN links \cup {p} ELSE links
        /\ target' = IF ok THEN {p} ELSE target
        /\ UNCHANGED <<owner, linked, chars, ble, written, forsaken>>
    BY <1>4 DEF Ble!Dialed
  <2>2. dialed' = [q \in DOMAIN dialed \cup {p} |-> IF q = p THEN ok ELSE dialed[q]]
        \/ (dialed' = dialed /\ p \in forsaken)
    BY <1>4 DEF Ble!Dialed
  <2>3. BleTyped'
    <3>1. \A q \in DOMAIN dialed : dialed[q] \in BOOLEAN
      BY <1>t DEF BleTyped
    <3> QED
      BY <1>t, <2>1, <2>2, <3>1 DEF BleTyped
  <2>4. ASSUME OneActive, forsaken = {} PROVE OneActive'
    <3>1. /\ ble[p].at = "connect" /\ p \notin DOMAIN dialed /\ links = {}
          /\ \A q \in BleProvisioners \ {p} : ~Active(q)
      BY <2>1, <2>4 DEF OneActive, Active, Linked
    <3>2. DOMAIN dialed' = DOMAIN dialed \cup {p} /\ dialed'[p] = ok
      BY <2>2, <2>4
    <3>3. Linked(p)' <=> ok
      BY <3>2 DEF Linked
    <3>4. links' = (IF ok THEN {p} ELSE {}) /\ (ok => target' = {p})
      BY <2>1, <3>1
    <3>5. \A q \in BleProvisioners : ble'[q].at = "connect" =>
              /\ owner' = {q} /\ ~linked'
              /\ q \in dialing' <=> q \notin DOMAIN dialed'
              /\ links' = IF Linked(q)' THEN {q} ELSE {}
              /\ Linked(q)' => target' = {q}
      BY <2>1, <2>4, <3>1, <3>2, <3>3, <3>4 DEF OneActive, Active
    <3> QED
      BY <2>1, <2>4, <3>1, <3>2, <3>5 DEF OneActive, Ble!OwnDevice, Active, Linked
  <2> QED
    BY <1>i, <2>1, <2>3, <2>4 DEF BleInv
<1>5. ASSUME NEW p \in BleProvisioners, Ble!GiveUp(p) PROVE BleInv'
  <2>1. Ble!To(p, "failed") /\ UNCHANGED <<linked, dialed>> /\ forsaken' # {}
    BY <1>5 DEF Ble!GiveUp
  <2> QED
    BY <1>t, <2>1, BleMoves DEF BleInv, BleTyped
<1>6. ASSUME NEW p \in BleProvisioners, Ble!Discover(p) PROVE BleInv'
  <2>1. /\ ble[p].at = "connect" /\ p \in DOMAIN dialed /\ owner' = {}
        /\ UNCHANGED <<target, dialing, dialed, written, forsaken>>
    BY <1>6 DEF Ble!Discover
  <2>2. OneActive => p \notin dialing /\ \A q \in BleProvisioners \ {p} : ~Active(q)
    BY <2>1 DEF OneActive, Active
  <2>3. CASE dialed[p] /\ Ble!To(p, "connected") /\ chars' = target /\ linked' = TRUE
             /\ UNCHANGED links
    <3>1. /\ BleTyped' /\ ble'[p].at = "connected"
          /\ \A q \in BleProvisioners \ {p} : ble'[q] = ble[q]
      BY <1>t, <2>1, <2>3, BleMoves DEF BleTyped
    <3>2. OneActive => OneActive'
      BY <2>1, <2>2, <2>3, <3>1 DEF OneActive, Ble!OwnDevice, Active, Linked
    <3> QED
      BY <1>i, <2>1, <3>1, <3>2 DEF BleInv
  <2>4. CASE /\ Ble!To(p, "failed") /\ UNCHANGED <<linked, chars>>
             /\ \/ ~dialed[p] /\ UNCHANGED links
                \/ dialed[p] /\ links' = links \ target
    <3>1. /\ BleTyped' /\ ble'[p].at = "failed"
          /\ \A q \in BleProvisioners \ {p} : ble'[q] = ble[q]
      BY <1>t, <2>1, <2>4, BleMoves DEF BleTyped
    <3>2. OneActive => links' = {} /\ ~linked'
      BY <2>1, <2>4 DEF OneActive, Linked
    <3>3. OneActive => OneActive'
      BY <2>1, <2>2, <3>1, <3>2 DEF OneActive, Ble!OwnDevice, Active, Linked
    <3> QED
      BY <1>i, <2>1, <3>1, <3>3 DEF BleInv
  <2> QED
    BY <1>6, <2>3, <2>4 DEF Ble!Discover
<1>7. ASSUME NEW p \in BleProvisioners, Ble!WriteCharacteristic(p) PROVE BleInv'
  <2>1. /\ ble[p].at = "connected"
        /\ \/ ble' = [ble EXCEPT ![p].sent = @ + 1]
           \/ Ble!To(p, "error")
        /\ written' = written \/ written' = written \cup {<<p, d>> : d \in chars \cap links}
        /\ UNCHANGED <<owner, linked, target, chars, links, dialing, dialed, forsaken>>
    BY <1>7 DEF Ble!WriteCharacteristic
  <2>2. /\ BleTyped' /\ ble'[p].at \in {"connected", "error"}
        /\ \A q \in BleProvisioners \ {p} : ble'[q] = ble[q]
    <3>1. CASE ble' = [ble EXCEPT ![p].sent = @ + 1]
      BY <1>t, <2>1, <3>1 DEF BleTyped
    <3>2. CASE Ble!To(p, "error")
      BY <1>t, <2>1, <3>2, BleMoves DEF BleTyped
    <3> QED
      BY <2>1, <3>1, <3>2
  <2>3. OneActive => Ble!OwnDevice'
    BY <2>1 DEF OneActive, Ble!OwnDevice
  <2>4. OneActive => OneActive'
    BY <2>1, <2>2, <2>3 DEF OneActive, Active, Linked
  <2> QED
    BY <1>i, <2>1, <2>2, <2>4 DEF BleInv
<1>8. ASSUME NEW p \in BleProvisioners, Ble!Disconnect(p) PROVE BleInv'
  <2>1. /\ ble[p].at \in {"connected", "error"} /\ owner = {}
        /\ links' = IF linked THEN links \ target ELSE links
        /\ linked' = FALSE
        /\ UNCHANGED <<owner, target, chars, dialing, dialed, written, forsaken>>
        /\ \E at1 \in {"failed", "done"} : Ble!To(p, at1)
    BY <1>8 DEF Ble!Disconnect
  <2>2. /\ BleTyped' /\ ble'[p].at \in {"failed", "done"}
        /\ \A q \in BleProvisioners \ {p} : ble'[q] = ble[q]
    BY <1>t, <2>1, BleMoves DEF BleTyped
  <2>3. OneActive => links' = {} /\ \A q \in BleProvisioners \ {p} : ~Active(q)
    BY <2>1 DEF OneActive, Active
  <2>4. OneActive => OneActive'
    BY <2>1, <2>2, <2>3 DEF OneActive, Ble!OwnDevice, Active, Linked
  <2> QED
    BY <1>i, <2>1, <2>2, <2>4 DEF BleInv
<1>9. ASSUME Ble!ClearDevices \/ \E p \in BleProvisioners : Ble!AddDiscoveredDevice(p)
      PROVE  BleInv'
  BY <1>1, <1>9 DEF Ble!ClearDevices, Ble!AddDiscoveredDevice
<1>10. CASE UNCHANGED bleVars
  BY <1>1, <1>10 DEF bleVars
<1> QED
  BY <1>2, <1>3, <1>4, <1>5, <1>6, <1>7, <1>8, <1>9, <1>10 DEF Ble!PNext

-----------------------------------------------------------------------------
(* DeviceProvisioning.                                                     *)

Elems(s) == {s[i] : i \in 1..Len(s)}

LEMMA ElemsTail ==
    ASSUME NEW S, NEW s \in Seq(S), s # <<>>
    PROVE  /\ Head(s) \in S /\ Tail(s) \in Seq(S) /\ Len(s) = Len(Tail(s)) + 1
           /\ Elems(s) = {Head(s)} \cup Elems(Tail(s))
<1>1. /\ Len(s) \in Nat /\ Len(s) > 0 /\ Tail(s) \in Seq(S) /\ Len(Tail(s)) = Len(s) - 1
      /\ Head(s) = s[1] /\ \A i \in 1..Len(Tail(s)) : Tail(s)[i] = s[i + 1]
  OBVIOUS
<1>2. ASSUME NEW i \in 1..Len(s) PROVE s[i] \in {Head(s)} \cup Elems(Tail(s))
  <2>1. CASE i = 1
    BY <1>1, <2>1
  <2>2. CASE i # 1
    <3>1. i - 1 \in 1..Len(Tail(s)) /\ Tail(s)[i - 1] = s[i]
      BY <1>1, <2>2
    <3> QED
      BY <3>1 DEF Elems
  <2> QED
    BY <2>1, <2>2
<1>3. ASSUME NEW i \in 1..Len(Tail(s)) PROVE Tail(s)[i] \in Elems(s)
  <2>1. i + 1 \in 1..Len(s) /\ Tail(s)[i] = s[i + 1]
    BY <1>1
  <2> QED
    BY <2>1 DEF Elems
<1>4. Head(s) \in Elems(s)
  BY <1>1 DEF Elems
<1>5. Elems(s) = {Head(s)} \cup Elems(Tail(s))
  BY <1>2, <1>3, <1>4 DEF Elems
<1> QED
  BY <1>1, <1>5

LEMMA ElemsAppend ==
    ASSUME NEW S, NEW s \in Seq(S), NEW x \in S
    PROVE  /\ Append(s, x) \in Seq(S) /\ Len(Append(s, x)) = Len(s) + 1
           /\ Elems(Append(s, x)) = Elems(s) \cup {x}
<1>1. /\ Append(s, x) \in Seq(S) /\ Len(s) \in Nat /\ Len(Append(s, x)) = Len(s) + 1
      /\ Append(s, x)[Len(s) + 1] = x /\ \A i \in 1..Len(s) : Append(s, x)[i] = s[i]
  OBVIOUS
<1>2. \A i \in 1..(Len(s) + 1) : i \in 1..Len(s) \/ i = Len(s) + 1
  BY <1>1
<1>3. 1..Len(s) \subseteq 1..(Len(s) + 1) /\ Len(s) + 1 \in 1..(Len(s) + 1)
  BY <1>1
<1> QED
  BY <1>1, <1>2, <1>3 DEF Elems

LEMMA ElemsConcat ==
    ASSUME NEW S, NEW s \in Seq(S), NEW t \in Seq(S)
    PROVE  s \o t \in Seq(S) /\ Elems(s \o t) = Elems(s) \cup Elems(t)
<1>1. /\ s \o t \in Seq(S) /\ Len(s) \in Nat /\ Len(t) \in Nat /\ Len(s \o t) = Len(s) + Len(t)
      /\ \A i \in 1..(Len(s) + Len(t)) : (s \o t)[i] = IF i <= Len(s) THEN s[i] ELSE t[i - Len(s)]
  OBVIOUS
<1>2. ASSUME NEW i \in 1..Len(s \o t) PROVE (s \o t)[i] \in Elems(s) \cup Elems(t)
  <2>1. CASE i <= Len(s)
    <3>1. i \in 1..Len(s) /\ (s \o t)[i] = s[i]
      BY <1>1, <2>1
    <3> QED
      BY <3>1 DEF Elems
  <2>2. CASE ~(i <= Len(s))
    <3>1. i - Len(s) \in 1..Len(t) /\ (s \o t)[i] = t[i - Len(s)]
      BY <1>1, <2>2
    <3> QED
      BY <3>1 DEF Elems
  <2> QED
    BY <2>1, <2>2
<1>3. ASSUME NEW i \in 1..Len(s) PROVE s[i] \in Elems(s \o t)
  <2>1. i \in 1..Len(s \o t) /\ (s \o t)[i] = s[i]
    BY <1>1
  <2> QED
    BY <2>1 DEF Elems
<1>4. ASSUME NEW i \in 1..Len(t) PROVE t[i] \in Elems(s \o t)
  <2>1. Len(s) + i \in 1..Len(s \o t) /\ (s \o t)[Len(s) + i] = t[i]
    BY <1>1
  <2> QED
    BY <2>1 DEF Elems
<1> QED
  BY <1>1, <1>2, <1>3, <1>4 DEF Elems

LEMMA ElemsIf ==
    ASSUME NEW S, NEW x \in S, NEW T
    PROVE  Bulk!If(x, T) \in Seq(S) /\ Elems(Bulk!If(x, T)) = T \cap {x}
<1>1. CASE x \in T
  <2>1. Bulk!If(x, T) = <<x>>
    BY <1>1 DEF Bulk!If
  <2>2. Elems(<<x>>) = {x}
    BY DEF Elems
  <2> QED
    BY <1>1, <2>1, <2>2
<1>2. CASE x \notin T
  <2>1. Bulk!If(x, T) = <<>>
    BY <1>2 DEF Bulk!If
  <2>2. Elems(<<>>) = {}
    BY DEF Elems
  <2> QED
    BY <1>2, <2>1, <2>2
<1> QED
  BY <1>1, <1>2

Steps == {"info"} \cup Bulk!Settings \cup Bulk!Afterwards

\* Every setting a configuration has is applied.
LEMMA AllSettings ==
    ASSUME NEW s \in SUBSET Bulk!Settings
    PROVE  /\ Bulk!applyProvisioningConfig(s) \in Seq(Steps)
           /\ Elems(Bulk!applyProvisioningConfig(s)) = s
<1>s. {"wifi", "ap", "name", "timezone", "location", "cloud", "auth"} \subseteq Steps
  BY DEF Steps, Bulk!Settings
<1> DEFINE a1 == Bulk!If("wifi", s) \o Bulk!If("ap", s)
           a2 == a1 \o Bulk!If("name", s)
           a3 == a2 \o Bulk!If("timezone", s)
           a4 == a3 \o Bulk!If("location", s)
           a5 == a4 \o Bulk!If("cloud", s)
           a6 == a5 \o Bulk!If("auth", s)
<1>1. a1 \in Seq(Steps) /\ Elems(a1) = s \cap {"wifi", "ap"}
  BY <1>s, ElemsIf, ElemsConcat
<1> HIDE DEF a1
<1>2. a2 \in Seq(Steps) /\ Elems(a2) = s \cap {"wifi", "ap", "name"}
  BY <1>s, <1>1, ElemsIf, ElemsConcat
<1> HIDE DEF a2
<1>3. a3 \in Seq(Steps) /\ Elems(a3) = s \cap {"wifi", "ap", "name", "timezone"}
  BY <1>s, <1>2, ElemsIf, ElemsConcat
<1> HIDE DEF a3
<1>4. a4 \in Seq(Steps) /\ Elems(a4) = s \cap {"wifi", "ap", "name", "timezone", "location"}
  BY <1>s, <1>3, ElemsIf, ElemsConcat
<1> HIDE DEF a4
<1>5. a5 \in Seq(Steps)
      /\ Elems(a5) = s \cap {"wifi", "ap", "name", "timezone", "location", "cloud"}
  BY <1>s, <1>4, ElemsIf, ElemsConcat
<1> HIDE DEF a5
<1>6. a6 \in Seq(Steps)
      /\ Elems(a6) = s \cap {"wifi", "ap", "name", "timezone", "location", "cloud", "auth"}
  BY <1>s, <1>5, ElemsIf, ElemsConcat
<1>7. Bulk!applyProvisioningConfig(s) = a6
  BY DEF a1, a2, a3, a4, a5, Bulk!applyProvisioningConfig
<1> QED
  BY <1>6, <1>7 DEF Bulk!Settings

LEMMA ConcatHead ==
    ASSUME NEW S, NEW s \in Seq(S), NEW t \in Seq(S)
    PROVE  /\ s \o t \in Seq(S) /\ Elems(s \o t) = Elems(s) \cup Elems(t)
           /\ s # <<>> => s \o t # <<>> /\ Head(s \o t) = Head(s)
<1>1. s # <<>> => s \o t # <<>> /\ Head(s \o t) = Head(s)
  OBVIOUS
<1> QED
  BY <1>1, ElemsConcat

\* Whoever is to wait for the network does so before the access point is turned off.
LEMMA WaitFirst ==
    ASSUME NEW c \in [settings : SUBSET Bulk!Settings, after : SUBSET Bulk!Afterwards]
    PROVE  LET s == Bulk!applyPostProvisioningOptions(c)
           IN  /\ s \in Seq(Steps)
               /\ "no ap" \in Elems(s) /\ "wait" \in c.after => s # <<>> /\ Head(s) = "wait"
<1> DEFINE online == IF "wifi" \in c.settings THEN c.after ELSE {}
           b0 == Bulk!If("wait", online)
           t1 == Bulk!If("no ap", online)
           t2 == Bulk!If("no ble", c.after)
<1>s. "wait" \in Steps /\ "no ap" \in Steps /\ "no ble" \in Steps
  BY DEF Steps, Bulk!Afterwards
<1>1. "no ap" \in online /\ "wait" \in c.after => "wait" \in online
  OBVIOUS
<1>2. Bulk!applyPostProvisioningOptions(c) = b0 \o t1 \o t2
  BY DEF Bulk!applyPostProvisioningOptions
<1> HIDE DEF online
<1>3. "wait" \in online => b0 = <<"wait">>
  BY DEF Bulk!If
<1>4. b0 \in Seq(Steps) /\ Elems(b0) = online \cap {"wait"}
  BY <1>s, ElemsIf
<1>5. t1 \in Seq(Steps) /\ Elems(t1) = online \cap {"no ap"}
  BY <1>s, ElemsIf
<1>6. t2 \in Seq(Steps) /\ Elems(t2) = c.after \cap {"no ble"}
  BY <1>s, ElemsIf
<1> HIDE DEF b0, t1, t2
<1> DEFINE b1 == b0 \o t1
<1>7. /\ b1 \in Seq(Steps) /\ Elems(b1) = Elems(b0) \cup Elems(t1)
      /\ b0 # <<>> => b1 # <<>> /\ Head(b1) = Head(b0)
  BY <1>4, <1>5, ConcatHead, Zenon
<1> HIDE DEF b1
<1> DEFINE b2 == b1 \o t2
<1>8. /\ b2 \in Seq(Steps) /\ Elems(b2) = Elems(b1) \cup Elems(t2)
      /\ b1 # <<>> => b2 # <<>> /\ Head(b2) = Head(b1)
  BY <1>6, <1>7, ConcatHead, Zenon
<1>9. Bulk!applyPostProvisioningOptions(c) = b2
  BY <1>2, Zenon DEF b1
<1> HIDE DEF b2
<1>10. "no ap" \in Elems(b2) /\ "wait" \in c.after => "wait" \in online
  BY <1>1, <1>4, <1>5, <1>6, <1>7, <1>8
<1>11. "wait" \in online => b0 # <<>> /\ Head(b0) = "wait"
  BY <1>3
<1>12. "no ap" \in Elems(b2) /\ "wait" \in c.after => b2 # <<>> /\ Head(b2) = "wait"
  BY <1>7, <1>8, <1>10, <1>11
<1> QED
  BY <1>8, <1>9, <1>12

Ids == DOMAIN BulkTargets
AtWork == {"client", "run", "delay", "failed"}
WorkerType ==
    [on : AtWork \cup {"idle", "left"}, target : Nat, attempt : Nat, todo : Seq(Steps),
     after : BOOLEAN]
DeviceType == [holds : SUBSET Steps, ap : BOOLEAN, ble : BOOLEAN, joined : BOOLEAN]
Busy == {w \in BulkWorkers : worker[w].on \in AtWork}

BulkTyped ==
    /\ address \in BulkAddresses
    /\ queued \in 0..Len(BulkTargets)
    /\ work \in Seq(Ids)
    /\ results \in Seq([target : Ids, success : BOOLEAN])
    /\ worker \in [BulkWorkers -> WorkerType]
    /\ \A w \in Busy : worker[w].target \in Ids
    /\ device \in [{address[t] : t \in Ids} -> DeviceType]
    /\ SuccessCount \in Nat /\ FailureCount \in Nat

\* Every target looked at is counted, has a result, is being worked at or waits.
Counted ==
    SuccessCount + FailureCount + Len(results) + Len(work) + Cardinality(Busy) = queued

Gone ==
    /\ bulk # "queue" => queued = Len(BulkTargets)
    /\ \A w \in BulkWorkers : worker[w].on = "left" => work = <<>> /\ bulk # "queue"
    /\ bulk = "done" => results = <<>> /\ \A w \in BulkWorkers : worker[w].on = "left"

Accounted ==
    \A t \in 1..queued :
        \/ t \in Elems(work)
        \/ \E w \in Busy : worker[w].target = t
        \/ \E r \in Elems(results) : r.target = t
        \/ address[t] \in DOMAIN Results

Held(t) == BulkTargets[t].settings \subseteq device[address[t]].holds

Truthful ==
    /\ \A r \in Elems(results) : r.success => Held(r.target)
    /\ \A a \in DOMAIN Results : Results[a] => \E t \in Ids : address[t] = a /\ Held(t)

\* What is not applied yet is still to be called, and an access point that is to stay
\* until the network is joined is turned off after the wait only.
Applied(c, r, d) ==
    /\ r.on = "run" /\ ~r.after =>
          c.settings \subseteq d.holds \cup Elems(r.todo) /\ "no ap" \notin Elems(r.todo)
    /\ r.on = "run" /\ r.after =>
          /\ c.settings \subseteq d.holds
          /\ "no ap" \in Elems(r.todo) /\ "wait" \in c.after =>
                Head(r.todo) = "wait" \/ d.joined

AllApplied ==
    \A w \in Busy :
        Applied(BulkTargets[worker[w].target], worker[w], device[address[worker[w].target]])

BulkInv ==
    /\ BulkTyped /\ Counted /\ Gone /\ Accounted /\ Truthful /\ AllApplied
    /\ Bulk!ApStaysUntilJoined

\* The facts every step needs.
LEMMA BulkFacts ==
    ASSUME BulkInv
    PROVE  /\ Ids = 1..Len(BulkTargets) /\ Len(BulkTargets) \in Nat
           /\ DOMAIN address = Ids
           /\ \A t \in Ids :
                 /\ BulkTargets[t] \in [settings : SUBSET Bulk!Settings, after : SUBSET Bulk!Afterwards]
                 /\ address[t] \in DOMAIN device
           /\ DOMAIN device = {address[t] : t \in Ids}
           /\ IsFiniteSet(Busy) /\ Cardinality(Busy) \in Nat
           /\ Len(work) \in Nat /\ Len(results) \in Nat /\ queued \in Nat
<1>1. Ids = 1..Len(BulkTargets) /\ Len(BulkTargets) \in Nat
  BY BulkAssumption DEF Ids
<1>2. \A t \in Ids :
        BulkTargets[t] \in [settings : SUBSET Bulk!Settings, after : SUBSET Bulk!Afterwards]
  <2> DEFINE Configs == [settings : SUBSET Bulk!Settings, after : SUBSET Bulk!Afterwards]
  <2>1. BulkTargets \in Seq(Configs)
    BY BulkAssumption
  <2> HIDE DEF Configs
  <2>2. \A t \in Ids : BulkTargets[t] \in Configs
    BY <1>1, <2>1
  <2> QED
    BY <2>2 DEF Configs
<1>3. DOMAIN address = Ids
  BY BulkAssumption DEF Ids, BulkInv, BulkTyped
<1>4. DOMAIN device = {address[t] : t \in Ids}
  BY DEF BulkInv, BulkTyped
<1>5. IsFiniteSet(Busy) /\ Cardinality(Busy) \in Nat
  BY BulkAssumption, FS_Subset, FS_CardinalityType DEF Busy
<1>6. Len(work) \in Nat /\ Len(results) \in Nat /\ queued \in Nat
  BY <1>1 DEF BulkInv, BulkTyped
<1> QED
  BY <1>1, <1>2, <1>3, <1>4, <1>5, <1>6

LEMMA ReportsTyped ==
    ASSUME BulkInv
    PROVE  \A q \in Elems(results) : q \in [target : Ids, success : BOOLEAN]
<1> DEFINE R == [target : Ids, success : BOOLEAN]
<1>1. results \in Seq(R)
  BY DEF BulkInv, BulkTyped
<1> HIDE DEF R
<1>2. \A q \in Elems(results) : q \in R
  BY <1>1 DEF Elems
<1> QED
  BY <1>2 DEF R

\* While no access point is turned off and no network is left, none is out of reach.
LEMMA ApAsBefore ==
    ASSUME BulkInv, address' = address,
           \A a \in DOMAIN device : device'[a].ap = device[a].ap
                                    /\ (device[a].joined => device'[a].joined)
    PROVE  Bulk!ApStaysUntilJoined'
BY BulkFacts DEF BulkInv, Bulk!ApStaysUntilJoined, Bulk!Alone, Ids

\* A step of a worker that stays at work.
LEMMA BulkWorks ==
    ASSUME BulkInv, NEW w \in Busy, NEW r \in WorkerType, r.on \in AtWork,
           r.target = worker[w].target, worker' = [worker EXCEPT ![w] = r],
           UNCHANGED <<address, queued, work, results, Results, SuccessCount, FailureCount,
                       bulk>>,
           device' \in [{address[t] : t \in Ids} -> DeviceType],
           \A a \in DOMAIN device : device[a].holds \subseteq device'[a].holds
                                    /\ (device[a].joined => device'[a].joined),
           Applied(BulkTargets[r.target], r, device'[address[r.target]]),
           Bulk!ApStaysUntilJoined'
    PROVE  BulkInv'
<1>t. /\ worker \in [BulkWorkers -> WorkerType] /\ w \in BulkWorkers
      /\ \A v \in Busy : worker[v].target \in Ids
  BY DEF BulkInv, BulkTyped, Busy
<1>f. \A t \in Ids : address[t] \in DOMAIN device
  BY BulkFacts
<1>1. /\ worker'[w] = r /\ worker' \in [BulkWorkers -> WorkerType]
      /\ \A v \in BulkWorkers \ {w} : worker'[v] = worker[v]
  BY <1>t
<1>2. Busy' = Busy /\ \A v \in Busy : worker'[v].target = worker[v].target
  BY <1>1, <1>t DEF Busy
<1>3. BulkTyped'
  BY <1>1, <1>2 DEF BulkInv, BulkTyped, Ids
<1>4. Counted' /\ Accounted'
  BY <1>2 DEF BulkInv, Counted, Accounted
<1>5. Gone'
  <2>1. worker[w].on \in AtWork
    BY DEF Busy
  <2>2. worker[w].on # "left" /\ r.on # "left"
    BY <2>1 DEF AtWork
  <2>3. bulk # "done"
    BY <2>2, <1>t DEF BulkInv, Gone
  <2> QED
    BY <1>1, <2>2, <2>3 DEF BulkInv, Gone
<1>6. Truthful'
  <2>1. \A t \in Ids : Held(t) => Held(t)'
    BY <1>f DEF Held
  <2>2. \A q \in Elems(results) : q.target \in Ids
    BY ReportsTyped
  <2>3. Ids' = Ids
    BY DEF Ids
  <2> QED
    BY <2>1, <2>2, <2>3 DEF BulkInv, Truthful
<1>7. AllApplied'
  <2>1. ASSUME NEW v \in Busy, v # w
        PROVE  Applied(BulkTargets[worker[v].target], worker[v],
                       device'[address[worker[v].target]])
    BY <1>t, <1>f DEF BulkInv, AllApplied, Applied
  <2> QED
    BY <1>1, <1>2, <2>1 DEF AllApplied
<1> QED
  BY <1>3, <1>4, <1>5, <1>6, <1>7 DEF BulkInv

LEMMA BulkInit == Bulk!BInit => BulkInv
<1> SUFFICES ASSUME Bulk!BInit PROVE BulkInv
  OBVIOUS
<1> USE DEF Bulk!BInit
<1>1. BulkTargets \in Seq([settings : SUBSET Bulk!Settings, after : SUBSET Bulk!Afterwards])
  BY BulkAssumption
<1>2. Len(BulkTargets) \in Nat
  BY <1>1
<1>3. <<>> \in Seq(Ids) /\ <<>> \in Seq([target : Ids, success : BOOLEAN]) /\ <<>> \in Seq(Steps)
  OBVIOUS
<1>4. Bulk!Idle \in WorkerType /\ Bulk!Idle.on = "idle"
  BY <1>3 DEF Bulk!Idle, WorkerType
<1>5. \A w \in BulkWorkers : worker[w] = Bulk!Idle
  OBVIOUS
<1>6. Busy = {}
  BY <1>4, <1>5 DEF Busy, AtWork
<1>7. device \in [{address[t] : t \in Ids} -> DeviceType]
      /\ \A a \in DOMAIN device : device[a].ap = TRUE
  BY DEF DeviceType, Ids
<1>8. BulkTyped
  <2>1. worker \in [BulkWorkers -> WorkerType]
    BY <1>4
  <2>2. address \in BulkAddresses /\ SuccessCount \in Nat /\ FailureCount \in Nat
        /\ queued \in 0..Len(BulkTargets) /\ work = <<>> /\ results = <<>>
    BY <1>2
  <2> QED
    BY <1>3, <1>6, <1>7, <2>1, <2>2 DEF BulkTyped
<1>9. Counted
  <2>1. Len(<<>>) = 0 /\ Cardinality({}) = 0
    BY FS_EmptySet
  <2> QED
    BY <1>6, <2>1 DEF Counted
<1>10. Gone
  BY <1>4, <1>5 DEF Gone
<1>11. Accounted /\ AllApplied
  BY <1>6 DEF Accounted, AllApplied
<1>12. Truthful
  BY DEF Truthful, Elems
<1>13. Bulk!ApStaysUntilJoined
  BY <1>7 DEF Bulk!ApStaysUntilJoined, Ids
<1> QED
  BY <1>8, <1>9, <1>10, <1>11, <1>12, <1>13 DEF BulkInv

LEMMA BulkQueue == BulkInv /\ Bulk!Queue => BulkInv'
<1> SUFFICES ASSUME BulkInv, Bulk!Queue PROVE BulkInv'
  OBVIOUS
<1> DEFINE t == queued + 1
           rep == [target |-> t, success |-> FALSE]
<1>0. /\ Ids = 1..Len(BulkTargets) /\ Len(BulkTargets) \in Nat
      /\ Len(work) \in Nat /\ Len(results) \in Nat /\ queued \in Nat
      /\ Cardinality(Busy) \in Nat /\ SuccessCount \in Nat /\ FailureCount \in Nat
      /\ work \in Seq(Ids) /\ results \in Seq([target : Ids, success : BOOLEAN])
  BY BulkFacts DEF BulkInv, BulkTyped
<1>1. /\ bulk = "queue" /\ queued < Len(BulkTargets) /\ queued' = t
      /\ UNCHANGED <<address, worker, device, Results, SuccessCount, FailureCount, bulk>>
  BY DEF Bulk!Queue
<1>2. t \in Ids /\ rep \in [target : Ids, success : BOOLEAN] /\ ~rep.success /\ rep.target = t
  BY <1>0, <1>1
<1>3. Busy' = Busy /\ AllApplied' /\ Bulk!ApStaysUntilJoined'
  BY <1>1 DEF Busy, AllApplied, BulkInv, Bulk!ApStaysUntilJoined, Bulk!Alone
<1>4. Gone'
  BY <1>1 DEF BulkInv, Gone
<1>5. \A u \in 1..t : u \in 1..queued \/ u = t
  BY <1>0
<1>6. CASE results' = Append(results, rep) /\ UNCHANGED work
  <2> HIDE DEF t, rep
  <2> DEFINE R == [target : Ids, success : BOOLEAN]
  <2>0. results \in Seq(R) /\ rep \in R
    BY <1>0, <1>2
  <2> HIDE DEF R
  <2>1. /\ results' \in Seq(R) /\ Len(work') = Len(work)
        /\ Len(results') = Len(results) + 1 /\ Elems(results') = Elems(results) \cup {rep}
    BY <1>6, <2>0, ElemsAppend
  <2>2. Truthful'
    BY <1>1, <1>2, <2>1 DEF BulkInv, Truthful, Held, Ids
  <2>3. Accounted'
    BY <1>1, <1>2, <1>3, <1>5, <1>6, <2>1 DEF BulkInv, Accounted
  <2>c. Len(work') = Len(work) /\ Len(results') = Len(results) + 1 /\ queued' = queued + 1
    BY <1>1, <2>1 DEF t
  <2>4. Counted'
    BY <1>0, <1>1, <1>3, <2>c DEF BulkInv, Counted
  <2>5. BulkTyped'
    BY <1>0, <1>1, <1>3, <1>6, <2>1 DEF BulkInv, BulkTyped, Ids, t, R
  <2> QED
    BY <1>3, <1>4, <2>2, <2>3, <2>4, <2>5 DEF BulkInv
<1>7. CASE work' = Append(work, t) /\ UNCHANGED results
  <2> HIDE DEF t, rep
  <2>0. work \in Seq(Ids) /\ t \in Ids
    BY <1>0, <1>2
  <2>1. /\ work' \in Seq(Ids) /\ Len(work') = Len(work) + 1 /\ Len(results') = Len(results)
        /\ Elems(work') = Elems(work) \cup {t}
    BY <1>7, <2>0, ElemsAppend
  <2>2. Truthful'
    BY <1>1, <1>7 DEF BulkInv, Truthful, Held, Ids
  <2>3. Accounted'
    BY <1>1, <1>3, <1>5, <1>7, <2>1 DEF BulkInv, Accounted
  <2>4. Counted'
    BY <1>0, <1>1, <1>3, <2>1 DEF BulkInv, Counted, t
  <2>5. BulkTyped'
    BY <1>0, <1>1, <1>3, <1>7, <2>1 DEF BulkInv, BulkTyped, Ids, t
  <2> QED
    BY <1>3, <1>4, <2>2, <2>3, <2>4, <2>5 DEF BulkInv
<1> QED
  BY <1>6, <1>7 DEF Bulk!Queue

LEMMA BulkCollect == BulkInv /\ Bulk!Collect => BulkInv'
<1> SUFFICES ASSUME BulkInv, Bulk!Collect PROVE BulkInv'
  OBVIOUS
<1> DEFINE r == Head(results)
           a == address[r.target]
<1>0. /\ Len(work) \in Nat /\ Len(results) \in Nat /\ queued \in Nat
      /\ Cardinality(Busy) \in Nat /\ SuccessCount \in Nat /\ FailureCount \in Nat
      /\ results \in Seq([target : Ids, success : BOOLEAN])
  BY BulkFacts DEF BulkInv, BulkTyped
<1>1. /\ bulk = "collect" /\ results # <<>> /\ results' = Tail(results)
      /\ Results' = [b \in DOMAIN Results \cup {a} |-> IF b = a THEN r.success ELSE Results[b]]
      /\ SuccessCount' = IF r.success THEN SuccessCount + 1 ELSE SuccessCount
      /\ FailureCount' = IF r.success THEN FailureCount ELSE FailureCount + 1
      /\ UNCHANGED <<address, queued, work, worker, device, bulk>>
  BY DEF Bulk!Collect
<1>2. /\ r \in [target : Ids, success : BOOLEAN]
      /\ results' \in Seq([target : Ids, success : BOOLEAN])
      /\ Len(results) = Len(results') + 1 /\ Elems(results) = {r} \cup Elems(results')
  BY <1>0, <1>1, ElemsTail
<1>3. Busy' = Busy /\ AllApplied' /\ Bulk!ApStaysUntilJoined'
  BY <1>1 DEF Busy, AllApplied, BulkInv, Bulk!ApStaysUntilJoined, Bulk!Alone
<1>4. Gone'
  BY <1>1 DEF BulkInv, Gone
<1> HIDE DEF r, a
<1>5. /\ r.target \in Ids
      /\ r.success => Held(r.target)
  BY <1>2 DEF BulkInv, Truthful
<1>6. /\ DOMAIN Results' = DOMAIN Results \cup {a} /\ Results'[a] = r.success
      /\ \A b \in DOMAIN Results \ {a} : Results'[b] = Results[b]
  BY <1>1
<1>7. a = address[r.target]
  BY DEF a
<1>8. \A t \in Ids : Held(t)' <=> Held(t)
  BY <1>1 DEF Held
<1>9. Truthful'
  <2>1. ASSUME NEW q \in Elems(results'), q.success PROVE Held(q.target)'
    <3>1. q \in Elems(results) /\ q.target \in Ids
      BY <1>2, ReportsTyped
    <3> QED
      BY <1>8, <2>1, <3>1 DEF BulkInv, Truthful
  <2>2. ASSUME NEW b \in DOMAIN Results', Results'[b]
        PROVE  \E t \in Ids : address[t] = b /\ Held(t)'
    <3>1. CASE b = a
      <4>1. r.success
        BY <1>6, <2>2, <3>1
      <4>2. PICK u \in Ids : u = r.target
        BY <1>5
      <4>3. Held(u)'
        BY <1>5, <1>8, <4>1, <4>2
      <4> QED
        BY <1>7, <3>1, <4>2, <4>3
    <3>2. CASE b # a
      <4>1. b \in DOMAIN Results /\ Results[b]
        BY <1>6, <2>2, <3>2
      <4> QED
        BY <1>8, <4>1 DEF BulkInv, Truthful
    <3> QED
      BY <3>1, <3>2
  <2> QED
    BY <1>1, <2>1, <2>2 DEF Truthful, Ids
<1>10. Accounted'
  BY <1>1, <1>2, <1>3, <1>6, <1>7 DEF BulkInv, Accounted
<1>11. Counted'
  BY <1>0, <1>1, <1>2, <1>3 DEF BulkInv, Counted
<1>12. BulkTyped'
  BY <1>0, <1>1, <1>2, <1>3 DEF BulkInv, BulkTyped, Ids
<1> QED
  BY <1>3, <1>4, <1>9, <1>10, <1>11, <1>12 DEF BulkInv

LEMMA BulkTake == ASSUME BulkInv, NEW w \in BulkWorkers, Bulk!Take(w) PROVE BulkInv'
<1> DEFINE t == Head(work)
           r == [Bulk!Idle EXCEPT !.on = "client", !.target = t]
<1>0. /\ Len(work) \in Nat /\ Len(results) \in Nat /\ queued \in Nat /\ work \in Seq(Ids)
      /\ IsFiniteSet(Busy) /\ Cardinality(Busy) \in Nat
      /\ SuccessCount \in Nat /\ FailureCount \in Nat
      /\ worker \in [BulkWorkers -> WorkerType]
  BY BulkFacts DEF BulkInv, BulkTyped
<1>1. /\ worker[w].on = "idle" /\ work # <<>> /\ work' = Tail(work)
      /\ worker' = [worker EXCEPT ![w] = r]
      /\ UNCHANGED <<address, queued, results, device, Results, SuccessCount, FailureCount, bulk>>
  BY DEF Bulk!Take, Bulk!Move
<1>2. /\ t \in Ids /\ work' \in Seq(Ids) /\ Len(work) = Len(work') + 1
      /\ Elems(work) = {t} \cup Elems(work')
  BY <1>0, <1>1, ElemsTail
<1> HIDE DEF t
<1>3. r \in WorkerType /\ r.on = "client" /\ r.target = t
  <2>1. t \in Nat
    BY <1>2, BulkFacts
  <2>2. <<>> \in Seq(Steps)
    OBVIOUS
  <2> QED
    BY <2>1, <2>2 DEF Bulk!Idle, WorkerType, AtWork
<1> HIDE DEF r
<1>4. /\ worker'[w] = r /\ worker' \in [BulkWorkers -> WorkerType]
      /\ \A v \in BulkWorkers \ {w} : worker'[v] = worker[v]
  BY <1>0, <1>1, <1>3
<1>5. Busy' = Busy \cup {w} /\ w \notin Busy
  BY <1>1, <1>3, <1>4 DEF Busy, AtWork
<1>6. Cardinality(Busy') = Cardinality(Busy) + 1
  BY <1>0, <1>5, FS_AddElement
<1>7. Counted'
  BY <1>0, <1>1, <1>2, <1>6 DEF BulkInv, Counted
<1>8. Accounted'
  BY <1>1, <1>2, <1>3, <1>4, <1>5 DEF BulkInv, Accounted
<1>9. Gone'
  BY <1>1, <1>3, <1>4 DEF BulkInv, Gone
<1>10. Truthful' /\ Bulk!ApStaysUntilJoined'
  BY <1>1 DEF BulkInv, Truthful, Held, Ids, Bulk!ApStaysUntilJoined, Bulk!Alone
<1>11. AllApplied'
  <2>1. \A c, d : Applied(c, r, d)
    BY <1>3 DEF Applied
  <2> QED
    BY <1>1, <1>4, <1>5, <2>1 DEF BulkInv, AllApplied, Busy
<1>12. BulkTyped'
  <2>1. \A v \in Busy' : worker'[v].target \in Ids
    BY <1>2, <1>3, <1>4, <1>5 DEF BulkInv, BulkTyped, Busy
  <2> QED
    BY <1>1, <1>2, <1>4, <2>1 DEF BulkInv, BulkTyped, Ids
<1> QED
  BY <1>7, <1>8, <1>9, <1>10, <1>11, <1>12 DEF BulkInv

LEMMA BulkLeave == ASSUME BulkInv, NEW w \in BulkWorkers, Bulk!Leave(w) PROVE BulkInv'
<1> DEFINE r == [Bulk!Idle EXCEPT !.on = "left"]
<1>1. /\ worker[w].on = "idle" /\ work = <<>> /\ bulk # "queue"
      /\ worker' = [worker EXCEPT ![w] = r]
      /\ UNCHANGED <<address, queued, work, results, device, Results, SuccessCount,
                     FailureCount, bulk>>
  BY DEF Bulk!Leave, Bulk!Move
<1>2. r \in WorkerType /\ r.on = "left"
  <2>1. <<>> \in Seq(Steps)
    OBVIOUS
  <2> QED
    BY <2>1 DEF Bulk!Idle, WorkerType
<1> HIDE DEF r
<1>3. /\ worker'[w] = r /\ worker' \in [BulkWorkers -> WorkerType]
      /\ \A v \in BulkWorkers \ {w} : worker'[v] = worker[v]
  BY <1>1, <1>2 DEF BulkInv, BulkTyped
<1>4. Busy' = Busy /\ \A v \in Busy : worker'[v] = worker[v]
  BY <1>1, <1>2, <1>3 DEF Busy, AtWork
<1>5. Gone'
  BY <1>1, <1>2, <1>3 DEF BulkInv, Gone
<1>6. Counted' /\ Accounted'
  BY <1>1, <1>4 DEF BulkInv, Counted, Accounted
<1>7. Truthful' /\ Bulk!ApStaysUntilJoined'
  BY <1>1 DEF BulkInv, Truthful, Held, Ids, Bulk!ApStaysUntilJoined, Bulk!Alone
<1>8. AllApplied' /\ BulkTyped'
  BY <1>1, <1>3, <1>4 DEF BulkInv, BulkTyped, AllApplied, Ids
<1> QED
  BY <1>5, <1>6, <1>7, <1>8 DEF BulkInv

LEMMA BulkReport == ASSUME BulkInv, NEW w \in BulkWorkers, Bulk!Report(w) PROVE BulkInv'
<1> DEFINE t == worker[w].target
           rep == [target |-> t, success |-> worker[w].on = "run"]
           R == [target : Ids, success : BOOLEAN]
<1>0. /\ Len(work) \in Nat /\ Len(results) \in Nat /\ queued \in Nat /\ results \in Seq(R)
      /\ IsFiniteSet(Busy) /\ Cardinality(Busy) \in Nat
      /\ SuccessCount \in Nat /\ FailureCount \in Nat
      /\ worker \in [BulkWorkers -> WorkerType]
  BY BulkFacts DEF BulkInv, BulkTyped
<1>1. /\ \/ worker[w].on = "failed"
         \/ worker[w].on = "run" /\ worker[w].after
      /\ results' = Append(results, rep) /\ worker' = [worker EXCEPT ![w] = Bulk!Idle]
      /\ UNCHANGED <<address, queued, work, device, Results, SuccessCount, FailureCount, bulk>>
  BY DEF Bulk!Report, Bulk!Move
<1>2. w \in Busy /\ t \in Ids
  <2>1. w \in Busy
    BY <1>1 DEF Busy, AtWork
  <2> QED
    BY <2>1 DEF BulkInv, BulkTyped
<1>3. rep \in R /\ rep.target = t /\ rep.success = (worker[w].on = "run")
  BY <1>2
<1>4. rep.success => Held(t)
  BY <1>1, <1>2, <1>3 DEF BulkInv, AllApplied, Applied, Held
<1> HIDE DEF t, rep, R
<1>5. /\ results' \in Seq(R) /\ Len(results') = Len(results) + 1 /\ Len(work') = Len(work)
      /\ Elems(results') = Elems(results) \cup {rep}
  BY <1>0, <1>1, <1>3, ElemsAppend
<1>6. Bulk!Idle \in WorkerType /\ Bulk!Idle.on = "idle"
  <2>1. <<>> \in Seq(Steps)
    OBVIOUS
  <2> QED
    BY <2>1 DEF Bulk!Idle, WorkerType
<1>7. /\ worker'[w] = Bulk!Idle /\ worker' \in [BulkWorkers -> WorkerType]
      /\ \A v \in BulkWorkers \ {w} : worker'[v] = worker[v]
  BY <1>0, <1>1, <1>6
<1>8. Busy' = Busy \ {w}
  BY <1>6, <1>7 DEF Busy, AtWork
<1>9. Cardinality(Busy') = Cardinality(Busy) - 1
  BY <1>0, <1>2, <1>8, FS_RemoveElement
<1>10. Counted'
  BY <1>0, <1>1, <1>5, <1>9 DEF BulkInv, Counted
<1>11. Accounted'
  <2>1. \A v \in Busy \ {w} : v \in Busy' /\ worker'[v].target = worker[v].target
    BY <1>7, <1>8 DEF Busy
  <2>2. \A u : (\E v \in Busy : worker[v].target = u) =>
            u = t \/ (\E v \in Busy' : worker'[v].target = u)
    BY <2>1 DEF t
  <2>3. (\E q \in Elems(results') : q.target = t)
        /\ \A q \in Elems(results) : q \in Elems(results')
    BY <1>3, <1>5
  <2> QED
    BY <1>1, <2>2, <2>3 DEF BulkInv, Accounted
<1>12. Gone'
  <2>1. bulk # "done"
    BY <1>1 DEF BulkInv, Gone
  <2> QED
    BY <1>1, <1>6, <1>7, <2>1 DEF BulkInv, Gone
<1>13. Truthful'
  <2>1. \A u \in Ids : Held(u)' <=> Held(u)
    BY <1>1 DEF Held
  <2>2. ASSUME NEW q \in Elems(results'), q.success PROVE Held(q.target)'
    <3>1. q.target \in Ids /\ Held(q.target)
      BY <1>2, <1>3, <1>4, <1>5, <2>2, ReportsTyped DEF BulkInv, Truthful
    <3> QED
      BY <2>1, <3>1
  <2> QED
    BY <1>1, <2>1, <2>2 DEF BulkInv, Truthful, Ids
<1>14. AllApplied' /\ Bulk!ApStaysUntilJoined'
  BY <1>1, <1>7, <1>8
     DEF BulkInv, AllApplied, Busy, Bulk!ApStaysUntilJoined, Bulk!Alone
<1>15. BulkTyped'
  <2>1. \A v \in Busy' : worker'[v].target \in Ids
    BY <1>7, <1>8 DEF BulkInv, BulkTyped, Busy
  <2> QED
    BY <1>1, <1>5, <1>7, <2>1 DEF BulkInv, BulkTyped, Ids, R
<1> QED
  BY <1>10, <1>11, <1>12, <1>13, <1>14, <1>15 DEF BulkInv

\* A step of a worker that stays at work and leaves the devices alone.
LEMMA BulkMoves ==
    ASSUME BulkInv, NEW w \in Busy, NEW r \in WorkerType, r.on \in AtWork,
           r.target = worker[w].target, worker' = [worker EXCEPT ![w] = r],
           UNCHANGED <<address, queued, work, results, device, Results, SuccessCount,
                       FailureCount, bulk>>,
           Applied(BulkTargets[r.target], r, device[address[r.target]])
    PROVE  BulkInv'
<1>1. device' \in [{address[t] : t \in Ids} -> DeviceType]
  BY DEF BulkInv, BulkTyped
<1>2. Bulk!ApStaysUntilJoined'
  BY ApAsBefore
<1> QED
  BY <1>1, <1>2, BulkWorks

LEMMA BulkFailed ==
    ASSUME BulkInv, NEW w \in BulkWorkers
    PROVE  /\ Bulk!Failed(w) \in WorkerType /\ Bulk!Failed(w).on \in {"delay", "failed"}
           /\ Bulk!Failed(w).target = worker[w].target
           /\ \A c, d : Applied(c, Bulk!Failed(w), d)
<1>1. worker[w] \in WorkerType /\ <<>> \in Seq(Steps)
  BY DEF BulkInv, BulkTyped
<1> DEFINE r == Bulk!Failed(w)
<1>2. r \in WorkerType /\ r.on \in {"delay", "failed"} /\ r.target = worker[w].target
  BY <1>1 DEF Bulk!Failed, WorkerType, AtWork
<1> HIDE DEF r
<1>3. \A c, d : Applied(c, r, d)
  BY <1>2 DEF Applied
<1> QED
  BY <1>2, <1>3 DEF r

\* After a call the worker has still to apply what the device does not hold.
LEMMA BulkAdvance ==
    ASSUME BulkInv, NEW w \in BulkWorkers, worker[w].on = "run", worker[w].todo # <<>>,
           NEW ok \in BOOLEAN, NEW d,
           device[address[worker[w].target]].holds \subseteq d.holds,
           device[address[worker[w].target]].joined => d.joined,
           ok => /\ Head(worker[w].todo) \in Bulk!Settings => Head(worker[w].todo) \in d.holds
                 /\ Head(worker[w].todo) = "wait" => d.joined
    PROVE  /\ w \in Busy /\ Bulk!Advance(w, ok) \in WorkerType
           /\ Bulk!Advance(w, ok).on \in AtWork
           /\ Bulk!Advance(w, ok).target = worker[w].target
           /\ Applied(BulkTargets[worker[w].target], Bulk!Advance(w, ok), d)
<1> DEFINE r == Bulk!Advance(w, ok)
           c == BulkTargets[worker[w].target]
           todos == worker[w].todo
           e == device[address[worker[w].target]]
<1>1. w \in Busy /\ worker[w] \in WorkerType /\ todos \in Seq(Steps)
  BY DEF BulkInv, BulkTyped, Busy, AtWork, WorkerType
<1>2. /\ c \in [settings : SUBSET Bulk!Settings, after : SUBSET Bulk!Afterwards]
      /\ Applied(c, worker[w], e)
  BY <1>1, BulkFacts DEF BulkInv, BulkTyped, AllApplied
<1>3. /\ Tail(todos) \in Seq(Steps) /\ Elems(todos) = {Head(todos)} \cup Elems(Tail(todos))
  BY <1>1, ElemsTail
<1>4. CASE ok
  <2>1. r = [worker[w] EXCEPT !.todo = Tail(todos)]
    BY <1>4 DEF Bulk!Advance
  <2>2. /\ r \in WorkerType /\ r.on = "run" /\ r.target = worker[w].target
        /\ r.after = worker[w].after /\ r.todo = Tail(todos)
    BY <1>1, <1>3, <2>1 DEF WorkerType
  <2> HIDE DEF r
  <2>3. /\ c.settings \subseteq Bulk!Settings
        /\ ~r.after => c.settings \subseteq e.holds \cup Elems(todos) /\ "no ap" \notin Elems(todos)
        /\ r.after => /\ c.settings \subseteq e.holds
                      /\ "no ap" \in Elems(todos) /\ "wait" \in c.after =>
                            Head(todos) = "wait" \/ e.joined
    BY <1>2, <2>2 DEF Applied
  <2> HIDE DEF c, e
  <2>4. /\ e.holds \subseteq d.holds /\ (e.joined => d.joined)
        /\ Head(todos) \in Bulk!Settings => Head(todos) \in d.holds
    BY <1>4 DEF e
  <2>5. Head(todos) = "wait" => d.joined
    BY <1>4
  <2> HIDE DEF todos
  <2>6. ~r.after => c.settings \subseteq d.holds \cup Elems(r.todo) /\ "no ap" \notin Elems(r.todo)
    BY <1>3, <2>2, <2>3, <2>4
  <2>7. r.after => /\ c.settings \subseteq d.holds
                   /\ "no ap" \in Elems(r.todo) /\ "wait" \in c.after => d.joined
    BY <1>3, <2>2, <2>3, <2>4, <2>5
  <2>8. Applied(c, r, d)
    BY <2>6, <2>7 DEF Applied
  <2> QED
    BY <1>1, <2>2, <2>8 DEF AtWork, r, c
<1>5. CASE ~ok /\ worker[w].after
  <2>1. r = [worker[w] EXCEPT !.todo = <<>>] /\ <<>> \in Seq(Steps)
    BY <1>5 DEF Bulk!Advance
  <2>2. /\ r \in WorkerType /\ r.on = "run" /\ r.target = worker[w].target
        /\ r.after /\ r.todo = <<>>
    BY <1>1, <1>5, <2>1 DEF WorkerType
  <2> HIDE DEF r
  <2>3. c.settings \subseteq e.holds
    BY <1>2, <1>5 DEF Applied
  <2>4. Elems(<<>>) = {}
    BY DEF Elems
  <2>5. Applied(c, r, d)
    BY <2>2, <2>3, <2>4 DEF Applied
  <2> QED
    BY <1>1, <2>2, <2>5 DEF AtWork, r
<1>6. CASE ~ok /\ ~worker[w].after
  <2>1. r = Bulk!Failed(w)
    BY <1>6 DEF Bulk!Advance
  <2> QED
    BY <1>1, <2>1, BulkFailed DEF AtWork
<1> QED
  BY <1>4, <1>5, <1>6

\* What a call that reached the device did to it.
LEMMA BulkReached ==
    ASSUME BulkInv, NEW w \in BulkWorkers, worker[w].on = "run", worker[w].todo # <<>>,
           Head(worker[w].todo) # "wait", address' = address,
           device' = [device EXCEPT ![address[worker[w].target]] =
                         Bulk!After(Head(worker[w].todo), @)]
    PROVE  /\ device' \in [{address[t] : t \in Ids} -> DeviceType]
           /\ \A a \in DOMAIN device : device[a].holds \subseteq device'[a].holds
                                       /\ (device[a].joined => device'[a].joined)
           /\ Head(worker[w].todo) \in Bulk!Settings =>
                 Head(worker[w].todo) \in device'[address[worker[w].target]].holds
           /\ Bulk!ApStaysUntilJoined'
<1> DEFINE u == worker[w].target
           a == address[u]
           todos == worker[w].todo
           step == Head(todos)
           e == device[a]
           d == Bulk!After(step, e)
<1>1. /\ w \in Busy /\ todos \in Seq(Steps) /\ u \in Ids
      /\ device \in [{address[t] : t \in Ids} -> DeviceType]
  BY DEF BulkInv, BulkTyped, Busy, AtWork, WorkerType
<1>2. a \in DOMAIN device /\ e \in DeviceType /\ step \in Steps /\ step \in Elems(todos)
  BY <1>1, ElemsTail
<1>3. Applied(BulkTargets[u], worker[w], e)
  BY <1>1 DEF BulkInv, AllApplied
<1>4. step # "wait" /\ device' = [device EXCEPT ![a] = d]
  OBVIOUS
<1> HIDE DEF todos, step, e, d
<1>5. /\ d \in DeviceType /\ e.holds \subseteq d.holds /\ d.joined = e.joined
      /\ step \in Bulk!Settings => step \in d.holds
      /\ d.ap # e.ap => step = "no ap"
  BY <1>2, <1>4 DEF d, Bulk!After, DeviceType, Bulk!Settings
<1> HIDE DEF a
<1>6. /\ device' \in [{address[t] : t \in Ids} -> DeviceType] /\ device'[a] = d
      /\ \A b \in DOMAIN device \ {a} : device'[b] = device[b]
  BY <1>1, <1>2, <1>4, <1>5
<1>7. \A b \in DOMAIN device : device[b].holds \subseteq device'[b].holds
                               /\ (device[b].joined => device'[b].joined)
  BY <1>5, <1>6 DEF e
<1>8. ASSUME step = "no ap", "wait" \in BulkTargets[u].after PROVE e.joined
  <2>1. worker[w].after
    BY <1>2, <1>3, <1>8 DEF Applied, todos
  <2> QED
    BY <1>2, <1>3, <1>8, <2>1 DEF Applied, todos, step
<1>9. Bulk!ApStaysUntilJoined'
  <2> SUFFICES ASSUME NEW t \in Ids, \A v \in Ids : v # t => address[v] # address[t],
                      "wait" \in BulkTargets[t].after, ~device'[address[t]].ap
               PROVE  device'[address[t]].joined
    BY DEF Bulk!ApStaysUntilJoined, Bulk!Alone, Ids
  <2>0. device[address[t]].ap = FALSE => device[address[t]].joined
    BY DEF BulkInv, Bulk!ApStaysUntilJoined, Bulk!Alone, Ids
  <2>1. address[t] \in DOMAIN device
    BY BulkFacts
  <2>2. CASE address[t] # a
    BY <1>6, <2>0, <2>1, <2>2
  <2>3. CASE address[t] = a
    <3>1. t = u
      BY <1>1, <2>3 DEF a
    <3>2. CASE d.ap = e.ap
      BY <1>5, <1>6, <2>0, <2>3, <3>2 DEF e
    <3>3. CASE d.ap # e.ap
      BY <1>5, <1>6, <1>8, <2>3, <3>1, <3>3
    <3> QED
      BY <3>2, <3>3
  <2> QED
    BY <2>2, <2>3
<1> QED
  BY <1>5, <1>6, <1>7, <1>9 DEF a, step, todos

LEMMA BulkCall == ASSUME BulkInv, NEW w \in BulkWorkers, Bulk!Call(w) PROVE BulkInv'
<1> DEFINE a == address[worker[w].target]
           step == Head(worker[w].todo)
           done == [device EXCEPT ![a] = Bulk!After(step, @)]
<1>1. /\ worker[w].on = "run" /\ worker[w].todo # <<>> /\ step # "wait"
      /\ UNCHANGED <<address, queued, work, results, Results, SuccessCount, FailureCount, bulk>>
  BY DEF Bulk!Call, Bulk!Move
<1>2. \/ device' = done /\ worker' = [worker EXCEPT ![w] = Bulk!Advance(w, TRUE)]
      \/ device' \in {device, done} /\ worker' = [worker EXCEPT ![w] = Bulk!Advance(w, FALSE)]
  BY DEF Bulk!Call, Bulk!Move
<1>3. CASE device' = done
  <2>0. PICK ok \in BOOLEAN : worker' = [worker EXCEPT ![w] = Bulk!Advance(w, ok)]
    BY <1>2
  <2> HIDE DEF done
  <2>1. /\ device' \in [{address[t] : t \in Ids} -> DeviceType]
        /\ \A b \in DOMAIN device : device[b].holds \subseteq device'[b].holds
                                    /\ (device[b].joined => device'[b].joined)
        /\ step \in Bulk!Settings => step \in device'[a].holds
        /\ Bulk!ApStaysUntilJoined'
    BY <1>1, <1>3, BulkReached DEF done
  <2>2. a \in DOMAIN device
    BY <1>1, BulkFacts DEF BulkInv, BulkTyped, Busy, AtWork
  <2> DEFINE d == device'[a]
  <2>3. device[a].holds \subseteq d.holds /\ (device[a].joined => d.joined)
    BY <2>1, <2>2
  <2>4. step \in Bulk!Settings => step \in d.holds
    BY <2>1
  <2> HIDE DEF d
  <2>5. /\ w \in Busy /\ Bulk!Advance(w, ok) \in WorkerType
        /\ Bulk!Advance(w, ok).on \in AtWork
        /\ Bulk!Advance(w, ok).target = worker[w].target
        /\ Applied(BulkTargets[worker[w].target], Bulk!Advance(w, ok), d)
    BY <1>1, <2>3, <2>4, BulkAdvance
  <2> QED
    BY <1>1, <2>0, <2>1, <2>5, BulkWorks DEF d
<1>4. CASE device' = device /\ worker' = [worker EXCEPT ![w] = Bulk!Advance(w, FALSE)]
  <2>1. /\ w \in Busy /\ Bulk!Advance(w, FALSE) \in WorkerType
        /\ Bulk!Advance(w, FALSE).on \in AtWork
        /\ Bulk!Advance(w, FALSE).target = worker[w].target
        /\ Applied(BulkTargets[worker[w].target], Bulk!Advance(w, FALSE), device[a])
    BY <1>1, BulkAdvance
  <2> QED
    BY <1>1, <1>4, <2>1, BulkMoves
<1> QED
  BY <1>2, <1>3, <1>4

LEMMA BulkWaits ==
    ASSUME BulkInv, NEW w \in BulkWorkers, Bulk!WaitForConnection(w) \/ Bulk!WaitGivenUp(w)
    PROVE  BulkInv'
<1>1. /\ worker[w].on = "run" /\ worker[w].todo # <<>> /\ Head(worker[w].todo) = "wait"
      /\ UNCHANGED <<address, queued, work, results, device, Results, SuccessCount,
                     FailureCount, bulk>>
  BY DEF Bulk!WaitForConnection, Bulk!WaitGivenUp, Bulk!Waits, Bulk!Move
<1>2. PICK ok \in BOOLEAN :
        /\ worker' = [worker EXCEPT ![w] = Bulk!Advance(w, ok)]
        /\ ok => device[address[worker[w].target]].joined
  BY DEF Bulk!WaitForConnection, Bulk!WaitGivenUp, Bulk!Move
<1>3. "wait" \notin Bulk!Settings
  BY DEF Bulk!Settings
<1>4. /\ w \in Busy /\ Bulk!Advance(w, ok) \in WorkerType
      /\ Bulk!Advance(w, ok).on \in AtWork
      /\ Bulk!Advance(w, ok).target = worker[w].target
      /\ Applied(BulkTargets[worker[w].target], Bulk!Advance(w, ok),
                 device[address[worker[w].target]])
  BY <1>1, <1>2, <1>3, BulkAdvance
<1> QED
  BY <1>1, <1>2, <1>4, BulkMoves

LEMMA BulkAttempt == ASSUME BulkInv, NEW w \in BulkWorkers, Bulk!Attempt(w) PROVE BulkInv'
<1> DEFINE c == BulkTargets[worker[w].target]
           config == Bulk!applyProvisioningConfig(c.settings)
           info == <<"info">>
           calls1 == info \o config
           r == [worker[w] EXCEPT !.on = "run", !.after = FALSE, !.todo = calls1]
<1>1. /\ worker[w].on = "client" /\ worker' = [worker EXCEPT ![w] = r]
      /\ UNCHANGED <<address, queued, work, results, device, Results, SuccessCount,
                     FailureCount, bulk>>
  BY DEF Bulk!Attempt, Bulk!Move, Bulk!Config
<1>2. w \in Busy /\ worker[w] \in WorkerType /\ worker[w].target \in Ids
  BY <1>1 DEF BulkInv, BulkTyped, Busy, AtWork
<1>3. c.settings \in SUBSET Bulk!Settings
  BY <1>2, BulkFacts
<1> HIDE DEF c
<1>4. config \in Seq(Steps) /\ Elems(config) = c.settings
  BY <1>3, AllSettings
<1>5. info \in Seq(Steps) /\ Elems(info) = {"info"}
  <2>1. info \in Seq(Steps)
    BY DEF Steps
  <2>2. Elems(info) = {"info"}
    BY DEF Elems
  <2> QED
    BY <2>1, <2>2
<1> HIDE DEF config, info
<1>6. calls1 \in Seq(Steps) /\ Elems(calls1) = Elems(info) \cup Elems(config)
  <2>1. info \in Seq(Steps) /\ config \in Seq(Steps)
    BY <1>4, <1>5
  <2> QED
    BY ONLY <2>1, ElemsConcat
<1>7. "no ap" \notin Elems(info)
  BY <1>5
<1>8. "no ap" \notin Bulk!Settings
  BY DEF Bulk!Settings
<1> HIDE DEF calls1
<1>9. /\ r \in WorkerType /\ r.on = "run" /\ ~r.after /\ r.todo = calls1
      /\ r.target = worker[w].target
  BY <1>2, <1>6 DEF WorkerType, AtWork
<1> HIDE DEF r
<1>10. \A d : Applied(c, r, d)
  BY <1>3, <1>4, <1>6, <1>7, <1>8, <1>9 DEF Applied
<1> QED
  BY <1>1, <1>2, <1>9, <1>10, BulkMoves DEF AtWork, c

LEMMA BulkOptions == ASSUME BulkInv, NEW w \in BulkWorkers, Bulk!Options(w) PROVE BulkInv'
<1> DEFINE c == BulkTargets[worker[w].target]
           options == Bulk!applyPostProvisioningOptions(c)
           e == device[address[worker[w].target]]
           r == [worker[w] EXCEPT !.after = TRUE, !.todo = options]
<1>1. /\ worker[w].on = "run" /\ worker[w].todo = <<>> /\ ~worker[w].after
      /\ worker' = [worker EXCEPT ![w] = r]
      /\ UNCHANGED <<address, queued, work, results, device, Results, SuccessCount,
                     FailureCount, bulk>>
  BY DEF Bulk!Options, Bulk!Move, Bulk!Config
<1>2. /\ w \in Busy /\ worker[w] \in WorkerType /\ worker[w].target \in Ids
      /\ Applied(c, worker[w], e)
  BY <1>1 DEF BulkInv, BulkTyped, AllApplied, Busy, AtWork
<1>3. c \in [settings : SUBSET Bulk!Settings, after : SUBSET Bulk!Afterwards]
  BY <1>2, BulkFacts
<1>4. Elems(<<>>) = {}
  BY DEF Elems
<1>5. c.settings \subseteq e.holds
  BY <1>1, <1>2, <1>4 DEF Applied
<1> HIDE DEF c, e
<1>6. /\ options \in Seq(Steps)
      /\ "no ap" \in Elems(options) /\ "wait" \in c.after => Head(options) = "wait"
  BY <1>3, WaitFirst
<1> HIDE DEF options
<1>7. /\ r \in WorkerType /\ r.on = "run" /\ r.after /\ r.todo = options
      /\ r.target = worker[w].target
  BY <1>1, <1>2, <1>6 DEF WorkerType
<1> HIDE DEF r
<1>8. Applied(c, r, e)
  BY <1>5, <1>6, <1>7 DEF Applied
<1> QED
  BY <1>1, <1>2, <1>7, <1>8, BulkMoves DEF AtWork, c, e

LEMMA BulkTriesAgain ==
    ASSUME BulkInv, NEW w \in BulkWorkers, Bulk!ClientFails(w) \/ Bulk!Delay(w)
    PROVE  BulkInv'
<1>1. /\ worker[w].on \in {"client", "delay"}
      /\ UNCHANGED <<address, queued, work, results, device, Results, SuccessCount,
                     FailureCount, bulk>>
      /\ \/ worker' = [worker EXCEPT ![w] = Bulk!Failed(w)]
         \/ worker' = [worker EXCEPT ![w] = [worker[w] EXCEPT !.on = "client", !.attempt = @ + 1]]
         \/ worker' = [worker EXCEPT ![w] = [worker[w] EXCEPT !.on = "failed"]]
  BY DEF Bulk!ClientFails, Bulk!Delay, Bulk!Move
<1>2. w \in Busy /\ worker[w] \in WorkerType
  BY <1>1 DEF BulkInv, BulkTyped, Busy, AtWork
<1>3. PICK r \in WorkerType :
         /\ r.on \in {"client", "delay", "failed"} /\ r.target = worker[w].target
         /\ worker' = [worker EXCEPT ![w] = r]
  <2>1. CASE worker' = [worker EXCEPT ![w] = Bulk!Failed(w)]
    BY <2>1, BulkFailed
  <2>2. CASE worker' = [worker EXCEPT ![w] = [worker[w] EXCEPT !.on = "client", !.attempt = @ + 1]]
    <3>0. worker[w].attempt + 1 \in Nat
      BY <1>2 DEF WorkerType
    <3>1. [worker[w] EXCEPT !.on = "client", !.attempt = @ + 1] \in WorkerType
      BY <1>2, <3>0 DEF WorkerType, AtWork
    <3> QED
      BY <1>2, <2>2, <3>1 DEF WorkerType
  <2>3. CASE worker' = [worker EXCEPT ![w] = [worker[w] EXCEPT !.on = "failed"]]
    <3>1. [worker[w] EXCEPT !.on = "failed"] \in WorkerType
      BY <1>2 DEF WorkerType, AtWork
    <3> QED
      BY <1>2, <2>3, <3>1 DEF WorkerType
  <2> QED
    BY <1>1, <2>1, <2>2, <2>3
<1>4. \A c, d : Applied(c, r, d)
  BY <1>3 DEF Applied
<1> QED
  BY <1>1, <1>2, <1>3, <1>4, BulkMoves DEF AtWork

\* The steps of ProvisionBulk, its caller and the devices.
LEMMA BulkCaller ==
    ASSUME BulkInv, Bulk!CloseWork \/ Bulk!Finish \/ Bulk!Cancel \/ UNCHANGED bulkVars
    PROVE  BulkInv'
<1>1. UNCHANGED <<address, queued, work, results, worker, device, Results, SuccessCount,
                  FailureCount>>
  BY DEF Bulk!CloseWork, Bulk!Finish, Bulk!Cancel, bulkVars
<1>2. Busy' = Busy /\ BulkTyped' /\ Counted' /\ Accounted'
  BY <1>1 DEF Busy, BulkInv, BulkTyped, Counted, Accounted, Ids
<1>3. Truthful' /\ AllApplied' /\ Bulk!ApStaysUntilJoined'
  BY <1>1, <1>2
     DEF BulkInv, Truthful, Held, AllApplied, Ids, Bulk!ApStaysUntilJoined, Bulk!Alone
<1>4. Gone'
  BY <1>1 DEF BulkInv, Gone, Bulk!CloseWork, Bulk!Finish, Bulk!Cancel, bulkVars
<1> QED
  BY <1>2, <1>3, <1>4 DEF BulkInv

LEMMA BulkJoin == ASSUME BulkInv, NEW a \in DOMAIN device, Bulk!Join(a) PROVE BulkInv'
<1>1. /\ device' = [device EXCEPT ![a].joined = TRUE]
      /\ UNCHANGED <<address, queued, work, results, worker, Results, SuccessCount,
                     FailureCount, bulk>>
  BY DEF Bulk!Join
<1>2. /\ device \in [{address[t] : t \in Ids} -> DeviceType] /\ device[a] \in DeviceType
  BY DEF BulkInv, BulkTyped
<1>3. /\ device' \in [{address[t] : t \in Ids} -> DeviceType]
      /\ \A b \in DOMAIN device : device[b].holds = device'[b].holds
                                  /\ device[b].ap = device'[b].ap
                                  /\ (device[b].joined => device'[b].joined)
  BY <1>1, <1>2 DEF DeviceType
<1>4. \A t \in Ids : address[t] \in DOMAIN device
  BY BulkFacts
<1>5. Busy' = Busy /\ BulkTyped' /\ Counted' /\ Accounted' /\ Gone'
  BY <1>1, <1>3 DEF Busy, BulkInv, BulkTyped, Counted, Accounted, Gone, Ids
<1>6. Truthful'
  <2>1. \A t \in Ids : Held(t)' <=> Held(t)
    BY <1>1, <1>3, <1>4 DEF Held
  <2>2. \A q \in Elems(results) : q.target \in Ids
    BY ReportsTyped
  <2>3. Ids' = Ids
    BY DEF Ids
  <2> QED
    BY <1>1, <2>1, <2>2, <2>3 DEF BulkInv, Truthful
<1>7. AllApplied'
  <2>1. ASSUME NEW v \in Busy
        PROVE  Applied(BulkTargets[worker[v].target], worker[v],
                       device'[address[worker[v].target]])
    <3>1. worker[v].target \in Ids
      BY DEF BulkInv, BulkTyped
    <3> QED
      BY <1>3, <1>4, <3>1 DEF BulkInv, AllApplied, Applied
  <2> QED
    BY <1>1, <1>5, <2>1 DEF AllApplied
<1>8. Bulk!ApStaysUntilJoined'
  BY <1>1, <1>3, ApAsBefore
<1> QED
  BY <1>5, <1>6, <1>7, <1>8 DEF BulkInv

LEMMA BulkStep == BulkInv /\ [Bulk!BNext]_bulkVars => BulkInv'
<1> SUFFICES ASSUME BulkInv, [Bulk!BNext]_bulkVars PROVE BulkInv'
  OBVIOUS
<1>1. ASSUME NEW w \in BulkWorkers, Bulk!WorkerStep(w) \/ Bulk!ClientFails(w) PROVE BulkInv'
  BY <1>1, BulkTake, BulkLeave, BulkAttempt, BulkCall, BulkWaits, BulkOptions, BulkReport,
     BulkTriesAgain DEF Bulk!WorkerStep
<1> QED
  BY <1>1, BulkQueue, BulkCollect, BulkCaller, BulkJoin DEF Bulk!BNext

\* When it is done, everything is counted and nobody works.
LEMMA BulkDone == BulkInv => Bulk!BulkSound
<1> SUFFICES ASSUME BulkInv PROVE Bulk!BulkSound
  OBVIOUS
<1>1. ASSUME bulk = "done" PROVE SuccessCount + FailureCount = Len(BulkTargets)
                                 /\ \A t \in Ids : address[t] \in DOMAIN Results
  <2>1. results = <<>> /\ queued = Len(BulkTargets) /\ \A w \in BulkWorkers : worker[w].on = "left"
    BY <1>1 DEF BulkInv, Gone
  <2>2. Busy = {}
    BY <2>1 DEF Busy, AtWork
  <2>3. Len(<<>>) = 0 /\ Cardinality({}) = 0 /\ Elems(<<>>) = {}
    BY FS_EmptySet DEF Elems
  <2>4. Len(work) \in Nat /\ SuccessCount \in Nat /\ FailureCount \in Nat
        /\ Ids = 1..Len(BulkTargets) /\ Len(BulkTargets) \in Nat
    BY BulkFacts DEF BulkInv, BulkTyped
  <2>5. SuccessCount + FailureCount + Len(work) = queued
    BY <2>1, <2>2, <2>3, <2>4 DEF BulkInv, Counted
  <2>6. work = <<>>
    <3>1. CASE BulkWorkers = {}
      <4>1. Len(BulkTargets) = 0
        BY <2>3, <3>1, BulkAssumption
      <4>2. Len(work) = 0
        BY <2>1, <2>4, <2>5, <4>1
      <4> QED
        BY <4>2 DEF BulkInv, BulkTyped
    <3>2. CASE BulkWorkers # {}
      BY <2>1, <3>2 DEF BulkInv, Gone
    <3> QED
      BY <3>1, <3>2
  <2>7. \A t \in Ids : address[t] \in DOMAIN Results
    BY <2>1, <2>2, <2>3, <2>4, <2>6 DEF BulkInv, Accounted
  <2> QED
    BY <2>1, <2>3, <2>4, <2>5, <2>6, <2>7
<1>2. ASSUME NEW t \in Ids, Bulk!Alone(t), address[t] \in DOMAIN Results, Results[address[t]]
      PROVE  BulkTargets[t].settings \subseteq device[address[t]].holds
  <2>1. PICK u \in Ids : address[u] = address[t] /\ Held(u)
    BY <1>2 DEF BulkInv, Truthful
  <2>2. u = t
    BY <1>2, <2>1 DEF Bulk!Alone, Ids
  <2> QED
    BY <2>1, <2>2 DEF Held
<1>3. Bulk!ResultsAreTrue
  BY <1>1, <1>2 DEF Bulk!ResultsAreTrue, Ids
<1> QED
  BY <1>3 DEF BulkInv, Bulk!BulkSound

-----------------------------------------------------------------------------
(* Backup.                                                                 *)

BackupTyped ==
    /\ copies \in [Copies!Writes -> Nat]
    /\ doing \in [Backers -> {"idle", "probe", "export", "save", "write", "restore"}]
    /\ DOMAIN todo = Backers /\ DOMAIN gotten = Backers /\ DOMAIN chosen = Backers
    /\ DOMAIN faulty = Backers /\ DOMAIN alone = Backers

\* The keys of a store are read once they are listed, so that a backup with a value of
\* the store has its list.
KeysListed(b) == \A k \in StoreKeys : Copies!Call("getValue", k) \in b => Copies!Holds(b, "kvs")
ListedFirst ==
    /\ \A c \in Backers :
          /\ KeysListed(gotten[c])
          /\ \A k \in StoreKeys : Copies!Call("getValue", k) \in todo[c] =>
                 Copies!Call("list", "kvs") \in todo[c] \cup gotten[c]
    /\ \A file \in files : KeysListed(file.holds)

\* Who does not restore has no call left that changes the target; who does has some of
\* those its backup and its options call for.
ReadsOnly(left) == \A x \in left : x \notin Copies!Writes /\ x[1] # "deleteAll"
RightCalls ==
    \A c \in Backers :
        IF Copies!Writing(c)
        THEN todo[c] \subseteq Copies!RestoreCalls(gotten[c], chosen[c]) /\ chosen[c] \subseteq wanted
        ELSE ReadsOnly(todo[c])

OneMigration ==
    \A c \in Backers : Copies!Migrating(c) => migrating /\ \A d \in Backers : Copies!Migrating(d) => d = c

NobodyElse ==
    \A c, d \in Backers : Copies!Writing(c) /\ Copies!Writing(d) /\ alone[c] => c = d

\* How far a restore of the parts of b has come that has these calls left: the items of a
\* kind are all to come while the old ones are to be deleted, and from then on there is
\* one of each whose call has been made.
Restored(b, parts, left) ==
    /\ \A kd \in Copies!Kinds \cap parts : Copies!Holds(b, kd) =>
          IF Copies!Call("deleteAll", kd) \in left
          THEN Copies!Creates(kd) \subseteq left
          ELSE /\ kd \notin ownItems
               /\ \A i \in Copies!Items(kd) :
                     copies[Copies!Call("create", <<kd, i>>)]
                         = IF Copies!Call("create", <<kd, i>>) \in left THEN 0 ELSE 1
    /\ \A s \in Copies!Sections \cap parts : Copies!Holds(b, s) =>
          Copies!Call("set", s) \in left \/ copies[Copies!Call("set", s)] = 1
    /\ "kvs" \in parts =>
          \A k \in StoreKeys : Copies!Call("getValue", k) \in b =>
              Copies!Call("value", k) \in left \/ copies[Copies!Call("value", k)] = 1
CleanSoFar ==
    \A c \in Backers : Copies!Writing(c) /\ ~faulty[c] /\ alone[c] =>
        Restored(gotten[c], chosen[c], todo[c])

NothingUnasked == \A w \in Copies!Writes : copies[w] > 0 => Copies!PartOf(w) \in wanted

BackupInv ==
    /\ BackupTyped /\ ListedFirst /\ RightCalls /\ OneMigration /\ NobodyElse
    /\ CleanSoFar /\ NothingUnasked

\* What a call does to the target, by what it is.
LEMMA BackupEffect ==
    ASSUME BackupTyped, NEW x, Copies!Effect(x)
    PROVE  /\ x \in Copies!Writes =>
                /\ ownItems' = ownItems
                /\ copies' = [copies EXCEPT ![x] =
                                 IF x[1] \in {"create", "script"} THEN copies[x] + 1 ELSE 1]
           /\ x \notin Copies!Writes /\ x[1] = "deleteAll" =>
                /\ ownItems' = ownItems \ {x[2]}
                /\ copies' = [w \in Copies!Writes |->
                                 IF w[1] = "create" /\ w[2][1] = x[2] THEN 0 ELSE copies[w]]
           /\ x \notin Copies!Writes /\ x[1] # "deleteAll" => UNCHANGED <<copies, ownItems>>
<1>1. CASE x \in Copies!Writes
  <2>1. x[1] # "deleteAll"
    BY <1>1 DEF Copies!Writes, Copies!Creates, Copies!Calls, Copies!Call
  <2> QED
    BY <1>1, <2>1 DEF Copies!Effect
<1>2. CASE x \notin Copies!Writes /\ x[1] = "deleteAll"
  BY <1>2 DEF Copies!Effect
<1>3. CASE x \notin Copies!Writes /\ x[1] # "deleteAll"
  BY <1>3 DEF Copies!Effect, Copies!target
<1> QED
  BY <1>1, <1>2, <1>3

\* The calls of a restore: what they are and what they are made for.
LEMMA RestoreCallsAre ==
    ASSUME NEW b, NEW parts, NEW x \in Copies!RestoreCalls(b, parts)
    PROVE  \/ x = <<"stop", "scripts">>
           \/ \E s \in Copies!Sections \cap parts : x = <<"set", s>>
           \/ \E kd \in Copies!Kinds \cap parts : x = <<"deleteAll", kd>>
           \/ \E kd \in Copies!Kinds \cap parts : \E i \in Copies!Items(kd) : x = <<"create", <<kd, i>>>>
           \/ /\ "scripts" \in parts
              /\ \E op \in {"script", "code", "enable"}, s \in Scripts \cup Enabled : x = <<op, s>>
           \/ "kvs" \in parts /\ \E k \in StoreKeys : x = <<"value", k>>
<1>1. CASE x \in Copies!StopAllScripts(b)
  BY <1>1 DEF Copies!StopAllScripts, Copies!Call
<1>2. CASE x \in Copies!RestoreOptionalConfigs(b, parts)
  BY <1>2 DEF Copies!RestoreOptionalConfigs, Copies!Calls, Copies!Call
<1>3. CASE \E kd \in Copies!Kinds \cap parts : x \in Copies!RestoreItems(kd)
  BY <1>3 DEF Copies!RestoreItems, Copies!Creates, Copies!Call
<1>4. CASE "scripts" \in parts /\ x \in Copies!RestoreScripts(b)
  BY <1>4 DEF Copies!RestoreScripts, Copies!Calls, Copies!Call
<1>5. CASE "kvs" \in parts /\ x \in Copies!RestoreKVS(b)
  BY <1>5 DEF Copies!RestoreKVS, Copies!Calls, Copies!Call
<1> QED
  BY <1>1, <1>2, <1>3, <1>4, <1>5 DEF Copies!RestoreCalls, Copies!RestoreComplexItems

\* Every call of a restore that its parts need is among them.
LEMMA RestoreCallsHave ==
    ASSUME NEW b, NEW parts
    PROVE  /\ \A kd \in Copies!Kinds \cap parts : Copies!Holds(b, kd) =>
                 /\ <<"deleteAll", kd>> \in Copies!RestoreCalls(b, parts)
                 /\ Copies!Creates(kd) \subseteq Copies!RestoreCalls(b, parts)
           /\ \A s \in Copies!Sections \cap parts : Copies!Holds(b, s) =>
                 <<"set", s>> \in Copies!RestoreCalls(b, parts)
           /\ "kvs" \in parts /\ Copies!Holds(b, "kvs") =>
                 \A k \in StoreKeys : <<"getValue", k>> \in b =>
                     <<"value", k>> \in Copies!RestoreCalls(b, parts)
<1>1. ASSUME NEW kd \in Copies!Kinds \cap parts, Copies!Holds(b, kd)
      PROVE  Copies!RestoreItems(kd) \subseteq Copies!RestoreCalls(b, parts)
  BY <1>1 DEF Copies!RestoreCalls, Copies!RestoreComplexItems
<1>2. ASSUME NEW s \in Copies!Sections \cap parts, Copies!Holds(b, s)
      PROVE  <<"set", s>> \in Copies!RestoreOptionalConfigs(b, parts)
  BY <1>2 DEF Copies!RestoreOptionalConfigs, Copies!Calls, Copies!Call
<1>3. ASSUME "kvs" \in parts, Copies!Holds(b, "kvs"), NEW k \in StoreKeys, <<"getValue", k>> \in b
      PROVE  <<"value", k>> \in Copies!RestoreCalls(b, parts)
  <2>1. <<"value", k>> \in Copies!RestoreKVS(b)
    BY <1>3 DEF Copies!RestoreKVS, Copies!Calls, Copies!Call
  <2> QED
    BY <1>3, <2>1 DEF Copies!RestoreCalls, Copies!RestoreComplexItems
<1> QED
  BY <1>1, <1>2, <1>3 DEF Copies!RestoreCalls, Copies!RestoreItems, Copies!Call

LEMMA RestoreBegins ==
    ASSUME NEW b, NEW parts, KeysListed(b)
    PROVE  Restored(b, parts, Copies!RestoreCalls(b, parts))
BY RestoreCallsHave DEF Restored, KeysListed, Copies!Call

\* A call that succeeds in its turn brings a restore one call further.
LEMMA RestoreGoesOn ==
    ASSUME BackupTyped, NEW b, NEW parts, NEW left \in SUBSET Copies!RestoreCalls(b, parts),
           Restored(b, parts, left), NEW x \in left, Copies!InTurn(x, left), Copies!Effect(x),
           BackupTyped'
    PROVE  Restored(b, parts, left \ {x})'
<1> DEFINE Create(kd, i) == <<"create", <<kd, i>>>>
<1>a. /\ \A kd \in Copies!Kinds : \A i \in Copies!Items(kd) : Create(kd, i) \in Copies!Writes
      /\ \A s \in Copies!Sections : <<"set", s>> \in Copies!Writes
      /\ \A k \in StoreKeys : <<"value", k>> \in Copies!Writes
      /\ \A kd : <<"deleteAll", kd>> \notin Copies!Writes
      /\ <<"stop", "scripts">> \notin Copies!Writes
  BY DEF Copies!Writes, Copies!Calls, Copies!Call, Copies!Creates, Copies!Kinds
<1>b. x \in Copies!RestoreCalls(b, parts)
  OBVIOUS
\* Items.
<1>1. ASSUME NEW kd \in Copies!Kinds \cap parts, Copies!Holds(b, kd)
      PROVE  IF <<"deleteAll", kd>> \in left \ {x}
             THEN Copies!Creates(kd) \subseteq left \ {x}
             ELSE /\ kd \notin ownItems'
                  /\ \A i \in Copies!Items(kd) :
                        copies'[Create(kd, i)] = IF Create(kd, i) \in left \ {x} THEN 0 ELSE 1
  <2>1. IF <<"deleteAll", kd>> \in left
        THEN Copies!Creates(kd) \subseteq left
        ELSE /\ kd \notin ownItems
             /\ \A i \in Copies!Items(kd) :
                   copies[Create(kd, i)] = IF Create(kd, i) \in left THEN 0 ELSE 1
    BY <1>1 DEF Restored, Copies!Call
  <2>2. CASE x = <<"deleteAll", kd>>
    <3>1. /\ ownItems' = ownItems \ {kd}
          /\ copies' = [w \in Copies!Writes |->
                           IF w[1] = "create" /\ w[2][1] = kd THEN 0 ELSE copies[w]]
      BY <1>a, <2>2, BackupEffect
    <3>2. \A i \in Copies!Items(kd) : copies'[Create(kd, i)] = 0
      BY <1>a, <3>1
    <3>3. \A i \in Copies!Items(kd) : Create(kd, i) \in left \ {x}
      BY <2>1, <2>2 DEF Copies!Creates, Copies!Call
    <3> QED
      BY <2>2, <3>1, <3>2, <3>3
  <2>3. CASE \E i \in Copies!Items(kd) : x = Create(kd, i)
    <3>1. PICK j \in Copies!Items(kd) : x = Create(kd, j)
      BY <2>3
    <3>2. <<"deleteAll", kd>> \notin left
      BY <3>1 DEF Copies!InTurn, Copies!Stage, Copies!Kinds, Copies!Call
    <3>3. ownItems' = ownItems /\ copies' = [copies EXCEPT ![x] = copies[x] + 1]
      BY <1>a, <3>1, BackupEffect
    <3>4. copies[x] = 0
      BY <2>1, <3>1, <3>2
    <3> QED
      BY <1>a, <2>1, <3>1, <3>2, <3>3, <3>4 DEF BackupTyped
  <2>4. CASE x # <<"deleteAll", kd>> /\ \A i \in Copies!Items(kd) : x # Create(kd, i)
    <3>1. \A i \in Copies!Items(kd) : copies'[Create(kd, i)] = copies[Create(kd, i)]
      <4> SUFFICES ASSUME NEW i \in Copies!Items(kd) PROVE copies'[Create(kd, i)] = copies[Create(kd, i)]
        OBVIOUS
      <4>1. CASE x \in Copies!Writes
        BY <1>a, <2>4, <4>1, BackupEffect DEF BackupTyped
      <4>2. CASE x \notin Copies!Writes /\ x[1] = "deleteAll"
        <5>1. x[2] # kd
          BY <1>b, <2>4, <4>2, RestoreCallsAre
        <5> QED
          BY <1>a, <4>2, <5>1, BackupEffect
      <4>3. CASE x \notin Copies!Writes /\ x[1] # "deleteAll"
        BY <4>3, BackupEffect
      <4> QED
        BY <4>1, <4>2, <4>3
    <3>2. ownItems' \subseteq ownItems
      BY BackupEffect
    <3>3. \A i \in Copies!Items(kd) : Create(kd, i) \in left => Create(kd, i) \in left \ {x}
      BY <2>4
    <3> QED
      BY <2>1, <2>4, <3>1, <3>2, <3>3 DEF Copies!Creates, Copies!Call
  <2> QED
    BY <2>2, <2>3, <2>4
\* Sections and values: written by their own call, touched by no other.
<1>2. ASSUME NEW y \in Copies!Writes, y[1] \in {"set", "value"}, y \in left \/ copies[y] = 1
      PROVE  y \in left \ {x} \/ copies'[y] = 1
  <2>1. CASE x = y
    <3>1. copies' = [copies EXCEPT ![x] = 1]
      BY <1>2, <2>1, BackupEffect
    <3> QED
      BY <2>1, <3>1 DEF BackupTyped
  <2>2. CASE x # y
    <3>1. copies'[y] = copies[y]
      <4>1. CASE x \in Copies!Writes
        BY <2>2, <4>1, BackupEffect DEF BackupTyped
      <4>2. CASE x \notin Copies!Writes /\ x[1] = "deleteAll"
        BY <1>2, <4>2, BackupEffect
      <4>3. CASE x \notin Copies!Writes /\ x[1] # "deleteAll"
        BY <4>3, BackupEffect
      <4> QED
        BY <4>1, <4>2, <4>3
    <3> QED
      BY <1>2, <2>2, <3>1
  <2> QED
    BY <2>1, <2>2
<1>3. ASSUME NEW s \in Copies!Sections \cap parts, Copies!Holds(b, s)
      PROVE  <<"set", s>> \in left \ {x} \/ copies'[<<"set", s>>] = 1
  BY <1>2, <1>3, <1>a DEF Restored, Copies!Call
<1>4. ASSUME "kvs" \in parts, NEW k \in StoreKeys, <<"getValue", k>> \in b
      PROVE  <<"value", k>> \in left \ {x} \/ copies'[<<"value", k>>] = 1
  BY <1>2, <1>4, <1>a DEF Restored, Copies!Call
<1> QED
  BY <1>1, <1>3, <1>4 DEF Restored, Copies!Call


LEMMA EffectTyped ==
    ASSUME BackupTyped, NEW x, Copies!Effect(x) \/ UNCHANGED Copies!target
    PROVE  copies' \in [Copies!Writes -> Nat]
<1>1. CASE UNCHANGED Copies!target
  BY <1>1 DEF Copies!target, BackupTyped
<1>2. CASE Copies!Effect(x) /\ x \in Copies!Writes
  BY <1>2, BackupEffect DEF BackupTyped
<1>3. CASE Copies!Effect(x) /\ x \notin Copies!Writes /\ x[1] = "deleteAll"
  BY <1>3, BackupEffect DEF BackupTyped
<1>4. CASE Copies!Effect(x) /\ x \notin Copies!Writes /\ x[1] # "deleteAll"
  BY <1>4, BackupEffect DEF BackupTyped
<1> QED
  BY <1>1, <1>2, <1>3, <1>4

\* A restore writes parts it was asked for.
LEMMA WrittenWasAsked ==
    ASSUME NEW b, NEW parts, NEW x \in Copies!RestoreCalls(b, parts), x \in Copies!Writes
    PROVE  Copies!PartOf(x) \in parts
<1>1. \A kd : <<"deleteAll", kd>> \notin Copies!Writes
  BY DEF Copies!Writes, Copies!Calls, Copies!Call, Copies!Creates
<1>2. <<"stop", "scripts">> \notin Copies!Writes
  BY DEF Copies!Writes, Copies!Calls, Copies!Call, Copies!Creates
<1>3. CASE \E s \in Copies!Sections \cap parts : x = <<"set", s>>
  BY <1>3 DEF Copies!PartOf
<1>4. CASE \E kd \in Copies!Kinds \cap parts : \E i \in Copies!Items(kd) : x = <<"create", <<kd, i>>>>
  BY <1>4 DEF Copies!PartOf
<1>5. CASE /\ "scripts" \in parts
           /\ \E op \in {"script", "code", "enable"}, s \in Scripts \cup Enabled : x = <<op, s>>
  BY <1>5 DEF Copies!PartOf
<1>6. CASE "kvs" \in parts /\ \E k \in StoreKeys : x = <<"value", k>>
  BY <1>6 DEF Copies!PartOf
<1> QED
  BY <1>1, <1>2, <1>3, <1>4, <1>5, <1>6, RestoreCallsAre

\* A restore reads nothing and has no call it cannot do without.
LEMMA RestoreReadsNothing ==
    ASSUME NEW b, NEW parts, NEW x \in Copies!RestoreCalls(b, parts)
    PROVE  ~Copies!Fatal(x) /\ \A k : x # <<"getValue", k>>
BY RestoreCallsAre DEF Copies!Fatal

LEMMA ExportReadsOnly ==
    ASSUME NEW parts
    PROVE  /\ ReadsOnly(Copies!ExportCalls(parts))
           /\ \A k : Copies!Call("getValue", k) \in Copies!ExportCalls(parts) =>
                  Copies!Call("list", "kvs") \in Copies!ExportCalls(parts)
<1>1. ASSUME NEW x \in Copies!ExportCalls(parts)
      PROVE  \E y : \E op \in {"info", "config", "get", "list", "getCode", "getValue"} : x = <<op, y>>
  BY DEF Copies!ExportCalls, Copies!ExportOptionalConfigs, Copies!Optional, Copies!ListScripts,
         Copies!ListKVS, Copies!Calls, Copies!Call
<1>2. \A x \in Copies!Writes :
          \E y : \E op \in {"set", "create", "script", "code", "enable", "value"} : x = <<op, y>>
  BY DEF Copies!Writes, Copies!Calls, Copies!Call, Copies!Creates
<1>3. ReadsOnly(Copies!ExportCalls(parts))
  BY <1>1, <1>2 DEF ReadsOnly
<1>4. ASSUME NEW k, <<"getValue", k>> \in Copies!ExportCalls(parts)
      PROVE  <<"list", "kvs">> \in Copies!ExportCalls(parts)
  <2>1. "kvs" \in parts
    BY <1>4 DEF Copies!ExportCalls, Copies!ExportOptionalConfigs, Copies!Optional,
                Copies!ListScripts, Copies!Calls, Copies!Call
  <2> QED
    BY <2>1 DEF Copies!ExportCalls, Copies!ExportOptionalConfigs, Copies!Optional,
                Copies!ListKVS, Copies!Call
<1> QED
  BY <1>3, <1>4 DEF Copies!Call

\* A step of c that leaves the target and the others alone.
OnlyMoves(c) ==
    /\ UNCHANGED <<copies, ownItems>>
    /\ \A d \in Backers \ {c} : /\ doing'[d] = doing[d] /\ chosen'[d] = chosen[d]
                                /\ gotten'[d] = gotten[d] /\ todo'[d] = todo[d]
                                /\ faulty'[d] = faulty[d]

LEMMA RestoredStays ==
    ASSUME NEW b, NEW parts, NEW left, Restored(b, parts, left), UNCHANGED <<copies, ownItems>>
    PROVE  Restored(b, parts, left)'
BY DEF Restored

\* ... after which it does not write.
LEMMA ReadsNext ==
    ASSUME BackupInv, BackupTyped', OneMigration', NEW c \in Backers, OnlyMoves(c),
           ~Copies!Writing(c)', ReadsOnly(todo[c])', KeysListed(gotten[c])',
           \A k \in StoreKeys : Copies!Call("getValue", k) \in todo'[c] =>
               Copies!Call("list", "kvs") \in todo'[c] \cup gotten'[c],
           \A file \in files' : KeysListed(file.holds), UNCHANGED <<alone, wanted>>
    PROVE  BackupInv'
<1>a. \A d \in Backers \ {c} : Copies!Writing(d)' <=> Copies!Writing(d)
  BY DEF OnlyMoves, Copies!Writing
<1>1. ListedFirst'
  BY DEF BackupInv, ListedFirst, OnlyMoves, KeysListed
<1>2. RightCalls'
  BY <1>a DEF BackupInv, RightCalls, OnlyMoves, ReadsOnly
<1>3. NobodyElse'
  BY <1>a DEF BackupInv, NobodyElse
<1>4. CleanSoFar'
  <2> SUFFICES ASSUME NEW d \in Backers, Copies!Writing(d)', ~faulty'[d], alone'[d]
               PROVE  Restored(gotten[d], chosen[d], todo[d])'
    BY DEF CleanSoFar
  <2>1. d # c /\ Copies!Writing(d) /\ ~faulty[d] /\ alone[d]
    BY <1>a DEF OnlyMoves
  <2>2. Restored(gotten[d], chosen[d], todo[d])
    BY <2>1 DEF BackupInv, CleanSoFar
  <2>3. UNCHANGED <<copies, ownItems, gotten[d], chosen[d], todo[d]>>
    BY <2>1 DEF OnlyMoves
  <2> QED
    BY <2>2, <2>3 DEF Restored
<1>5. NothingUnasked'
  BY DEF BackupInv, NothingUnasked, OnlyMoves
<1> QED
  BY <1>1, <1>2, <1>3, <1>4, <1>5 DEF BackupInv

\* ... or with which it begins to write.
LEMMA WritesNext ==
    ASSUME BackupInv, BackupTyped', OneMigration', NEW c \in Backers, OnlyMoves(c),
           ~Copies!Writing(c), Copies!Writing(c)', KeysListed(gotten[c])', files' = files,
           todo'[c] = Copies!RestoreCalls(gotten'[c], chosen'[c]),
           Copies!BeginWriting(c, chosen'[c])
    PROVE  BackupInv'
<1>a. \A d \in Backers \ {c} : Copies!Writing(d)' <=> Copies!Writing(d)
  BY DEF OnlyMoves, Copies!Writing
<1>b. /\ wanted' = wanted \cup chosen'[c]
      /\ alone'[c] <=> \A d \in Backers \ {c} : ~Copies!Writing(d)
      /\ \A d \in Backers \ {c} : alone'[d] <=> ~Copies!Writing(d) /\ alone[d]
  BY DEF Copies!BeginWriting
<1>1. ListedFirst'
  <2>1. \A k \in StoreKeys : <<"getValue", k>> \notin todo'[c]
    BY RestoreReadsNothing
  <2> QED
    BY <2>1 DEF BackupInv, ListedFirst, OnlyMoves, KeysListed, Copies!Call
<1>2. RightCalls'
  BY <1>a, <1>b DEF BackupInv, RightCalls, OnlyMoves, ReadsOnly
<1>3. NobodyElse'
  BY <1>a, <1>b DEF BackupInv, NobodyElse
<1>4. CleanSoFar'
  <2> SUFFICES ASSUME NEW d \in Backers, Copies!Writing(d)', alone'[d]
               PROVE  Restored(gotten[d], chosen[d], todo[d])'
    BY DEF CleanSoFar
  <2>1. d = c
    BY <1>a, <1>b
  <2> PICK b, parts : b = gotten'[c] /\ parts = chosen'[c]
    OBVIOUS
  <2>2. Restored(b, parts, Copies!RestoreCalls(b, parts))
    BY RestoreBegins DEF KeysListed
  <2> QED
    BY <2>1, <2>2 DEF Restored, OnlyMoves
<1>5. NothingUnasked'
  BY <1>b DEF BackupInv, NothingUnasked, OnlyMoves
<1> QED
  BY <1>1, <1>2, <1>3, <1>4, <1>5 DEF BackupInv

\* One call of an export or of a check.
LEMMA ReadingStep ==
    ASSUME BackupInv, NEW c \in Backers, Copies!Step(c), ~Copies!Writing(c)
    PROVE  BackupInv'
<1> PICK x \in todo[c] : /\ Copies!InTurn(x, todo[c])
                         /\ Copies!Answered(c, x) \/ Copies!Failed(c, x)
  BY DEF Copies!Step
<1>1. x \notin Copies!Writes /\ x[1] # "deleteAll"
  BY DEF BackupInv, RightCalls, ReadsOnly
<1>2. UNCHANGED <<copies, ownItems>>
  BY <1>1, BackupEffect DEF BackupInv, Copies!Answered, Copies!Failed, Copies!target
<1>3. UNCHANGED <<chosen, alone, wanted, files>>
  BY DEF Copies!Step
<1>4. OnlyMoves(c) /\ BackupTyped' /\ ~Copies!Writing(c)' /\ todo'[c] \subseteq todo[c]
  <2>1. CASE Copies!Answered(c, x)
    BY <1>2, <1>3, <2>1 DEF BackupInv, BackupTyped, OnlyMoves, Copies!Answered, Copies!Writing
  <2>2. CASE Copies!Failed(c, x) /\ Copies!Fatal(x)
    BY <1>2, <1>3, <2>2 DEF BackupInv, BackupTyped, OnlyMoves, Copies!Failed, Copies!Writing
  <2>3. CASE Copies!Failed(c, x) /\ ~Copies!Fatal(x)
    BY <1>2, <1>3, <2>3 DEF BackupInv, BackupTyped, OnlyMoves, Copies!Failed, Copies!Writing
  <2> QED
    BY <2>1, <2>2, <2>3
<1>5. OneMigration'
  <2>1. CASE Copies!Failed(c, x) /\ Copies!Fatal(x)
    BY <2>1 DEF BackupInv, OneMigration, BackupTyped, Copies!Failed, Copies!Migrating
  <2>2. CASE Copies!Answered(c, x) \/ (Copies!Failed(c, x) /\ ~Copies!Fatal(x))
    BY <2>2 DEF BackupInv, OneMigration, Copies!Answered, Copies!Failed, Copies!Migrating
  <2> QED
    BY <2>1, <2>2
<1>6. ASSUME NEW k \in StoreKeys
      PROVE  /\ <<"getValue", k>> \in todo'[c] => <<"list", "kvs">> \in todo'[c] \cup gotten'[c]
             /\ <<"getValue", k>> \in gotten'[c] => Copies!Holds(gotten'[c], "kvs")
  <2>1. /\ <<"getValue", k>> \in todo[c] => <<"list", "kvs">> \in todo[c] \cup gotten[c]
        /\ <<"getValue", k>> \in gotten[c] => Copies!Holds(gotten[c], "kvs")
    BY DEF BackupInv, ListedFirst, KeysListed, Copies!Call
  <2>2. CASE Copies!Answered(c, x)
    <3>1. todo'[c] = todo[c] \ {x} /\ gotten'[c] = gotten[c] \cup {x}
      BY <2>2 DEF BackupInv, BackupTyped, Copies!Answered
    <3>2. x = <<"getValue", k>> => <<"list", "kvs">> \notin todo[c]
      BY DEF Copies!InTurn, Copies!Stage, Copies!Call
    <3> QED
      BY <2>1, <3>1, <3>2 DEF Copies!Holds, Copies!Call
  <2>3. CASE Copies!Failed(c, x) /\ Copies!Fatal(x)
    BY <2>1, <2>3 DEF BackupInv, BackupTyped, Copies!Failed
  <2>4. CASE Copies!Failed(c, x) /\ ~Copies!Fatal(x)
    <3>1. gotten' = gotten /\ todo'[c] = todo[c] \ ({x} \cup Copies!Pointless(x))
      BY <2>4 DEF BackupInv, BackupTyped, Copies!Failed
    <3>2. x = <<"list", "kvs">> => <<"getValue", k>> \in Copies!Pointless(x)
      BY DEF Copies!Pointless, Copies!Calls, Copies!Call
    <3>3. <<"list", "kvs">> \in Copies!Pointless(x) => <<"getValue", k>> \notin todo'[c]
      BY DEF Copies!Pointless, Copies!Calls, Copies!Call
    <3> QED
      BY <2>1, <3>1, <3>2, <3>3
  <2> QED
    BY <2>2, <2>3, <2>4
<1>7. ReadsOnly(todo[c])'
  BY <1>4 DEF BackupInv, RightCalls, ReadsOnly
<1>8. KeysListed(gotten[c])' /\ \A file \in files' : KeysListed(file.holds)
  BY <1>3, <1>6 DEF BackupInv, ListedFirst, KeysListed, Copies!Call
<1> QED
  BY <1>3, <1>4, <1>5, <1>6, <1>7, <1>8, ReadsNext DEF Copies!Call

\* One call of a restore.
LEMMA WritingStep ==
    ASSUME BackupInv, NEW c \in Backers, Copies!Step(c), Copies!Writing(c)
    PROVE  BackupInv'
<1> PICK x \in todo[c] : /\ Copies!InTurn(x, todo[c])
                         /\ Copies!Answered(c, x) \/ Copies!Failed(c, x)
  BY DEF Copies!Step
<1> PICK b, parts : b = gotten[c] /\ parts = chosen[c]
  OBVIOUS
<1> PICK left : left = todo[c]
  OBVIOUS
<1>1. left \subseteq Copies!RestoreCalls(b, parts) /\ parts \subseteq wanted
  BY DEF BackupInv, RightCalls
<1>2. ~Copies!Fatal(x)
  BY <1>1, RestoreReadsNothing
<1>3. /\ UNCHANGED <<chosen, alone, wanted, files, doing, migrating>>
      /\ \A d \in Backers : gotten'[d] = gotten[d]
      /\ DOMAIN gotten' = Backers
  BY <1>2 DEF Copies!Step, Copies!Answered, Copies!Failed, BackupInv, BackupTyped
<1>4. /\ \A d \in Backers \ {c} : todo'[d] = todo[d] /\ faulty'[d] = faulty[d]
      /\ todo'[c] \subseteq todo[c]
      /\ DOMAIN todo' = Backers /\ DOMAIN faulty' = Backers
      /\ Copies!Answered(c, x) => todo'[c] = todo[c] \ {x} /\ faulty' = faulty
      /\ Copies!Failed(c, x) => faulty'[c] = TRUE
  BY <1>2 DEF Copies!Answered, Copies!Failed, BackupInv, BackupTyped
<1>5. Copies!Effect(x) \/ UNCHANGED Copies!target
  BY DEF Copies!Answered, Copies!Failed
<1>6. BackupTyped'
  BY <1>3, <1>4, <1>5, EffectTyped DEF BackupInv, BackupTyped
<1>7. ListedFirst'
  <2>1. \A k : <<"getValue", k>> \notin todo[c]
    BY <1>1, RestoreReadsNothing
  <2> QED
    BY <1>3, <1>4, <2>1 DEF BackupInv, ListedFirst, KeysListed, Copies!Call
<1>8. RightCalls'
  BY <1>3, <1>4 DEF BackupInv, RightCalls, ReadsOnly, Copies!Writing
<1>9. OneMigration' /\ NobodyElse'
  BY <1>3 DEF BackupInv, OneMigration, NobodyElse, Copies!Migrating, Copies!Writing
<1>10. CleanSoFar'
  <2> SUFFICES ASSUME NEW d \in Backers, Copies!Writing(d)', ~faulty'[d], alone'[d]
               PROVE  Restored(gotten[d], chosen[d], todo[d])'
    BY DEF CleanSoFar
  <2>1. d = c
    BY <1>3 DEF BackupInv, NobodyElse, Copies!Writing
  <2>2. Copies!Answered(c, x) /\ Copies!Effect(x)
    BY <1>4, <2>1 DEF Copies!Answered
  <2>3. Restored(b, parts, left)
    BY <1>3, <1>4, <2>1, <2>2 DEF BackupInv, CleanSoFar
  <2>4. Restored(b, parts, left \ {x})'
    BY <1>1, <1>6, <2>2, <2>3, RestoreGoesOn DEF BackupInv
  <2>5. todo'[c] = left \ {x} /\ gotten'[c] = b /\ chosen'[c] = parts
    BY <1>3, <1>4, <2>2
  <2> QED
    BY <2>1, <2>4, <2>5 DEF Restored
<1>11. NothingUnasked'
  <2> SUFFICES ASSUME NEW w \in Copies!Writes, copies'[w] > 0 PROVE Copies!PartOf(w) \in wanted
    BY <1>3 DEF NothingUnasked
  <2>1. CASE x \in Copies!Writes /\ w = x
    BY <1>1, <2>1, WrittenWasAsked
  <2>2. CASE copies[w] > 0
    BY <2>2 DEF BackupInv, NothingUnasked
  <2>3. CASE ~(x \in Copies!Writes /\ w = x)
    <3>1. copies'[w] = copies[w] \/ copies'[w] = 0
      <4>1. CASE UNCHANGED Copies!target
        BY <4>1 DEF Copies!target
      <4>2. CASE Copies!Effect(x) /\ x \in Copies!Writes
        BY <2>3, <4>2, BackupEffect DEF BackupInv, BackupTyped
      <4>3. CASE Copies!Effect(x) /\ x \notin Copies!Writes /\ x[1] = "deleteAll"
        BY <4>3, BackupEffect DEF BackupInv
      <4>4. CASE Copies!Effect(x) /\ x \notin Copies!Writes /\ x[1] # "deleteAll"
        BY <4>4, BackupEffect DEF BackupInv
      <4> QED
        BY <1>5, <4>1, <4>2, <4>3, <4>4
    <3> QED
      BY <2>2, <3>1
  <2> QED
    BY <2>1, <2>3
<1> QED
  BY <1>6, <1>7, <1>8, <1>9, <1>10, <1>11 DEF BackupInv

\* An operation that only reads, begun.
LEMMA ReadingBegins ==
    ASSUME BackupInv, NEW c \in Backers, NEW where \in {"probe", "save"}, NEW parts, NEW left,
           Copies!Begin(c, where, parts, left), ReadsOnly(left),
           \A k \in StoreKeys : Copies!Call("getValue", k) \in left =>
               Copies!Call("list", "kvs") \in left,
           gotten' = [gotten EXCEPT ![c] = {}], UNCHANGED <<alone, wanted>>, OneMigration'
    PROVE  BackupInv'
<1>1. OnlyMoves(c) /\ BackupTyped' /\ ~Copies!Writing(c)' /\ todo'[c] = left /\ gotten'[c] = {}
  BY DEF BackupInv, BackupTyped, OnlyMoves, Copies!Begin, Copies!target, Copies!Writing
<1>2. \A file \in files' : KeysListed(file.holds)
  BY DEF BackupInv, ListedFirst, Copies!Begin
<1> QED
  BY <1>1, <1>2, ReadsNext DEF KeysListed, ReadsOnly

LEMMA ExportNext ==
    ASSUME BackupInv, NEW c \in Backers, NEW parts, Copies!Export(c, parts)
    PROVE  BackupInv'
<1>1. OneMigration'
  BY DEF BackupInv, OneMigration, BackupTyped, Copies!Export, Copies!Begin, Copies!Migrating
<1> QED
  BY <1>1, ReadingBegins, ExportReadsOnly DEF Copies!Export

LEMMA MigrateNext ==
    ASSUME BackupInv, NEW c \in Backers, NEW parts, Copies!Migrate(c, parts)
    PROVE  BackupInv'
<1> DEFINE left == {Copies!Call("info", "source"), Copies!Call("info", "target")}
<1>1. OneMigration'
  BY DEF BackupInv, OneMigration, BackupTyped, Copies!Migrate, Copies!Claim, Copies!Begin,
         Copies!Migrating
<1>2. \A x \in Copies!Writes :
          \E y : \E op \in {"set", "create", "script", "code", "enable", "value"} : x = <<op, y>>
  BY DEF Copies!Writes, Copies!Calls, Copies!Call, Copies!Creates
<1>3. ReadsOnly(left) /\ \A k : Copies!Call("getValue", k) \notin left
  BY <1>2 DEF ReadsOnly, Copies!Call
<1>4. Copies!Begin(c, "probe", parts \ {"auth"}, left)
  BY DEF Copies!Migrate
<1> HIDE DEF left
<1> QED
  BY <1>1, <1>3, <1>4, ReadingBegins DEF Copies!Migrate

LEMMA SaveNext ==
    ASSUME BackupInv, NEW c \in Backers, NEW locked, Copies!Save(c, locked)
    PROVE  BackupInv'
<1>1. OnlyMoves(c) /\ BackupTyped' /\ ~Copies!Writing(c)' /\ todo'[c] = {} /\ gotten' = gotten
  BY DEF BackupInv, BackupTyped, OnlyMoves, Copies!Save, Copies!target, Copies!Writing
<1>2. OneMigration'
  BY DEF BackupInv, OneMigration, BackupTyped, Copies!Save, Copies!Migrating
<1>3. KeysListed(gotten[c])' /\ \A file \in files' : KeysListed(file.holds)
  BY <1>1 DEF BackupInv, ListedFirst, KeysListed, Copies!Save
<1> QED
  BY <1>1, <1>2, <1>3, ReadsNext DEF ReadsOnly, Copies!Save

LEMMA LeaveNext ==
    ASSUME BackupInv, NEW c \in Backers, todo[c] = {}, Copies!Leave(c)
    PROVE  BackupInv'
<1>1. OnlyMoves(c) /\ BackupTyped' /\ ~Copies!Writing(c)' /\ todo'[c] = {} /\ gotten' = gotten
  BY DEF BackupInv, BackupTyped, OnlyMoves, Copies!Leave, Copies!target, Copies!Writing
<1>2. OneMigration'
  BY DEF BackupInv, OneMigration, BackupTyped, Copies!Leave, Copies!Migrating
<1>3. KeysListed(gotten[c])' /\ \A file \in files' : KeysListed(file.holds)
  BY <1>1 DEF BackupInv, ListedFirst, KeysListed, Copies!Leave
<1> QED
  BY <1>1, <1>2, <1>3, ReadsNext DEF ReadsOnly, Copies!Leave

LEMMA CheckPassesNext ==
    ASSUME BackupInv, NEW c \in Backers, Copies!CheckPasses(c)
    PROVE  BackupInv'
<1>1. /\ OnlyMoves(c) /\ BackupTyped' /\ ~Copies!Writing(c)' /\ gotten'[c] = {}
      /\ todo'[c] = Copies!ExportCalls(chosen[c])
  BY DEF BackupInv, BackupTyped, OnlyMoves, Copies!CheckPasses, Copies!Go, Copies!target,
         Copies!Writing
<1>2. OneMigration'
  BY DEF BackupInv, OneMigration, BackupTyped, Copies!CheckPasses, Copies!Go, Copies!Migrating
<1>3. KeysListed(gotten[c])' /\ \A file \in files' : KeysListed(file.holds)
  BY <1>1 DEF BackupInv, ListedFirst, KeysListed, Copies!CheckPasses, Copies!Go
<1>4. ReadsOnly(todo[c])'
  BY <1>1, ExportReadsOnly DEF ReadsOnly
<1>5. \A k \in StoreKeys : Copies!Call("getValue", k) \in todo'[c] =>
          Copies!Call("list", "kvs") \in todo'[c]
  BY <1>1, ExportReadsOnly
<1> QED
  BY <1>1, <1>2, <1>3, <1>4, <1>5, ReadsNext DEF Copies!CheckPasses

LEMMA ImportNext ==
    ASSUME BackupInv, NEW c \in Backers, Copies!Import(c)
    PROVE  BackupInv'
<1>1. /\ OnlyMoves(c) /\ BackupTyped' /\ ~Copies!Writing(c) /\ Copies!Writing(c)'
      /\ gotten' = gotten /\ chosen' = chosen /\ files' = files
      /\ todo'[c] = Copies!RestoreCalls(gotten[c], chosen[c])
  BY DEF BackupInv, BackupTyped, OnlyMoves, Copies!Import, Copies!Go, Copies!target,
         Copies!Writing, Copies!BeginWriting
<1>2. OneMigration'
  BY DEF BackupInv, OneMigration, BackupTyped, Copies!Import, Copies!Go, Copies!Migrating
<1>3. KeysListed(gotten[c])'
  BY <1>1 DEF BackupInv, ListedFirst, KeysListed
<1>4. Copies!BeginWriting(c, chosen'[c])
  BY <1>1 DEF Copies!Import
<1> QED
  BY <1>1, <1>2, <1>3, <1>4, WritesNext

LEMMA RestoreNext ==
    ASSUME BackupInv, NEW c \in Backers, NEW file \in files, NEW password, NEW parts,
           Copies!RestoreEncrypted(c, file, password, parts)
    PROVE  BackupInv'
<1>0. Copies!Restore(c, file.holds, parts)
  BY DEF Copies!RestoreEncrypted
<1>1. /\ OnlyMoves(c) /\ BackupTyped' /\ ~Copies!Writing(c) /\ Copies!Writing(c)'
      /\ gotten'[c] = file.holds /\ chosen'[c] = parts /\ files' = files
      /\ todo'[c] = Copies!RestoreCalls(file.holds, parts)
  BY <1>0 DEF BackupInv, BackupTyped, OnlyMoves, Copies!Restore, Copies!Begin, Copies!target,
              Copies!Writing, Copies!BeginWriting
<1>2. OneMigration'
  BY <1>0 DEF BackupInv, OneMigration, BackupTyped, Copies!Restore, Copies!Begin, Copies!Migrating
<1>3. KeysListed(gotten[c])'
  BY <1>1 DEF BackupInv, ListedFirst, KeysListed
<1>4. Copies!BeginWriting(c, chosen'[c])
  BY <1>0, <1>1 DEF Copies!Restore
<1> QED
  BY <1>1, <1>2, <1>3, <1>4, WritesNext

LEMMA BackupInit == Copies!Init => BackupInv
<1> SUFFICES ASSUME Copies!Init PROVE BackupInv
  OBVIOUS
<1>1. BackupTyped /\ ListedFirst
  BY DEF Copies!Init, BackupTyped, ListedFirst, KeysListed
<1>2. RightCalls /\ OneMigration /\ NobodyElse /\ CleanSoFar /\ NothingUnasked
  BY DEF Copies!Init, RightCalls, ReadsOnly, OneMigration, NobodyElse, CleanSoFar, NothingUnasked,
         Copies!Writing, Copies!Migrating
<1> QED
  BY <1>1, <1>2 DEF BackupInv

LEMMA BackupNext == BackupInv /\ [Copies!Next]_backupVars => BackupInv'
<1> SUFFICES ASSUME BackupInv, [Copies!Next]_backupVars PROVE BackupInv'
  OBVIOUS
<1>1. CASE UNCHANGED backupVars
  BY <1>1 DEF BackupInv, BackupTyped, ListedFirst, KeysListed, RightCalls, ReadsOnly, OneMigration,
              NobodyElse, CleanSoFar, Restored, NothingUnasked, backupVars,
              Copies!Writing, Copies!Migrating
<1>2. CASE Copies!Next
  <2> PICK c \in Backers :
          \/ Copies!Step(c)
          \/ \E parts \in BackupParts : Copies!Export(c, parts) \/ Copies!Migrate(c, parts)
          \/ \E locked \in Passwords \cup {Copies!Plain} : Copies!Save(c, locked)
          \/ \E file \in files, password \in Passwords \cup {Copies!Plain}, parts \in BackupParts :
                 Copies!RestoreEncrypted(c, file, password, parts)
          \/ Copies!CheckStops(c) \/ Copies!CheckPasses(c) \/ Copies!Import(c) \/ Copies!Return(c)
    BY <1>2 DEF Copies!Next
  <2>1. CASE Copies!Step(c)
    BY <2>1, ReadingStep, WritingStep
  <2>2. CASE \E parts \in BackupParts : Copies!Export(c, parts) \/ Copies!Migrate(c, parts)
    BY <2>2, ExportNext, MigrateNext
  <2>3. CASE \E locked \in Passwords \cup {Copies!Plain} : Copies!Save(c, locked)
    BY <2>3, SaveNext
  <2>4. CASE \E file \in files, password \in Passwords \cup {Copies!Plain}, parts \in BackupParts :
                 Copies!RestoreEncrypted(c, file, password, parts)
    BY <2>4, RestoreNext
  <2>5. CASE Copies!CheckStops(c) \/ Copies!Return(c)
    BY <2>5, LeaveNext DEF Copies!CheckStops, Copies!Return
  <2>6. CASE Copies!CheckPasses(c) \/ Copies!Import(c)
    BY <2>6, CheckPassesNext, ImportNext
  <2> QED
    BY <2>1, <2>2, <2>3, <2>4, <2>5, <2>6
<1> QED
  BY <1>1, <1>2

LEMMA BackupInvSound == BackupInv => Copies!BackupSound
<1> SUFFICES ASSUME BackupInv PROVE Copies!BackupSound
  OBVIOUS
<1>1. Copies!OnlyWhatWasAsked
  BY DEF BackupInv, NothingUnasked, OneMigration, Copies!OnlyWhatWasAsked
<1>2. ASSUME NEW c \in Backers, Copies!Finished(c), ~faulty[c], alone[c]
      PROVE  Restored(gotten[c], chosen[c], {})
  BY <1>2 DEF BackupInv, CleanSoFar, Copies!Finished
<1>3. Copies!CleanRunCopies
  BY <1>2 DEF Restored, Copies!CleanRunCopies
<1> QED
  BY <1>1, <1>3 DEF Copies!BackupSound

-----------------------------------------------------------------------------
(* The behaviours of MCCalls.                                              *)

\* A step of one part leaves the variables of the others alone.
LEMMA PartsStep ==
    ASSUME [MCNext]_<<part, vars, calling, building>>
    PROVE  [Mqtt!MNext]_mqttVars /\ [Http!HNext]_httpVars /\ [Cloud!ClientNext]_clientVars
           /\ [Ble!PNext]_bleVars /\ [Bulk!BNext]_bulkVars /\ [Copies!Next]_backupVars
BY DEF MCNext, calling, building

\* Calls through the broker implement the abstract Call, with any number of threads and
\* library clients: an answer that comes late, twice or through a client that was given up
\* is handed to the thread whose request it answers, or to nobody (mqtt.go:225-330).
THEOREM BrokerCorrelates == MCSpec => MCorrelates
<1>1. MCInit => MqttInv /\ Mqtt!Calls!Init
  BY MqttInit DEF MCInit
<1>2. MqttInv /\ [MCNext]_<<part, vars, calling, building>>
      => MqttInv' /\ [Mqtt!Calls!Next]_(Mqtt!Calls!callVars)
  BY MqttStep, PartsStep
<1> QED
  BY <1>1, <1>2, PTL DEF MCSpec, MCorrelates, Mqtt!MCorrelates, Mqtt!Calls!Spec

\* Through any number of retries and either authentication, a result means the device
\* executed the command, an error of which nothing was lost that it did not, and after an
\* error that is final nothing more is sent (http.go:82-250).
THEOREM HttpIsSound == MCSpec => []HttpSound
<1>1. MCInit => HttpInv
  BY HttpInit DEF MCInit
<1>2. HttpInv /\ [MCNext]_<<part, vars, calling, building>> => HttpInv'
  BY HttpStep, PartsStep
<1>3. HttpInv => HttpSound
  BY DEF HttpInv, HttpSound
<1> QED
  BY <1>1, <1>2, <1>3, PTL DEF MCSpec

\* However many goroutines wait for the limiter, with any rate, two calls are never closer
\* than the interval, and whichever accounts log in meanwhile a request carries its token
\* to the server that issued it (client.go:96-130, 310-345).
THEOREM ClientIsSound == MCSpec => []ClientSound
<1>1. MCInit => ClientInv
  BY ClientInitInv DEF MCInit
<1>2. ClientInv /\ [MCNext]_<<part, vars, calling, building>> => ClientInv'
  BY ClientStep, PartsStep
<1>3. ClientInv => ClientSound
  BY DEF ClientInv, ClientSound
<1> QED
  BY <1>1, <1>2, <1>3, PTL DEF MCSpec

\* However many programs share the transmitter and wherever their connections and
\* commands fail, what one writes goes to its own device and the last to end leaves
\* nothing connected, unless one gave up a Connect (ble_transmitter.go:64-290).
THEOREM BleIsSound == MCSpec => []BleSound
<1>1. MCInit => BleInv
  BY BleInit DEF MCInit
<1>2. BleInv /\ [MCNext]_<<part, vars, calling, building>> => BleInv'
  BY BleStep, PartsStep
<1>3. BleInv => BleSound
  BY DEF BleInv, BleTyped, OneActive, Active, BleSound, Ble!BleSound
<1> QED
  BY <1>1, <1>2, <1>3, PTL DEF MCSpec

\* However many targets, workers and retries there are and wherever calls fail or lose
\* their answers, a bulk provisioning counts every target once, says success only of a
\* device that holds all its settings, and turns no access point off that was to stay
\* until the network was joined (provisioning.go:333-419, 857-1010).
THEOREM BulkIsSound == MCSpec => []BulkSound
<1>1. MCInit => BulkInv
  BY BulkInit DEF MCInit
<1>2. BulkInv /\ [MCNext]_<<part, vars, calling, building>> => BulkInv'
  BY BulkStep, PartsStep
<1>3. BulkInv => BulkSound
  BY BulkDone DEF BulkSound
<1> QED
  BY <1>1, <1>2, <1>3, PTL DEF MCSpec

\* However many operations share a program, whatever the source holds and wherever calls
\* fail, a restore whose calls succeeded and which nobody disturbed leaves one of each job
\* and hook and none of the target's own, nothing that was not asked for is written, and
\* two migrations are never under way (backup.go:185-640).
THEOREM BackupIsSound == MCSpec => []BackupSound
<1>1. MCInit => BackupInv
  BY BackupInit DEF MCInit
<1>2. BackupInv /\ [MCNext]_<<part, vars, calling, building>> => BackupInv'
  BY BackupNext, PartsStep
<1>3. BackupInv => BackupSound
  BY BackupInvSound DEF BackupSound
<1> QED
  BY <1>1, <1>2, <1>3, PTL DEF MCSpec

=============================================================================
