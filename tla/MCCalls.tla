------------------------------ MODULE MCCalls ------------------------------
(***************************************************************************)
(* Calls, and what is built of calls that may fail: the WebSocket, MQTT,   *)
(* HTTP under an RPC client, and the cloud client with its rate limiter;   *)
(* backups, bulk provisioning and provisioning over Bluetooth.  A          *)
(* behaviour is in one of them (part).                                     *)
(***************************************************************************)
EXTENDS MCWsTransport, Sequences

CONSTANTS
    MqttReconnect, MqttClients, MqttRequests, MqttLosses,
    HttpRetries, HttpBatch, HttpFaults, HttpCalls,
    CloudInterval, CloudTime, CloudCalls, CloudAccounts,
    Backers, Jobs, Hooks, Scripts, Enabled, StoreKeys, Passwords, BackupParts,
    BackupRuns, BackupFaults,
    BulkTargets, BulkAddresses, BulkWorkers, BulkRetries, BulkFaults,
    BleProvisioners, BleCommands

VARIABLES part,
    mclosed, client, lock, waiters, lastReq, clients, handler, topics, published,
    arriving, mpc, req, ch, closing, nilClient, losses,
    auth, protected, place, request, nextID, tries, authorized, ended, executed,
    lostAny, fatal, outcome, faults, calls,
    clock, lastCall, holder, at, kind, until, overdue, access, token, begun, passedAt, gap,
    migrating, copies, ownItems, doing, chosen, gotten, todo, restart, errors, faulty,
    alone, wanted, files, runs, failing,
    address, credentials, canceled, queued, work, results, worker, device,
    Results, SuccessCount, FailureCount, bulk, waived, misses,
    known, owner, linked, target, chars, links, dialing, dialed, ble, written, forsaken

mqttVars == <<mclosed, client, lock, waiters, lastReq, clients, handler, topics, published,
              arriving, mpc, req, ch, closing, nilClient, losses>>
httpVars == <<auth, protected, place, request, nextID, tries, authorized, ended, executed,
              lostAny, fatal, outcome, faults, calls>>
clientVars == <<clock, lastCall, holder, at, kind, until, overdue, access, token, begun,
                passedAt, gap>>
backupVars == <<migrating, copies, ownItems, doing, chosen, gotten, todo, restart, errors,
                faulty, alone, wanted, files, runs, failing>>
bulkVars == <<address, credentials, canceled, queued, work, results, worker, device,
              Results, SuccessCount, FailureCount, bulk, waived, misses>>
bleVars == <<known, owner, linked, target, chars, links, dialing, dialed, ble, written,
             forsaken>>

Mqtt == INSTANCE MqttTransport
            WITH Threads <- Callers, AutoReconnect <- MqttReconnect,
                 MaxClients <- MqttClients, MaxRequests <- MqttRequests,
                 MaxLosses <- MqttLosses
Http == INSTANCE RpcHttp
            WITH attempt <- tries, MaxRetries <- HttpRetries, BatchSize <- HttpBatch,
                 MaxFaults <- HttpFaults, MaxCalls <- HttpCalls
Cloud == INSTANCE CloudClient
            WITH read <- token, Goroutines <- Callers, Interval <- CloudInterval,
                 MaxTime <- CloudTime, MaxCalls <- CloudCalls, Accounts <- CloudAccounts

ASSUME CallsAssumption ==
    /\ MqttRequests \in Nat
    /\ CloudInterval \in Nat /\ Cloud!Unheld \notin Callers

MCBackupParts == {{"WiFi", "schedules", "scripts"}, {"Cloud", "webhooks", "kvs", "auth"}}
Copies == INSTANCE Backup
            WITH place <- doing, asked <- chosen, faults <- failing,
                 Callers <- Backers, Options <- BackupParts,
                 MaxRuns <- BackupRuns, MaxFaults <- BackupFaults

\* A device to join the network and lose its access point, one to lose Bluetooth, and one
\* to be left alone; the first two perhaps under one address.
MCTargets == << [settings |-> {"wifi", "auth"}, after |-> {"wait", "no ap"}],
                [settings |-> {"name"}, after |-> {"no ble"}],
                [settings |-> {}, after |-> {}] >>
MCAddresses == {<<"a", "b", "c">>, <<"a", "a", "b">>}
Bulk == INSTANCE DeviceProvisioning
            WITH Targets <- BulkTargets, Addresses <- BulkAddresses, Workers <- BulkWorkers,
                 RetryCount <- BulkRetries, MaxFaults <- BulkFaults

ASSUME BulkAssumption ==
    /\ BulkTargets \in Seq([settings : SUBSET Bulk!Settings, after : SUBSET Bulk!Afterwards])
    /\ \A a \in BulkAddresses : DOMAIN a = DOMAIN BulkTargets
    /\ IsFiniteSet(BulkWorkers) /\ (BulkWorkers = {} => BulkTargets = <<>>)

Ble == INSTANCE BleProvisioning
            WITH holder <- owner, Provisioners <- BleProvisioners, Commands <- BleCommands

MCInit ==
    /\ part \in {"ws", "mqtt", "http", "cloud", "backup", "bulk", "ble"}
    /\ Init /\ Mqtt!MInit /\ Copies!Init /\ Ble!PInit
    /\ Http!HInit
    /\ part # "http" => auth = "none" /\ ~protected
    /\ Cloud!ClientInit
    /\ part # "cloud" => access.token = Cloud!None
    /\ Bulk!BInit
    /\ part # "bulk" => credentials /\ address = CHOOSE a \in BulkAddresses : TRUE

calling == <<mqttVars, httpVars, clientVars>>
building == <<backupVars, bulkVars, bleVars>>

MCNext ==
    \/ part = "ws" /\ Next /\ UNCHANGED <<part, calling, building>>
    \/ /\ part = "mqtt" /\ Mqtt!MNext
       /\ UNCHANGED <<part, vars, httpVars, clientVars, building>>
    \/ /\ part = "http" /\ Http!HNext
       /\ UNCHANGED <<part, vars, mqttVars, clientVars, building>>
    \/ /\ part = "cloud" /\ Cloud!ClientNext
       /\ UNCHANGED <<part, vars, mqttVars, httpVars, building>>
    \/ /\ part = "backup" /\ Copies!Next
       /\ UNCHANGED <<part, vars, calling, bulkVars, bleVars>>
    \/ /\ part = "bulk" /\ Bulk!BNext
       /\ UNCHANGED <<part, vars, calling, backupVars, bleVars>>
    \/ /\ part = "ble" /\ Ble!PNext
       /\ UNCHANGED <<part, vars, calling, backupVars, bulkVars>>

MCSpec == MCInit /\ [][MCNext]_<<part, vars, calling, building>>

\* Calls through the broker, with answers that come late, twice, or through a client that
\* was given up, implement the abstract Call (mqtt.go:225-330).
MCorrelates == Mqtt!MCorrelates

\* Through retries and either authentication, a result means the device executed the
\* command, an error of which nothing was lost means it did not, and after an error that
\* is final nothing more is sent (http.go:82-250).
HttpSound == part = "http" => Http!HttpSound

\* However many goroutines wait for the limiter and however late they are, two calls are
\* never closer than the interval, and a request carries its token to the server that
\* issued it although the account may change under it (client.go:96-130, 310-345).
ClientSound == part = "cloud" => Cloud!ClientSound

\* Restores and migrations copy what they were asked for, once, and no more, although any
\* call may fail (backup.go:185-640).
BackupSound == part = "backup" => Copies!BackupSound

\* What a bulk provisioning reports is so, and it leaves every device within reach: one
\* result for each target, success only of a device that holds all its settings, and no
\* access point turned off before the network was joined (provisioning.go:387, 857-994).
BulkSound == part = "bulk" => Bulk!BulkSound

\* Programs that share the transmitter write to their own devices only, unless one gave up
\* a Connect whose goroutine went on (ble_transmitter.go:64-290).
BleSound == part = "ble" => Ble!BleSound
=============================================================================
