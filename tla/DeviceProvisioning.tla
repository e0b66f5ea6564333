------------------------- MODULE DeviceProvisioning -------------------------
(***************************************************************************)
(* provisioning/provisioning.go: ProvisionBulk gives every target to a     *)
(* pool of workers; a worker makes a client, applies the settings one call *)
(* at a time, then the options, and tries again when a setting failed.  A  *)
(* call may fail, or change the device and lose its answer.                *)
(***************************************************************************)
EXTENDS Naturals, Sequences, FiniteSets

CONSTANTS
    Targets,            \* a sequence of targets: [settings, after] or a target without both
    Addresses,          \* sequences of addresses the targets may have
    Workers,            \* as many as Concurrency
    RetryCount,
    MaxFaults           \* bound: calls that fail, or whose answer is lost

VARIABLES
    address,            \* target -> its address
    credentials,        \* do the clients of ClientFactory know the new password?
    canceled,           \* the context of ProvisionBulk
    queued,             \* targets looked at by the queueing loop
    work, results,      \* the two channels
    worker,             \* worker -> [on, target, attempt, todo, after, trouble]
    device,             \* address -> [holds, ap, ble, joined]
    Results,            \* BulkProvisionResult.Results; a target's address -> its success
    SuccessCount, FailureCount,
    bulk,               \* ProvisionBulk: "queue", "collect" or "done"
    waived,             \* history: addresses whose wait for the network was given up
    misses              \* faults so far

bulkVars == <<address, credentials, canceled, queued, work, results, worker, device,
              Results, SuccessCount, FailureCount, bulk, waived, misses>>

Idle == [on |-> "idle", target |-> 0, attempt |-> 0, todo |-> <<>>, after |-> FALSE]
NoConfig == [settings |-> {}, after |-> {}]

BInit ==
    /\ address \in Addresses /\ credentials \in BOOLEAN
    /\ canceled = FALSE /\ queued = 0
    /\ work = <<>> /\ results = <<>>
    /\ worker = [w \in Workers |-> Idle]
    /\ device = [a \in {address[t] : t \in DOMAIN Targets} |->
                    [holds |-> {}, ap |-> TRUE, ble |-> TRUE, joined |-> FALSE]]
    /\ Results = [a \in {} |-> TRUE]
    /\ SuccessCount = 0 /\ FailureCount = 0
    /\ bulk = "queue"
    /\ waived = {} /\ misses = 0

Settings == {"wifi", "ap", "name", "timezone", "location", "cloud", "auth"}
Afterwards == {"wait", "no ap", "no ble"}

If(step, steps) == IF step \in steps THEN <<step>> ELSE <<>>

\* The calls in their order, those the configuration has.
applyProvisioningConfig(s) ==
    If("wifi", s) \o If("ap", s) \o If("name", s) \o If("timezone", s)
        \o If("location", s) \o If("cloud", s) \o If("auth", s)

\* Without a network neither is it waited for nor is the access point turned off.
applyPostProvisioningOptions(c) ==
    LET online == IF "wifi" \in c.settings THEN c.after ELSE {}
    IN  If("wait", online) \o If("no ap", online) \o If("no ble", c.after)

-----------------------------------------------------------------------------
(* The queueing loop and the collecting loop.                              *)

\* A target without a configuration has its result at once.
Queue ==
    /\ bulk = "queue" /\ queued < Len(Targets)
    /\ queued' = queued + 1
    /\ IF Targets[queued + 1] = NoConfig
       THEN /\ results' = Append(results, [target |-> queued + 1, success |-> FALSE])
            /\ UNCHANGED work
       ELSE work' = Append(work, queued + 1) /\ UNCHANGED results
    /\ UNCHANGED <<address, credentials, canceled, worker, device, Results, SuccessCount,
                   FailureCount, bulk, waived, misses>>

CloseWork ==
    /\ bulk = "queue" /\ queued = Len(Targets)
    /\ bulk' = "collect"
    /\ UNCHANGED <<address, credentials, canceled, queued, work, results, worker, device,
                   Results, SuccessCount, FailureCount, waived, misses>>

Collect ==
    /\ bulk = "collect" /\ results # <<>>
    /\ LET r == Head(results)
           a == address[r.target]
       IN  /\ Results' = [b \in DOMAIN Results \cup {a} |->
                             IF b = a THEN r.success ELSE Results[b]]
           /\ SuccessCount' = IF r.success THEN SuccessCount + 1 ELSE SuccessCount
           /\ FailureCount' = IF r.success THEN FailureCount ELSE FailureCount + 1
    /\ results' = Tail(results)
    /\ UNCHANGED <<address, credentials, canceled, queued, work, worker, device, bulk,
                   waived, misses>>

\* The channel of results is closed when every worker has left.
Finish ==
    /\ bulk = "collect" /\ results = <<>>
    /\ \A w \in Workers : worker[w].on = "left"
    /\ bulk' = "done"
    /\ UNCHANGED <<address, credentials, canceled, queued, work, results, worker, device,
                   Results, SuccessCount, FailureCount, waived, misses>>

-----------------------------------------------------------------------------
(* A worker.                                                               *)

Move(w, to) ==
    /\ worker' = [worker EXCEPT ![w] = to]
    /\ UNCHANGED <<address, credentials, canceled, queued, Results, SuccessCount,
                   FailureCount, bulk>>

Config(w) == Targets[worker[w].target]

Take(w) ==
    /\ worker[w].on = "idle" /\ work # <<>>
    /\ Move(w, [Idle EXCEPT !.on = "client", !.target = Head(work)])
    /\ work' = Tail(work)
    /\ UNCHANGED <<results, device, waived, misses>>

Leave(w) ==
    /\ worker[w].on = "idle" /\ work = <<>> /\ bulk # "queue"
    /\ Move(w, [Idle EXCEPT !.on = "left"])
    /\ UNCHANGED <<work, results, device, waived, misses>>

\* An attempt begins with a new client and the device's information.
Attempt(w) ==
    /\ worker[w].on = "client"
    /\ Move(w, [worker[w] EXCEPT !.on = "run", !.after = FALSE,
                    !.todo = <<"info">> \o applyProvisioningConfig(Config(w).settings)])
    /\ UNCHANGED <<work, results, device, waived, misses>>

Failed(w) ==
    [worker[w] EXCEPT !.on = IF worker[w].attempt < RetryCount THEN "delay" ELSE "failed",
                      !.todo = <<>>]

\* Mutant of Advance: an error in a setting is skipped as one in an option is.
AdvanceAnyway(w, ok) ==
    [worker[w] EXCEPT !.todo = Tail(@)]

\* The rest of the calls; after an error in a setting another attempt, after one in an
\* option none, and the provisioning still counts as a success.
Advance(w, ok) ==
    CASE ok -> [worker[w] EXCEPT !.todo = Tail(@)]
      [] ~ok /\ worker[w].after -> [worker[w] EXCEPT !.todo = <<>>]
      [] OTHER -> Failed(w)

ClientFails(w) ==
    /\ worker[w].on = "client" /\ misses < MaxFaults
    /\ misses' = misses + 1
    /\ Move(w, Failed(w))
    /\ UNCHANGED <<work, results, device, waived>>

\* A device with a password answers only for its information without it.
Refused(w, step) ==
    "auth" \in device[address[worker[w].target]].holds /\ ~credentials /\ step # "info"

After(step, d) ==
    CASE step = "info"   -> d
      [] step = "no ap"  -> [d EXCEPT !.ap = FALSE]
      [] step = "no ble" -> [d EXCEPT !.ble = FALSE]
      [] OTHER           -> [d EXCEPT !.holds = @ \cup {step}]

\* One call: it succeeds, is refused, does not get through, or loses its answer.
Call(w) ==
    LET step == Head(worker[w].todo)
        a    == address[worker[w].target]
        done == [device EXCEPT ![a] = After(step, @)]
    IN  /\ worker[w].on = "run" /\ worker[w].todo # <<>>
        /\ step # "wait"
        /\ \/ ~Refused(w, step) /\ ~canceled
              /\ device' = done /\ UNCHANGED misses /\ Move(w, Advance(w, TRUE))
           \/ (Refused(w, step) \/ canceled)
              /\ UNCHANGED <<device, misses>> /\ Move(w, Advance(w, FALSE))
           \/ misses < MaxFaults /\ misses' = misses + 1
              /\ device' \in {device, IF Refused(w, step) THEN device ELSE done}
              /\ Move(w, Advance(w, FALSE))
        /\ UNCHANGED <<work, results, waived>>

Waits(w) == worker[w].on = "run" /\ worker[w].todo # <<>> /\ Head(worker[w].todo) = "wait"

\* WaitForConnection polls until there is an address ...
WaitForConnection(w) ==
    /\ Waits(w) /\ ~Refused(w, "wait") /\ ~canceled
    /\ device[address[worker[w].target]].joined
    /\ Move(w, Advance(w, TRUE))
    /\ UNCHANGED <<work, results, device, waived, misses>>

\* Mutant of WaitGivenUp: the options go on.
WaitGoesOn(w) ==
    /\ Waits(w)
    /\ waived' = waived \cup {address[worker[w].target]}
    /\ Move(w, Advance(w, TRUE))
    /\ UNCHANGED <<work, results, device, misses>>

\* ... or the time is over, and that is the end of the options.
WaitGivenUp(w) ==
    /\ Waits(w)
    /\ waived' = waived \cup {address[worker[w].target]}
    /\ Move(w, Advance(w, FALSE))
    /\ UNCHANGED <<work, results, device, misses>>

\* From the settings to the options.
Options(w) ==
    /\ worker[w].on = "run" /\ worker[w].todo = <<>> /\ ~worker[w].after
    /\ Move(w, [worker[w] EXCEPT !.after = TRUE, !.todo = applyPostProvisioningOptions(Config(w))])
    /\ UNCHANGED <<work, results, device, waived, misses>>

Report(w) ==
    /\ \/ worker[w].on = "failed"
       \/ worker[w].on = "run" /\ worker[w].todo = <<>> /\ worker[w].after
    /\ results' = Append(results, [target |-> worker[w].target, success |-> worker[w].on = "run"])
    /\ Move(w, Idle)
    /\ UNCHANGED <<work, device, waived, misses>>

\* Mutant of Delay: the retry is not counted.
DelayUncounted(w) ==
    /\ worker[w].on = "delay"
    /\ \/ Move(w, [worker[w] EXCEPT !.on = "client"])
       \/ canceled /\ Move(w, [worker[w] EXCEPT !.on = "failed"])
    /\ UNCHANGED <<work, results, device, waived, misses>>

\* The delay before a retry ends early, and the retry with it, when the caller gives up.
Delay(w) ==
    /\ worker[w].on = "delay"
    /\ \/ Move(w, [worker[w] EXCEPT !.on = "client", !.attempt = @ + 1])
       \/ canceled /\ Move(w, [worker[w] EXCEPT !.on = "failed"])
    /\ UNCHANGED <<work, results, device, waived, misses>>

-----------------------------------------------------------------------------
(* The caller and the devices.                                             *)

Cancel ==
    /\ ~canceled /\ canceled' = TRUE
    /\ UNCHANGED <<address, credentials, queued, work, results, worker, device, Results,
                   SuccessCount, FailureCount, bulk, waived, misses>>

Join(a) ==
    /\ "wifi" \in device[a].holds /\ ~device[a].joined
    /\ device' = [device EXCEPT ![a].joined = TRUE]
    /\ UNCHANGED <<address, credentials, canceled, queued, work, results, worker, Results,
                   SuccessCount, FailureCount, bulk, waived, misses>>

WorkerStep(w) ==
    \/ Take(w) \/ Leave(w) \/ Attempt(w) \/ Call(w) \/ WaitForConnection(w)
    \/ WaitGivenUp(w) \/ Options(w) \/ Report(w) \/ Delay(w)

BNext ==
    \/ Queue \/ CloseWork \/ Collect \/ Finish
    \/ \E w \in Workers : WorkerStep(w) \/ ClientFails(w)
    \/ Cancel
    \/ \E a \in DOMAIN device : Join(a)

\* Goroutines run, calls return, and a wait has a limit; nothing need ever be cancelled
\* and no device need ever join the network.
BFair == /\ WF_bulkVars(Queue \/ CloseWork \/ Collect \/ Finish)
         /\ \A w \in Workers : WF_bulkVars(WorkerStep(w))

BSpec == BInit /\ [][BNext]_bulkVars /\ BFair

-----------------------------------------------------------------------------
BTypeOK ==
    /\ queued \in 0..Len(Targets)
    /\ \A w \in Workers :
          /\ worker[w].on \in {"idle", "client", "run", "delay", "failed", "left"}
          /\ worker[w].attempt \in 0..RetryCount
    /\ DOMAIN Results \subseteq DOMAIN device
    /\ misses \in 0..MaxFaults

Alone(t) == \A u \in DOMAIN Targets : u # t => address[u] # address[t]

\* When ProvisionBulk returns, every target has been counted once, and one that shares
\* its address with no other has its own result; if that says success, the device holds
\* every setting of its configuration, whatever was retried.  (provisioning.go:857, 994)
ResultsAreTrue ==
    bulk = "done" =>
        /\ SuccessCount + FailureCount = Len(Targets)
        /\ \A t \in DOMAIN Targets : Alone(t) =>
              /\ address[t] \in DOMAIN Results
              /\ Results[address[t]] => Targets[t].settings \subseteq device[address[t]].holds

\* A device whose provisioning is to wait for the network loses its access point only
\* after it was seen there: nobody is locked out of it.  (provisioning.go:387)
ApStaysUntilJoined ==
    \A t \in DOMAIN Targets :
        (Alone(t) /\ "wait" \in Targets[t].after /\ ~device[address[t]].ap) =>
            device[address[t]].joined

\* What a bulk provisioning reports is so, and it leaves every device within reach.
BulkSound == ResultsAreTrue /\ ApStaysUntilJoined

\* ProvisionBulk returns, although devices fail, are retried or never join and the
\* context may end: the workers and the queue leave nobody waiting (provisioning.go:905).
BulkEnds == <>(bulk = "done")
=============================================================================
