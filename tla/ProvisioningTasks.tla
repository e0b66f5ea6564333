------------------------ MODULE ProvisioningTasks -------------------------
(***************************************************************************)
(* integrator/provisioning.go: bulk provisioning tasks.  ExecuteTask looks *)
(* a task up once and then works on the task, progress and template it     *)
(* found, taking pm.mu for each change, while other goroutines cancel,     *)
(* delete or create again the task of that id.                             *)
(*                                                                         *)
(* CreateTask makes a task and its progress together and puts both under   *)
(* the id, so an object here is the pair; objects are numbered as created, *)
(* and tasks maps an id to the object pm.tasks and pm.progress hold.  What *)
(* provisioning a device does is one of its three results.                 *)
(***************************************************************************)
EXTENDS Naturals, Sequences, FiniteSets

CONSTANTS
    Ids,            \* task ids
    Templates,      \* template ids
    Devices,        \* device ids
    MaxDevices,     \* bound: devices of a task
    Executors,      \* goroutines that call ExecuteTask
    MaxTasks        \* bound: tasks created in a behaviour

ASSUME TaskBoundsAssumption == MaxDevices \in Nat /\ MaxTasks \in Nat

Results == {"success", "skipped", "failed"}
Statuses == {"pending", "running", "completed", "failed", "canceled"}
DeviceLists == UNION {[1..n -> Devices] : n \in 0..MaxDevices}

VARIABLES
    templates,      \* the keys of pm.templates
    tasks,          \* pm.tasks and pm.progress: the object under each id
    object,         \* every task created, with its progress
    pc,             \* where each executor is
    task,           \* the object it executes
    pos,            \* the device it is at
    ctxDone         \* whether its context has ended

execVars == <<pc, task, pos, ctxDone>>
vars == <<templates, tasks, object, execVars>>

Objects == 1..Len(object)

Init ==
    /\ templates = Templates
    /\ tasks = <<>>
    /\ object = <<>>
    /\ pc = [e \in Executors |-> "idle"]
    /\ task = [e \in Executors |-> 0]
    /\ pos = [e \in Executors |-> 0]
    /\ ctxDone = [e \in Executors |-> FALSE]

---------------------------------------------------------------------------
NewTask(t, list) ==
    [template |-> t, devices |-> list, status |-> "pending",
     count |-> [r \in Results |-> 0], results |-> <<>>]

\* CreateTask replaces whatever task the id named.
CreateTask(id, t, list) ==
    /\ Len(object) < MaxTasks
    /\ t \in templates
    /\ object' = Append(object, NewTask(t, list))
    /\ tasks' = [i \in DOMAIN tasks \cup {id} |-> IF i = id THEN Len(object) + 1 ELSE tasks[i]]
    /\ UNCHANGED <<templates, execVars>>

CancelAnyTask(id) ==
    /\ id \in DOMAIN tasks
    /\ object' = [object EXCEPT ![tasks[id]].status = "canceled"]
    /\ UNCHANGED <<templates, tasks, execVars>>

CancelTask(id) ==
    /\ id \in DOMAIN tasks
    /\ object[tasks[id]].status \in {"running", "pending"}
    /\ object' = [object EXCEPT ![tasks[id]].status = "canceled"]
    /\ UNCHANGED <<templates, tasks, execVars>>

DeleteTask(id) ==
    /\ id \in DOMAIN tasks
    /\ tasks' = [i \in DOMAIN tasks \ {id} |-> tasks[i]]
    /\ UNCHANGED <<templates, object, execVars>>

\* CreateTemplate and DeleteTemplate; UpdateTemplate changes only a content.
ChangeTemplates(t) ==
    /\ templates' = IF t \in templates THEN templates \ {t} ELSE templates \cup {t}
    /\ UNCHANGED <<tasks, object, execVars>>

CancelContext(e) ==
    /\ pc[e] # "idle" /\ ~ctxDone[e]
    /\ ctxDone' = [ctxDone EXCEPT ![e] = TRUE]
    /\ UNCHANGED <<templates, tasks, object, pc, task, pos>>

---------------------------------------------------------------------------
BeginAgain(e, id) ==
    /\ pc[e] = "idle"
    /\ id \in DOMAIN tasks
    /\ object[tasks[id]].template \in templates
    /\ object' = [object EXCEPT ![tasks[id]].status = "running"]
    /\ task' = [task EXCEPT ![e] = tasks[id]]
    /\ pos' = [pos EXCEPT ![e] = 1]
    /\ pc' = [pc EXCEPT ![e] = "loop"]
    /\ UNCHANGED <<templates, tasks, ctxDone>>

Begin(e, id) ==
    /\ pc[e] = "idle"
    /\ id \in DOMAIN tasks
    /\ object[tasks[id]].status = "pending"
    /\ object[tasks[id]].template \in templates
    /\ object' = [object EXCEPT ![tasks[id]].status = "running"]
    /\ task' = [task EXCEPT ![e] = tasks[id]]
    /\ pos' = [pos EXCEPT ![e] = 1]
    /\ pc' = [pc EXCEPT ![e] = "loop"]
    /\ UNCHANGED <<templates, tasks, ctxDone>>

Returns(e, status) ==
    /\ object' = [object EXCEPT ![task[e]].status = status]
    /\ pc' = [pc EXCEPT ![e] = "idle"]
    /\ task' = [task EXCEPT ![e] = 0]
    /\ pos' = [pos EXCEPT ![e] = 0]
    /\ ctxDone' = [ctxDone EXCEPT ![e] = FALSE]
    /\ UNCHANGED <<templates, tasks>>

StopRunning(e) ==
    /\ pc[e] = "loop" /\ pos[e] <= Len(object[task[e]].devices)
    /\ ctxDone[e]
    /\ Returns(e, object[task[e]].status)

StopOnContext(e) ==
    /\ pc[e] = "loop" /\ pos[e] <= Len(object[task[e]].devices)
    /\ ctxDone[e]
    /\ Returns(e, "canceled")

\* The context has not ended: provisionDevice runs, without the lock.
ProvisionDevice(e) ==
    /\ pc[e] = "loop" /\ pos[e] <= Len(object[task[e]].devices)
    /\ ~ctxDone[e]
    /\ pc' = [pc EXCEPT ![e] = "device"]
    /\ UNCHANGED <<templates, tasks, object, task, pos, ctxDone>>

RecordedCountOnly(o, d, r) == [o EXCEPT !.count[r] = @ + 1]

Recorded(o, d, r) ==
    [o EXCEPT !.count[r] = @ + 1,
              !.results = [x \in DOMAIN @ \cup {d} |-> IF x = d THEN r ELSE @[x]]]

RecordResult(e) ==
    /\ pc[e] = "device"
    /\ \E r \in Results :
        object' = [object EXCEPT ![task[e]] = Recorded(@, @.devices[pos[e]], r)]
    /\ pos' = [pos EXCEPT ![e] = @ + 1]
    /\ pc' = [pc EXCEPT ![e] = "loop"]
    /\ UNCHANGED <<templates, tasks, task, ctxDone>>

FinalStatus(count) ==
    IF count["failed"] > 0 /\ count["success"] = 0 THEN "failed" ELSE "completed"

Finish(e) ==
    /\ pc[e] = "loop" /\ pos[e] > Len(object[task[e]].devices)
    /\ Returns(e, FinalStatus(object[task[e]].count))

Next ==
    \/ \E id \in Ids :
        \/ \E t \in Templates, list \in DeviceLists : CreateTask(id, t, list)
        \/ CancelTask(id) \/ DeleteTask(id)
        \/ \E e \in Executors : Begin(e, id)
    \/ \E t \in Templates : ChangeTemplates(t)
    \/ \E e \in Executors :
        \/ StopOnContext(e) \/ ProvisionDevice(e) \/ RecordResult(e) \/ Finish(e)
        \/ CancelContext(e)

Spec == Init /\ [][Next]_vars

---------------------------------------------------------------------------
TypeOK ==
    /\ templates \subseteq Templates
    /\ \A id \in DOMAIN tasks : id \in Ids /\ tasks[id] \in Objects
    /\ \A n \in Objects :
        /\ object[n].template \in Templates
        /\ object[n].devices \in DeviceLists
        /\ object[n].status \in Statuses
        /\ object[n].count \in [Results -> 0..MaxDevices]
        /\ \A d \in DOMAIN object[n].results : d \in Devices /\ object[n].results[d] \in Results
    /\ \A e \in Executors :
        /\ pc[e] \in {"idle", "loop", "device"}
        /\ task[e] \in IF pc[e] = "idle" THEN {0} ELSE Objects
        /\ pos[e] \in 0..(MaxDevices + 1)

Executed(n) == \E e \in Executors : task[e] = n
Counted(o) == o.count["success"] + o.count["skipped"] + o.count["failed"]

\* The counters of a task add up to the devices that have a result, which are
\* the first ones of its list: also when the id was deleted and created again,
\* or the task canceled, while ExecuteTask runs.
ProgressAddsUp ==
    \A n \in Objects :
        LET o == object[n]
        IN  /\ Counted(o) <= Len(o.devices)
            /\ DOMAIN o.results = {o.devices[i] : i \in 1..Counted(o)}

\* A task is executed by one goroutine: two calls of ExecuteTask never share
\* the progress, whatever happened to the id between them.
OneExecutor == \A e, f \in Executors : task[e] = task[f] /\ task[e] # 0 => e = f

\* A task is running only while some ExecuteTask runs it: an executor that
\* returns early leaves no task that can be neither executed nor finished.
NoStuckTask == \A n \in Objects : object[n].status = "running" => Executed(n)

\* A task has one executor, is left running by none, and its progress adds up.
TasksSound == OneExecutor /\ NoStuckTask /\ ProgressAddsUp

\* Once a task has ended, by its executor or canceled before it began, nothing
\* of it changes any more.
EndedStays ==
    [][\A n \in Objects : object[n].status # "pending" /\ ~Executed(n) => object'[n] = object[n]]_vars

\* provisioning.go:366 "CancelTask cancels a running task": the task stays
\* canceled.
CanceledStays ==
    [][\A n \in Objects : object[n].status = "canceled" => object'[n].status = "canceled"]_vars
===========================================================================
