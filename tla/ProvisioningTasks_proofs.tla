---------------------- MODULE ProvisioningTasks_proofs ----------------------
(***************************************************************************)
(* Theorems about what MCDevices composes: provisioning tasks, for any     *)
(* ids, templates, devices and executors and any number of tasks; and the  *)
(* settings of Gen1 and Gen2 devices, for any programs, edits and writes;  *)
(* and the tables of devices, for any profiles a program adds to them.     *)
(***************************************************************************)
EXTENDS MCDevices, TLAPS

TaskRecord ==
    [template : Templates, devices : DeviceLists, status : Statuses,
     count : [Results -> Nat], results : UNION {[S -> Results] : S \in SUBSET Devices}]

Typed ==
    /\ templates \subseteq Templates
    /\ object \in Seq(TaskRecord)
    /\ \A id \in DOMAIN tasks : id \in Ids /\ tasks[id] \in Objects
    /\ pc \in [Executors -> {"idle", "loop", "device"}]
    /\ task \in [Executors -> Nat]
    /\ pos \in [Executors -> Nat]
    /\ \A e \in Executors : IF pc[e] = "idle" THEN task[e] = 0 /\ pos[e] = 0 ELSE task[e] \in Objects

\* An executor is at the device after those that have a result.
AtNext ==
    \A e \in Executors : pc[e] # "idle" =>
        /\ pos[e] = Counted(object[task[e]]) + 1
        /\ pc[e] = "device" => pos[e] <= Len(object[task[e]].devices)

\* A task that can still be begun has no executor and no results, so Begin
\* never gives a task a second executor or the results of a first one.
Untouched ==
    \A n \in Objects : object[n].status = "pending" => Counted(object[n]) = 0 /\ ~Executed(n)

PInv == Typed /\ AtNext /\ Untouched /\ OneExecutor /\ NoStuckTask /\ ProgressAddsUp

LEMMA CountedNat == ASSUME NEW o \in TaskRecord PROVE Counted(o) \in Nat
BY DEF TaskRecord, Counted, Results

LEMMA DevicesSeq ==
    ASSUME NEW list \in DeviceLists
    PROVE  list \in Seq(Devices) /\ Len(list) \in 0..MaxDevices
<1>1. PICK n \in 0..MaxDevices : list \in [1..n -> Devices]
  BY DEF DeviceLists
<1> QED
  BY <1>1, TaskBoundsAssumption

LEMMA PInit == Init => PInv
<1> SUFFICES ASSUME Init PROVE PInv
  OBVIOUS
<1>1. object = <<>> /\ tasks = <<>> /\ Objects = {}
  BY DEF Init, Objects
<1>2. Typed
  BY <1>1 DEF Init, Typed
<1> QED
  BY <1>1, <1>2 DEF Init, PInv, AtNext, Untouched, OneExecutor, NoStuckTask, ProgressAddsUp

\* What giving task k another status leaves alone.
LEMMA StatusChange ==
    ASSUME object \in Seq(TaskRecord), NEW k \in Objects, NEW s \in Statuses,
           object' = [object EXCEPT ![k].status = s]
    PROVE  /\ object' \in Seq(TaskRecord)
           /\ Objects' = Objects
           /\ \A n \in Objects :
                /\ object'[n].status = IF n = k THEN s ELSE object[n].status
                /\ object'[n].devices = object[n].devices
                /\ object'[n].results = object[n].results
                /\ Counted(object'[n]) = Counted(object[n])
<1>1. object[k] \in TaskRecord
  BY DEF Objects
<1> DEFINE o == [object[k] EXCEPT !.status = s]
<1>2. /\ o \in TaskRecord /\ o.status = s /\ o.devices = object[k].devices
      /\ o.results = object[k].results /\ o.count = object[k].count
  BY <1>1 DEF TaskRecord
<1>3. object' = [object EXCEPT ![k] = o]
  OBVIOUS
<1> HIDE DEF o
<1>4. /\ object' \in Seq(TaskRecord) /\ Len(object') = Len(object)
      /\ \A n \in Objects : object'[n] = IF n = k THEN o ELSE object[n]
  BY <1>2, <1>3 DEF Objects
<1> QED
  BY <1>2, <1>4 DEF Objects, Counted

\* Recording a result for the next device of a task.
LEMMA RecordedNext ==
    ASSUME NEW o \in TaskRecord, NEW r \in Results, Counted(o) + 1 <= Len(o.devices),
           DOMAIN o.results = {o.devices[i] : i \in 1..Counted(o)}
    PROVE  LET new == Recorded(o, o.devices[Counted(o) + 1], r)
           IN  /\ new \in TaskRecord
               /\ new.status = o.status /\ new.devices = o.devices
               /\ Counted(new) = Counted(o) + 1
               /\ DOMAIN new.results = {o.devices[i] : i \in 1..Counted(new)}
<1> DEFINE c == Counted(o)
           d == o.devices[c + 1]
           new == Recorded(o, d, r)
           results == [x \in DOMAIN o.results \cup {d} |-> IF x = d THEN r ELSE o.results[x]]
<1>1. /\ o.devices \in DeviceLists /\ o.status \in Statuses /\ o.count \in [Results -> Nat]
      /\ o.results \in UNION {[S -> Results] : S \in SUBSET Devices} /\ o.template \in Templates
      /\ o = [template |-> o.template, devices |-> o.devices, status |-> o.status,
              count |-> o.count, results |-> o.results]
  BY DEF TaskRecord
<1>2. c \in Nat
  BY CountedNat
<1>3. d \in Devices
  BY <1>1, <1>2, DevicesSeq
<1>4. PICK S \in SUBSET Devices : o.results \in [S -> Results]
  BY <1>1
<1>5. results \in [S \cup {d} -> Results] /\ S \cup {d} \in SUBSET Devices
  BY <1>3, <1>4
<1>6. results \in UNION {[X -> Results] : X \in SUBSET Devices}
  BY <1>5
<1>7. [o.count EXCEPT ![r] = @ + 1] \in [Results -> Nat]
  BY <1>1
<1>8. new = [template |-> o.template, devices |-> o.devices, status |-> o.status,
             count |-> [o.count EXCEPT ![r] = @ + 1], results |-> results]
  <2>1. new = [o EXCEPT !.count = [o.count EXCEPT ![r] = @ + 1], !.results = results]
    BY <1>1 DEF Recorded
  <2> HIDE DEF new, results
  <2> QED
    BY <1>1, <2>1
<1>9. new \in TaskRecord
  <2> HIDE DEF new, results
  <2> QED
    BY <1>1, <1>6, <1>7, <1>8 DEF TaskRecord
<1>10. Counted(new) = c + 1
  BY <1>1, <1>8 DEF Counted, Results
<1> HIDE DEF new, c
<1>11. DOMAIN new.results = {o.devices[i] : i \in 1..c} \cup {d}
  BY <1>8 DEF c
<1>12. {o.devices[i] : i \in 1..c} \cup {d} = {o.devices[i] : i \in 1..(c + 1)}
  BY <1>2
<1>13. new.status = o.status /\ new.devices = o.devices
  BY <1>8
<1>14. /\ new \in TaskRecord /\ Counted(new) = c + 1
      /\ DOMAIN new.results = {o.devices[i] : i \in 1..Counted(new)}
  BY <1>9, <1>10, <1>11, <1>12 DEF c
<1> QED
  BY <1>13, <1>14 DEF new, c

LEMMA PNext == PInv /\ [Next]_vars => PInv'
<1> SUFFICES ASSUME PInv, [Next]_vars PROVE PInv'
  OBVIOUS
<1>t. object \in Seq(TaskRecord) /\ templates \subseteq Templates
      /\ (\A id \in DOMAIN tasks : id \in Ids /\ tasks[id] \in Objects)
  BY DEF PInv, Typed
<1>p. /\ pc \in [Executors -> {"idle", "loop", "device"}]
      /\ task \in [Executors -> Nat] /\ pos \in [Executors -> Nat]
  BY DEF PInv, Typed
<1>e. \A e \in Executors : IF pc[e] = "idle" THEN task[e] = 0 /\ pos[e] = 0 ELSE task[e] \in Objects
  BY DEF PInv, Typed
<1>o. \A n \in Objects : n # 0 /\ object[n] \in TaskRecord
  BY <1>t DEF Objects
<1>1. ASSUME NEW id \in Ids, NEW t \in Templates, NEW list \in DeviceLists, CreateTask(id, t, list)
      PROVE  PInv'
  <2> DEFINE new == NewTask(t, list)
  <2>1. /\ object' = Append(object, new)
        /\ tasks' = [i \in DOMAIN tasks \cup {id} |-> IF i = id THEN Len(object) + 1 ELSE tasks[i]]
        /\ UNCHANGED <<templates, pc, task, pos, ctxDone>>
    BY <1>1 DEF CreateTask, execVars
  <2>2. new \in TaskRecord /\ Counted(new) = 0 /\ new.status = "pending" /\ DOMAIN new.results = {}
        /\ new.devices = list
    <3>1. \A S : <<>> \in UNION {[X -> Results] : X \in SUBSET S}
      <4> SUFFICES ASSUME NEW S PROVE <<>> \in UNION {[X -> Results] : X \in SUBSET S}
        OBVIOUS
      <4>1. <<>> \in [{} -> Results] /\ {} \in SUBSET S
        OBVIOUS
      <4> QED
        BY <4>1
    <3>2. [r \in Results |-> 0] \in [Results -> Nat] /\ "pending" \in Statuses
      BY DEF Statuses
    <3>3. new \in TaskRecord
      BY <3>1, <3>2 DEF TaskRecord, NewTask
    <3> QED
      BY <3>3 DEF NewTask, Counted, Results
  <2>3. Len(list) \in Nat
    BY DevicesSeq
  <2> HIDE DEF new
  <2>4. /\ object' \in Seq(TaskRecord) /\ Len(object) \in Nat /\ Len(object') = Len(object) + 1
        /\ object'[Len(object) + 1] = new
        /\ \A n \in Objects : object'[n] = object[n]
    BY <1>t, <2>1, <2>2 DEF Objects
  <2>5. Objects' = Objects \cup {Len(object) + 1} /\ Len(object) + 1 \notin Objects
        /\ Len(object) + 1 # 0
    BY <2>4 DEF Objects
  <2>6. \A e \in Executors : task[e] # Len(object) + 1 /\ (pc[e] # "idle" => task[e] \in Objects)
    BY <1>e, <2>5
  <2>7. Typed'
    BY <1>e, <1>p, <1>t, <2>1, <2>4, <2>5 DEF Typed
  <2>8. AtNext'
    BY <2>1, <2>4, <2>6 DEF PInv, AtNext, Counted
  <2>9. \A n : Executed(n)' <=> Executed(n)
    BY <2>1 DEF Executed
  <2>10. /\ object'[Len(object) + 1] = new /\ ~Executed(Len(object) + 1)
         /\ \A n \in Objects : object'[n] = object[n] /\ Counted(object'[n]) = Counted(object[n])
    BY <2>4, <2>6 DEF Executed
  <2>11. Untouched'
    <3>1. ASSUME NEW n \in Objects, object'[n].status = "pending"
          PROVE  Counted(object'[n]) = 0 /\ ~Executed(n)
      BY <2>10, <3>1 DEF PInv, Untouched
    <3>2. \A n \in Objects' : object'[n].status = "pending" => Counted(object'[n]) = 0 /\ ~Executed(n)'
      <4>1. object'[Len(object) + 1].status = "pending" => Counted(object'[Len(object) + 1]) = 0
        BY <2>2, <2>10
      <4>2. \A n : n = Len(object) + 1 => ~Executed(n)'
        BY <2>9, <2>10
      <4> QED
        BY <2>5, <2>9, <3>1, <4>1, <4>2
    <3> QED
      BY <3>2 DEF Untouched, Counted
  <2>12. OneExecutor' /\ NoStuckTask'
    BY <2>1, <2>2, <2>4, <2>5, <2>9 DEF PInv, OneExecutor, NoStuckTask
  <2>13. ProgressAddsUp'
    <3>1. {list[i] : i \in 1..0} = {}
      OBVIOUS
    <3>2. /\ Counted(new) <= Len(new.devices)
          /\ DOMAIN new.results = {new.devices[i] : i \in 1..Counted(new)}
      BY <2>2, <2>3, <3>1
    <3>3. ASSUME NEW n \in Objects'
          PROVE  /\ Counted(object'[n]) <= Len(object'[n].devices)
                 /\ DOMAIN object'[n].results = {object'[n].devices[i] : i \in 1..Counted(object'[n])}
      <4>1. CASE n \in Objects
        BY <2>10, <4>1 DEF PInv, ProgressAddsUp
      <4>2. CASE n = Len(object) + 1
        BY <2>10, <3>2, <4>2
      <4> QED
        BY <2>5, <3>3, <4>1, <4>2
    <3> QED
      BY <3>3 DEF ProgressAddsUp, Counted
  <2> QED
    BY <2>7, <2>8, <2>11, <2>12, <2>13 DEF PInv
<1>2. ASSUME NEW id \in Ids, CancelTask(id) PROVE PInv'
  <2>1. /\ id \in DOMAIN tasks /\ tasks[id] \in Objects
        /\ object' = [object EXCEPT ![tasks[id]].status = "canceled"]
        /\ UNCHANGED <<templates, tasks, pc, task, pos, ctxDone>>
    BY <1>2, <1>t DEF CancelTask, execVars
  <2>2. /\ object' \in Seq(TaskRecord)
        /\ Objects' = Objects
        /\ \A n \in Objects :
             /\ object'[n].status = IF n = tasks[id] THEN "canceled" ELSE object[n].status
             /\ object'[n].devices = object[n].devices
             /\ object'[n].results = object[n].results
             /\ Counted(object'[n]) = Counted(object[n])
    BY <1>t, <2>1, StatusChange DEF Statuses
  <2>3. Typed'
    BY <1>e, <1>p, <1>t, <2>1, <2>2 DEF Typed
  <2>4. AtNext'
    BY <1>e, <2>1, <2>2 DEF PInv, AtNext
  <2>5. \A n : Executed(n)' <=> Executed(n)
    BY <2>1 DEF Executed
  <2>6. Untouched' /\ OneExecutor' /\ NoStuckTask'
    BY <2>1, <2>2, <2>5 DEF PInv, Untouched, OneExecutor, NoStuckTask
  <2>7. ProgressAddsUp'
    BY <2>2 DEF PInv, ProgressAddsUp
  <2> QED
    BY <2>3, <2>4, <2>6, <2>7 DEF PInv
<1>3. ASSUME NEW id \in Ids, NEW e \in Executors, Begin(e, id) PROVE PInv'
  <2> DEFINE k == tasks[id]
  <2>1. /\ k \in Objects /\ k # 0 /\ object[k].status = "pending" /\ pc[e] = "idle"
        /\ object' = [object EXCEPT ![k].status = "running"]
        /\ task' = [task EXCEPT ![e] = k] /\ pos' = [pos EXCEPT ![e] = 1]
        /\ pc' = [pc EXCEPT ![e] = "loop"]
        /\ UNCHANGED <<templates, tasks>>
    BY <1>3, <1>t, <1>o DEF Begin
  <2> HIDE DEF k
  <2>2. /\ object' \in Seq(TaskRecord)
        /\ Objects' = Objects
        /\ \A n \in Objects :
             /\ object'[n].status = IF n = k THEN "running" ELSE object[n].status
             /\ object'[n].devices = object[n].devices
             /\ object'[n].results = object[n].results
             /\ Counted(object'[n]) = Counted(object[n])
    BY <1>t, <2>1, StatusChange DEF Statuses
  <2>3. Counted(object[k]) = 0 /\ ~Executed(k)
    BY <2>1 DEF PInv, Untouched
  <2>4. /\ task'[e] = k /\ pos'[e] = 1 /\ pc'[e] = "loop" /\ task[e] = 0
        /\ \A f \in Executors \ {e} : task'[f] = task[f] /\ pos'[f] = pos[f] /\ pc'[f] = pc[f]
    BY <1>e, <1>p, <2>1
  <2>5. Typed'
    <3>1. /\ pc' \in [Executors -> {"idle", "loop", "device"}]
          /\ task' \in [Executors -> Nat] /\ pos' \in [Executors -> Nat]
      BY <1>p, <2>1 DEF Objects
    <3>2. \A f \in Executors : IF pc'[f] = "idle" THEN task'[f] = 0 /\ pos'[f] = 0 ELSE task'[f] \in Objects'
      BY <1>e, <2>1, <2>2, <2>4
    <3> QED
      BY <1>t, <2>1, <2>2, <3>1, <3>2 DEF Typed
  <2>6. AtNext'
    <3> SUFFICES ASSUME NEW f \in Executors, pc'[f] # "idle"
                 PROVE  /\ pos'[f] = Counted(object'[task'[f]]) + 1
                        /\ pc'[f] = "device" => pos'[f] <= Len(object'[task'[f]].devices)
      BY DEF AtNext, Counted
    <3>1. CASE f = e
      <4>1. Counted(object'[k]) = Counted(object[k])
        BY <2>1, <2>2
      <4>2. task'[f] = k /\ pos'[f] = 1 /\ pc'[f] = "loop"
        BY <2>4, <3>1
      <4>3. Counted(object'[task'[f]]) = 0
        BY <2>3, <4>1, <4>2
      <4> QED
        BY <4>2, <4>3
    <3>2. CASE f # e
      <4>1. task'[f] = task[f] /\ task[f] \in Objects /\ pc'[f] = pc[f] /\ pos'[f] = pos[f]
        BY <1>e, <2>4, <3>2
      <4>2. Counted(object'[task[f]]) = Counted(object[task[f]])
            /\ object'[task[f]].devices = object[task[f]].devices
        BY <2>2, <4>1
      <4> QED
        BY <4>1, <4>2 DEF PInv, AtNext
    <3> QED
      BY <3>1, <3>2
  <2>7. \A n \in Objects : Executed(n)' <=> Executed(n) \/ n = k
    BY <1>o, <2>4 DEF Executed
  <2>8. Untouched' /\ NoStuckTask'
    BY <2>2, <2>7 DEF PInv, Untouched, NoStuckTask
  <2>9. OneExecutor'
    BY <2>3, <2>4 DEF PInv, OneExecutor, Executed
  <2>10. ProgressAddsUp'
    BY <2>2 DEF PInv, ProgressAddsUp
  <2> QED
    BY <2>5, <2>6, <2>8, <2>9, <2>10 DEF PInv
<1>4. ASSUME NEW e \in Executors, NEW s \in Statuses \ {"pending", "running"}, pc[e] # "idle", Returns(e, s)
      PROVE  PInv'
  <2> DEFINE k == task[e]
  <2>1. /\ k \in Objects /\ k # 0
        /\ object' = [object EXCEPT ![k].status = s]
        /\ task' = [task EXCEPT ![e] = 0] /\ pos' = [pos EXCEPT ![e] = 0]
        /\ pc' = [pc EXCEPT ![e] = "idle"]
        /\ UNCHANGED <<templates, tasks>>
    BY <1>4, <1>e, <1>o DEF Returns
  <2> HIDE DEF k
  <2>2. /\ object' \in Seq(TaskRecord)
        /\ Objects' = Objects
        /\ \A n \in Objects :
             /\ object'[n].status = IF n = k THEN s ELSE object[n].status
             /\ object'[n].devices = object[n].devices
             /\ object'[n].results = object[n].results
             /\ Counted(object'[n]) = Counted(object[n])
    BY <1>t, <2>1, StatusChange
  <2>4. /\ task'[e] = 0 /\ pos'[e] = 0 /\ pc'[e] = "idle"
        /\ \A f \in Executors \ {e} : task'[f] = task[f] /\ pos'[f] = pos[f] /\ pc'[f] = pc[f]
    BY <1>p, <2>1
  <2>5. Typed'
    <3>1. /\ pc' \in [Executors -> {"idle", "loop", "device"}]
          /\ task' \in [Executors -> Nat] /\ pos' \in [Executors -> Nat]
      BY <1>p, <2>1
    <3>2. \A f \in Executors : IF pc'[f] = "idle" THEN task'[f] = 0 /\ pos'[f] = 0 ELSE task'[f] \in Objects'
      BY <1>e, <2>1, <2>2, <2>4
    <3> QED
      BY <1>t, <2>1, <2>2, <3>1, <3>2 DEF Typed
  <2>6. AtNext'
    <3> SUFFICES ASSUME NEW f \in Executors, pc'[f] # "idle"
                 PROVE  /\ pos'[f] = Counted(object'[task'[f]]) + 1
                        /\ pc'[f] = "device" => pos'[f] <= Len(object'[task'[f]].devices)
      BY DEF AtNext, Counted
    <3>2. CASE f # e
      <4>1. task'[f] = task[f] /\ task[f] \in Objects /\ pc'[f] = pc[f] /\ pos'[f] = pos[f]
        BY <1>e, <2>4, <3>2
      <4>2. Counted(object'[task[f]]) = Counted(object[task[f]])
            /\ object'[task[f]].devices = object[task[f]].devices
        BY <2>2, <4>1
      <4> QED
        BY <4>1, <4>2 DEF PInv, AtNext
    <3> QED
      BY <2>4, <3>2
  <2>7. \A n \in Objects : n # k => (Executed(n)' <=> Executed(n))
    <3> SUFFICES ASSUME NEW n \in Objects, n # k PROVE Executed(n)' <=> Executed(n)
      OBVIOUS
    <3>1. task[e] = k
      BY DEF k
    <3> QED
      BY <1>o, <2>4, <3>1 DEF Executed
  <2>8. Untouched' /\ NoStuckTask'
    BY <2>2, <2>7 DEF PInv, Untouched, NoStuckTask
  <2>9. OneExecutor'
    BY <2>4 DEF PInv, OneExecutor
  <2>10. ProgressAddsUp'
    BY <2>2 DEF PInv, ProgressAddsUp
  <2> QED
    BY <2>5, <2>6, <2>8, <2>9, <2>10 DEF PInv
<1>5. ASSUME NEW e \in Executors, StopOnContext(e) \/ Finish(e) PROVE PInv'
  <2>1. {"canceled", "failed", "completed"} \subseteq Statuses \ {"pending", "running"}
    BY DEF Statuses
  <2>2. \A count : FinalStatus(count) \in {"failed", "completed"}
    BY DEF FinalStatus
  <2> QED
    BY <1>4, <1>5, <2>1, <2>2 DEF StopOnContext, Finish
<1>6. ASSUME NEW e \in Executors, ProvisionDevice(e) PROVE PInv'
  <2>1. /\ pc[e] = "loop" /\ pos[e] <= Len(object[task[e]].devices)
        /\ pc' = [pc EXCEPT ![e] = "device"]
        /\ UNCHANGED <<templates, tasks, object, task, pos>>
    BY <1>6 DEF ProvisionDevice
  <2>2. pc' \in [Executors -> {"idle", "loop", "device"}]
        /\ pc'[e] = "device" /\ \A f \in Executors \ {e} : pc'[f] = pc[f]
    BY <1>p, <2>1
  <2>3. Typed'
    BY <1>t, <1>p, <1>e, <2>1, <2>2 DEF Typed, Objects
  <2>4. AtNext'
    BY <2>1, <2>2 DEF PInv, AtNext
  <2>5. Untouched' /\ OneExecutor' /\ NoStuckTask' /\ ProgressAddsUp'
    BY <2>1 DEF PInv, Untouched, OneExecutor, NoStuckTask, ProgressAddsUp, Objects, Executed
  <2> QED
    BY <2>3, <2>4, <2>5 DEF PInv
<1>7. ASSUME NEW e \in Executors, RecordResult(e) PROVE PInv'
  <2> DEFINE k == task[e]
             o == object[k]
             i == pos[e]
  <2>1. PICK r \in Results :
          /\ pc[e] = "device"
          /\ object' = [object EXCEPT ![k] = Recorded(o, o.devices[i], r)]
          /\ pos' = [pos EXCEPT ![e] = i + 1] /\ pc' = [pc EXCEPT ![e] = "loop"]
          /\ UNCHANGED <<templates, tasks, task>>
    BY <1>7 DEF RecordResult
  <2>2. /\ k \in Objects /\ o \in TaskRecord
        /\ i = Counted(o) + 1 /\ i <= Len(o.devices)
        /\ DOMAIN o.results = {o.devices[j] : j \in 1..Counted(o)}
    BY <1>e, <1>o, <2>1 DEF PInv, AtNext, ProgressAddsUp
  <2> DEFINE new == Recorded(o, o.devices[i], r)
  <2>3. /\ new \in TaskRecord /\ new.status = o.status /\ new.devices = o.devices
        /\ Counted(new) = i
        /\ DOMAIN new.results = {o.devices[j] : j \in 1..Counted(new)}
    <3>1. /\ o \in TaskRecord /\ Counted(o) + 1 <= Len(o.devices)
          /\ DOMAIN o.results = {o.devices[j] : j \in 1..Counted(o)}
      BY <2>2
    <3> HIDE DEF o, i
    <3>2. LET n == Recorded(o, o.devices[Counted(o) + 1], r)
          IN  /\ n \in TaskRecord /\ n.status = o.status /\ n.devices = o.devices
              /\ Counted(n) = Counted(o) + 1
              /\ DOMAIN n.results = {o.devices[j] : j \in 1..Counted(n)}
      BY <3>1, RecordedNext, Zenon
    <3> QED
      BY <2>2, <3>2
  <2>4. /\ object' \in Seq(TaskRecord) /\ Objects' = Objects
        /\ object'[k] = new /\ \A n \in Objects \ {k} : object'[n] = object[n]
    <3> HIDE DEF new
    <3>1. object' = [object EXCEPT ![k] = new]
      BY <2>1 DEF new
    <3> QED
      BY <1>t, <2>2, <2>3, <3>1 DEF Objects
  <2>5. /\ pc'[e] = "loop" /\ pos'[e] = i + 1
        /\ \A f \in Executors \ {e} : pc'[f] = pc[f] /\ pos'[f] = pos[f] /\ task[f] # k
    <3>1. k # 0
      BY <1>o, <2>2
    <3> QED
      BY <1>p, <2>1, <3>1 DEF PInv, OneExecutor
  <2>6. i \in Nat
    BY <1>p
  <2>7. Executed(k) /\ \A n : Executed(n)' <=> Executed(n)
    BY <2>1 DEF Executed
  <2> HIDE DEF new, k, o, i
  <2>8. Typed'
    <3>1. /\ pc' \in [Executors -> {"idle", "loop", "device"}] /\ pos' \in [Executors -> Nat]
      BY <1>p, <2>1, <2>6
    <3>2. pc[e] = "device" /\ task[e] = k
      BY <2>1 DEF k
    <3> QED
      BY <1>t, <1>p, <1>e, <2>1, <2>2, <2>4, <2>5, <3>1, <3>2 DEF Typed
  <2>9. AtNext'
    <3> SUFFICES ASSUME NEW f \in Executors, pc'[f] # "idle"
                 PROVE  /\ pos'[f] = Counted(object'[task'[f]]) + 1
                        /\ pc'[f] = "device" => pos'[f] <= Len(object'[task'[f]].devices)
      BY DEF AtNext, Counted
    <3>1. CASE f = e
      BY <2>1, <2>3, <2>4, <2>5, <3>1 DEF k
    <3>2. CASE f # e
      <4>1. task'[f] = task[f] /\ task[f] \in Objects \ {k} /\ pc'[f] = pc[f] /\ pos'[f] = pos[f]
        BY <1>e, <2>1, <2>5, <3>2
      <4>2. object'[task'[f]] = object[task[f]]
        BY <2>4, <4>1
      <4> QED
        BY <4>1, <4>2 DEF PInv, AtNext
    <3> QED
      BY <3>1, <3>2
  <2>10. o.status # "pending" /\ o = object[k]
    BY <2>2, <2>7 DEF PInv, Untouched, o
  <2>11. Untouched'
    BY <2>3, <2>4, <2>7, <2>10 DEF PInv, Untouched, Counted
  <2>12. OneExecutor' /\ NoStuckTask'
    BY <2>1, <2>3, <2>4, <2>7, <2>10 DEF PInv, OneExecutor, NoStuckTask
  <2>13. ProgressAddsUp'
    <3> SUFFICES ASSUME NEW n \in Objects
                 PROVE  /\ Counted(object'[n]) <= Len(object'[n].devices)
                        /\ DOMAIN object'[n].results = {object'[n].devices[j] : j \in 1..Counted(object'[n])}
      BY <2>4 DEF ProgressAddsUp, Counted
    <3>1. CASE n = k
      BY <2>2, <2>3, <2>4, <2>10, <3>1
    <3>2. CASE n # k
      BY <2>4, <3>2 DEF PInv, ProgressAddsUp
    <3> QED
      BY <3>1, <3>2
  <2> QED
    BY <2>8, <2>9, <2>11, <2>12, <2>13 DEF PInv
<1>8. ASSUME NEW id \in Ids, DeleteTask(id) PROVE PInv'
  <2>1. UNCHANGED <<templates, object, pc, task, pos>> /\ \A i \in DOMAIN tasks' : i \in DOMAIN tasks /\ tasks'[i] = tasks[i]
    BY <1>8 DEF DeleteTask, execVars
  <2> QED
    BY <2>1 DEF PInv, Typed, AtNext, Untouched, OneExecutor, NoStuckTask, ProgressAddsUp, Objects, Executed
<1>9. ASSUME NEW t \in Templates, ChangeTemplates(t) PROVE PInv'
  BY <1>9 DEF ChangeTemplates, execVars, PInv, Typed, AtNext, Untouched, OneExecutor, NoStuckTask,
     ProgressAddsUp, Objects, Executed
<1>10. ASSUME UNCHANGED <<templates, tasks, object, pc, task, pos>> PROVE PInv'
  BY <1>10 DEF PInv, Typed, AtNext, Untouched, OneExecutor, NoStuckTask, ProgressAddsUp, Objects, Executed
<1>11. ASSUME NEW e \in Executors, CancelContext(e) PROVE PInv'
  BY <1>10, <1>11 DEF CancelContext
<1>12. CASE UNCHANGED vars
  BY <1>10, <1>12 DEF vars, execVars
<1> QED
  BY <1>1, <1>2, <1>3, <1>5, <1>6, <1>7, <1>8, <1>9, <1>11, <1>12 DEF Next

\* Whatever is created, canceled and deleted under the same id meanwhile, a task
\* is executed by one goroutine, is left running by none, and its progress adds
\* up to its results (provisioning.go:243-306).
THEOREM TasksAddUp == Spec => []TasksSound
<1>1. PInv => TasksSound
  BY DEF PInv, TasksSound
<1> QED
  BY <1>1, PInit, PNext, PTL DEF Spec

\* A change of one task leaves a task that has ended as it was, when the task
\* changed is still pending, or has an executor.
LEMMA OtherStays ==
    ASSUME Typed, NEW k \in Objects, NEW o,
           object' = [object EXCEPT ![k] = o],
           object[k].status = "pending" \/ Executed(k),
           NEW n \in Objects, object[n].status # "pending", ~Executed(n)
    PROVE  object'[n] = object[n]
<1>1. n # k
  OBVIOUS
<1> QED
  BY <1>1 DEF Typed, Objects

LEMMA EndedStep ==
    ASSUME PInv, Next, NEW n \in Objects, object[n].status # "pending", ~Executed(n)
    PROVE  object'[n] = object[n]
<1>t. Typed /\ NoStuckTask
  BY DEF PInv
<1>e. ASSUME NEW e \in Executors, pc[e] # "idle" PROVE task[e] \in Objects /\ Executed(task[e])
  BY <1>e, <1>t DEF Typed, Executed
<1>1. ASSUME NEW id \in Ids, NEW t \in Templates, NEW list \in DeviceLists, CreateTask(id, t, list)
      PROVE  object'[n] = object[n]
  BY <1>1, <1>t DEF CreateTask, Typed, Objects
<1>2. ASSUME NEW id \in Ids, CancelTask(id) PROVE object'[n] = object[n]
  \* A task that can be canceled is pending or running, and a running one is executed.
  <2>1. /\ tasks[id] \in Objects /\ object[tasks[id]].status \in {"running", "pending"}
        /\ object' = [object EXCEPT ![tasks[id]].status = "canceled"]
    BY <1>2, <1>t DEF CancelTask, Typed
  <2>2. object[tasks[id]].status = "pending" \/ Executed(tasks[id])
    BY <2>1, <1>t DEF NoStuckTask
  <2> QED
    BY <1>t, <2>1, <2>2, OtherStays
<1>3. ASSUME NEW id \in Ids, NEW e \in Executors, Begin(e, id) PROVE object'[n] = object[n]
  <2>1. /\ tasks[id] \in Objects /\ object[tasks[id]].status = "pending"
        /\ object' = [object EXCEPT ![tasks[id]].status = "running"]
    BY <1>3, <1>t DEF Begin, Typed
  <2> QED
    BY <1>t, <2>1, OtherStays
<1>4. ASSUME NEW e \in Executors, StopOnContext(e) \/ Finish(e) PROVE object'[n] = object[n]
  <2>1. pc[e] # "idle" /\ \E s : object' = [object EXCEPT ![task[e]].status = s]
    BY <1>4 DEF StopOnContext, Finish, Returns
  <2> QED
    BY <1>t, <1>e, <2>1, OtherStays
<1>5. ASSUME NEW e \in Executors, RecordResult(e) PROVE object'[n] = object[n]
  <2>1. pc[e] # "idle" /\ \E o : object' = [object EXCEPT ![task[e]] = o]
    BY <1>5 DEF RecordResult
  <2> QED
    BY <1>t, <1>e, <2>1, OtherStays
<1>6. UNCHANGED object => object'[n] = object[n]
  OBVIOUS
<1> QED
  BY <1>1, <1>2, <1>3, <1>4, <1>5, <1>6
     DEF Next, DeleteTask, ChangeTemplates, ProvisionDevice, CancelContext

\* Once a task has ended, no step changes it: an executor changes only the task
\* it executes, Begin takes only a pending one, and what CancelTask finds
\* running still has its executor (provisioning.go:243-306, 366-378).
THEOREM EndedTasksStay == Spec => EndedStays
<1>1. PInv /\ [Next]_vars =>
        [\A n \in Objects : object[n].status # "pending" /\ ~Executed(n) => object'[n] = object[n]]_vars
  BY EndedStep
<1> QED
  BY <1>1, PInit, PNext, PTL DEF Spec, EndedStays

-----------------------------------------------------------------------------
(* Gen1Settings.                                                           *)

Agreed ==
    /\ topic \in DOMAIN Gen1!Objects => DOMAIN settings = Gen1!SettingsOf(topic)
    /\ because = {} => settings = asked /\ rules = askedRules

\* No reader's floor is above the last ClearCache; and unless an older fetch was stored
\* after it, what is cached is no older either.
Readers == [at : {"idle", "use", "fetch", "store", "done", "panic"}, got : Nat, floor : Nat]
NoOlder ==
    /\ firmware \in Nat /\ cached \in Nat /\ cleared \in 0..firmware
    /\ reader \in [Users -> Readers]
    /\ \A u \in Users :
          /\ reader[u].floor <= cleared
          /\ reader[u].at = "store" => reader[u].got >= reader[u].floor
          /\ ~overtaken /\ reader[u].at = "done" => reader[u].got >= reader[u].floor
    /\ ~overtaken /\ cached # 0 => cached >= cleared

Gen1Inv == Agreed /\ NoOlder

\* A setter that gives no excuse leaves the device as asked: each field it was given is
\* sent as it was given, and each it always sends was given, or was zero already.
LEMMA SetterObeys ==
    ASSUME NEW s, NEW given,
           DOMAIN given \subseteq Gen1!FieldsOf(s), Gen1!FieldsOf(s) \subseteq DOMAIN settings,
           Gen1!Excuses(s, given) = {}
    PROVE  Gen1!Written(settings, Gen1!Query(s, given)) = Gen1!Written(settings, given)
<1> DEFINE sent == Gen1!Query(s, given)
<1>1. /\ \A f \in DOMAIN given \ s.always : given[f] # "zero"
      /\ s.never \cap DOMAIN given = {}
      /\ \A f \in s.always \ DOMAIN given : settings[f] = "zero"
  BY DEF Gen1!Excuses
<1>2. /\ DOMAIN sent = s.always \cup {g \in s.nonzero \cap DOMAIN given : given[g] # "zero"}
      /\ \A f \in DOMAIN sent : sent[f] = IF f \in DOMAIN given THEN given[f] ELSE "zero"
  BY DEF Gen1!Query
<1>3. ASSUME NEW f \in DOMAIN settings
      PROVE  (IF f \in DOMAIN sent THEN sent[f] ELSE settings[f])
                = (IF f \in DOMAIN given THEN given[f] ELSE settings[f])
  <2>1. CASE f \in DOMAIN given
    <3>1. f \in DOMAIN sent
      BY <1>1, <1>2, <2>1 DEF Gen1!FieldsOf
    <3> QED
      BY <1>2, <2>1, <3>1
  <2>2. CASE f \notin DOMAIN given
    BY <1>1, <1>2, <2>2
  <2> QED
    BY <2>1, <2>2
<1> HIDE DEF sent
<1>4. Gen1!Written(settings, sent) = Gen1!Written(settings, given)
  BY <1>3 DEF Gen1!Written
<1> QED
  BY <1>4 DEF sent

LEMMA GivenNames ==
    ASSUME NEW s, NEW given \in Gen1!Given(s)
    PROVE  DOMAIN given \subseteq Gen1!FieldsOf(s)
<1>1. CASE given = [f \in Gen1!FieldsOf(s) |-> "new"]
  BY <1>1
<1>2. ASSUME NEW f \in Gen1!FieldsOf(s), given \in [{f} -> {"new", "zero"}]
      PROVE  DOMAIN given \subseteq Gen1!FieldsOf(s)
  BY <1>2
<1> QED
  BY <1>1, <1>2 DEF Gen1!Given

LEMMA AgreedNext == Gen1Inv /\ [Gen1!G1Next]_gen1Vars => Agreed'
<1> SUFFICES ASSUME Gen1Inv, [Gen1!G1Next]_gen1Vars PROVE Agreed'
  OBVIOUS
<1>1. ASSUME topic \in DOMAIN Gen1!Objects,
             NEW n \in DOMAIN Gen1!Objects[topic],
             NEW given \in Gen1!Given(Gen1!Objects[topic][n]),
             Gen1!Set(Gen1!Objects[topic][n], given)
      PROVE  Agreed'
  <2> DEFINE s == Gen1!Objects[topic][n]
  <2>1. DOMAIN given \subseteq Gen1!FieldsOf(s)
    BY GivenNames
  <2>2. Gen1!FieldsOf(s) \subseteq DOMAIN settings
    BY <1>1 DEF Gen1!SettingsOf, Gen1Inv, Agreed
  <2> HIDE DEF s
  <2>3. /\ settings' = Gen1!Written(settings, Gen1!Query(s, given))
        /\ asked' = Gen1!Written(asked, given)
        /\ because' = because \cup Gen1!Excuses(s, given)
        /\ UNCHANGED <<topic, rules, askedRules>>
    BY <1>1 DEF Gen1!Set, s
  <2>4. DOMAIN settings' = DOMAIN settings
    BY <2>3 DEF Gen1!Written
  <2>5. ASSUME because' = {} PROVE settings' = asked'
    BY <2>1, <2>2, <2>3, <2>5, SetterObeys DEF Gen1Inv, Agreed
  <2> QED
    BY <2>3, <2>4, <2>5 DEF Gen1Inv, Agreed
<1>2. ASSUME NEW new, NEW wanted, NEW why,
             why = {} /\ rules = askedRules => new = wanted,
             Gen1!SetRules(new, wanted, why)
      PROVE  Agreed'
  BY <1>2 DEF Gen1!SetRules, Gen1Inv, Agreed
<1>3. ASSUME NEW u \in Users, Gen1!AddWrites(u) PROVE Agreed'
  <2> DEFINE why == IF adding[u] = {rules} THEN {} ELSE {"raced"}
  <2>1. Gen1!SetRules((UNION adding[u]) \cup {u}, askedRules \cup {u}, why)
    BY <1>3 DEF Gen1!AddWrites
  <2>2. why = {} => UNION adding[u] = rules
    OBVIOUS
  <2> HIDE DEF why
  <2>3. ASSUME why = {}, rules = askedRules
        PROVE  (UNION adding[u]) \cup {u} = askedRules \cup {u}
    <3>1. UNION adding[u] = askedRules
      BY <2>2, <2>3
    <3> QED
      BY <3>1, Zenon
  <2> QED
    BY <1>2, <2>1, <2>3
<1>4. ASSUME NEW u \in Users, Gen1!DeviceAddScheduleRule(u) PROVE Agreed'
  BY <1>2, <1>4 DEF Gen1!DeviceAddScheduleRule
<1>5. CASE Gen1!ClearScheduleRules
  BY <1>2, <1>5 DEF Gen1!ClearScheduleRules
<1>6. ASSUME NEW new \in SUBSET Users, Gen1!SetScheduleRules(new) PROVE Agreed'
  <2>1. Gen1!SetRules(IF new = {} THEN rules ELSE new, new, IF new = {} THEN {"empty"} ELSE {})
    BY <1>6 DEF Gen1!SetScheduleRules
  <2> QED
    BY <1>2, <2>1
<1>7. ASSUME UNCHANGED <<topic, settings, asked, because, rules, askedRules>> PROVE Agreed'
  BY <1>7 DEF Gen1Inv, Agreed
<1>8. ASSUME \/ \E u \in Users : \/ Gen1!AddReads(u)
                                 \/ Gen1!TestInfo(u) \/ Gen1!UseInfo(u) \/ Gen1!FetchInfo(u)
                                 \/ Gen1!StoreInfo(u) \/ Gen1!NextInfo(u)
             \/ Gen1!ClearCache \/ Gen1!NewFirmware
             \/ UNCHANGED gen1Vars
      PROVE  UNCHANGED <<topic, settings, asked, because, rules, askedRules>>
  BY <1>8 DEF Gen1!AddReads, Gen1!TestInfo, Gen1!UseInfo, Gen1!FetchInfo, Gen1!StoreInfo,
      Gen1!NextInfo, Gen1!GetInfo, Gen1!ClearCache, Gen1!NewFirmware, gen1Vars
<1> QED
  BY <1>1, <1>3, <1>4, <1>5, <1>6, <1>7, <1>8 DEF Gen1!G1Next

LEMMA NoOlderNext == Gen1Inv /\ [Gen1!G1Next]_gen1Vars => NoOlder'
<1> SUFFICES ASSUME NoOlder, [Gen1!G1Next]_gen1Vars PROVE NoOlder'
  BY DEF Gen1Inv
<1> USE DEF NoOlder, Readers
<1>1. ASSUME NEW u \in Users, Gen1!TestInfo(u) PROVE NoOlder'
  BY <1>1 DEF Gen1!TestInfo, Gen1!GetInfo
<1>2. ASSUME NEW u \in Users, Gen1!UseInfo(u) PROVE NoOlder'
  <2>1. /\ reader' = [reader EXCEPT ![u] = reader'[u]]
        /\ reader'[u].at = IF cached = 0 THEN "panic" ELSE "done"
        /\ reader'[u].got = cached /\ reader'[u].floor = reader[u].floor
        /\ reader'[u] \in Readers
        /\ cached' = cached /\ UNCHANGED <<overtaken, firmware, cleared>>
    BY <1>2 DEF Gen1!UseInfo, Gen1!GetInfo
  <2>2. \A v \in Users : v # u => reader'[v] = reader[v]
    BY <2>1
  <2>3. reader' \in [Users -> Readers]
    BY <2>1
  <2> QED
    BY <2>1, <2>2, <2>3
<1>3. ASSUME NEW u \in Users, Gen1!FetchInfo(u) PROVE NoOlder'
  <2>1. /\ reader' = [reader EXCEPT ![u] = reader'[u]]
        /\ reader'[u].at = "store"
        /\ reader'[u].got = firmware /\ reader'[u].floor = reader[u].floor
        /\ reader'[u] \in Readers
        /\ cached' = cached /\ UNCHANGED <<overtaken, firmware, cleared>>
    BY <1>3 DEF Gen1!FetchInfo, Gen1!GetInfo
  <2>2. \A v \in Users : v # u => reader'[v] = reader[v]
    BY <2>1
  <2>3. reader' \in [Users -> Readers]
    BY <2>1
  <2> QED
    BY <2>1, <2>2, <2>3
<1>4. ASSUME NEW u \in Users, Gen1!StoreInfo(u) PROVE NoOlder'
  <2>1. /\ reader' = [reader EXCEPT ![u] = reader'[u]]
        /\ reader[u].at = "store" /\ reader'[u].at = "done"
        /\ reader'[u].got = reader[u].got /\ reader'[u].floor = reader[u].floor
        /\ reader'[u] \in Readers
        /\ cached' = reader[u].got /\ overtaken' = (overtaken \/ reader[u].got < cleared)
        /\ UNCHANGED <<firmware, cleared>>
    BY <1>4 DEF Gen1!StoreInfo, Gen1!GetInfo
  <2>2. \A v \in Users : v # u => reader'[v] = reader[v]
    BY <2>1
  <2>3. reader' \in [Users -> Readers]
    BY <2>1
  <2>4. ~overtaken' => ~overtaken /\ reader[u].got >= cleared
    <3>1. reader[u].got < cleared \/ reader[u].got >= cleared
      OBVIOUS
    <3> QED
      BY <2>1, <3>1, Zenon
  <2>5. ~overtaken' /\ cached' # 0 => cached' >= cleared'
    BY <2>1, <2>4
  <2> QED
    BY <2>1, <2>2, <2>3, <2>4, <2>5
<1>5. ASSUME NEW u \in Users, Gen1!NextInfo(u) PROVE NoOlder'
  BY <1>5 DEF Gen1!NextInfo, Gen1!GetInfo
<1>6. CASE Gen1!ClearCache
  BY <1>6 DEF Gen1!ClearCache
<1>7. CASE Gen1!NewFirmware
  BY <1>7 DEF Gen1!NewFirmware
<1>8. ASSUME UNCHANGED <<firmware, cached, cleared, reader, overtaken>> PROVE NoOlder'
  BY <1>8
<1>9. ASSUME NEW s, NEW given, Gen1!Set(s, given)
      PROVE  UNCHANGED <<firmware, cached, cleared, reader, overtaken>>
  BY <1>9 DEF Gen1!Set
<1>10. ASSUME \/ \E u \in Users : \/ Gen1!AddReads(u) \/ Gen1!AddWrites(u)
                                  \/ Gen1!DeviceAddScheduleRule(u)
              \/ Gen1!ClearScheduleRules
              \/ \E new \in SUBSET Users : Gen1!SetScheduleRules(new)
              \/ UNCHANGED gen1Vars
       PROVE  UNCHANGED <<firmware, cached, cleared, reader, overtaken>>
  BY <1>10 DEF Gen1!AddReads, Gen1!AddWrites, Gen1!DeviceAddScheduleRule,
      Gen1!ClearScheduleRules, Gen1!SetScheduleRules, Gen1!SetRules, gen1Vars
<1> QED
  BY <1>1, <1>2, <1>3, <1>4, <1>5, <1>6, <1>7, <1>8, <1>9, <1>10 DEF Gen1!G1Next

\* Programs that share a Gen1 device find its settings as they left them, but for what they
\* did themselves, and its information no older than their last ClearCache, for any users,
\* setter calls and firmware versions (settings.go:680-760, device.go:51, 369).
THEOREM Gen1IsSound == MCSpec => []Gen1Sound
<1>1. MCInit => Gen1Inv
  <2> SUFFICES ASSUME MCInit PROVE Gen1Inv
    OBVIOUS
  <2>1. Gen1!G1Init
    BY DEF MCInit
  <2>2. Agreed
    BY <2>1 DEF Gen1!G1Init, Agreed
  <2>3. /\ firmware = 1 /\ cached = 0 /\ cleared = 0 /\ overtaken = FALSE
        /\ reader = [u \in Users |-> [at |-> "idle", got |-> 0, floor |-> 0]]
    BY <2>1 DEF Gen1!G1Init
  <2>5. reader \in [Users -> Readers]
    BY <2>3 DEF Readers
  <2>4. NoOlder
    BY <2>3, <2>5 DEF NoOlder
  <2> QED
    BY <2>2, <2>4 DEF Gen1Inv
<1>2. Gen1Inv /\ [MCNext]_<<part, vars, gen2Vars, gen1Vars, profileVars>> => Gen1Inv'
  <2>1. [MCNext]_<<part, vars, gen2Vars, gen1Vars, profileVars>> => [Gen1!G1Next]_gen1Vars
    BY DEF MCNext
  <2> QED
    BY <2>1, AgreedNext, NoOlderNext DEF Gen1Inv
<1>3. Gen1Inv => Gen1Sound
  BY DEF Gen1Inv, Agreed, NoOlder, Readers, Gen1Sound, Gen1!Gen1Sound,
      Gen1!SettingsAsAsked, Gen1!FreshAfterClear
<1> QED
  BY <1>1, <1>2, <1>3, PTL DEF MCSpec

-----------------------------------------------------------------------------
(* Gen2Components.                                                         *)

Fields == Gen2!FieldsOf(kind)

\* What a program edits is a field of its structure, to a new value or to zero.
Draft(d) ==
    /\ {"id", "values", "edited", "read"} \subseteq DOMAIN d
    /\ d.edited \subseteq DOMAIN d.values
    /\ DOMAIN d.values \subseteq Fields
    /\ \A f \in d.edited : d.values[f] \in {"new", "zero"}

Drafts == draft = [p \in Programs |-> draft[p]] /\ \A p \in Programs : Draft(draft[p])

Configured ==
    /\ DOMAIN config = Gen2!Numbers(kind)
    /\ \A i \in Gen2!Numbers(kind) : DOMAIN config[i] = Fields
    /\ excuses = {} => config = meant

Gen2Inv == Drafts /\ Configured

LEMMA NoExcuse ==
    ASSUME NEW p \in Programs, NEW i, Gen2!Excuses(p, i) = {}
    PROVE  LET d == draft[p]
               table == Gen2!Components[kind]
           IN  /\ table.style = "flat" => d.id \in {0, i}
               /\ \A f \in DOMAIN d.values \ (d.edited \cup table.lost) :
                      d.values[f] \in {"nil", config[i][f]}
               /\ d.edited \cap table.lost = {}
               /\ \A f \in d.edited \cap table.config.nonzero : d.values[f] # "zero"
<1> DEFINE d == draft[p]
           table == Gen2!Components[kind]
           carried == {f \in DOMAIN d.values \ (d.edited \cup table.lost) :
                          d.values[f] \notin {"nil", config[i][f]}}
           wrong(e) ==
               CASE e = "astray" -> table.style = "flat" /\ d.id \notin {0, i}
                 [] e = "stale"  -> d.read /\ carried # {}
                 [] e = "unset"  -> ~d.read /\ carried # {}
                 [] e = "lost"   -> d.edited \cap table.lost # {}
                 [] e = "zero"   -> \E f \in d.edited \cap table.config.nonzero :
                                        d.values[f] = "zero"
<1>1. Gen2!Excuses(p, i) = {e \in {"astray", "stale", "unset", "lost", "zero"} : wrong(e)}
  BY DEF Gen2!Excuses
<1> HIDE DEF wrong
<1>2. ~wrong("astray") /\ ~wrong("stale") /\ ~wrong("unset") /\ ~wrong("lost") /\ ~wrong("zero")
  BY <1>1
<1>3. table.style = "flat" => d.id \in {0, i}
  BY <1>2 DEF wrong
<1>4. carried = {}
  BY <1>2 DEF wrong
<1>5. d.edited \cap table.lost = {}
  BY <1>2 DEF wrong
<1>6. \A f \in d.edited \cap table.config.nonzero : d.values[f] # "zero"
  BY <1>2 DEF wrong
<1> QED
  BY <1>3, <1>4, <1>5, <1>6

\* A structure that gives no excuse is written as its edits alone.
LEMMA WriteObeys ==
    ASSUME Gen2Inv, NEW p \in Programs, NEW i \in Gen2!Numbers(kind),
           Gen2!Excuses(p, i) = {}
    PROVE  /\ Gen2!Addressee(p, i) = i
           /\ Gen2!Written(config[i], Gen2!Sent(draft[p].values))
                 = Gen2!Written(config[i], [f \in draft[p].edited |-> draft[p].values[f]])
<1> DEFINE d == draft[p]
           table == Gen2!Components[kind]
           sent == Gen2!Sent(d.values)
           edits == [f \in d.edited |-> d.values[f]]
<1>1. /\ table.style = "flat" => d.id \in {0, i}
      /\ \A f \in DOMAIN d.values \ (d.edited \cup table.lost) :
             d.values[f] \in {"nil", config[i][f]}
      /\ d.edited \cap table.lost = {}
      /\ \A f \in d.edited \cap table.config.nonzero : d.values[f] # "zero"
  BY NoExcuse
<1>2. Gen2!Addressee(p, i) = i
  BY <1>1 DEF Gen2!Addressee
<1>3. /\ DOMAIN sent = {g \in DOMAIN d.values \ table.lost : ~Gen2!Gone(g, d.values[g])}
      /\ \A f \in DOMAIN sent : sent[f] = d.values[f]
  BY DEF Gen2!Sent
<1>4. DOMAIN edits = d.edited /\ \A f \in d.edited : edits[f] = d.values[f]
  OBVIOUS
<1>5. Draft(d)
  BY DEF Gen2Inv, Drafts
<1> HIDE DEF sent, edits, d, table
<1>6. ASSUME NEW f \in DOMAIN config[i]
      PROVE  (IF f \in DOMAIN sent THEN sent[f] ELSE config[i][f])
                = (IF f \in DOMAIN edits THEN edits[f] ELSE config[i][f])
  <2>1. CASE f \in d.edited
    <3>1. f \in DOMAIN d.values \ table.lost /\ d.values[f] \in {"new", "zero"}
      BY <1>1, <1>5, <2>1 DEF Draft
    <3>2. ~Gen2!Gone(f, d.values[f])
      BY <1>1, <2>1, <3>1 DEF Gen2!Gone, table
    <3> QED
      BY <1>3, <1>4, <2>1, <3>1, <3>2
  <2>2. CASE f \notin d.edited
    <3>1. f \in DOMAIN sent => sent[f] = config[i][f]
      BY <1>1, <1>3, <2>2 DEF Gen2!Gone
    <3> QED
      BY <1>4, <2>2, <3>1
  <2> QED
    BY <2>1, <2>2
<1>7. Gen2!Written(config[i], sent) = Gen2!Written(config[i], edits)
  BY <1>6 DEF Gen2!Written
<1> QED
  BY <1>2, <1>7 DEF sent, edits, d

LEMMA EditedDraft ==
    ASSUME NEW d, Draft(d), NEW f \in DOMAIN d.values, NEW v \in {"new", "zero"}
    PROVE  Draft([d EXCEPT !.values[f] = v, !.edited = @ \cup {f}])
<1> DEFINE x == [d EXCEPT !.values[f] = v, !.edited = @ \cup {f}]
<1>1. x.values = [d.values EXCEPT ![f] = v]
  BY DEF Draft
<1>2. x.edited = d.edited \cup {f}
  BY DEF Draft
<1>3. DOMAIN x = DOMAIN d
  OBVIOUS
<1> HIDE DEF x
<1>4. Draft(x)
  BY <1>1, <1>2, <1>3 DEF Draft
<1> QED
  BY <1>4 DEF x

LEMMA Gen2Next == Gen2Inv /\ [Gen2!Next]_gen2Vars => Gen2Inv'
<1> SUFFICES ASSUME Gen2Inv, [Gen2!Next]_gen2Vars PROVE Gen2Inv'
  OBVIOUS
<1>0. ASSUME NEW p \in Programs, NEW d, Draft(d), draft' = [draft EXCEPT ![p] = d], kind' = kind
      PROVE  Drafts'
  BY <1>0 DEF Gen2Inv, Drafts, Draft, Fields
<1>1. ASSUME NEW p \in Programs, NEW i \in Gen2!Numbers(kind), Gen2!GetConfig(p, i) PROVE Gen2Inv'
  <2> DEFINE d == [id |-> i, values |-> config[i], edited |-> {}, read |-> TRUE]
  <2>1. draft' = [draft EXCEPT ![p] = d] /\ UNCHANGED <<kind, config, meant, excuses>>
    BY <1>1 DEF Gen2!GetConfig
  <2>2. Draft(d)
    BY DEF Draft, Gen2Inv, Configured
  <2> QED
    BY <1>0, <2>1, <2>2 DEF Gen2Inv, Configured, Fields
<1>2. ASSUME NEW p \in Programs, Gen2!NewConfig(p) PROVE Gen2Inv'
  <2> DEFINE d == [id |-> 0, edited |-> {}, read |-> FALSE,
                   values |-> [f \in Fields |->
                       IF f \in Gen2!Components[kind].config.plain THEN "zero" ELSE "nil"]]
  <2>1. draft' = [draft EXCEPT ![p] = d] /\ UNCHANGED <<kind, config, meant, excuses>>
    BY <1>2 DEF Gen2!NewConfig, Fields
  <2>2. Draft(d)
    BY DEF Draft
  <2> QED
    BY <1>0, <2>1, <2>2 DEF Gen2Inv, Configured, Fields
<1>3. ASSUME NEW p \in Programs, NEW f, NEW v \in {"new", "zero"}, Gen2!Edit(p, f, v)
      PROVE  Gen2Inv'
  <2> DEFINE d == [draft[p] EXCEPT !.values[f] = v, !.edited = @ \cup {f}]
  <2>1. /\ draft' = [draft EXCEPT ![p] = d] /\ f \in DOMAIN draft[p].values
        /\ UNCHANGED <<kind, config, meant, excuses>>
    BY <1>3 DEF Gen2!Edit, Gen2Inv, Drafts
  <2>2. Draft(draft[p])
    BY DEF Gen2Inv, Drafts
  <2>3. Draft(d)
    BY <2>1, <2>2, EditedDraft
  <2> QED
    BY <1>0, <2>1, <2>3 DEF Gen2Inv, Configured, Fields
<1>4. ASSUME NEW p \in Programs, NEW i \in Gen2!Numbers(kind), Gen2!SetConfig(p, i) PROVE Gen2Inv'
  <2> DEFINE j == Gen2!Addressee(p, i)
             sent == Gen2!Sent(draft[p].values)
             edits == [f \in draft[p].edited |-> draft[p].values[f]]
             d == IF Gen2!Components[kind].style = "flat" THEN [draft[p] EXCEPT !.id = j]
                  ELSE draft[p]
  <2>1. /\ config' = [config EXCEPT ![j] = Gen2!Written(config[j], sent)]
        /\ meant' = [meant EXCEPT ![i] = Gen2!Written(meant[i], edits)]
        /\ excuses' = excuses \cup Gen2!Excuses(p, i)
        /\ draft' = [draft EXCEPT ![p] = d]
        /\ kind' = kind
    BY <1>4 DEF Gen2!SetConfig
  <2>2. Draft(d)
    BY DEF Gen2Inv, Drafts, Draft
  <2>3. Drafts'
    BY <1>0, <2>1, <2>2
  <2>4. excuses' = {} => config' = meant'
    BY <2>1, WriteObeys DEF Gen2Inv, Configured
  <2>5. DOMAIN config' = DOMAIN config
    BY <2>1
  <2>6. \A k \in DOMAIN config : DOMAIN config'[k] = DOMAIN config[k]
    BY <2>1 DEF Gen2!Written
  <2> QED
    BY <2>1, <2>3, <2>4, <2>5, <2>6 DEF Gen2Inv, Configured, Fields
<1>5. ASSUME NEW i \in Gen2!Numbers(kind), NEW f, Gen2!ChangedElsewhere(i, f) PROVE Gen2Inv'
  <2>1. /\ config' = [config EXCEPT ![i][f] = "other"]
        /\ meant' = [meant EXCEPT ![i][f] = "other"]
        /\ UNCHANGED <<kind, draft, excuses>>
    BY <1>5 DEF Gen2!ChangedElsewhere
  <2>2. DOMAIN config' = DOMAIN config /\ \A k \in DOMAIN config : DOMAIN config'[k] = DOMAIN config[k]
    BY <2>1
  <2>3. excuses' = {} => config' = meant'
    BY <2>1 DEF Gen2Inv, Configured
  <2> QED
    BY <2>1, <2>2, <2>3 DEF Gen2Inv, Configured, Drafts, Draft, Fields
<1>6. ASSUME UNCHANGED <<kind, config, draft, meant, excuses>> PROVE Gen2Inv'
  BY <1>6 DEF Gen2Inv, Configured, Drafts, Draft, Fields
<1>7. ASSUME NEW m, NEW a, NEW v, Gen2!Call(m, a, v)
      PROVE  UNCHANGED <<kind, config, draft, meant, excuses>>
  BY <1>7 DEF Gen2!Call
<1>8. ASSUME Gen2!GetDeviceInfo \/ UNCHANGED gen2Vars
      PROVE  UNCHANGED <<kind, config, draft, meant, excuses>>
  BY <1>8 DEF Gen2!GetDeviceInfo, gen2Vars
<1> QED
  BY <1>1, <1>2, <1>3, <1>4, <1>5, <1>6, <1>7, <1>8 DEF Gen2!Next

\* Programs that change a component together make exactly their edits and touch no other
\* field and no other component, but for the ways the module names: for every component of
\* the tables, any programs, edits and writes (component.go:121, 324).
THEOREM EditsAreExact == MCSpec => []ExactlyTheEdits
<1>1. MCInit => Gen2Inv
  <2> SUFFICES ASSUME MCInit PROVE Gen2Inv
    OBVIOUS
  <2>1. Gen2!Init
    BY DEF MCInit
  <2>2. Configured
    BY <2>1 DEF Gen2!Init, Configured, Fields
  <2>3. draft = [p \in Programs |-> [id |-> 0, values |-> <<>>, edited |-> {}, read |-> FALSE]]
    BY <2>1 DEF Gen2!Init, Gen2!Nobody
  <2>4. Drafts
    BY <2>3 DEF Drafts, Draft
  <2> QED
    BY <2>2, <2>4 DEF Gen2Inv
<1>2. Gen2Inv /\ [MCNext]_<<part, vars, gen2Vars, gen1Vars, profileVars>> => Gen2Inv'
  <2>1. [MCNext]_<<part, vars, gen2Vars, gen1Vars, profileVars>> => [Gen2!Next]_gen2Vars
    BY DEF MCNext
  <2> QED
    BY <2>1, Gen2Next
<1>3. Gen2Inv => ExactlyTheEdits
  BY DEF Gen2Inv, Configured, ExactlyTheEdits, Gen2!ExactlyTheEdits
<1> QED
  BY <1>1, <1>2, <1>3, PTL DEF MCSpec

-----------------------------------------------------------------------------
(* Profiles.                                                               *)

\* The registry holds profiles of the tables or of the program, each under its model; the
\* application index holds each under its name; and a profile of the tables that is
\* registered is found under its name too, unless the program gave the name to another.
TablesInv ==
    /\ \A m \in DOMAIN registry : registry[m].model = m /\ registry[m] \in TableProfiles \cup OwnProfiles
    /\ \A a \in DOMAIN appIndex : a # "" /\ appIndex[a].app = a
    /\ \A m \in DOMAIN registry :
          LET p == registry[m]
          IN  p \notin OwnProfiles /\ p.app # "" =>
                  p.app \in DOMAIN appIndex /\ (appIndex[p.app] = p \/ appIndex[p.app] \in ours)

\* Registering profiles puts one of them under each of their keys, and leaves the rest.
LEMMA OverModels ==
    ASSUME NEW f, NEW profiles, NEW g, g = Tables!Over(f, profiles, Tables!ModelOf)
    PROVE  /\ \A p \in profiles : p.model \in DOMAIN g
           /\ \A k \in DOMAIN g :
                 \/ g[k] \in profiles /\ g[k].model = k
                 \/ k \in DOMAIN f /\ g[k] = f[k]
<1> DEFINE keys == {p.model : p \in profiles}
<1>1. g = [k \in keys \cup DOMAIN f |->
              IF k \in keys THEN CHOOSE p \in profiles : p.model = k ELSE f[k]]
  BY DEF Tables!Over, Tables!ModelOf
<1>2. ASSUME NEW k \in keys
      PROVE  g[k] \in profiles /\ g[k].model = k
  <2>1. g[k] = CHOOSE p \in profiles : p.model = k
    BY <1>1
  <2> QED
    BY <2>1
<1> QED
  BY <1>1, <1>2

LEMMA OverApps ==
    ASSUME NEW f, NEW profiles, NEW g, g = Tables!Over(f, profiles, Tables!AppOf)
    PROVE  /\ \A p \in profiles : p.app \in DOMAIN g /\ g[p.app] \in profiles
           /\ DOMAIN f \subseteq DOMAIN g
           /\ \A k \in DOMAIN g :
                 \/ g[k] \in profiles /\ g[k].app = k
                 \/ k \in DOMAIN f /\ g[k] = f[k]
<1> DEFINE keys == {p.app : p \in profiles}
<1>1. g = [k \in keys \cup DOMAIN f |->
              IF k \in keys THEN CHOOSE p \in profiles : p.app = k ELSE f[k]]
  BY DEF Tables!Over, Tables!AppOf
<1>2. ASSUME NEW k \in keys
      PROVE  g[k] \in profiles /\ g[k].app = k
  <2>1. g[k] = CHOOSE p \in profiles : p.app = k
    BY <1>1
  <2> QED
    BY <2>1
<1> QED
  BY <1>1, <1>2

\* The profiles of the tables have names of their own, so that whichever of a package the
\* indexes hold is the one that has the name.
LEMMA RegisterAllNext ==
    ASSUME TablesInv, NEW profiles, Tables!RegisterAll(profiles), ours \subseteq ours',
           \/ profiles \subseteq TableProfiles
           \/ profiles \subseteq OwnProfiles \cap ours'
    PROVE  TablesInv'
<1>1. ASSUME NEW m \in DOMAIN registry'
      PROVE  \/ registry'[m] \in profiles /\ registry'[m].model = m
             \/ m \in DOMAIN registry /\ registry'[m] = registry[m]
  BY OverModels DEF Tables!RegisterAll
<1>2. /\ \A p \in profiles : p.app # "" =>
             p.app \in DOMAIN appIndex' /\ appIndex'[p.app] \in profiles
      /\ DOMAIN appIndex \subseteq DOMAIN appIndex'
      /\ \A a \in DOMAIN appIndex' :
            \/ appIndex'[a] \in profiles /\ appIndex'[a].app = a /\ a # ""
            \/ a \in DOMAIN appIndex /\ appIndex'[a] = appIndex[a]
  <2> DEFINE ix == Tables!Indexed(profiles)
  <2>1. appIndex' = Tables!Over(appIndex, ix, Tables!AppOf)
    BY DEF Tables!RegisterAll
  <2>2. \A p : p \in ix <=> p \in profiles /\ p.app # ""
    BY DEF Tables!Indexed
  <2> HIDE DEF ix
  <2>3. /\ \A p \in ix : p.app \in DOMAIN appIndex' /\ appIndex'[p.app] \in ix
        /\ DOMAIN appIndex \subseteq DOMAIN appIndex'
        /\ \A a \in DOMAIN appIndex' :
              \/ appIndex'[a] \in ix /\ appIndex'[a].app = a
              \/ a \in DOMAIN appIndex /\ appIndex'[a] = appIndex[a]
    BY <2>1, OverApps
  <2> QED
    BY <2>2, <2>3
<1>3. \A m \in DOMAIN registry' :
          registry'[m].model = m /\ registry'[m] \in TableProfiles \cup OwnProfiles
  BY <1>1 DEF TablesInv
<1>4. \A a \in DOMAIN appIndex' : a # "" /\ appIndex'[a].app = a
  BY <1>2 DEF TablesInv
<1>5. ASSUME NEW m \in DOMAIN registry', registry'[m] \notin OwnProfiles, registry'[m].app # ""
      PROVE  /\ registry'[m].app \in DOMAIN appIndex'
             /\ \/ appIndex'[registry'[m].app] = registry'[m]
                \/ appIndex'[registry'[m].app] \in ours'
  <2> DEFINE p == registry'[m]
  <2>1. p \in TableProfiles
    BY <1>3, <1>5
  <2>2. p.app \in DOMAIN appIndex'
    BY <1>1, <1>2, <1>5 DEF TablesInv
  <2>3. CASE appIndex'[p.app] \in profiles
    <3>1. CASE profiles \subseteq TableProfiles
      BY <1>4, <1>5, <2>1, <2>2, <2>3, <3>1, TablesAssumption
    <3>2. CASE profiles \subseteq OwnProfiles \cap ours'
      BY <2>2, <2>3, <3>2
    <3> QED
      BY <2>2, <3>1, <3>2
  <2>4. CASE appIndex'[p.app] \notin profiles
    <3>1. p \notin profiles
      BY <1>2, <1>5, <2>4
    <3>2. m \in DOMAIN registry /\ p = registry[m]
      BY <1>1, <3>1
    <3>3. appIndex'[p.app] = appIndex[p.app]
      BY <1>2, <2>2, <2>4
    <3> QED
      BY <1>5, <2>2, <3>2, <3>3 DEF TablesInv
  <2> QED
    BY <2>3, <2>4
<1> QED
  BY <1>3, <1>4, <1>5 DEF TablesInv

LEMMA TablesNext == TablesInv /\ [Tables!Next]_profileVars => TablesInv'
<1> SUFFICES ASSUME TablesInv, [Tables!Next]_profileVars PROVE TablesInv'
  OBVIOUS
<1>1. CASE UNCHANGED profileVars
  BY <1>1 DEF TablesInv, profileVars
<1>2. ASSUME NEW package \in DOMAIN Tables!Packages, Tables!Import(package)
      PROVE  TablesInv'
  <2>1. Tables!Packages[package] \subseteq TableProfiles
    BY DEF TableProfiles
  <2> QED
    BY <1>2, <2>1, RegisterAllNext DEF Tables!Import
<1>3. ASSUME NEW p \in OwnProfiles, Tables!Register(p)
      PROVE  TablesInv'
  BY <1>3, RegisterAllNext DEF Tables!Register
<1>4. CASE Tables!Clear
  <2>1. DOMAIN registry' = {} /\ DOMAIN appIndex' = {}
    BY <1>4 DEF Tables!Clear, Tables!Empty
  <2> QED
    BY <2>1 DEF TablesInv
<1> QED
  BY <1>1, <1>2, <1>3, <1>4 DEF Tables!Next

\* What the tables say of each device, the lists of devices say too.
LEMMA QuestionsSound == TablesInv => Tables!QuestionsAgree
<1> SUFFICES ASSUME TablesInv PROVE Tables!QuestionsAgree
  OBVIOUS
<1>1. ASSUME NEW p \in Tables!List \ OwnProfiles
      PROVE  AnswersAgree(p)
  <2>1. p \in TableProfiles
    BY <1>1 DEF TablesInv, Tables!List
  <2> QED
    BY <2>1, TablesAssumption
<1>2. \A ct : Tables!ListByComponent(ct) = {p \in Tables!List : Tables!HasComponent(p, ct)}
  BY DEF Tables!ListByComponent
<1>3. \A c : Tables!ListByCapability(c) = {p \in Tables!List : c \in Tables!Named \cap p.capabilities}
  BY DEF Tables!ListByCapability
<1> QED
  BY <1>1, <1>2, <1>3 DEF AnswersAgree, Tables!QuestionsAgree

LEMMA DetectionSound == TablesInv => Tables!DetectsEachDevice
<1> SUFFICES ASSUME TablesInv PROVE Tables!DetectsEachDevice
  OBVIOUS
<1>1. Tables!Unknown \notin DOMAIN registry /\ "" \notin DOMAIN appIndex
  BY TablesAssumption DEF TablesInv
<1>2. ASSUME NEW app
      PROVE  Tables!DetectFromDeviceInfo(Tables!Unknown, app) = Tables!GetByApp(app)
  BY <1>1 DEF Tables!DetectFromDeviceInfo, Tables!Get
<1>3. ASSUME NEW p \in Tables!List
      PROVE  Tables!DetectFromDeviceInfo(p.model, p.app) = {p}
  BY DEF TablesInv, Tables!List, Tables!DetectFromDeviceInfo, Tables!Get
<1>4. ASSUME NEW p \in Tables!List \ OwnProfiles, p.app # "", \A o \in ours : o.app # p.app
      PROVE  Tables!GetByApp(p.app) = {p}
  <2>1. PICK m \in DOMAIN registry : p = registry[m]
    BY DEF Tables!List
  <2>2. p.app \in DOMAIN appIndex /\ (appIndex[p.app] = p \/ appIndex[p.app] \in ours)
    BY <1>4, <2>1 DEF TablesInv
  <2>3. appIndex[p.app].app = p.app
    BY <2>2 DEF TablesInv
  <2>4. appIndex[p.app] = p
    BY <1>4, <2>2, <2>3
  <2> QED
    BY <2>2, <2>4 DEF Tables!GetByApp
<1> QED
  BY <1>1, <1>2, <1>3, <1>4 DEF Tables!DetectsEachDevice, Tables!GetByApp

\* Whatever profiles a program registers of its own, in whatever order with the packages it
\* imports, and however often it clears the registry, each device of the tables is detected
\* as what it is, and the questions asked of the tables agree (registry.go:19-340,
\* detect.go:49).
THEOREM TablesAreSound == MCSpec => []TablesSound
<1>1. MCInit => TablesInv
  BY DEF MCInit, Tables!Init, Tables!Empty, TablesInv
<1>2. TablesInv /\ [MCNext]_<<part, vars, gen2Vars, gen1Vars, profileVars>> => TablesInv'
  <2>1. [MCNext]_<<part, vars, gen2Vars, gen1Vars, profileVars>> => [Tables!Next]_profileVars
    BY DEF MCNext
  <2> QED
    BY <2>1, TablesNext
<1>3. TablesInv => TablesSound
  BY QuestionsSound, DetectionSound DEF TablesSound, Tables!TablesSound
<1> QED
  BY <1>1, <1>2, <1>3, PTL DEF MCSpec

=============================================================================
