------------------------------- MODULE Backup -------------------------------
(***************************************************************************)
(* backup/backup.go: Export reads a device part by part, Restore writes a  *)
(* backup to a device call by call, Migrate does both.  A step is one RPC  *)
(* call.  Any call may fail, before or after the device did what it asks   *)
(* for, and most failures are ignored.                                     *)
(*                                                                         *)
(* The source does not change, so a backup is the set of reads that        *)
(* succeeded.  Of the target the module keeps how many copies it has of    *)
(* each thing a call writes, and which of its own jobs and hooks are left. *)
(* What an operation has left to do is a set too: Stage says which part    *)
(* comes first, and within a part nothing depends on the order the device  *)
(* listed its things in, or a map is ranged over (backup.go:518).          *)
(***************************************************************************)
EXTENDS Naturals

CONSTANTS
    Callers,        \* goroutines that export, restore and migrate
    Jobs, Hooks,    \* what Schedule.List and Webhook.List of the source return
    Scripts,        \* the scripts of the source
    Enabled,        \* those that are enabled
    StoreKeys,      \* the keys of its store
    Options,        \* the sets of parts callers ask for
    Passwords,      \* what encrypted backups are locked with
    MaxRuns,        \* bound: operations in a behaviour
    MaxFaults       \* bound: calls that fail in a behaviour

Sections == {"WiFi", "Cloud", "BLE", "MQTT"}
Parts == Sections \cup {"webhooks", "schedules", "scripts", "kvs", "auth"}
Kinds == {"schedules", "webhooks"}
Items(kind) == IF kind = "schedules" THEN Jobs ELSE Hooks
Plain == "plain"

Call(op, x) == <<op, x>>
Calls(op, S) == {Call(op, x) : x \in S}
Creates(kind) == {Call("create", <<kind, i>>) : i \in Items(kind)}

VARIABLES
    migrating,      \* m.inProgress
    copies,         \* how many copies the target has of what each call writes
    ownItems,       \* the kinds the target has items of its own of
    place,          \* where each caller is
    asked,          \* its options
    gotten,         \* the reads of its export that succeeded
    todo,           \* the calls it has left
    restart,        \* result.RestartRequired
    errors,         \* the sections in result.Errors
    faulty,         \* history: whether a call of the run failed
    alone,          \* history: whether nobody else wrote to the target meanwhile
    wanted,         \* history: the parts that were to be restored
    files,          \* the backups saved, each with what it is locked with
    runs, faults    \* operations begun, calls that failed

target == <<copies, ownItems>>
vars == <<migrating, target, place, asked, gotten, todo, restart, errors, faulty,
          alone, wanted, files, runs, faults>>

Writes ==
    Calls("set", Sections) \cup Creates("schedules") \cup Creates("webhooks")
        \cup Calls("script", Scripts) \cup Calls("code", Scripts) \cup Calls("enable", Scripts)
        \cup Calls("value", StoreKeys)

Init ==
    /\ migrating = FALSE
    /\ copies = [w \in Writes |-> 0]
    /\ ownItems = Kinds
    /\ place = [c \in Callers |-> "idle"]
    /\ asked = [c \in Callers |-> {}]
    /\ gotten = [c \in Callers |-> {}]
    /\ todo = [c \in Callers |-> {}]
    /\ restart = [c \in Callers |-> FALSE]
    /\ errors = [c \in Callers |-> {}]
    /\ faulty = [c \in Callers |-> FALSE]
    /\ alone = [c \in Callers |-> TRUE]
    /\ wanted = {}
    /\ files = {}
    /\ runs = 0 /\ faults = 0

-----------------------------------------------------------------------------
(* The calls of an export.                                                 *)

ListScripts == {Call("list", "scripts")} \cup Calls("getCode", Scripts)
ListKVS == {Call("list", "kvs")} \cup Calls("getValue", StoreKeys)

Optional(parts, part, calls) == IF part \in parts THEN calls ELSE {}

ExportOptionalConfigs(parts) ==
    Calls("get", (Sections \cup {"auth"}) \cap parts)
        \cup Calls("list", Kinds \cap parts)
        \cup Optional(parts, "scripts", ListScripts)
        \cup Optional(parts, "kvs", ListKVS)

\* Without the first two calls there is no backup.
ExportCalls(parts) ==
    {Call("info", "source"), Call("config", "source")} \cup ExportOptionalConfigs(parts)

-----------------------------------------------------------------------------
(* The calls of a restore of what b holds.                                 *)

Holds(b, part) == Call("list", part) \in b \/ Call("get", part) \in b
HoldsScripts(b) == Holds(b, "scripts") /\ Scripts # {}

\* Running scripts of the target are stopped when the backup has scripts.
StopAllScripts(b) == IF HoldsScripts(b) THEN {Call("stop", "scripts")} ELSE {}

RestoreOptionalConfigs(b, parts) ==
    Calls("set", {s \in Sections : s \in parts /\ Holds(b, s)})

\* Mutant of RestoreItems: what the device has is not deleted.
RestoreItemsOnTop(kind) == Creates(kind)

RestoreItems(kind) == {Call("deleteAll", kind)} \cup Creates(kind)

\* The code is put where it could be read.
RestoreScripts(b) ==
    Calls("script", Scripts) \cup Calls("enable", Enabled)
        \cup Calls("code", {s \in Scripts : Call("getCode", s) \in b})

RestoreKVS(b) == Calls("value", {k \in StoreKeys : Call("getValue", k) \in b})

RestoreComplexItems(b, parts) ==
    (UNION {RestoreItems(kind) : kind \in {k \in Kinds : k \in parts /\ Holds(b, k)}})
        \cup (IF "scripts" \in parts /\ HoldsScripts(b) THEN RestoreScripts(b) ELSE {})
        \cup (IF "kvs" \in parts /\ Holds(b, "kvs") THEN RestoreKVS(b) ELSE {})

RestoreCalls(b, parts) ==
    StopAllScripts(b) \cup RestoreOptionalConfigs(b, parts) \cup RestoreComplexItems(b, parts)

-----------------------------------------------------------------------------
(* The order of the calls.                                                 *)

\* Part by part; the calls of one stage are made in any order.
Stage(call) ==
    CASE call = Call("info", "source") -> 0
      [] call = Call("info", "target") -> 1
      [] call[1] \in {"config", "stop"} -> 2
      [] call[1] \in {"get", "set"} ->
            [WiFi |-> 3, Cloud |-> 4, BLE |-> 5, MQTT |-> 6, auth |-> 13][call[2]]
      [] call[1] = "list" ->
            [webhooks |-> 7, schedules |-> 8, scripts |-> 9, kvs |-> 11][call[2]]
      [] call[1] = "getCode" -> 10
      [] call[1] = "getValue" -> 12
      [] call[1] = "deleteAll" -> IF call[2] = "schedules" THEN 7 ELSE 9
      [] call[1] = "create" -> IF call[2][1] = "schedules" THEN 8 ELSE 10
      [] call[1] \in {"script", "code", "enable"} -> 11
      [] call[1] = "value" -> 12

\* A script is created, given its code and enabled before the next one is created.
Begun(left) ==
    {s \in Scripts : Call("script", s) \notin left
                         /\ (Call("code", s) \in left \/ Call("enable", s) \in left)}
ScriptInTurn(call, left) ==
    /\ call[1] = "script" => Begun(left) = {}
    /\ call[1] \in {"code", "enable"} => call[2] \in Begun(left)
    /\ call[1] = "enable" => Call("code", call[2]) \notin left

\* Nothing that comes before it is left.
InTurn(call, left) ==
    /\ \A other \in left : Stage(call) <= Stage(other)
    /\ ScriptInTurn(call, left)

-----------------------------------------------------------------------------
(* One call.                                                               *)

\* What cannot be done once a call has failed.
Pointless(call) ==
    CASE call = Call("list", "scripts") -> Calls("getCode", Scripts)
      [] call = Call("list", "kvs") -> Calls("getValue", StoreKeys)
      [] call[1] = "script" -> {Call("code", call[2]), Call("enable", call[2])}
      [] OTHER -> {}

Fatal(call) == call[1] \in {"info", "config"}

\* What the target does.
Effect(call) ==
    CASE call \in Writes ->
            copies' = [copies EXCEPT ![call] = IF call[1] \in {"create", "script"} THEN @ + 1 ELSE 1]
                /\ UNCHANGED ownItems
      [] call[1] = "deleteAll" ->
            copies' = [w \in Writes |->
                           IF w[1] = "create" /\ w[2][1] = call[2] THEN 0 ELSE copies[w]]
                /\ ownItems' = ownItems \ {call[2]}
      [] OTHER -> UNCHANGED target

Migrating(c) == place[c] \in {"probe", "export", "write"}
Writing(c) == place[c] \in {"write", "restore"}

Answered(c, call) ==
    /\ Effect(call)
    /\ todo' = [todo EXCEPT ![c] = @ \ {call}]
    /\ gotten' = [gotten EXCEPT ![c] = IF Writing(c) THEN @ ELSE @ \cup {call}]
    /\ restart' = [restart EXCEPT ![c] = @ \/ call = Call("set", "WiFi")]
    /\ UNCHANGED <<migrating, place, errors, faulty, faults>>

\* Only the configuration calls report their failures.
Report(c, call) ==
    errors' = [errors EXCEPT ![c] = IF call[1] = "set" THEN @ \cup {call[2]} ELSE @]

\* Export and Migrate return at a failed call they cannot do without; nobody
\* else's migration ends with it.
Failed(c, call) ==
    /\ faults < MaxFaults
    /\ faults' = faults + 1
    /\ Effect(call) \/ UNCHANGED target
    /\ IF Fatal(call)
       THEN /\ todo' = [todo EXCEPT ![c] = {}]
            /\ place' = [place EXCEPT ![c] = "idle"]
            /\ migrating' = IF Migrating(c) THEN FALSE ELSE migrating
            /\ UNCHANGED errors
       ELSE /\ todo' = [todo EXCEPT ![c] = @ \ ({call} \cup Pointless(call))]
            /\ Report(c, call)
            /\ UNCHANGED <<place, migrating>>
    /\ faulty' = [faulty EXCEPT ![c] = TRUE]
    /\ UNCHANGED <<gotten, restart>>

Step(c) ==
    /\ \E call \in todo[c] : InTurn(call, todo[c]) /\ (Answered(c, call) \/ Failed(c, call))
    /\ UNCHANGED <<asked, alone, wanted, files, runs>>

-----------------------------------------------------------------------------
(* The operations.                                                         *)

Begin(c, where, parts, calls) ==
    /\ runs < MaxRuns /\ place[c] = "idle"
    /\ runs' = runs + 1
    /\ place' = [place EXCEPT ![c] = where]
    /\ asked' = [asked EXCEPT ![c] = parts]
    /\ todo' = [todo EXCEPT ![c] = calls]
    /\ errors' = [errors EXCEPT ![c] = {}]
    /\ restart' = [restart EXCEPT ![c] = FALSE]
    /\ faulty' = [faulty EXCEPT ![c] = FALSE]
    /\ UNCHANGED <<target, files, faults>>

\* Whoever writes while another does is not alone.
BeginWriting(c, parts) ==
    LET others == {d \in Callers \ {c} : Writing(d)}
    IN  /\ wanted' = wanted \cup parts
        /\ alone' = [d \in Callers |->
            IF d = c THEN others = {} ELSE IF d \in others THEN FALSE ELSE alone[d]]

Export(c, parts) ==
    /\ Begin(c, "save", parts, ExportCalls(parts))
    /\ gotten' = [gotten EXCEPT ![c] = {}]
    /\ UNCHANGED <<migrating, alone, wanted>>

\* ExportEncrypted locks what Export returns with a password.
Save(c, lock) ==
    /\ place[c] = "save" /\ todo[c] = {}
    /\ files' = files \cup {[holds |-> gotten[c], lock |-> lock]}
    /\ place' = [place EXCEPT ![c] = "idle"]
    /\ UNCHANGED <<migrating, target, asked, gotten, todo, restart, errors, faulty, alone, wanted,
                   runs, faults>>

Restore(c, b, parts) ==
    /\ Begin(c, "restore", parts, RestoreCalls(b, parts))
    /\ gotten' = [gotten EXCEPT ![c] = b]
    /\ BeginWriting(c, parts)
    /\ UNCHANGED migrating

\* Another password does not open the file, and nothing is restored.
RestoreEncrypted(c, file, password, parts) ==
    /\ file.lock = password
    /\ Restore(c, file.holds, parts)

\* Mutant of Claim: the flag is not looked at.
ClaimAnyway == migrating' = TRUE

\* ErrMigrationInProgress otherwise.
Claim == ~migrating /\ migrating' = TRUE

\* First both devices are asked who they are.
Migrate(c, parts) ==
    /\ Claim
    /\ Begin(c, "probe", parts \ {"auth"}, {Call("info", "source"), Call("info", "target")})
    /\ gotten' = [gotten EXCEPT ![c] = {}]
    /\ UNCHANGED <<alone, wanted>>

Leave(c) ==
    /\ migrating' = IF Migrating(c) THEN FALSE ELSE migrating
    /\ place' = [place EXCEPT ![c] = "idle"]
    /\ UNCHANGED <<target, asked, gotten, todo, restart, errors, faulty, alone, wanted, files,
                   runs, faults>>

\* The devices differ, or this is a dry run.
CheckStops(c) == place[c] = "probe" /\ todo[c] = {} /\ Leave(c)

Go(c, where, calls) ==
    /\ place' = [place EXCEPT ![c] = where]
    /\ todo' = [todo EXCEPT ![c] = calls]
    /\ UNCHANGED <<migrating, target, asked, restart, errors, faulty, files, runs, faults>>

CheckPasses(c) ==
    /\ place[c] = "probe" /\ todo[c] = {}
    /\ Go(c, "export", ExportCalls(asked[c]))
    /\ gotten' = [gotten EXCEPT ![c] = {}]
    /\ UNCHANGED <<alone, wanted>>

Import(c) ==
    /\ place[c] = "export" /\ todo[c] = {}
    /\ Go(c, "write", RestoreCalls(gotten[c], asked[c]))
    /\ BeginWriting(c, asked[c])
    /\ UNCHANGED gotten

\* Only a restart that a WiFi change needs is asked for; whether it comes about
\* changes nothing here.
Return(c) == Writing(c) /\ todo[c] = {} /\ Leave(c)

Next ==
    \E c \in Callers :
        \/ Step(c)
        \/ \E parts \in Options : Export(c, parts) \/ Migrate(c, parts)
        \/ \E lock \in Passwords \cup {Plain} : Save(c, lock)
        \/ \E file \in files, password \in Passwords \cup {Plain}, parts \in Options :
               RestoreEncrypted(c, file, password, parts)
        \/ CheckStops(c) \/ CheckPasses(c) \/ Import(c) \/ Return(c)

Spec == Init /\ [][Next]_vars

-----------------------------------------------------------------------------
TypeOK ==
    /\ migrating \in BOOLEAN
    /\ copies \in [Writes -> Nat]
    /\ ownItems \subseteq Kinds
    /\ place \in [Callers -> {"idle", "probe", "export", "save", "write", "restore"}]
    /\ asked \in [Callers -> SUBSET Parts]
    /\ errors \in [Callers -> SUBSET Sections]
    /\ restart \in [Callers -> BOOLEAN]

Finished(c) == Writing(c) /\ todo[c] = {}

\* A restore whose calls all succeeded, and which nobody disturbed, leaves the
\* jobs and hooks of the source once each and none of the target's own, and
\* every section and value it was asked for, whatever runs before it broke off
\* half way.  (backup.go:429, restoreItems.)
CleanRunCopies ==
    \A c \in Callers : Finished(c) /\ ~faulty[c] /\ alone[c] =>
        /\ \A kind \in Kinds \cap asked[c] : Holds(gotten[c], kind) =>
               kind \notin ownItems /\ \A i \in Items(kind) : copies[Call("create", <<kind, i>>)] = 1
        /\ \A s \in Sections \cap asked[c] : Holds(gotten[c], s) => copies[Call("set", s)] = 1
        /\ "kvs" \in asked[c] =>
               \A k \in StoreKeys : Call("getValue", k) \in gotten[c] => copies[Call("value", k)] = 1

PartOf(w) ==
    CASE w[1] = "set" -> w[2]
      [] w[1] = "create" -> w[2][1]
      [] w[1] = "value" -> "kvs"
      [] OTHER -> "scripts"

\* Nothing of a part no operation was asked for reaches the target, and a second
\* migration does not start while one is under way.  (backup.go:185, 603.)
OnlyWhatWasAsked ==
    /\ \A w \in Writes : copies[w] > 0 => PartOf(w) \in wanted
    /\ \A c, d \in Callers : Migrating(c) /\ Migrating(d) => c = d

\* Restores and migrations of one program copy what was asked for, once, and no more.
BackupSound == CleanRunCopies /\ OnlyWhatWasAsked

\* What doc.go:5 promises of a restore "to the same device": the scripts of the
\* backup are there once.
ScriptsOnce ==
    \A c \in Callers : Finished(c) /\ ~faulty[c] =>
        \A s \in Scripts : copies[Call("script", s)] <= 1
=============================================================================
