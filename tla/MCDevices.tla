----------------------------- MODULE MCDevices -----------------------------
(***************************************************************************)
(* What programs make devices do and know of them: provisioning tasks,     *)
(* settings of either generation, and the tables of what devices can do.   *)
(* A behaviour is in one of them (part).                                   *)
(***************************************************************************)
EXTENDS MCProvisioningTasks

\* Of Gen2Components and of Gen1Settings.
CONSTANTS Programs, MaxEdits, MaxWrites, Users, MaxQueries, MaxVersions

\* Of Profiles.
CONSTANT OwnProfiles

VARIABLES part,
    kind, about, config, draft, meant, excuses, request, version, info, editsMade, writes,
    topic, settings, asked, because, rules, askedRules, adding, firmware, cached,
    reader, cleared, overtaken, queries,
    registry, appIndex, imported, ours

gen2Vars == <<kind, about, config, draft, meant, excuses, request, version, info,
              editsMade, writes>>
gen1Vars == <<topic, settings, asked, because, rules, askedRules, adding, firmware,
              cached, reader, cleared, overtaken, queries>>
profileVars == <<registry, appIndex, imported, ours>>

Gen2 == INSTANCE Gen2Components
Gen1 == INSTANCE Gen1Settings

\* Profiles of a program's own: a new device, one under the application name of a device
\* of the tables, and one without a name.
OwnProfile == [model |-> <<"XX", "1">>, app |-> "Own", series |-> "Standard", form |-> "Flush",
               power |-> "Mains", components |-> <<>>, capabilities |-> {}, sensors |-> {},
               generation |-> 2, protocols |-> {}]
MCOwn == {OwnProfile,
          [OwnProfile EXCEPT !.model = <<"XX", "2">>, !.app = "Plus1PM"],
          [OwnProfile EXCEPT !.app = ""]}
Tables == INSTANCE Profiles
            WITH Own <- OwnProfiles, Wanted <- {[Switches |-> 2], [Thermostat |-> 1]}

\* What the tables say of one device is consistent.
AnswersAgree(p) ==
    LET Able(c) == c \in Tables!Named \cap p.capabilities
    IN  /\ Tables!HasComponent(p, "pm") \/ Tables!HasComponent(p, "em") <=> Able("PowerMetering")
        /\ Tables!HasComponent(p, "cover") => Able("Calibration")
        /\ Tables!HasComponent(p, "light") <=> Able("DimmingSupport")
        /\ Tables!HasComponent(p, "switch") => p.power # "Battery"
        /\ Tables!HasComponent(p, "rgb") => "ColorSupport" \in p.capabilities

\* The tables are data of the program; of a program's own profiles nothing is assumed but
\* that none has the model that stands for an unknown one.
TableProfiles == UNION {Tables!Packages[package] : package \in DOMAIN Tables!Packages}
ASSUME TablesAssumption ==
    /\ \A p, q \in TableProfiles : p.app = q.app /\ p.app # "" => p = q
    /\ \A p \in TableProfiles \cup OwnProfiles : p.model # Tables!Unknown
    /\ \A p \in TableProfiles : AnswersAgree(p)

MCInit ==
    /\ part \in {"tasks", "gen2", "gen1", "tables"}
    /\ Init /\ Tables!Init
    /\ Gen2!Init
    /\ part # "gen2" => kind = "Switch" /\ about = "methods"
    /\ Gen1!G1Init
    /\ part # "gen1" => topic = "info"

MCNext ==
    \/ part = "tasks" /\ Next /\ UNCHANGED <<part, gen2Vars, gen1Vars, profileVars>>
    \/ part = "gen2" /\ Gen2!Next /\ UNCHANGED <<part, vars, gen1Vars, profileVars>>
    \/ part = "gen1" /\ Gen1!G1Next /\ UNCHANGED <<part, vars, gen2Vars, profileVars>>
    \/ part = "tables" /\ Tables!Next /\ UNCHANGED <<part, vars, gen2Vars, gen1Vars>>

MCSpec == MCInit /\ [][MCNext]_<<part, vars, gen2Vars, gen1Vars, profileVars>>

\* Programs that change a Gen2 component together make exactly their edits, but for the
\* ways the module names (component.go:121, 324).
ExactlyTheEdits == part = "gen2" => Gen2!ExactlyTheEdits

\* Programs that share a Gen1 device find its settings as they left them, and its
\* information no older than their last ClearCache (settings.go:680-760, device.go:51, 369).
Gen1Sound == part = "gen1" => Gen1!Gen1Sound

\* Whatever a program registers, each device of the packages it imported is found under its
\* names, and the questions asked of the tables agree (registry.go:120-340, detect.go).
TablesSound == part = "tables" => Tables!TablesSound
=============================================================================
