------------------------------ MODULE Profiles ------------------------------
(***************************************************************************)
(* profiles/registry.go, detect.go: the registry of device profiles, an    *)
(* index by model and one by application name, and the questions asked of  *)
(* it.  A program imports some of the packages, each of which registers    *)
(* its profiles, and may register profiles of its own; a profile that is   *)
(* registered replaces whatever the indexes held under its names.  Each    *)
(* operation is one critical section of registryLock.                      *)
(***************************************************************************)
EXTENDS ProfileData, FiniteSets, Functions

CONSTANTS
    Own,            \* profiles a program registers itself
    Wanted          \* component numbers asked of MatchComponents

VARIABLES
    registry,       \* by model
    appIndex,       \* by application name
    imported,       \* history: the packages imported since the last Clear
    ours            \* history: the profiles of the program registered since

vars == <<registry, appIndex, imported, ours>>

Empty == <<>>

\* A model that no device has.
Unknown == <<"??", "">>

Init ==
    /\ registry = Empty /\ appIndex = Empty
    /\ imported = {} /\ ours = {}

-----------------------------------------------------------------------------
(* Registration.                                                           *)

\* f with the profiles under their keys.
Over(f, profiles, Key(_)) ==
    LET keys == {Key(p) : p \in profiles}
    IN  [k \in keys \cup DOMAIN f |->
            IF k \in keys THEN CHOOSE p \in profiles : Key(p) = k ELSE f[k]]

ModelOf(p) == p.model
AppOf(p) == p.app

\* Mutant of Indexed: a profile without an application name is indexed too.
IndexedAll(profiles) == profiles

Indexed(profiles) == {p \in profiles : p.app # ""}

RegisterAll(profiles) ==
    /\ registry' = Over(registry, profiles, ModelOf)
    /\ appIndex' = Over(appIndex, Indexed(profiles), AppOf)

Import(package) ==
    /\ package \notin imported
    /\ RegisterAll(Packages[package])
    /\ imported' = imported \cup {package}
    /\ UNCHANGED ours

Register(p) ==
    /\ RegisterAll({p})
    /\ ours' = ours \cup {p}
    /\ UNCHANGED imported

Clear ==
    /\ registry' = Empty /\ appIndex' = Empty
    /\ ours' = {}
    /\ UNCHANGED imported       \* init functions run once

Next ==
    \/ \E package \in DOMAIN Packages : Import(package)
    \/ \E p \in Own : Register(p)
    \/ Clear

Spec == Init /\ [][Next]_vars

-----------------------------------------------------------------------------
(* Questions.                                                              *)

List == {registry[m] : m \in DOMAIN registry}
Get(model) == IF model \in DOMAIN registry THEN {registry[model]} ELSE {}
GetByApp(app) == IF app \in DOMAIN appIndex THEN {appIndex[app]} ELSE {}

DetectGeneration(prefix) ==
    CASE prefix = "S4" -> 4 [] prefix = "S3" -> 3 [] prefix = "SN" -> 2 [] prefix = "SH" -> 1
      [] OTHER -> 0

\* By model, else by application name: at most one profile.
DetectFromDeviceInfo(model, app) == IF Get(model) # {} THEN Get(model) ELSE GetByApp(app)
DetectFromModel(model) == [profile |-> Get(model), generation |-> DetectGeneration(model[1])]

Number(p, part) == IF part \in DOMAIN p.components THEN p.components[part] ELSE 0

ComponentCount(p, ct) ==
    CASE ct = "switch" -> Number(p, "Switches") [] ct = "cover" -> Number(p, "Covers")
      [] ct = "light" -> Number(p, "Lights") [] ct = "input" -> Number(p, "Inputs")
      [] ct \in {"pm", "pm1"} -> Number(p, "PowerMeters")
      [] ct \in {"em", "em1"} -> Number(p, "EnergyMeters")
      [] ct = "voltmeter" -> Number(p, "Voltmeters")
      [] ct = "temperature" -> Number(p, "TemperatureSensors")
      [] ct = "humidity" -> Number(p, "HumiditySensors")
      [] ct \in {"rgb", "rgbw"} -> Number(p, "RGBChannels")
      [] OTHER -> 0

HasComponent(p, ct) ==
    CASE ct = "cover" -> ComponentCount(p, ct) > 0 \/ "CoverSupport" \in p.capabilities
      [] ct = "temperature" -> ComponentCount(p, ct) > 0 \/ "Temperature" \in p.sensors
      [] ct = "humidity" -> ComponentCount(p, ct) > 0 \/ "Humidity" \in p.sensors
      [] ct = "smoke" -> "Smoke" \in p.sensors
      [] ct = "thermostat" -> Number(p, "Thermostat") > 0
      [] OTHER -> ComponentCount(p, ct) > 0

ListByComponent(ct) == {p \in List : HasComponent(p, ct)}

\* AdvancedSchedules and ExternalSensors have no name to ask for them by.
Named == (CommonCaps \ {"ExternalSensors"})
             \cup {"Scripting", "Schedules", "Webhooks", "KVS", "VirtualComponents", "Actions",
                   "InputEvents", "BidirectionalMetering"}
ListByCapability(c) == {p \in List : c \in Named /\ c \in p.capabilities}

ListByProtocol(protocol) == {p \in List : protocol \in p.protocols}
ListByGeneration(g) == {p \in List : p.generation = g}

\* Only these of the requirements are looked at.
Compared == {"Switches", "Covers", "Lights", "Inputs", "PowerMeters", "EnergyMeters",
             "TemperatureSensors", "HumiditySensors"}
ComparedCaps == {"PowerMetering", "EnergyMetering", "CoverSupport", "DimmingSupport",
                 "ColorSupport", "ColorTemperature", "Scripting", "Schedules", "Webhooks",
                 "ThreePhase"}
MatchComponents(req) ==
    {p \in List : \A part \in DOMAIN req \cap Compared : Number(p, part) >= req[part]}
MatchCapabilities(req) == {p \in List : req \cap ComparedCaps \subseteq p.capabilities}

FindSimilar(model) ==
    {p \in List : \E q \in Get(model) :
        /\ p.generation = q.generation /\ p.model # model
        /\ \/ p.form = q.form
           \/ /\ Number(p, "Switches") = Number(q, "Switches")
              /\ Number(p, "Covers") = Number(q, "Covers")}

-----------------------------------------------------------------------------
TypeOK ==
    /\ \A m \in DOMAIN registry : registry[m].model = m
    /\ \A a \in DOMAIN appIndex : appIndex[a].app = a
    /\ imported \subseteq DOMAIN Packages
    /\ ours \subseteq Own

\* Whatever packages a program imports and whatever it registers, a device whose
\* model is known is detected as that model, and one whose model is not, by its
\* application name alone and as nothing else: no two profiles of the tables
\* share a name, and none answers to the empty one.  (registry.go:19, detect.go:49.)
DetectsEachDevice ==
    /\ \A p \in List : DetectFromDeviceInfo(p.model, p.app) = {p}
    /\ \A p \in List \ Own : p.app # "" /\ (\A o \in ours : o.app # p.app) =>
           DetectFromDeviceInfo(Unknown, p.app) = {p}
    /\ DetectFromDeviceInfo(Unknown, "") = {}

\* The questions by component and those by capability give the same devices:
\* what meters says so, a cover can be calibrated, a lamp dimmed, and nothing that
\* runs on a battery switches a load.  (The tables and their merges with the
\* defaults, gen2/relays.go:146.)
QuestionsAgree ==
    /\ (ListByComponent("pm") \cup ListByComponent("em")) \ Own
           = ListByCapability("PowerMetering") \ Own
    /\ (ListByComponent("cover") \ Own) \subseteq ListByCapability("Calibration")
    /\ ListByComponent("light") \ Own = ListByCapability("DimmingSupport") \ Own
    /\ \A p \in ListByComponent("switch") \ Own : p.power # "Battery"
    /\ \A p \in ListByComponent("rgb") \ Own : "ColorSupport" \in p.capabilities

\* The tables of devices can be relied on, by name and by question.
TablesSound == DetectsEachDevice /\ QuestionsAgree

\* detect.go:186: "MatchComponents returns profiles with at least the specified
\* component counts."
MatchMeansEnough ==
    \A req \in Wanted : \A p \in MatchComponents(req) :
        \A part \in DOMAIN req : Number(p, part) >= req[part]

\* The generation detected from a model is the one its profile has.
GenerationAgrees ==
    \A p \in List \ Own : DetectFromModel(p.model).generation = p.generation
=============================================================================
