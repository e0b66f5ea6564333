---------------------------- MODULE Gen1Settings ----------------------------
(***************************************************************************)
(* gen1: programs that change the settings of one Gen1 device.  A setter   *)
(* builds a query from a structure or from its arguments; fields that are  *)
(* zero are mostly left out, and the device keeps what is not in the query.*)
(* Schedule rules and the cached device information are read in one step   *)
(* and written in another.                                                 *)
(***************************************************************************)
EXTENDS FiniteSets, Naturals, TLC

CONSTANTS
    Users,
    MaxQueries,         \* bound: setter calls
    MaxVersions         \* bound: firmware versions of the device

VARIABLES
    topic,              \* an object of the device, "rules" or "info": they share no state
    settings,           \* the device: field -> value
    asked,              \* history: the settings the programs asked for
    because,            \* history: why the two may differ
    rules, askedRules,  \* the schedule rules of a relay
    adding,             \* user -> {the rules Relay.AddScheduleRule has read} or {}
    firmware, cached,   \* the device's version; Device.info, 0 for nil
    reader,             \* user -> a GetDeviceInfo: [at, got, floor]
    cleared,            \* history: the version at the last ClearCache
    overtaken,          \* history: a fetch older than that was stored after it
    queries

gen1Vars == <<topic, settings, asked, because, rules, askedRules, adding, firmware, cached,
              reader, cleared, overtaken, queries>>

-----------------------------------------------------------------------------
(* What each setter sends: fields that are always in the query, fields that *)
(* are only when not zero, fields of its structure it never sends.          *)

Setter(always, nonzero, never) == [always |-> always, nonzero |-> nonzero, never |-> never]

One(f) == Setter({f}, {}, {})

RelaySetters ==
    [SetConfig |-> Setter({}, {"name", "appliance_type", "default_state", "btn_type",
         "btn_reverse", "auto_on", "auto_off", "max_power", "schedule"}, {"schedule_rules"}),
     SetName |-> One("name"), SetDefaultState |-> One("default_state"),
     SetButtonType |-> One("btn_type"), SetAutoOn |-> One("auto_on"),
     SetAutoOff |-> One("auto_off"), SetMaxPower |-> One("max_power"),
     SetSchedule |-> One("schedule")]

\* The inputs of a device are settings of its relays.
InputSetters == [InputSetButtonType |-> One("btn_type"), SetButtonReverse |-> One("btn_reverse")]

DeviceRelaySetters ==
    [SetRelayConfig |-> Setter({"btn_reverse", "schedule"},
         {"name", "default_state", "btn_type", "auto_on", "auto_off", "max_power"}, {})]

RollerTimes == {"maxtime", "maxtime_open", "maxtime_close"}
RollerInputs == {"default_state", "swap_inputs", "swap", "input_mode", "btn_type", "btn_reverse"}
RollerSafety ==
    {"obstacle_mode", "obstacle_action", "obstacle_power", "obstacle_delay", "safety_mode",
     "safety_action", "safety_allowed_on_trigger", "positioning"}

RollerSetters ==
    [SetConfig |-> Setter({}, RollerTimes \cup RollerInputs \cup RollerSafety, {}),
     SetMaxTime |-> One("maxtime"), SetDefaultState |-> One("default_state"),
     SetInputMode |-> One("input_mode"), SetButtonType |-> One("btn_type"),
     EnablePositioning |-> One("positioning"), SwapDirection |-> One("swap"),
     SwapInputs |-> One("swap_inputs"),
     SetSafetySwitch |-> Setter({"safety_mode", "safety_action"}, {}, {}),
     SetObstacleDetection |-> Setter({"obstacle_mode", "obstacle_action", "obstacle_power",
                                      "obstacle_delay"}, {}, {})]

DeviceRollerSetters ==
    LET switches == {"swap_inputs", "swap", "btn_reverse", "positioning"}
    IN  [SetRollerConfig |-> Setter(switches, (RollerTimes \ {"maxtime"}) \cup
             ((RollerInputs \cup RollerSafety) \ (switches \cup {"safety_allowed_on_trigger"})), {})]

\* lightConfigParams: what lights, colours and white channels share.
buildLightConfigQuery == {"name", "default_state", "auto_on", "auto_off", "schedule"}

LightSetters ==
    [SetConfig |-> Setter({}, buildLightConfigQuery \cup
         {"btn_type", "btn_reverse", "min_brightness"}, {"schedule_rules"}),
     SetName |-> One("name"), SetDefaultState |-> One("default_state"),
     SetButtonType |-> One("btn_type"), SetAutoOn |-> One("auto_on"),
     SetAutoOff |-> One("auto_off"), SetMinBrightness |-> One("min_brightness")]

DeviceLightSetters ==
    [SetLightConfig |-> Setter({"btn_reverse", "schedule"},
         {"name", "default_state", "auto_on", "auto_off", "btn_type"}, {})]

ColorSetters ==
    [SetConfig |-> Setter({}, buildLightConfigQuery, {"schedule_rules"}),
     SetName |-> One("name"), SetDefaultState |-> One("default_state"),
     SetAutoOn |-> One("auto_on"), SetAutoOff |-> One("auto_off")]

WhiteSetters == ColorSetters

WiFiSetters ==
    [SetWiFiStation |-> Setter({"enabled"}, {"ssid", "key"}, {}),
     SetWiFiStationStatic |-> Setter({"enabled", "ssid", "key", "ipv4_method", "ip", "gw",
                                      "mask"}, {"dns"}, {}),
     SetWiFiAP |-> Setter({"ap_enabled"}, {"ap_ssid", "ap_key"}, {})]

MqttSetters ==
    [SetMQTT |-> Setter({"enable"}, {"server", "user", "pass"}, {}),
     SetMQTTConfig |-> Setter({"enable", "clean_session", "max_qos", "retain"},
         {"server", "user", "pass", "id", "reconnect_timeout_max", "reconnect_timeout_min",
          "keep_alive", "update_period"}, {})]

SystemSetters ==
    [SetCoIoT |-> Setter({"coiot_enable"}, {"coiot_update_period", "coiot_peer"}, {}),
     SetCloud |-> One("cloud"), SetAuth |-> Setter({"login"}, {"username", "password"}, {}),
     SetTimeServer |-> One("sntp_server")]

DeviceSetters ==
    [SetName |-> One("name"), SetTimezone |-> One("timezone"),
     SetLocation |-> Setter({"lat", "lng"}, {}, {})]

ModeSetters ==
    [SetMode |-> One("mode"), SetDiscoverable |-> One("discoverable"),
     SetMaxPower |-> One("max_power")]

\* ClearAction is SetAction without URLs, and so sends none.
ActionSetters == [SetAction |-> Setter({"action_enabled"}, {"action_urls"}, {})]

Objects ==
    [relay |-> RelaySetters @@ InputSetters @@ DeviceRelaySetters,
     roller |-> RollerSetters @@ DeviceRollerSetters,
     light |-> LightSetters @@ DeviceLightSetters,
     color |-> ColorSetters, white |-> WhiteSetters,
     wifi |-> WiFiSetters, mqtt |-> MqttSetters,
     system |-> SystemSetters @@ DeviceSetters @@ ModeSetters @@ ActionSetters]

FieldsOf(s) == s.always \cup s.nonzero \cup s.never
SettingsOf(o) == UNION {FieldsOf(Objects[o][s]) : s \in DOMAIN Objects[o]}

G1Init ==
    /\ topic \in DOMAIN Objects \cup {"rules", "info"}
    /\ settings = IF topic \in DOMAIN Objects THEN [f \in SettingsOf(topic) |-> "old"] ELSE <<>>
    /\ asked = settings /\ because = {}
    /\ rules = {"old"} /\ askedRules = {"old"} /\ adding = [u \in Users |-> {}]
    /\ firmware = 1 /\ cached = 0
    /\ reader = [u \in Users |-> [at |-> "idle", got |-> 0, floor |-> 0]]
    /\ cleared = 0 /\ overtaken = FALSE
    /\ queries = 0

-----------------------------------------------------------------------------
(* Settings.                                                               *)

\* Mutant of Query: what a setter was not given is sent as zero.
QueryOfAll(s, given) ==
    [f \in FieldsOf(s) |-> IF f \in DOMAIN given THEN given[f] ELSE "zero"]

\* The query of a setter that was given some fields and left the others at zero.
Query(s, given) ==
    [f \in s.always \cup {g \in s.nonzero \cap DOMAIN given : given[g] # "zero"} |->
        IF f \in DOMAIN given THEN given[f] ELSE "zero"]

Excuses(s, given) ==
    (IF \E f \in DOMAIN given \ s.always : given[f] = "zero" THEN {"zero"} ELSE {})
    \cup (IF s.never \cap DOMAIN given # {} THEN {"never"} ELSE {})
    \cup (IF \E f \in s.always \ DOMAIN given : settings[f] # "zero" THEN {"unset"} ELSE {})

\* A query sets the settings it names.
Written(device, query) ==
    [f \in DOMAIN device |-> IF f \in DOMAIN query THEN query[f] ELSE device[f]]

Set(s, given) ==
    /\ queries < MaxQueries
    /\ settings' = Written(settings, Query(s, given))
    /\ asked' = Written(asked, given)
    /\ because' = because \cup Excuses(s, given)
    /\ queries' = queries + 1
    /\ UNCHANGED <<topic, rules, askedRules, adding, firmware, cached, reader, cleared, overtaken>>

-----------------------------------------------------------------------------
(* Schedule rules: each user has one of its own.                           *)

SetRules(new, wanted, why) ==
    /\ topic = "rules" /\ queries < MaxQueries
    /\ rules' = new /\ askedRules' = wanted /\ because' = because \cup why
    /\ queries' = queries + 1
    /\ UNCHANGED <<topic, settings, asked, firmware, cached, reader, cleared, overtaken>>

\* Relay.AddScheduleRule reads the relay's rules and then sends them all and its own.
AddReads(u) ==
    /\ topic = "rules" /\ adding[u] = {}
    /\ adding' = [adding EXCEPT ![u] = {rules}]
    /\ UNCHANGED <<topic, settings, asked, because, rules, askedRules, firmware, cached,
                   reader, cleared, overtaken, queries>>

\* Mutant of AddWrites: only the new rule is sent.
AddWritesOne(u) ==
    /\ adding[u] # {}
    /\ adding' = [adding EXCEPT ![u] = {}]
    /\ SetRules({u}, askedRules \cup {u}, IF adding[u] = {rules} THEN {} ELSE {"raced"})

AddWrites(u) ==
    /\ adding[u] # {}
    /\ adding' = [adding EXCEPT ![u] = {}]
    /\ SetRules((UNION adding[u]) \cup {u}, askedRules \cup {u},
                IF adding[u] = {rules} THEN {} ELSE {"raced"})

\* Device.AddScheduleRule sends the one rule, ClearScheduleRules an empty list.
DeviceAddScheduleRule(u) ==
    SetRules(rules \cup {u}, askedRules \cup {u}, {}) /\ UNCHANGED adding

ClearScheduleRules == SetRules({}, {}, {}) /\ UNCHANGED adding

\* A list without rules makes a query without parameters, which changes nothing.
SetScheduleRules(new) ==
    /\ SetRules(IF new = {} THEN rules ELSE new, new, IF new = {} THEN {"empty"} ELSE {})
    /\ UNCHANGED adding

-----------------------------------------------------------------------------
(* Device.GetDeviceInfo and ClearCache.                                    *)

GetInfo(u, from, to, info) ==
    /\ topic = "info" /\ reader[u].at = from
    /\ reader' = [reader EXCEPT ![u] = to]
    /\ cached' = info
    /\ UNCHANGED <<topic, settings, asked, because, rules, askedRules, adding, firmware,
                   cleared, queries>>

\* The test of d.info under the read lock.
TestInfo(u) ==
    /\ GetInfo(u, "idle", [at |-> IF cached # 0 THEN "use" ELSE "fetch", got |-> 0,
                           floor |-> cleared], cached)
    /\ UNCHANGED overtaken

\* d.info once more, without the lock: a nil pointer if it was cleared meanwhile.
UseInfo(u) ==
    /\ GetInfo(u, "use", [reader[u] EXCEPT !.at = IF cached = 0 THEN "panic" ELSE "done",
                                           !.got = cached], cached)
    /\ UNCHANGED overtaken

FetchInfo(u) ==
    /\ GetInfo(u, "fetch", [reader[u] EXCEPT !.at = "store", !.got = firmware], cached)
    /\ UNCHANGED overtaken

StoreInfo(u) ==
    /\ GetInfo(u, "store", [reader[u] EXCEPT !.at = "done"], reader[u].got)
    /\ overtaken' = (overtaken \/ reader[u].got < cleared)

NextInfo(u) ==
    /\ GetInfo(u, "done", [at |-> "idle", got |-> 0, floor |-> 0], cached)
    /\ UNCHANGED overtaken

\* Mutant of ClearCache: the pointer stays.
ClearForgets ==
    /\ topic = "info" /\ cleared' = firmware
    /\ UNCHANGED <<topic, settings, asked, because, rules, askedRules, adding, firmware,
                   cached, reader, overtaken, queries>>

ClearCache ==
    /\ topic = "info" /\ cached' = 0 /\ cleared' = firmware
    /\ UNCHANGED <<topic, settings, asked, because, rules, askedRules, adding, firmware,
                   reader, overtaken, queries>>

NewFirmware ==
    /\ topic = "info" /\ firmware < MaxVersions /\ firmware' = firmware + 1
    /\ UNCHANGED <<topic, settings, asked, because, rules, askedRules, adding, cached,
                   reader, cleared, overtaken, queries>>

-----------------------------------------------------------------------------
Given(s) ==
    (UNION {[{f} -> {"new", "zero"}] : f \in FieldsOf(s)}) \cup {[f \in FieldsOf(s) |-> "new"]}

G1Next ==
    \/ /\ topic \in DOMAIN Objects
       /\ \E s \in DOMAIN Objects[topic] :
             \E given \in Given(Objects[topic][s]) : Set(Objects[topic][s], given)
    \/ \E u \in Users :
          \/ AddReads(u) \/ AddWrites(u) \/ DeviceAddScheduleRule(u)
          \/ TestInfo(u) \/ UseInfo(u) \/ FetchInfo(u) \/ StoreInfo(u) \/ NextInfo(u)
    \/ ClearScheduleRules
    \/ \E new \in SUBSET Users : SetScheduleRules(new)
    \/ ClearCache \/ NewFirmware

G1Spec == G1Init /\ [][G1Next]_gen1Vars

-----------------------------------------------------------------------------
G1TypeOK ==
    /\ because \subseteq {"zero", "never", "unset", "raced", "empty"}
    /\ rules \subseteq Users \cup {"old"}
    /\ cached \in 0..firmware /\ cleared \in 0..firmware
    /\ \A u \in Users :
          reader[u].at \in {"idle", "use", "fetch", "store", "done", "panic"}

\* Setters leave the device with exactly what was asked for, the fields and rules nobody
\* named untouched; unless a zero was given where zero is not sent, a switch that is
\* always sent was not given, or rules were added by two at once.
\* (settings.go:408, 757, components/relay.go:164, 302)
SettingsAsAsked == because = {} => settings = asked /\ rules = askedRules

\* After ClearCache a GetDeviceInfo returns what the device was at that time or later,
\* unless a fetch begun before it was stored after it.  (device.go:51, 369)
FreshAfterClear ==
    ~overtaken => \A u \in Users : reader[u].at = "done" => reader[u].got >= reader[u].floor

\* Programs that share a Gen1 device find it as they left it.
Gen1Sound == SettingsAsAsked /\ FreshAfterClear

\* settings.go:756: SetScheduleRules "replaces all schedule rules for a relay".
ReplacesAllRules == because \subseteq {"empty"} => rules = askedRules

\* device.go:368, ClearCache: "The next call to GetDeviceInfo will fetch fresh data."
NextCallIsFresh ==
    \A u \in Users : reader[u].at = "done" => reader[u].got >= reader[u].floor

\* device.go:50: "The result is cached for subsequent calls": using it does not panic.
CacheIsUsable == \A u \in Users : reader[u].at # "panic"
=============================================================================
