-------------------------- MODULE ComponentTables --------------------------
(***************************************************************************)
(* gen2/components: what every component of a Gen2 device is made of.  One *)
(* definition per component with the service its requests name, whether    *)
(* it has a number, how SetConfig lays its fields out, and the arguments   *)
(* of each of its other methods; and one with the fields of its            *)
(* configuration and status.  A structure inside a structure is one field, *)
(* and the identifier a structure repeats is left to `numbered'.           *)
(***************************************************************************)
EXTENDS FiniteSets, TLC

\* A field that is a pointer, one that is left out at its zero value, and one
\* that is always there.
Fields(optional, nonzero, plain) ==
    [optional |-> optional, nonzero |-> nonzero, plain |-> plain]

NoFields == [config |-> Fields({}, {}, {}), status |-> Fields({}, {}, {})]

\* Arguments that are always sent, when they are not nil, when they are not zero.
Args(always, optional, nonzero) ==
    [always |-> always, optional |-> optional, nonzero |-> nonzero]

NoCalls == <<>>

\* style: "flat" sends the fields beside the number, "nested" sends the structure
\* under "config", "picked" copies the fields there one by one and forgets `lost',
\* "none" has no SetConfig.
Component(service, numbered, style, fields, lost, calls) ==
    [service |-> service, numbered |-> numbered, style |-> style,
     config |-> fields.config, status |-> fields.status, lost |-> lost, calls |-> calls]

-----------------------------------------------------------------------------
(* gen2/component.go, device.go: the plain handle of a component, by type,  *)
(* and the service its requests name.                                       *)

componentTypeNames ==
    [em |-> "EM", em1 |-> "EM1", emdata |-> "EMData", em1data |-> "EM1Data", pm |-> "PM",
     pm1 |-> "PM1", kvs |-> "KVS", wifi |-> "WiFi", ble |-> "BLE", mqtt |-> "Mqtt",
     ui |-> "UI", sys |-> "Sys", ws |-> "Ws", bthome |-> "BTHome",
     bthomedevice |-> "BTHomeDevice", bthomesensor |-> "BTHomeSensor", rgb |-> "RGB",
     rgbw |-> "RGBW", ht_ui |-> "HT_UI", plugs_ui |-> "Plugs_UI",
     sensoraddon |-> "SensorAddon", devicepower |-> "DevicePower"]

\* A type without an entry has its first letter raised.
Raised ==
    [switch |-> "Switch", cover |-> "Cover", light |-> "Light", input |-> "Input",
     voltmeter |-> "Voltmeter", temperature |-> "Temperature", humidity |-> "Humidity",
     smoke |-> "Smoke", thermostat |-> "Thermostat", script |-> "Script",
     schedule |-> "Schedule", webhook |-> "Webhook", eth |-> "Eth", cloud |-> "Cloud",
     modbus |-> "Modbus"]

capitalizedType(typ) ==
    IF typ \in DOMAIN componentTypeNames THEN componentTypeNames[typ] ELSE Raised[typ]

\* The types device.go has an accessor for: Switch(id) to Webhook(id) ...
AccessorsOfThings ==
    {"switch", "cover", "light", "input", "devicepower", "pm", "pm1", "em", "em1",
     "voltmeter", "temperature", "humidity", "smoke", "thermostat", "script", "schedule",
     "webhook"}

\* ... and WiFi(id) to SensorAddon(id).
AccessorsOfSystem ==
    {"wifi", "eth", "ble", "cloud", "mqtt", "ws", "sys", "ui", "kvs", "bthome",
     "bthomedevice", "bthomesensor", "rgb", "rgbw", "modbus", "sensoraddon"}

\* gen2/shelly.go: the methods of the device itself.
ShellyQueries ==
    [GetDeviceInfo |-> Args({}, {}, {}),
     GetStatus |-> Args({}, {}, {}),
     GetConfig |-> Args({}, {}, {}),
     SetConfig |-> Args({"config"}, {}, {}),
     ListMethods |-> Args({}, {}, {})]

ShellyOperations ==
    [Reboot |-> Args({}, {}, {"delay_ms"}),
     FactoryReset |-> Args({}, {}, {}),
     ResetWiFiConfig |-> Args({}, {}, {}),
     CheckForUpdate |-> Args({}, {}, {}),
     Update |-> Args({}, {}, {"stage", "url"}),
     SetAuth |-> Args({}, {}, {"user", "realm", "ha1"}),
     GetComponents |-> Args({"status", "config"}, {}, {})]

ShellyCredentials ==
    [DetectLocation |-> Args({}, {}, {}),
     ListProfiles |-> Args({}, {}, {}),
     SetProfile |-> Args({"name"}, {}, {}),
     PutUserCA |-> Args({"data", "append"}, {}, {}),
     PutTLSClientCert |-> Args({"data"}, {}, {}),
     PutTLSClientKey |-> Args({"data"}, {}, {})]

Shelly ==
    Component("Shelly", FALSE, "none", NoFields, {},
        ShellyQueries @@ ShellyOperations @@ ShellyCredentials)

-----------------------------------------------------------------------------
(* gen2/components.                                                         *)

BLEFields ==
    [config |-> Fields({"enable", "rpc", "observer"}, {}, {}),
     status |-> Fields({}, {}, {})]

BLE ==
    Component("BLE", FALSE, "nested", BLEFields, {}, NoCalls)

BTHomeFields ==
    [config |-> Fields({}, {}, {}),
     status |-> Fields({"discovery"}, {"errors"}, {})]

BTHomeCalls ==
    [AddDevice |-> Args({"config"}, {"id"}, {}),
     DeleteDevice |-> Args({"id"}, {}, {}),
     AddSensor |-> Args({"config"}, {"id"}, {}),
     DeleteSensor |-> Args({"id"}, {}, {}),
     StartDeviceDiscovery |-> Args({}, {"duration"}, {}),
     GetObjectInfos |-> Args({"obj_ids"}, {"offset"}, {})]

BTHome ==
    Component("BTHome", FALSE, "none", BTHomeFields, {}, BTHomeCalls)

BTHomeDeviceFields ==
    [config |-> Fields({"name", "key"}, {"meta"}, {}),
     status |-> Fields({"rssi", "battery", "packet_id"}, {"errors"}, {"last_updated_ts"})]

BTHomeDevice ==
    Component("BTHomeDevice", TRUE, "nested", BTHomeDeviceFields, {},
      [GetKnownObjects |-> Args({"id"}, {}, {})])

BTHomeSensorFields ==
    [config |-> Fields({"name", "obj_id"}, {"meta"}, {}),
     status |-> Fields({}, {}, {"value", "last_updated_ts"})]

BTHomeSensor ==
    Component("BTHomeSensor", TRUE, "nested", BTHomeSensorFields, {}, NoCalls)

CloudFields ==
    [config |-> Fields({"enable", "server"}, {}, {}),
     status |-> Fields({}, {}, {"connected"})]

Cloud ==
    Component("Cloud", FALSE, "nested", CloudFields, {}, NoCalls)

CoverFields ==
    [config |-> Fields({"invert_directions", "name", "motor_idle_confirm_timeout",
        "motor_move_timeout", "obstruction_detection_level", "swap_inputs", "initial_state",
        "power_limit", "voltage_limit", "undervoltage_limit", "current_limit"}, {}, {}),
     status |-> Fields({"aenergy", "target_pos", "apower", "voltage", "current", "pf", "freq",
         "last_direction", "temperature", "current_pos", "move_timeout", "move_started_at",
         "pos_delta"}, {"errors"}, {"source", "state"})]

CoverCalls ==
    [Open |-> Args({"id"}, {"duration"}, {}),
     Close |-> Args({"id"}, {"duration"}, {}),
     Stop |-> Args({"id"}, {}, {}),
     GoToPosition |-> Args({"id", "pos"}, {}, {}),
     Calibrate |-> Args({"id"}, {}, {}),
     ResetCounters |-> Args({"id"}, {}, {"type"})]

Cover ==
    Component("Cover", TRUE, "flat", CoverFields, {}, CoverCalls)

DevicePowerFields ==
    [config |-> Fields({}, {}, {}),
     status |-> Fields({}, {}, {"external", "battery"})]

DevicePower ==
    Component("DevicePower", TRUE, "flat", DevicePowerFields, {}, NoCalls)

EMFields ==
    [config |-> Fields({"name", "blink_mode_selector", "phase_selector",
        "monitor_phase_sequence", "ct_type"}, {}, {}),
     status |-> Fields({"b_freq", "b_pf", "user_calibrated_phase", "a_pf", "a_freq",
         "n_current", "c_pf", "c_freq"}, {"errors"}, {"b_voltage", "b_current", "a_voltage",
         "total_aprt_power", "b_act_power", "c_act_power", "c_aprt_power", "b_aprt_power",
         "c_current", "total_current", "total_act_power", "c_voltage", "a_aprt_power",
         "a_act_power", "a_current"})]

EM ==
    Component("EM", TRUE, "flat", EMFields, {},
      [GetCTTypes |-> Args({"id"}, {}, {}),
       ResetCounters |-> Args({"id"}, {}, {"type"})])

EM1Fields ==
    [config |-> Fields({"name", "ct_type", "reverse"}, {}, {}),
     status |-> Fields({"pf", "freq"}, {"errors"}, {"voltage", "current", "act_power",
         "aprt_power"})]

EM1 ==
    Component("EM1", TRUE, "flat", EM1Fields, {},
      [GetCTTypes |-> Args({"id"}, {}, {})])

EM1DataFields ==
    [config |-> Fields({"name", "data_period", "data_storage_days"}, {}, {}),
     status |-> Fields({"last_record_id", "available_records"}, {"errors"}, {})]

EM1DataCalls ==
    [GetRecords |-> Args({"id"}, {"ts"}, {}),
     GetData |-> Args({"id"}, {"ts", "end_ts"}, {}),
     DeleteAllData |-> Args({"id"}, {}, {})]

EM1Data ==
    Component("EM1Data", TRUE, "flat", EM1DataFields, {}, EM1DataCalls)

EMDataFields ==
    [config |-> Fields({}, {}, {}),
     status |-> Fields({"last_record_id", "available_records"}, {"errors"}, {})]

EMData ==
    Component("EMData", TRUE, "none", EMDataFields, {},
      [GetRecords |-> Args({"id"}, {"ts"}, {}),
       GetData |-> Args({"id"}, {"ts", "end_ts"}, {}),
       DeleteAllData |-> Args({"id"}, {}, {})])

EthernetFields ==
    [config |-> Fields({"enable", "ipv4mode", "ip", "netmask", "gw", "nameserver"}, {}, {}),
     status |-> Fields({"ip"}, {}, {})]

Ethernet ==
    Component("Eth", FALSE, "nested", EthernetFields, {}, NoCalls)

FloodFields ==
    [config |-> Fields({"name", "alarm_mode", "report_holdoff"}, {}, {}),
     status |-> Fields({}, {"errors"}, {"alarm", "mute"})]

Flood ==
    Component("Flood", TRUE, "picked", FloodFields, {}, NoCalls)

HTUIFields ==
    [config |-> Fields({}, {}, {"temperature_unit"}),
     status |-> Fields({}, {}, {})]

HTUI ==
    Component("HT_UI", FALSE, "picked", HTUIFields, {}, NoCalls)

HumidityFields ==
    [config |-> Fields({"name", "report_thr", "offset"}, {}, {}),
     status |-> Fields({}, {"errors"}, {"rh"})]

Humidity ==
    Component("Humidity", TRUE, "picked", HumidityFields, {}, NoCalls)

IlluminanceFields ==
    [config |-> Fields({"name", "dark_thr", "bright_thr"}, {}, {}),
     status |-> Fields({}, {"errors"}, {"lux", "illumination"})]

Illuminance ==
    Component("Illuminance", TRUE, "picked", IlluminanceFields, {}, NoCalls)

InputFields ==
    [config |-> Fields({"report_thr", "freq_window", "enable", "invert", "factory_reset",
        "name", "xpercent", "xfreq", "count_rep_thr", "xcounts", "freq_rep_thr"}, {"range_map"},
        {"type"}),
     status |-> Fields({"counts"}, {"errors"}, {"state", "percent", "xpercent", "freq",
         "xfreq"})]

Input ==
    Component("Input", TRUE, "flat", InputFields, {},
      [CheckExpression |-> Args({"expr", "inputs"}, {}, {}),
       ResetCounters |-> Args({"id"}, {}, {"type"}),
       Trigger |-> Args({"id", "event_type"}, {}, {})])

KVS ==
    Component("KVS", FALSE, "none", NoFields, {},
      [Set |-> Args({"key", "value"}, {}, {}),
       SetWithEtag |-> Args({"key", "value", "etag"}, {}, {}),
       Get |-> Args({"key"}, {}, {}),
       GetMany |-> Args({"match"}, {}, {}),
       List |-> Args({}, {}, {}),
       Delete |-> Args({"key"}, {}, {})])

LightFields ==
    [config |-> Fields({"name", "initial_state", "auto_on", "auto_on_delay", "auto_off",
        "auto_off_delay", "transition_duration", "min_brightness_on_toggle", "night_mode",
        "default_brightness"}, {}, {}),
     status |-> Fields({"transition_duration", "brightness", "timer_started_at",
         "timer_duration", "temperature", "apower", "voltage", "current"}, {"errors"},
         {"source", "output"})]

Light ==
    Component("Light", TRUE, "flat", LightFields, {},
      [Set |-> Args({"id"}, {"on", "brightness", "transition_duration", "toggle_after"}, {}),
       Toggle |-> Args({"id"}, {}, {}),
       ResetCounters |-> Args({"id"}, {}, {"type"})])

ModbusFields ==
    [config |-> Fields({}, {}, {"enable"}),
     status |-> Fields({}, {}, {"enabled"})]

Modbus ==
    Component("Modbus", FALSE, "picked", ModbusFields, {}, NoCalls)

MQTTFields ==
    [config |-> Fields({"enable", "server", "client_id", "user", "pass", "ssl_ca",
        "topic_prefix", "rpc_ntf", "status_ntf", "use_client_cert", "enable_control"}, {}, {}),
     status |-> Fields({}, {}, {"connected"})]

MQTT ==
    Component("MQTT", FALSE, "nested", MQTTFields, {}, NoCalls)

PMFields ==
    [config |-> Fields({"name", "reverse"}, {}, {}),
     status |-> Fields({"freq", "aenergy", "ret_aenergy"}, {"errors"}, {"voltage", "current",
         "apower"})]

PM ==
    Component("PM", TRUE, "flat", PMFields, {},
      [ResetCounters |-> Args({"id"}, {}, {"type"})])

PM1Fields ==
    [config |-> Fields({"name", "reverse"}, {}, {}),
     status |-> Fields({"freq", "aenergy", "ret_aenergy"}, {"errors"}, {"voltage", "current",
         "apower"})]

PM1 ==
    Component("PM1", TRUE, "flat", PM1Fields, {},
      [ResetCounters |-> Args({"id"}, {}, {"type"})])

RGBFields ==
    [config |-> Fields({"auto_off_delay", "button_presets", "initial_state", "auto_on",
        "auto_on_delay", "auto_off", "min_brightness_on_toggle", "name", "night_mode",
        "transition_duration", "default_brightness"}, {"default_rgb"}, {}),
     status |-> Fields({"timer_duration", "transition_duration", "brightness", "current",
         "timer_started_at", "temperature", "voltage", "apower"}, {"rgb", "flags", "errors"},
         {"source", "output"})]

RGB ==
    Component("RGB", TRUE, "flat", RGBFields, {},
      [Set |-> Args({"id"}, {"on", "brightness", "transition_duration", "toggle_after"},
          {"rgb"}),
       Toggle |-> Args({"id"}, {}, {}),
       ResetCounters |-> Args({"id"}, {}, {"type"})])

RGBWFields ==
    [config |-> Fields({"auto_off_delay", "button_presets", "initial_state", "auto_on",
        "auto_on_delay", "auto_off", "name", "min_brightness_on_toggle", "night_mode",
        "transition_duration", "default_brightness", "default_white"}, {"default_rgb"}, {}),
     status |-> Fields({"current", "apower", "brightness", "voltage", "white",
         "timer_started_at", "temperature", "transition_duration", "timer_duration"}, {"rgb",
         "flags", "errors"}, {"source", "output"})]

RGBW ==
    Component("RGBW", TRUE, "flat", RGBWFields, {},
      [Set |-> Args({"id"}, {"on", "brightness", "white", "transition_duration",
          "toggle_after"}, {"rgb"}),
       Toggle |-> Args({"id"}, {}, {}),
       ResetCounters |-> Args({"id"}, {}, {"type"})])

Schedule ==
    Component("Schedule", FALSE, "none", NoFields, {},
      [List |-> Args({}, {}, {}),
       Create |-> Args({"enable", "timespec", "calls"}, {}, {}),
       Update |-> Args({"id"}, {"enable", "timespec", "calls"}, {}),
       Delete |-> Args({"id"}, {}, {}),
       DeleteAll |-> Args({}, {}, {})])

ScriptFields ==
    [config |-> Fields({"name", "enable"}, {}, {}),
     status |-> Fields({"mem_usage", "mem_peak", "mem_free"}, {"errors"}, {"running"})]

ScriptCalls ==
    [List |-> Args({}, {}, {}),
     Create |-> Args({}, {"name"}, {}),
     GetCode |-> Args({"id"}, {}, {}),
     PutCode |-> Args({"id", "code", "append"}, {}, {}),
     Start |-> Args({"id"}, {}, {}),
     Stop |-> Args({"id"}, {}, {}),
     Delete |-> Args({"id"}, {}, {}),
     Eval |-> Args({"id", "code"}, {}, {})]

Script ==
    Component("Script", FALSE, "nested", ScriptFields, {}, ScriptCalls)

SensorAddon ==
    Component("SensorAddon", FALSE, "none", NoFields, {},
      [AddPeripheral |-> Args({"type"}, {"attrs"}, {}),
       GetPeripherals |-> Args({}, {}, {}),
       RemovePeripheral |-> Args({"component"}, {}, {}),
       UpdatePeripheral |-> Args({"component", "attrs"}, {}, {}),
       OneWireScan |-> Args({}, {}, {})])

SmokeFields ==
    [config |-> Fields({"name"}, {}, {}),
     status |-> Fields({}, {}, {"alarm", "mute"})]

Smoke ==
    Component("Smoke", TRUE, "picked", SmokeFields, {},
      [Mute |-> Args({"id"}, {}, {})])

SwitchFields ==
    [config |-> Fields({"auto_off_delay", "power_limit", "initial_state", "auto_on",
        "auto_on_delay", "auto_off", "name", "input_id", "input_mode",
        "autorecover_voltage_errors", "voltage_limit", "undervoltage_limit", "current_limit"},
        {}, {}),
     status |-> Fields({"voltage", "aenergy", "timer_started_at", "timer_duration", "apower",
         "pf", "current", "temperature", "freq"}, {"errors"}, {"source", "output"})]

Switch ==
    Component("Switch", TRUE, "flat", SwitchFields, {},
      [Set |-> Args({"id"}, {"on", "toggle_after"}, {}),
       Toggle |-> Args({"id"}, {}, {}),
       ResetCounters |-> Args({"id"}, {}, {"type"})])

SysFields ==
    [config |-> Fields({"device", "location", "debug", "rpc_udp", "sntp", "cfg_rev"},
        {"ui_data"}, {}),
     status |-> Fields({"schedule_rev", "time", "unixtime", "reset_reason", "wakeup_period",
         "wakeup_reason", "available_updates", "webhook_rev"}, {}, {"mac", "uptime", "kvs_rev",
         "cfg_rev", "fs_free", "fs_size", "ram_free", "ram_size", "restart_required"})]

Sys ==
    Component("Sys", FALSE, "nested", SysFields, {}, NoCalls)

TemperatureFields ==
    [config |-> Fields({"name", "report_thr_C", "offset_C"}, {}, {}),
     status |-> Fields({}, {"errors"}, {"tC", "tF"})]

Temperature ==
    Component("Temperature", TRUE, "picked", TemperatureFields, {}, NoCalls)

ThermostatFields ==
    [config |-> Fields({"default_override_duration", "flags", "target_C", "override_enable",
        "min_valve_position", "default_boost_duration", "temp_offset", "enable",
        "humidity_offset", "temp_unit", "thermostat_mode", "default_override_target_C"}, {},
        {}),
     status |-> Fields({"target_humidity", "schedule_rev", "steps", "current_C", "current_F",
         "target_C", "pos", "target_F", "current_humidity", "output", "boost", "override"},
         {"flags", "errors"}, {})]

ThermostatCalls ==
    [Boost |-> Args({"id"}, {}, {"duration"}),
     CancelBoost |-> Args({"id"}, {}, {}),
     Override |-> Args({"id"}, {}, {"target_C", "duration"}),
     CancelOverride |-> Args({"id"}, {}, {}),
     Calibrate |-> Args({"id"}, {}, {})]

Thermostat ==
    Component("Thermostat", TRUE, "picked", ThermostatFields, {}, ThermostatCalls)

UIFields ==
    [config |-> Fields({"idle_brightness", "lock", "temp_units", "flip", "brightness"}, {}, {}),
     status |-> Fields({}, {}, {})]

UI ==
    Component("Ui", FALSE, "picked", UIFields, {}, NoCalls)

PlugsUIFields ==
    [config |-> Fields({"leds"}, {}, {}),
     status |-> Fields({}, {}, {})]

PlugsUI ==
    Component("PLUGS_UI", FALSE, "picked", PlugsUIFields, {}, NoCalls)

Virtual ==
    Component("Virtual", FALSE, "none", NoFields, {},
      [Add |-> Args({"type"}, {"config"}, {"id"}),
       Delete |-> Args({"key"}, {}, {})])

VirtualBooleanFields ==
    [config |-> Fields({"name", "default_value", "persisted", "meta"}, {}, {}),
     status |-> Fields({"value"}, {}, {})]

VirtualBoolean ==
    Component("Boolean", TRUE, "picked", VirtualBooleanFields, {"meta"},
      [Set |-> Args({"id", "value"}, {}, {}),
       Toggle |-> Args({"id"}, {}, {})])

VirtualNumberFields ==
    [config |-> Fields({"name", "min", "max", "step", "default_value", "persisted", "unit",
        "meta"}, {}, {}),
     status |-> Fields({"value"}, {}, {})]

VirtualNumber ==
    Component("Number", TRUE, "picked", VirtualNumberFields, {"meta"},
      [Set |-> Args({"id", "value"}, {}, {})])

VirtualTextFields ==
    [config |-> Fields({"name", "max_len", "default_value", "persisted", "meta"}, {}, {}),
     status |-> Fields({"value"}, {}, {})]

VirtualText ==
    Component("Text", TRUE, "picked", VirtualTextFields, {"meta"},
      [Set |-> Args({"id", "value"}, {}, {})])

VirtualEnumFields ==
    [config |-> Fields({"name", "default_value", "persisted", "meta"}, {"options"}, {}),
     status |-> Fields({"value"}, {}, {})]

VirtualEnum ==
    Component("Enum", TRUE, "picked", VirtualEnumFields, {"meta"},
      [Set |-> Args({"id", "value"}, {}, {})])

VirtualButtonFields ==
    [config |-> Fields({"name", "meta"}, {}, {}),
     status |-> Fields({"last_pressed"}, {}, {})]

VirtualButton ==
    Component("Button", TRUE, "picked", VirtualButtonFields, {"meta"},
      [Trigger |-> Args({"id"}, {}, {})])

VirtualGroupFields ==
    [config |-> Fields({"name", "meta"}, {"members"}, {}),
     status |-> Fields({}, {}, {})]

VirtualGroup ==
    Component("Group", TRUE, "picked", VirtualGroupFields, {"meta"}, NoCalls)

VoltmeterFields ==
    [config |-> Fields({"name", "report_thr", "range", "xvoltage"}, {}, {}),
     status |-> Fields({"xvoltage"}, {"errors"}, {"voltage"})]

Voltmeter ==
    Component("Voltmeter", TRUE, "flat", VoltmeterFields, {}, NoCalls)

Webhook ==
    Component("Webhook", FALSE, "none", NoFields, {},
      [List |-> Args({}, {}, {}),
       Create |-> Args({"cid", "enable", "event", "urls"}, {"name", "ssl_ca", "active_between",
          "condition", "repeat_period"}, {}),
       Update |-> Args({"id"}, {"name", "ssl_ca", "active_between", "condition",
          "repeat_period"}, {"enable", "event", "urls"}),
       Delete |-> Args({"id"}, {}, {}),
       DeleteAll |-> Args({}, {}, {}),
       ListSupported |-> Args({}, {}, {})])

WiFiFields ==
    [config |-> Fields({"ap", "sta", "sta1", "roam"}, {}, {}),
     status |-> Fields({"sta_ip", "ssid", "rssi", "ap_client_count"}, {"status"}, {})]

WiFi ==
    Component("Wifi", FALSE, "nested", WiFiFields, {},
      [Scan |-> Args({}, {}, {}),
       ListAPClients |-> Args({}, {}, {})])

WsFields ==
    [config |-> Fields({"enable", "server", "ssl_ca"}, {}, {}),
     status |-> Fields({}, {}, {"connected"})]

Ws ==
    Component("Ws", FALSE, "nested", WsFields, {}, NoCalls)

Components ==
    [Shelly |-> Shelly, BLE |-> BLE, BTHome |-> BTHome, BTHomeDevice |-> BTHomeDevice,
        BTHomeSensor |-> BTHomeSensor, Cloud |-> Cloud, Cover |-> Cover, DevicePower |->
        DevicePower, EM |-> EM, EM1 |-> EM1, EM1Data |-> EM1Data, EMData |-> EMData, Ethernet
        |-> Ethernet, Flood |-> Flood, HTUI |-> HTUI, Humidity |-> Humidity, Illuminance |->
        Illuminance, Input |-> Input, KVS |-> KVS, Light |-> Light, Modbus |-> Modbus, MQTT |->
        MQTT, PM |-> PM, PM1 |-> PM1, RGB |-> RGB, RGBW |-> RGBW, Schedule |-> Schedule, Script
        |-> Script, SensorAddon |-> SensorAddon, Smoke |-> Smoke, Switch |-> Switch, Sys |->
        Sys, Temperature |-> Temperature, Thermostat |-> Thermostat, UI |-> UI, PlugsUI |->
        PlugsUI, Virtual |-> Virtual, VirtualBoolean |-> VirtualBoolean, VirtualNumber |->
        VirtualNumber, VirtualText |-> VirtualText, VirtualEnum |-> VirtualEnum, VirtualButton
        |-> VirtualButton, VirtualGroup |-> VirtualGroup, Voltmeter |-> Voltmeter, Webhook |->
        Webhook, WiFi |-> WiFi, Ws |-> Ws]
=============================================================================
