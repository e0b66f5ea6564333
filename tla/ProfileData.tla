---------------------------- MODULE ProfileData ----------------------------
(***************************************************************************)
(* profiles/gen1, gen2, gen3, gen4, blu and wave: the device profiles that *)
(* each package registers when it is imported.  A profile keeps what the   *)
(* registry and the detection look at: its model, as the two letters that  *)
(* say the generation and the rest, its application name, series, form and *)
(* power source, its components with their numbers, its capabilities,      *)
(* protocols and sensors.  Display names and limits are left out.          *)
(***************************************************************************)
EXTENDS Naturals

\* A profile but for what all of a group have in common.
P(prefix, rest, app, series, form, power, components, capabilities, sensors) ==
    [model |-> <<prefix, rest>>, app |-> app, series |-> series, form |-> form, power |-> power,
     components |-> components, capabilities |-> capabilities, sensors |-> sensors]

Group(generation, protocols, profiles) ==
    {[model |-> p.model, app |-> p.app, series |-> p.series, form |-> p.form, power |-> p.power,
      components |-> p.components, capabilities |-> p.capabilities, sensors |-> p.sensors,
      generation |-> generation, protocols |-> protocols] : p \in profiles}

DefaultGen1Capabilities == {"Schedules", "Actions"}
DefaultGen2Capabilities ==
    {"Scripting", "Schedules", "AdvancedSchedules", "Webhooks", "KVS", "VirtualComponents",
     "InputEvents"}
DefaultGen1Protocols == {"HTTP", "MQTT", "CoIoT"}
DefaultGen2Protocols == {"HTTP", "WebSocket", "MQTT", "BLE"}

\* What a profile adds to the defaults; a capability that is not named is lost.
CommonCaps ==
    {"PowerMetering", "EnergyMetering", "CoverSupport", "DimmingSupport", "ColorSupport",
     "ColorTemperature", "SensorAddon", "ExternalSensors", "Calibration", "Effects", "NoNeutral",
     "ThreePhase"}

MergeGen1Caps(caps) == DefaultGen1Capabilities \cup (caps \cap (CommonCaps \cup {"InputEvents"}))

\* Mutant of MergeGen2Caps: one of the flags is forgotten.
MergeGen2CapsButMeters(caps) ==
    DefaultGen2Capabilities
        \cup (caps \cap ((CommonCaps \ {"PowerMetering"}) \cup {"BidirectionalMetering"}))

MergeGen2Caps(caps) ==
    DefaultGen2Capabilities \cup (caps \cap (CommonCaps \cup {"BidirectionalMetering"}))

Gen1Energy == Group(1, DefaultGen1Protocols, {
    P("SH", "EM", "", "Classic", "DIN", "Mains",
      [Switches |-> 1, EnergyMeters |-> 2],
      MergeGen1Caps({"PowerMetering", "EnergyMetering"}), {"Voltage", "Current", "Power", "Energy",
       "PowerFactor"}),
    P("SH", "EM-3", "", "Classic", "DIN", "Mains",
      [Switches |-> 1, EnergyMeters |-> 3],
      MergeGen1Caps({"PowerMetering", "EnergyMetering", "ThreePhase"}), {"Voltage", "Current",
       "Power", "Energy", "PowerFactor"})})

Gen1Inputs == Group(1, DefaultGen1Protocols, {
    P("SH", "IX3-1", "", "Classic", "Flush", "Mains",
      [Inputs |-> 3], MergeGen1Caps({"InputEvents"}), {}),
    P("SH", "BTN-1", "", "Classic", "Sensor", "Battery",
      [Inputs |-> 1], MergeGen1Caps({"InputEvents"}), {"Battery"}),
    P("SH", "BTN-2", "", "Classic", "Sensor", "Battery",
      [Inputs |-> 1], MergeGen1Caps({"InputEvents"}), {"Battery"}),
    P("SH", "UNI-1", "", "Classic", "Flush", "DC",
      [Switches |-> 2, Inputs |-> 2, ADCChannels |-> 1],
      MergeGen1Caps({"InputEvents", "ExternalSensors", "SensorAddon"}), {})})

Gen1Dimmers == Group(1, DefaultGen1Protocols, {
    P("SH", "DM-2", "", "Classic", "Flush", "Mains",
      [Lights |-> 1, Inputs |-> 2, PowerMeters |-> 1],
      MergeGen1Caps({"DimmingSupport", "PowerMetering", "NoNeutral", "InputEvents"}), {}),
    P("SH", "DM-1", "", "Classic", "Flush", "Mains",
      [Lights |-> 1, Inputs |-> 2, PowerMeters |-> 1],
      MergeGen1Caps({"DimmingSupport", "PowerMetering", "NoNeutral", "InputEvents"}), {}),
    P("SH", "RGBW2", "", "Classic", "Flush", "DC",
      [Lights |-> 1, RGBChannels |-> 1, WhiteChannels |-> 1, Inputs |-> 1, PowerMeters |-> 1],
      MergeGen1Caps({"DimmingSupport", "ColorSupport", "PowerMetering", "Effects", "InputEvents"}),
       {}),
    P("SH", "BDUO-1", "", "Classic", "Bulb", "Mains",
      [Lights |-> 1, WhiteChannels |-> 1, PowerMeters |-> 1],
      MergeGen1Caps({"DimmingSupport", "ColorTemperature", "PowerMetering"}), {})})

Gen1Bulbs == Group(1, DefaultGen1Protocols, {
    P("SH", "BDUO-G10", "", "Classic", "Bulb", "Mains",
      [Lights |-> 1, WhiteChannels |-> 1, PowerMeters |-> 1],
      MergeGen1Caps({"DimmingSupport", "ColorTemperature", "PowerMetering"}), {}),
    P("SH", "VIN-1", "", "Classic", "Bulb", "Mains",
      [Lights |-> 1, PowerMeters |-> 1], MergeGen1Caps({"DimmingSupport", "PowerMetering"}), {}),
    P("SH", "BLB-1", "", "Classic", "Bulb", "Mains",
      [Lights |-> 1, RGBChannels |-> 1, WhiteChannels |-> 1, PowerMeters |-> 1],
      MergeGen1Caps({"DimmingSupport", "ColorSupport", "ColorTemperature", "PowerMetering",
       "Effects"}), {}),
    P("SH", "CB-1", "", "Classic", "Bulb", "Mains",
      [Lights |-> 1, RGBChannels |-> 1, WhiteChannels |-> 1, PowerMeters |-> 1],
      MergeGen1Caps({"DimmingSupport", "ColorSupport", "ColorTemperature", "PowerMetering",
       "Effects"}), {})})

Gen1Plugs == Group(1, DefaultGen1Protocols, {
    P("SH", "PLG-1", "", "Classic", "Plug", "Mains",
      [Switches |-> 1, PowerMeters |-> 1], MergeGen1Caps({"PowerMetering"}), {}),
    P("SH", "PLG-S", "", "Classic", "Plug", "Mains",
      [Switches |-> 1, PowerMeters |-> 1], MergeGen1Caps({"PowerMetering"}), {}),
    P("SH", "PLG-U1", "", "Classic", "Plug", "Mains",
      [Switches |-> 1, PowerMeters |-> 1], MergeGen1Caps({"PowerMetering"}), {})})

Gen1Relays == Group(1, DefaultGen1Protocols, {
    P("SH", "SW-1", "", "Classic", "Flush", "Mains",
      [Switches |-> 1, Inputs |-> 1], MergeGen1Caps({"InputEvents"}), {}),
    P("SH", "SW-PM", "", "Classic", "Flush", "Mains",
      [Switches |-> 1, Inputs |-> 1, PowerMeters |-> 1],
      MergeGen1Caps({"PowerMetering", "InputEvents"}), {}),
    P("SH", "SW-L", "", "Classic", "Flush", "Mains",
      [Switches |-> 1, Inputs |-> 2], MergeGen1Caps({"NoNeutral", "InputEvents"}), {})})

Gen1Rollers == Group(1, DefaultGen1Protocols, {
    P("SH", "SW-21", "", "Classic", "Flush", "Mains",
      [Switches |-> 2, Inputs |-> 2, PowerMeters |-> 1],
      MergeGen1Caps({"PowerMetering", "CoverSupport", "Calibration", "InputEvents"}), {}),
    P("SH", "SW-25", "", "Classic", "Flush", "Mains",
      [Switches |-> 2, Covers |-> 1, Inputs |-> 2, PowerMeters |-> 2],
      MergeGen1Caps({"PowerMetering", "CoverSupport", "Calibration", "InputEvents"}), {}),
    P("SH", "SW-44", "", "Classic", "DIN", "Mains",
      [Switches |-> 4, Inputs |-> 4, PowerMeters |-> 4],
      MergeGen1Caps({"PowerMetering", "InputEvents"}), {})})

Gen1Sensors == Group(1, DefaultGen1Protocols, {
    P("SH", "HT-1", "", "Classic", "Sensor", "Battery",
      [TemperatureSensors |-> 1, HumiditySensors |-> 1],
      DefaultGen1Capabilities, {"Temperature", "Humidity", "Battery"}),
    P("SH", "WT-1", "", "Classic", "Sensor", "Battery",
      [TemperatureSensors |-> 1], DefaultGen1Capabilities, {"Flood", "Temperature", "Battery"}),
    P("SH", "DW-2", "", "Classic", "Sensor", "Battery",
      [TemperatureSensors |-> 1],
      DefaultGen1Capabilities, {"Contact", "Vibration", "Tilt", "Illuminance", "Temperature",
       "Battery"}),
    P("SH", "DW-1", "", "Classic", "Sensor", "Battery",
      [TemperatureSensors |-> 1],
      DefaultGen1Capabilities, {"Contact", "Illuminance", "Temperature", "Battery"}),
    P("SH", "GS-1", "", "Classic", "WallMount", "Mains",
      <<>>, MergeGen1Caps({"InputEvents"}), {"Gas"})})

Gen1Detectors == Group(1, DefaultGen1Protocols, {
    P("SH", "SM-01", "", "Classic", "Sensor", "Battery",
      [TemperatureSensors |-> 1], DefaultGen1Capabilities, {"Smoke", "Temperature", "Battery"}),
    P("SH", "MOS-01", "", "Classic", "Sensor", "Battery",
      <<>>, MergeGen1Caps({"InputEvents"}), {"Motion", "Illuminance", "Battery"}),
    P("SH", "MOS-02", "", "Classic", "Sensor", "Battery",
      [TemperatureSensors |-> 1],
      MergeGen1Caps({"InputEvents"}), {"Motion", "Illuminance", "Temperature", "Battery"}),
    P("SH", "TRV-01", "", "Classic", "Radiator", "Battery",
      [TemperatureSensors |-> 1, Thermostat |-> 1],
      MergeGen1Caps({"Calibration"}), {"Temperature", "Battery"})})

Gen2Inputs == Group(2, DefaultGen2Protocols, {
    P("SN", "SN-0024X", "Plusi4", "Plus", "Flush", "Mains",
      [Inputs |-> 4], MergeGen2Caps({"InputEvents"}), {}),
    P("SN", "SN-0D24X", "Plusi4DC", "Plus", "Flush", "DC",
      [Inputs |-> 4], MergeGen2Caps({"InputEvents"}), {}),
    P("SN", "UN-001", "PlusUNI", "Plus", "Flush", "DC",
      [Switches |-> 2, Inputs |-> 2, ADCChannels |-> 1],
      MergeGen2Caps({"InputEvents", "ExternalSensors", "SensorAddon"}), {})})

Gen2Lighting == Group(2, DefaultGen2Protocols, {
    P("SN", "DM-0013US", "PlusWallDimmer", "Plus", "WallMount", "Mains",
      [Lights |-> 1, Inputs |-> 2, PowerMeters |-> 1],
      MergeGen2Caps({"DimmingSupport", "PowerMetering", "NoNeutral", "InputEvents"}), {}),
    P("SN", "DM-00100WW", "Plus010VDimmer", "Plus", "Flush", "Mains",
      [Lights |-> 1, Inputs |-> 2], MergeGen2Caps({"DimmingSupport", "InputEvents"}), {}),
    P("SN", "DC-0D4P10WW", "PlusRGBWPM", "Plus", "Flush", "DC",
      [Lights |-> 1, RGBChannels |-> 1, WhiteChannels |-> 1, Inputs |-> 4, PowerMeters |-> 1],
      MergeGen2Caps({"DimmingSupport", "ColorSupport", "ColorTemperature", "PowerMetering",
       "Effects", "InputEvents"}), {})})

Gen2Plugs == Group(2, DefaultGen2Protocols, {
    P("SN", "PL-00112EU", "PlusPlugS", "Plus", "Plug", "Mains",
      [Switches |-> 1, PowerMeters |-> 1], MergeGen2Caps({"PowerMetering"}), {}),
    P("SN", "PL-00116US", "PlusPlugUS", "Plus", "Plug", "Mains",
      [Switches |-> 1, PowerMeters |-> 1], MergeGen2Caps({"PowerMetering"}), {}),
    P("SN", "PL-00110IT", "PlusPlugIT", "Plus", "Plug", "Mains",
      [Switches |-> 1, PowerMeters |-> 1], MergeGen2Caps({"PowerMetering"}), {}),
    P("SN", "PL-00112UK", "PlusPlugUK", "Plus", "Plug", "Mains",
      [Switches |-> 1, PowerMeters |-> 1], MergeGen2Caps({"PowerMetering"}), {})})

Gen2ProSwitches == Group(2, DefaultGen2Protocols \cup {"Ethernet"}, {
    P("SP", "SW-001XE16EU", "Pro1", "Pro", "DIN", "Mains",
      [Switches |-> 1, Inputs |-> 2], MergeGen2Caps({"InputEvents"}), {}),
    P("SP", "SW-001PE16EU", "Pro1PM", "Pro", "DIN", "Mains",
      [Switches |-> 1, Inputs |-> 2, PowerMeters |-> 1],
      MergeGen2Caps({"PowerMetering", "InputEvents"}), {}),
    P("SP", "SW-002XE16EU", "Pro2", "Pro", "DIN", "Mains",
      [Switches |-> 2, Inputs |-> 2], MergeGen2Caps({"InputEvents"}), {}),
    P("SP", "SW-002PE16EU", "Pro2PM", "Pro", "DIN", "Mains",
      [Switches |-> 2, Covers |-> 1, Inputs |-> 2, PowerMeters |-> 2],
      MergeGen2Caps({"PowerMetering", "CoverSupport", "Calibration", "InputEvents"}), {}),
    P("SP", "SW-003XE16EU", "Pro3", "Pro", "DIN", "Mains",
      [Switches |-> 3, Inputs |-> 3], MergeGen2Caps({"InputEvents"}), {})})

Gen2ProMeters == Group(2, DefaultGen2Protocols \cup {"Ethernet"}, {
    P("SP", "EM-003CEBEU", "Pro3EM", "Pro", "DIN", "Mains",
      [EnergyMeters |-> 3, Switches |-> 1],
      MergeGen2Caps({"PowerMetering", "EnergyMetering", "ThreePhase", "BidirectionalMetering"}),
       {"Voltage", "Current", "Power", "Energy", "PowerFactor"}),
    P("SP", "SW-004PE16EU", "Pro4PM", "Pro", "DIN", "Mains",
      [Switches |-> 4, Inputs |-> 4, PowerMeters |-> 4],
      MergeGen2Caps({"PowerMetering", "InputEvents"}), {}),
    P("SP", "DM-001PE01EU", "ProDimmer1PM", "Pro", "DIN", "Mains",
      [Lights |-> 1, Inputs |-> 2, PowerMeters |-> 1],
      MergeGen2Caps({"DimmingSupport", "PowerMetering", "InputEvents"}), {})})

Gen2ProCovers == Group(2, DefaultGen2Protocols \cup {"Ethernet"}, {
    P("SP", "DM-002PE01EU", "ProDimmer2PM", "Pro", "DIN", "Mains",
      [Lights |-> 2, Inputs |-> 4, PowerMeters |-> 2],
      MergeGen2Caps({"DimmingSupport", "PowerMetering", "InputEvents"}), {}),
    P("SP", "SH-002PE16EU", "ProDualCoverPM", "Pro", "DIN", "Mains",
      [Covers |-> 2, Inputs |-> 4, PowerMeters |-> 2],
      MergeGen2Caps({"CoverSupport", "PowerMetering", "Calibration", "InputEvents"}), {}),
    P("SP", "EM-002CEBEU50", "ProEM50", "Pro", "DIN", "Mains",
      [EnergyMeters |-> 2, Switches |-> 1],
      MergeGen2Caps({"PowerMetering", "EnergyMetering"}), {"Voltage", "Current", "Power", "Energy",
       "PowerFactor"})})

Gen2Relays == Group(2, DefaultGen2Protocols, {
    P("SN", "SW-001X16EU", "Plus1", "Plus", "Flush", "Mains",
      [Switches |-> 1, Inputs |-> 1], MergeGen2Caps({"InputEvents"}), {}),
    P("SN", "SW-001P16EU", "Plus1PM", "Plus", "Flush", "Mains",
      [Switches |-> 1, Inputs |-> 1, PowerMeters |-> 1],
      MergeGen2Caps({"PowerMetering", "InputEvents"}), {}),
    P("SN", "SW-001X8EU", "Plus1Mini", "Mini", "Flush", "Mains",
      [Switches |-> 1, Inputs |-> 1], MergeGen2Caps({"InputEvents"}), {}),
    P("SN", "SW-001P8EU", "Plus1PMMini", "Mini", "Flush", "Mains",
      [Switches |-> 1, Inputs |-> 1, PowerMeters |-> 1],
      MergeGen2Caps({"PowerMetering", "InputEvents"}), {}),
    P("SN", "SW-002P16EU", "Plus2PM", "Plus", "Flush", "Mains",
      [Switches |-> 2, Covers |-> 1, Inputs |-> 2, PowerMeters |-> 2],
      MergeGen2Caps({"PowerMetering", "CoverSupport", "Calibration", "InputEvents"}), {})})

Gen2Sensors == Group(2, DefaultGen2Protocols, {
    P("SN", "SN-0013A", "PlusHT", "Plus", "Sensor", "Battery",
      [TemperatureSensors |-> 1, HumiditySensors |-> 1],
      DefaultGen2Capabilities, {"Temperature", "Humidity", "Battery"}),
    P("SN", "SN-0031Z", "PlusSmoke", "Plus", "Sensor", "Battery",
      [TemperatureSensors |-> 1], DefaultGen2Capabilities, {"Smoke", "Temperature", "Battery"}),
    P("SN", "PM-001PCEU", "PlusPMMini", "Mini", "Flush", "Mains",
      [PowerMeters |-> 1], MergeGen2Caps({"PowerMetering", "EnergyMetering"}), {})})

Gen3Lighting == Group(3, DefaultGen2Protocols, {
    P("S3", "DM-0010WW", "DimmerG3", "Standard", "Flush", "Mains",
      [Lights |-> 1, Inputs |-> 2, PowerMeters |-> 1],
      MergeGen2Caps({"DimmingSupport", "PowerMetering", "NoNeutral", "InputEvents"}), {}),
    P("S3", "DM-0D10WW", "Dimmer010VG3", "Standard", "Flush", "Mains",
      [Lights |-> 1, Inputs |-> 2, PowerMeters |-> 1],
      MergeGen2Caps({"DimmingSupport", "PowerMetering", "InputEvents"}), {}),
    P("S3", "DM-0D0WW", "DALIDimmerG3", "Standard", "DIN", "Mains",
      [Lights |-> 1, Inputs |-> 2], MergeGen2Caps({"DimmingSupport", "InputEvents"}), {})})

\* Mutant of Gen3Plugs: a profile copied with its application name.
Gen3PlugsCopied == Group(3, DefaultGen2Protocols, {
    P("S3", "PL-00112EU", "PlugSG3", "Standard", "Plug", "Mains",
      [Switches |-> 1, PowerMeters |-> 1], MergeGen2Caps({"PowerMetering"}), {}),
    P("S3", "PL-00212EU", "PlugSG3", "Standard", "Outdoor", "Mains",
      [Switches |-> 1, PowerMeters |-> 1], MergeGen2Caps({"PowerMetering"}), {})})

Gen3Plugs == Group(3, DefaultGen2Protocols, {
    P("S3", "PL-00112EU", "PlugSG3", "Standard", "Plug", "Mains",
      [Switches |-> 1, PowerMeters |-> 1], MergeGen2Caps({"PowerMetering"}), {}),
    P("S3", "PL-00112EUMTR", "PlugSMTRG3", "Standard", "Plug", "Mains",
      [Switches |-> 1, PowerMeters |-> 1], MergeGen2Caps({"PowerMetering", "EnergyMetering"}), {}),
    P("S3", "PL-00212EU", "OutdoorPlugSG3", "Standard", "Outdoor", "Mains",
      [Switches |-> 1, PowerMeters |-> 1], MergeGen2Caps({"PowerMetering"}), {}),
    P("S3", "PL-10112EU", "PlugPMG3", "Standard", "Plug", "Mains",
      [Switches |-> 1, PowerMeters |-> 1], MergeGen2Caps({"PowerMetering", "EnergyMetering"}), {})})

Gen3Relays == Group(3, DefaultGen2Protocols, {
    P("S3", "SW-001X16EU", "Plus1G3", "Standard", "Flush", "Mains",
      [Switches |-> 1, Inputs |-> 1], MergeGen2Caps({"InputEvents"}), {}),
    P("S3", "SW-001P16EU", "Plus1PMG3", "Standard", "Flush", "Mains",
      [Switches |-> 1, Inputs |-> 1, PowerMeters |-> 1],
      MergeGen2Caps({"PowerMetering", "InputEvents"}), {}),
    P("S3", "SW-001L16EU", "Plus1LG3", "Standard", "Flush", "Mains",
      [Switches |-> 1, Inputs |-> 2], MergeGen2Caps({"NoNeutral", "InputEvents"}), {}),
    P("S3", "SW-002P16EU", "Plus2PMG3", "Standard", "Flush", "Mains",
      [Switches |-> 2, Covers |-> 1, Inputs |-> 2, PowerMeters |-> 2],
      MergeGen2Caps({"PowerMetering", "CoverSupport", "Calibration", "InputEvents"}), {}),
    P("S3", "SW-002L16EU", "Plus2LG3", "Standard", "Flush", "Mains",
      [Switches |-> 2, Inputs |-> 2], MergeGen2Caps({"NoNeutral", "InputEvents"}), {})})

Gen3Minis == Group(3, DefaultGen2Protocols, {
    P("S3", "SW-001X8EU", "Plus1MiniG3", "Mini", "Flush", "Mains",
      [Switches |-> 1, Inputs |-> 1], MergeGen2Caps({"InputEvents"}), {}),
    P("S3", "SW-001P8EU", "Plus1PMMiniG3", "Mini", "Flush", "Mains",
      [Switches |-> 1, Inputs |-> 1, PowerMeters |-> 1],
      MergeGen2Caps({"PowerMetering", "InputEvents"}), {}),
    P("S3", "PM-001PCEU", "PMMiniG3", "Mini", "Flush", "Mains",
      [PowerMeters |-> 1], MergeGen2Caps({"PowerMetering", "EnergyMetering"}), {}),
    P("S3", "SW-002PCEU", "ShutterG3", "Standard", "Flush", "Mains",
      [Covers |-> 1, Inputs |-> 2, PowerMeters |-> 1],
      MergeGen2Caps({"CoverSupport", "PowerMetering", "Calibration", "InputEvents"}), {})})

Gen3Sensors == Group(3, DefaultGen2Protocols, {
    P("S3", "SN-0024X", "i4G3", "Standard", "Flush", "Mains",
      [Inputs |-> 4], MergeGen2Caps({"InputEvents"}), {}),
    P("S3", "SN-0U12A", "HTG3", "Standard", "Sensor", "Battery",
      [TemperatureSensors |-> 1, HumiditySensors |-> 1],
      DefaultGen2Capabilities, {"Temperature", "Humidity", "Battery"}),
    P("S3", "EM-002CXCEU", "EMG3", "Standard", "DIN", "Mains",
      [EnergyMeters |-> 2, Switches |-> 1],
      MergeGen2Caps({"PowerMetering", "EnergyMetering"}), {"Voltage", "Current", "Power", "Energy",
       "PowerFactor"}),
    P("S3", "EM-003CXCEU", "3EM63G3", "Standard", "DIN", "Mains",
      [EnergyMeters |-> 3, Switches |-> 1],
      MergeGen2Caps({"PowerMetering", "EnergyMetering", "ThreePhase", "BidirectionalMetering"}),
       {"Voltage", "Current", "Power", "Energy", "PowerFactor"})})

Gen4Relays == Group(4, DefaultGen2Protocols \cup {"Matter", "Zigbee"}, {
    P("S4", "SW-001X16EU", "Plus1G4", "Standard", "Flush", "Mains",
      [Switches |-> 1, Inputs |-> 1], MergeGen2Caps({"InputEvents"}), {}),
    P("S4", "SW-001P16EU", "Plus1PMG4", "Standard", "Flush", "Mains",
      [Switches |-> 1, Inputs |-> 1, PowerMeters |-> 1],
      MergeGen2Caps({"PowerMetering", "InputEvents"}), {}),
    P("S4", "SW-002P16EU", "Plus2PMG4", "Standard", "Flush", "Mains",
      [Switches |-> 2, Covers |-> 1, Inputs |-> 2, PowerMeters |-> 2],
      MergeGen2Caps({"PowerMetering", "CoverSupport", "Calibration", "InputEvents"}), {}),
    P("S4", "SW-001X8EU", "Plus1MiniG4", "Mini", "Flush", "Mains",
      [Switches |-> 1, Inputs |-> 1], MergeGen2Caps({"InputEvents"}), {}),
    P("S4", "SW-001P8EU", "Plus1PMMiniG4", "Mini", "Flush", "Mains",
      [Switches |-> 1, Inputs |-> 1, PowerMeters |-> 1],
      MergeGen2Caps({"PowerMetering", "InputEvents"}), {})})

Gen4Others == Group(4, DefaultGen2Protocols \cup {"Matter", "Zigbee"}, {
    P("S4", "EM-001XCEU", "EMMiniG4", "Mini", "Flush", "Mains",
      [EnergyMeters |-> 1],
      MergeGen2Caps({"PowerMetering", "EnergyMetering"}), {"Voltage", "Current", "Power", "Energy",
       "PowerFactor"}),
    P("S4", "PL-00116US", "PlugUSG4", "Standard", "Plug", "Mains",
      [Switches |-> 1, PowerMeters |-> 1], MergeGen2Caps({"PowerMetering"}), {}),
    P("S4", "SN-0W1X", "FloodG4", "Standard", "Sensor", "Battery",
      [TemperatureSensors |-> 1], DefaultGen2Capabilities, {"Flood", "Temperature", "Battery"}),
    P("S4", "WD-00695EU", "WallDisplayX2", "Standard", "WallMount", "Mains",
      [Display |-> 1, Switches |-> 2, TemperatureSensors |-> 1, HumiditySensors |-> 1],
      MergeGen2Caps({"InputEvents"}), {"Temperature", "Humidity", "Illuminance"})})

BluDevices == Group(2, {"BLE"}, {
    P("SB", "BT-002C", "BLUButton1", "BLU", "Sensor", "Battery",
      [Inputs |-> 1], {"InputEvents"}, {"Battery"}),
    P("SB", "DW-002C", "BLUDoorWindow", "BLU", "Sensor", "Battery",
      [TemperatureSensors |-> 1],
      {"InputEvents"}, {"Contact", "Illuminance", "Temperature", "Battery"}),
    P("SB", "MO-003Z", "BLUMotion", "BLU", "Sensor", "Battery",
      <<>>, {"InputEvents"}, {"Motion", "Illuminance", "Battery"}),
    P("SB", "HT-003C", "BLUHT", "BLU", "Sensor", "Battery",
      [TemperatureSensors |-> 1, HumiditySensors |-> 1],
      {}, {"Temperature", "Humidity", "Battery"}),
    P("SB", "BT-004C", "BLURCButton4", "BLU", "Sensor", "Battery",
      [Inputs |-> 4], {"InputEvents"}, {"Battery"}),
    P("SB", "TRV-001", "BLUTRV", "BLU", "Radiator", "Battery",
      [TemperatureSensors |-> 1, Thermostat |-> 1], {"Calibration"}, {"Temperature", "Battery"})})

BluGateway == Group(2, DefaultGen2Protocols, {
    P("SN", "GW-BT01", "BLUGateway", "BLU", "Plug", "Mains",
      <<>>, {"Scripting", "Schedules", "AdvancedSchedules", "Webhooks", "KVS"}, {})})

WaveRelays == Group(2, {"ZWave"}, {
    P("SN", "SW-001X16ZW", "", "Wave", "Flush", "Mains",
      [Switches |-> 1, Inputs |-> 1], {"InputEvents"}, {}),
    P("SN", "SW-001P16ZW", "", "Wave", "Flush", "Mains",
      [Switches |-> 1, Inputs |-> 1, PowerMeters |-> 1], {"PowerMetering", "InputEvents"}, {}),
    P("SN", "SW-002P16ZW", "", "Wave", "Flush", "Mains",
      [Switches |-> 2, Covers |-> 1, Inputs |-> 2, PowerMeters |-> 2],
      {"PowerMetering", "CoverSupport", "Calibration", "InputEvents"}, {}),
    P("SN", "PL-00116USZW", "", "Wave", "Plug", "Mains",
      [Switches |-> 1, PowerMeters |-> 1], {"PowerMetering"}, {})})

WaveProRelays == Group(2, {"ZWave", "Ethernet"}, {
    P("SP", "SW-001XE16ZW", "", "WavePro", "DIN", "Mains",
      [Switches |-> 1, Inputs |-> 2], {"InputEvents"}, {}),
    P("SP", "SW-001PE16ZW", "", "WavePro", "DIN", "Mains",
      [Switches |-> 1, Inputs |-> 2, PowerMeters |-> 1], {"PowerMetering", "InputEvents"}, {}),
    P("SP", "SW-002XE16ZW", "", "WavePro", "DIN", "Mains",
      [Switches |-> 2, Inputs |-> 2], {"InputEvents"}, {}),
    P("SP", "SW-002PE16ZW", "", "WavePro", "DIN", "Mains",
      [Switches |-> 2, Covers |-> 1, Inputs |-> 2, PowerMeters |-> 2],
      {"PowerMetering", "CoverSupport", "Calibration", "InputEvents"}, {}),
    P("SP", "SW-003XE16ZW", "", "WavePro", "DIN", "Mains",
      [Switches |-> 3, Inputs |-> 3], {"InputEvents"}, {})})

WaveShutter == Group(2, {"ZWave"}, {
    P("SN", "SW-102P16ZW", "", "Wave", "Flush", "Mains",
      [Covers |-> 1, Inputs |-> 2, PowerMeters |-> 1],
      {"CoverSupport", "PowerMetering", "Calibration", "InputEvents"}, {})})

\* What importing each package registers.
Packages ==
    [gen1 |-> Gen1Energy \cup Gen1Inputs \cup Gen1Dimmers \cup Gen1Bulbs \cup Gen1Plugs
                  \cup Gen1Relays \cup Gen1Rollers \cup Gen1Sensors \cup Gen1Detectors,
     gen2 |-> Gen2Inputs \cup Gen2Lighting \cup Gen2Plugs \cup Gen2ProSwitches
                  \cup Gen2ProMeters \cup Gen2ProCovers \cup Gen2Relays \cup Gen2Sensors,
     gen3 |-> Gen3Lighting \cup Gen3Plugs \cup Gen3Relays \cup Gen3Minis \cup Gen3Sensors,
     gen4 |-> Gen4Relays \cup Gen4Others,
     blu |-> BluDevices \cup BluGateway,
     wave |-> WaveRelays \cup WaveProRelays \cup WaveShutter]
=============================================================================
