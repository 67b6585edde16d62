\* A machine without one of the devices in config.json.
SPECIFICATION FairSpec
\* Nothing need happen once every preset is applied.
CHECK_DEADLOCK FALSE
CONSTANTS
    d1 = d1
    d2 = d2
    Devices <- MCDevices
    Configured = {d1, d2}
    Attempts = 2
    Settings <- MCAbsent
PROPERTIES PluggedIsApplied
