\* Two devices to load; boots with late devices and crashes; hotplug and run-foreground.
SPECIFICATION FairSpec
\* Nothing need happen once every preset is applied.
CHECK_DEADLOCK FALSE
CONSTANTS
    d1 = d1
    d2 = d2
    Devices <- MCDevices
    Configured = {d1, d2}
    Attempts = 2
    Settings <- MCSettings
INVARIANTS TypeOK RemappedOnce StoppedIsSilent ActiveMeansApplied
PROPERTIES AppliedInTheEnd
