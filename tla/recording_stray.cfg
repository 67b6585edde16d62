\* Recordings one after the other without waiting; nothing else happens.
SPECIFICATION Spec
CONSTANTS
    d1 = d1
    d2 = d2
    p1 = p1
    a = a
    r1 = r1
    r2 = r2
    None = None
    Devices = {d1, d2}
    Presets = {p1}
    Codes = {a}
    Recorders = {r1, r2}
    Settings <- MCHasty
INVARIANTS NoStrayRecorder
