\* Users who wait and who do not, alone or with other clients and faults.
SPECIFICATION FairSpec
CONSTANTS
    d1 = d1
    d2 = d2
    p1 = p1
    a = a
    r1 = r1
    r2 = r2
    None = None
    Devices = {d1, d2}
    Presets = {p1}
    Codes = {a}
    Recorders = {r1, r2}
    Settings <- MCSettings
INVARIANTS TypeOK OwedIsKept TableRestored RecordedDeviceFree OwnEvents PatientNoStray RecordingInv
PROPERTIES DialogsKept RecordersEnd
