\* A user who waits for answers; and one who does not, with lost answers, full
\* disks and devices that come and go.
SPECIFICATION Spec
CONSTANTS
    d1 = d1
    d2 = d2
    p1 = p1
    p2 = p2
    p3 = p3
    a = a
    b = b
    x = x
    Devices = {d1, d2}
    PresetNames <- MCPresetNames
    ValidNames = {d1, d2, p1, p2}
    Absent = Absent
    Broken = Broken
    Keys = {a, b}
    Codes = {a}
    Symbols = {x}
    Renamings = {None}
    None = None
    Settings <- MCSettings
INVARIANTS EditorInv SelectionValid LoadingJustified SavedMeansSaved
PROPERTIES SavesOwnPreset PatientDeletesTheNamed EditsTheNamed
\* The UI may quit.
CHECK_DEADLOCK FALSE
