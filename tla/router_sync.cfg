SPECIFICATION Spec
CONSTANTS
    s1 = s1
    s2 = s2
    Slots = {s1, s2}
    Settings <- SmallSettings
    Mixed = Mixed
    Nothing = Nothing
    Faults = {"plugin", "history", "crash"}
    Keep = 3
INVARIANTS
    WeightsTotal
    CanaryShare
    SnapshotKept
    RestoreGoesBack
PROPERTIES
    UnapprovedOnlyByOverlap
CHECK_DEADLOCK FALSE
