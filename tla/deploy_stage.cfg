SPECIFICATION Spec
CONSTANTS
    c1 = c1
    c2 = c2
    c3 = c3
    None = None
    Commands <- ThreeCommands
    Settings <- AllSettings
    Faults = {"crash", "provider", "io", "unhealthy"}
    ArchiveAfter = 2
    MaxHistory = 3
SYMMETRY AnyOrder
INVARIANTS
    LeftoversNeverBlock
    CompletedMeansDeployed
    LastReleaseKept
PROPERTIES
    AckedDeployRecorded
CHECK_DEADLOCK FALSE
