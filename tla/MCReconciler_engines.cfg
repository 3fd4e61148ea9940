SPECIFICATION Spec
\* The loop may rest: nothing to do once no resource exists and none comes.
CHECK_DEADLOCK FALSE
CONSTANTS
    None = None
    Specs <- EngineSpecs
    ForeignObjects <- EtcdForeign
    Tampered <- NoObjects
    VeleroInstalled = TRUE
    MaxUid = 1
    MaxDeletes = 0
    MaxEdits = 1
    MaxTrouble = 1
INVARIANTS
    SweepSparesPlan
    RunningEnginesStand
