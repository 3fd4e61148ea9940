SPECIFICATION LiveSpec
\* The loop may rest: nothing to do once no resource exists and none comes.
CHECK_DEADLOCK FALSE
CONSTANTS
    None = None
    Specs <- ScheduleSpecs
    ForeignObjects <- NoObjects
    Tampered <- NoObjects
    VeleroInstalled = TRUE
    MaxUid = 1
    MaxDeletes = 0
    MaxEdits = 1
    MaxTrouble = 0
PROPERTIES
    ScheduleFollowsSpec
