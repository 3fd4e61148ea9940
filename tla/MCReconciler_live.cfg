SPECIFICATION LiveSpec
\* The loop may rest: nothing to do once no resource exists and none comes.
CHECK_DEADLOCK FALSE
CONSTANTS
    None = None
    Specs <- MovedSpecs
    ForeignObjects <- NoObjects
    Tampered <- OneTampered
    VeleroInstalled = TRUE
    MaxUid = 1
    MaxDeletes = 1
    MaxEdits = 1
    MaxTrouble = 1
INVARIANTS
    NeverForgotten
PROPERTIES
    Converges
    DeletionCompletes
    NothingInstalledStays
