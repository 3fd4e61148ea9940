SPECIFICATION Spec
\* The loop may rest: nothing to do once no resource exists and none comes.
CHECK_DEADLOCK FALSE
CONSTANTS
    None = None
    Specs <- LocalSpecs
    ForeignObjects <- EtcdForeign
    Tampered <- NoObjects
    VeleroInstalled = TRUE
    MaxUid = 1
    MaxDeletes = 1
    MaxEdits = 0
    MaxTrouble = 1
PROPERTIES
    ForeignEtcdStays
