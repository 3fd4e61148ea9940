SPECIFICATION Spec
\* The loop may rest: nothing to do once no resource exists and none comes.
CHECK_DEADLOCK FALSE
CONSTANTS
    None = None
    Specs <- LocalSpecs
    ForeignObjects <- LocalForeign
    Tampered <- NoObjects
    VeleroInstalled = TRUE
    MaxUid = 2
    MaxDeletes = 1
    MaxEdits = 1
    MaxTrouble = 1
INVARIANTS
    FinalizerInv
    WorksForLiveResource
    OwnedObjectsHoldFinalizer
    StatusGoesToItsCR
PROPERTIES
    FinalizerGoesLast
    ImplementsLifecycle
