SPECIFICATION FairSpec
CONSTANTS
    Kinds <- AllHelpers
    Appliers = {m1, m2}
    Wants <- Moved
    Foreigners <- OthersObjects
    Gone = Gone
    Attempts = 2
    MaxEdits = 2
    MaxTrouble = 1
INVARIANTS
    TypeOK
    JudgedRight
PROPERTIES
    ImplementsAtomicApply
    Settles
