SPECIFICATION FairSpec
CONSTANTS
    MaxReplicas = 3
    Counts <- OneOrThree
    Images <- AnyImage
    MaxEdits = 2
    MaxKills = 2
CHECK_DEADLOCK FALSE
INVARIANTS
    TypeOK
    OneCluster
PROPERTIES
    SpecReachesEtcd
