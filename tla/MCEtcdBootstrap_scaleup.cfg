SPECIFICATION FairSpec
CONSTANTS
    MaxReplicas = 2
    Counts <- OneOrTwo
    Images <- OnlyEtcd
    MaxEdits = 1
    MaxKills = 0
CHECK_DEADLOCK FALSE
PROPERTIES
    ScaleUpWorks
