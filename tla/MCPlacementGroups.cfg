SPECIFICATION FairSpec
CONSTANTS
    Pools = {p1, p2}
    GroupIDs = {g1, g2}
    NoGroup = NoGroup
    Disturbances <- Everything
INVARIANTS
    ClassesReferToGroups
    PlacedAsRequested
PROPERTIES
    EventuallySettled
    DeletionLeavesNoGroup
