SPECIFICATION FairFlow
CONSTANTS
    Keys = {k1, k2, k3}
    NetworkIDs = {n1, n2}
    NoKey = NoKey
    NoNetwork = NoNetwork
    Disturbances <- OrderlyDisturbances
INVARIANTS
    KeysConverge
    ClassesHaveNetwork
    KeyMissingOnlyInRotation
PROPERTIES
    DeletionLeavesNothing
    EventuallyOnCurrentKey
    EventuallyAllGone
