SPECIFICATION Spec
CONSTANTS
    Keys = {k1}
    NetworkIDs = {n1, n2}
    NoKey = NoKey
    NoNetwork = NoNetwork
    Disturbances <- OnlyFailingRequests
SYMMETRY Symmetry
PROPERTIES
    FailedReconcileLeavesNoKey
