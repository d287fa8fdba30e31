SPECIFICATION Spec
CONSTANTS
    Keys = {k1, k2, k3}
    NetworkIDs = {n1, n2}
    NoKey = NoKey
    NoNetwork = NoNetwork
    Disturbances <- Everything
SYMMETRY Symmetry
INVARIANTS
    ServedNetworkKept
    ServedKeyKept
    SuccessMeansEnsured
PROPERTIES
    CleanupDeletesOwnNetwork
    NetworkStaysTracked
    ImplementsContract
