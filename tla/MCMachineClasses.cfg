SPECIFICATION FairSpec
CONSTANTS
    Classes = {c1, c2}
    Leftovers <- OldOrOpaque
    Disturbances <- Everything
INVARIANTS
    MCMWorksWhenAwaited
    SuccessIsRendered
PROPERTIES
    EventuallyTemplated
    EventuallyReady
    EventuallyGone
    OpaqueBlocksNoRequest
