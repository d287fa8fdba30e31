SPECIFICATION Spec
CONSTANTS
    Pools = {p1, p2}
    GroupIDs = {g1, g2}
    NoGroup = NoGroup
    Disturbances <- OnlyPoolChanges
SYMMETRY Symmetry
INVARIANTS
    GroupsOfPoolsDeleted
