SPECIFICATION Spec
CONSTANTS
    id1 = id1
    id2 = id2
    p1 = p1
    p2 = p2
    Ids <- MCIds
    Procs <- MCProcs
    MaxCount = 0
    MaxResets = 1
SYMMETRY Symmetry
INVARIANT RevokedStaysRevoked
