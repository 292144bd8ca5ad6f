SPECIFICATION Spec
CONSTANTS
    id1 = id1
    id2 = id2
    p1 = p1
    p2 = p2
    Ids <- MCIds
    Procs <- MCProcs
    MaxCount = 1
    MaxResets = 1
SYMMETRY Symmetry
INVARIANTS
    RevokedUnlessManaged
    AcceptedIsEnrolled
PROPERTIES
    EnrolmentsAreKept
    OnlyResetEmpties
