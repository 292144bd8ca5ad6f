SPECIFICATION Spec
CONSTANTS
    p1 = p1
    p2 = p2
    h1 = h1
    h2 = h2
    h3 = h3
    r1 = r1
    r2 = r2
    k1 = k1
    Procs <- TwoProcs
    Hosts <- TwoHosts
    Repos <- TwoRepos
    Grants <- OneGrant
    Batches <- PairBatch
    MaxUses = 1
    MaxJobs = 3
    MaxFaults = 1
SYMMETRY Symmetry
CHECK_DEADLOCK FALSE
INVARIANTS
    UsesPaid
    DoneIsWritten
PROPERTY
    ImplementsLedger
