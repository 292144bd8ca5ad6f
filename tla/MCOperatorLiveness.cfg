SPECIFICATION FairSpec
CONSTANTS
    p1 = p1
    p2 = p2
    h1 = h1
    h2 = h2
    h3 = h3
    r1 = r1
    r2 = r2
    k1 = k1
    Procs <- TwoProcs
    Hosts <- ThreeHosts
    Repos <- OneRepo
    Grants <- OneGrant
    Batches <- TripleBatch
    MaxUses = 1
    MaxJobs = 2
    MaxFaults = 2
CHECK_DEADLOCK FALSE
PROPERTY
    JobsReturn
