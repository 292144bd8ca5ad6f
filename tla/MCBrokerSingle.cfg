SPECIFICATION FairSpec
CONSTANTS
    r1 = r1
    r2 = r2
    d1 = d1
    d2 = d2
    h1 = h1
    h2 = h2
    Requests <- TwoRequests
    Plain <- OnePlain
    Daemons <- OneDaemon
    Handlers <- TwoHandlers
    MaxRequests = 1
    MaxFaults = 2
INVARIANTS
    OneExecution
    RunsAreAttributed
PROPERTIES
    SettlesWhileServed
    DaemonsStop
    SettledStays
