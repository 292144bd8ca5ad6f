SPECIFICATION Spec
CONSTANTS
    r1 = r1
    r2 = r2
    d1 = d1
    d2 = d2
    h1 = h1
    h2 = h2
    Requests <- OneRequest
    Plain <- NoPlain
    Daemons <- TwoDaemons
    Handlers <- TwoHandlers
    MaxRequests = 2
    MaxFaults = 0
SYMMETRY Symmetry
PROPERTIES
    KeepsContract
