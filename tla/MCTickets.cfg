SPECIFICATION Spec
CONSTANTS
    t1 = t1
    t2 = t2
    s1 = s1
    s2 = s2
    b1 = b1
    b2 = b2
    k1 = k1
    c1 = c1
    c2 = c2
    Tickets <- TwoTickets
    Sessions <- TwoSessions
    Bindings <- TwoBindings
    Hooks <- OneHook
    Claimants <- TwoClaimants
SYMMETRY Symmetry
PROPERTY
    SpentOnce
