CONSTANTS
    h1 = h1 h2 = h2 h3 = h3 d1 = d1 d2 = d2 o1 = o1 o2 = o2
    Recs = {r1, r2}
    Digests = {d1, d2}
    Hooks = {h1, h2, h3}
    Operators = {o1, o2}
    MaxRecords = 2
    Rules = {"", "hard", "soft", "outward", "backstop"}
    Mixes <- MCMixes
    MaxWindows = 2
    CommandUses = 1
    MaxPending = 1
    Versions = 2
    Passing <- MCPassing
SPECIFICATION HSpec
INVARIANTS RelaxedIsRecorded UsesArePaid DenyStands SecondLegPauses
    RetryAnswersAsk NightHasAnnouncer SkipMeansPassed OneConfirmedUse OnePendingRecord
PROPERTIES NoRevival
SYMMETRY Symm
CHECK_DEADLOCK FALSE
