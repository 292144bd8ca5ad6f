CONSTANTS
    t1 = t1 t2 = t2 t3 = t3 p1 = p1 p2 = p2
    Threads = {t1, t2, t3}
    Procs = {p1, p2}
    ProcOf <- MCProcOf
    Sessions = {"s1"}
SPECIFICATION FairSpec
INVARIANTS GateExclusion
PROPERTIES ContractSpec EveryCallReturns
CHECK_DEADLOCK FALSE
