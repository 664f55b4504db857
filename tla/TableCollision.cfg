\* The virtual ids of the worker grow until they meet a draining table.
SPECIFICATION Spec
CONSTANTS
    t1 = t1  t2 = t2
    MaxActive = 1
    MaxStandby = 1
    Tunnel = {t1, t2}
    None = None  Unreachable = Unreachable  System = System
    MaxVirtual = 100
CHECK_DEADLOCK FALSE
INVARIANTS
    CandidatesIsolated
