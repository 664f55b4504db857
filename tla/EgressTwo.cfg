\* Two slots, a manual switch on each, racing the worker while discovery and
\* staleness change the rows and flushes fail; n2 starts as a rejected endpoint.
SPECIFICATION Spec
CONSTANTS
    n1 = n1  n2 = n2  p1 = p1  p2 = p2
    t1 = t1  t2 = t2  t3 = t3
    None = None  Unreachable = Unreachable
    Slot = {0, 1}
    Tunnel = {t1, t2}
    Node = {n1, n2}
    Prefix = {p1, p2}
    Endpoint <- Endpoint2
    MaxStandby = 1
    MaxAttempts = 1
    DrainTicks = 1
    MaxGen = 1
    MaxChurn = 1
    InitQuarantine = {n2}
    Faults = {"flush"}
SYMMETRY TunnelSymmetry
INVARIANTS
    LeaseExclusive
    NoBlackhole
    DistinctNodesDiverse
    RollbackTargetFresh
