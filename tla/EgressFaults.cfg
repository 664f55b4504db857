\* One slot, every transient failure but "flush", one manual switch.
SPECIFICATION Spec
CONSTANTS
    n1 = n1  n2 = n2  p1 = p1  p2 = p2
    t1 = t1  t2 = t2  t3 = t3
    None = None  Unreachable = Unreachable
    Slot = {0}
    Tunnel = {t1, t2, t3}
    Node = {n1, n2}
    Prefix = {p1, p2}
    Endpoint <- Endpoint2
    MaxStandby = 1
    MaxAttempts = 1
    DrainTicks = 1
    MaxGen = 1
    MaxChurn = 0
    InitQuarantine = {}
    Faults = {"xray", "route", "verify", "start", "admission", "exit", "skip"}
SYMMETRY TunnelSymmetry
INVARIANTS
    TypeOK
    SoleOwner
    NoMisroute
    NewConnectionsAvoidDraining
    StandbyBound
PROPERTIES
    NonDestructiveSwitch
    ExcludedBeforeRemoved
