\* The worker, tunnels that die and a switch: what each must eventually do.
SPECIFICATION FairSpec
CONSTANTS
    n1 = n1  n2 = n2  p1 = p1  p2 = p2
    t1 = t1  t2 = t2  t3 = t3
    None = None  Unreachable = Unreachable
    Slot = {0}
    Tunnel = {t1, t2}
    Node = {n1, n2}
    Prefix = {p1}
    Endpoint <- Endpoint1
    MaxStandby = 1
    MaxAttempts = 1
    DrainTicks = 1
    MaxGen = 1
    MaxChurn = 0
    InitQuarantine = {}
    Faults = {"exit"}
PROPERTIES
    DeadTunnelLeaves
    DrainingEnds
    EmptySlotRefilled
    SwitchEnds
    LiveSlotBalanced
