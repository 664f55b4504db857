\* Three slots, two ingresses, up to three failures in any step.
SPECIFICATION FairSpec
CONSTANTS
    s0 = s0  s1 = s1  s2 = s2
    NoCall = NoCall
    Slot = {s0, s1, s2}
    Ingress = {"socks", "vless"}
    Faults = {"refuse", "lost", "silent", "query", "crash"}
    MaxFaults = 3
INVARIANTS
    FailClosed
PROPERTIES
    SurvivorsUninterrupted
    KeepsPromise
    RuntimeConverges
