\* One node: two refreshes beside the worker and a manual switch, two starts,
\* every failure.
SPECIFICATION Spec
CONSTANTS
    n1 = n1
    Node = {n1}
    None = None
    s1 = s1
    Switch = {s1}
    LegacyFails <- LegacyDef
    MaxRounds = 2
    MaxSwitches = 2
    MaxRefreshes = 2
    MaxStarts = 2
    MaxStale = 1
    Faults = {"fetch", "store", "init", "create", "merge"}
CHECK_DEADLOCK FALSE
INVARIANTS
    TypeOK
    NoInheritedClaims
    CandidatesVetted
PROPERTIES
    FailedNodesRest
    HistoryKept
