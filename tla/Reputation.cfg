\* A call after the other on one address, two providers, a restart.
SPECIFICATION Spec
CONSTANTS
    c1 = c1
    Provider = {"ProxyCheck.io", "AbuseIPDB"}
    Report <- ReportDef
    Caller = {c1}
    TTL <- TTLDef
    CacheTTL = 2
    QueryTime = 1
    Lenient = 20
    None = None  Failed = Failed
    MaxTime = 5
    MaxRestarts = 1
    Faults = {"query", "db"}
INVARIANTS
    TypeOK
    VerdictFresh
    AdmittedByAll
    EvidenceHonest
    VerdictIsWorst
