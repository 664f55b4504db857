\* Start, crash recovery and Stop, and a Restart beside them, with any three failures.
SPECIFICATION FairSpec
CONSTANTS
    MaxProc = 6
    MaxFaults = 3
    Faults = {"crash", "unready", "config", "start", "stubborn"}
    Calls = {"stop", "restart"}
INVARIANTS
    NothingRunsAfterStop
    OneXray
    EndpointWithdrawn
PROPERTIES
    StopEnds
\* Stop, a failed Start and a panic are final.
CHECK_DEADLOCK FALSE
