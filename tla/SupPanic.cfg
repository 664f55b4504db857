\* Violated: see the findings in README.md.
SPECIFICATION Spec
CONSTANTS
    MaxProc = 3
    MaxFaults = 2
    Faults = {"crash", "config"}
    Calls = {"stop"}
INVARIANTS
    WaitedOnce
\* Stop, a failed Start and a panic are final.
CHECK_DEADLOCK FALSE
