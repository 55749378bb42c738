SPECIFICATION Spec
CONSTANTS
    r1 = r1
    r2 = r2
    r3 = r3
    Requests <- TwoRequests
    Size = 2
    MaxFaults = 1
    MaxSpawnFailures = 1
INVARIANT FixedSize
\* A closed pool stops for good.
CHECK_DEADLOCK FALSE
