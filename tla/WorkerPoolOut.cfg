SPECIFICATION FairSpec
CONSTANTS
    r1 = r1
    r2 = r2
    r3 = r3
    Requests <- TwoRequests
    Size = 2
    MaxFaults = 0
    MaxSpawnFailures = 0
PROPERTY OutShutDownOnRelease
\* A closed pool stops for good.
CHECK_DEADLOCK FALSE
