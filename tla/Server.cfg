SPECIFICATION FairSpec
CONSTANTS
    r1 = r1
    r2 = r2
    Requests <- TwoRequests
    Size = 1
    MaxFaults = 1
    MaxSpawnFailures = 1
    Timeouts <- SomeTimeouts
    Second = 3
    Half = 1024
INVARIANTS
    TypeOK
    DeadlineKept
PROPERTIES
    ServiceSpec
    Answered
    SignalEnds
\* The server ends.
CHECK_DEADLOCK FALSE
