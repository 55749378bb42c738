SPECIFICATION FairSpec
CONSTANTS
    r1 = r1
    r2 = r2
    r3 = r3
    Requests <- ThreeRequests
    Size = 2
    MaxFaults = 2
    MaxSpawnFailures = 1
INVARIANTS
    TypeOK
    ExclusiveOwnership
    SlotAccounting
    DefaultUnreachable
    UsableNotShutDown
    NoOrphans
    IInv
PROPERTIES
    FaultsStayInRun
    LeaseSpec
    WaiterServed
    CloseTerminates
    ClosedPoolReaps
\* A closed pool stops for good.
CHECK_DEADLOCK FALSE
