SPECIFICATION Spec
CONSTANTS
    r1 = r1
    r2 = r2
    Requests <- TwoRequests
    ArgKinds <- AllArgKinds
    MaxArgs = 2
    MaxCalls = 3
SYMMETRY Symmetry
INVARIANTS
    TypeOK
    ArgFilesBounded
    ArgsReadable
    
    ResultUnlinked
    IInv
\* The bound on calls is reached.
CHECK_DEADLOCK FALSE
