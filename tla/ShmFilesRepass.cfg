SPECIFICATION Spec
CONSTANTS
    r1 = r1
    r2 = r2
    Requests <- OneRequest
    ArgKinds <- AllArgKinds
    MaxArgs = 2
    MaxCalls = 2
INVARIANT RepassedIntact
\* The bound on calls is reached.
CHECK_DEADLOCK FALSE
