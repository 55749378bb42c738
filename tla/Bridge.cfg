\* Everything a program may do.
SPECIFICATION FairSpec
CONSTANTS
    Does <- Doings
    MaxFrames = 2
INVARIANTS
    TypeOK
    ReplyMatches
    QuiescentOnReturn
    StdoutComplete
    IInv
PROPERTY RunReturnsUnlessStuck
\* A run that has returned does nothing more.
CHECK_DEADLOCK FALSE
