SPECIFICATION FairSpec
CONSTANTS
    Does <- WithLargeFrames
    MaxFrames = 1
PROPERTY RunReturns
\* A run that has returned does nothing more.
CHECK_DEADLOCK FALSE
