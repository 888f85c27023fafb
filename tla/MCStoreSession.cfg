\* The session with a background caller and a REST handler, three failures.
CONSTANTS
    daemon = daemon  rest = rest
    Callers <- MCCallers
    Recovering <- MCRecovering
    MaxFailures = 3

SPECIFICATION Spec

INVARIANT TypeOK
PROPERTIES CallsReturnUnlessLockLeaked ShutdownReturns

CHECK_DEADLOCK FALSE
