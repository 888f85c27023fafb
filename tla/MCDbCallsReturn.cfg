\* Spec 5 and 7: every db call returns.  A background caller and a REST
\* handler, three failures.
CONSTANTS
    daemon = daemon  rest = rest
    Callers <- MCCallers
    Recovering <- MCRecovering
    MaxFailures = 3

SPECIFICATION Spec

PROPERTY DbCallsReturn

CHECK_DEADLOCK FALSE
