\* Two publishers, two retry attempts, four tokens, three failures.
\* Deadlock is not checked: after every retry fails the process panics
\* and stops (callbacks.go), which is a state with no successor.
CONSTANTS
    p1 = p1
    p2 = p2
    Publishers <- MCPublishers
    MaxAttempts = 2
    MaxTokens = 4
    MaxFailures = 3
SPECIFICATION Spec
INVARIANT TypeOK
PROPERTY SessionRecovers
CHECK_DEADLOCK FALSE
