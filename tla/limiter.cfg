SPECIFICATION FairSpec
CONSTANTS
    flush = flush
    status = status
    rules = rules
    Callers <- MCCallers
    MaxCalls = 2
    Window = 2
    RetryAttempts = 1
INVARIANTS TypeOK WindowBound WaitIsEnough
PROPERTY GateEnds
