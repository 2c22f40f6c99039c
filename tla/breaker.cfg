SPECIFICATION FairRulesSpec
CONSTANTS
    flush = flush
    rules = rules
    host = host
    RulesLoop <- rules
    Callers <- MCCallers
    RulesCallers <- MCRules
    Threshold = 2
    RecoveryTimeout = 1
    MaxFailureCount = 3
    TTL = 2
    HTTPTimeout = 1
    RetryAttempts = 1
    MaxVersions = 2
INVARIANTS RulesTypeOK ClosedBelowThreshold FreshEnough
PROPERTIES Quarantine Recovers RulesConverge LoopEnds
