SPECIFICATION Spec
CONSTANTS
    flush = flush
    status = status
    rules = rules
    Callers <- MCCallers
    RulesCallers <- MCRules
    Threshold = 3
    RecoveryTimeout = 3
    MaxFailureCount = 6
PROPERTY PermanentExempt
