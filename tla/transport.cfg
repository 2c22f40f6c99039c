SPECIFICATION FairSpec
CONSTANTS
    MaxBatch = 3
    Capacity = 2
    RetryAttempts = 1
    Threshold = 3
    RecoveryTimeout = 2
INVARIANTS TypeOK SendContract NoResend OnlyBigDropped RequestBound CancelBound CountedOnce
PROPERTIES RetriesRespectBreaker Ends Implements
