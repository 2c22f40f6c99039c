SPECIFICATION Spec
CONSTANTS
    e1 = e1
    e2 = e2
    e3 = e3
    m1 = m1
    m2 = m2
    p1 = p1
    p2 = p2
    auto = auto
    w1 = w1
    host = host
    stop = stop
    none = none
    NoItem <- none
    AutoLoop <- auto
    Stopper <- stop
    Items <- MCItems
    KindOf <- MCKindOf
    Poison <- MCNone
    Enabled <- MCKinds
    Producers <- MCOneProducer
    WakeLoops <- MCWake
    HostFlushers <- MCHost
    BufferSize = 2
    Watermark = 3
    Overflow = "drop"
    Durable = FALSE
    MaxRedisFailures = 2
    RedisFaulty = TRUE
    ConfirmCap = 1
    SendBeforeStart = TRUE
    MayStop = FALSE
    MaxFailures = 1
    MaxCrashes = 0
SYMMETRY Symmetry
INVARIANTS QueueBound NothingLost SingleCopy Accounting HealthAgrees
PROPERTY Delivers
