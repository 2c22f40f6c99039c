SPECIFICATION FairSpec
CONSTANTS
    e1 = e1
    e2 = e2
    e3 = e3
    m1 = m1
    m2 = m2
    p1 = p1
    p2 = p2
    auto = auto
    w1 = w1
    host = host
    stop = stop
    none = none
    NoItem <- none
    AutoLoop <- auto
    Stopper <- stop
    Items <- MCTwoEvents
    KindOf <- MCKindOf
    Poison <- MCNone
    Enabled <- MCKinds
    Producers <- MCOneProducer
    WakeLoops <- MCWake
    HostFlushers <- MCNone
    BufferSize = 1
    Watermark = 1
    Overflow = "raise"
    Durable = TRUE
    MaxRedisFailures = 2
    RedisFaulty = FALSE
    ConfirmCap = 1
    SendBeforeStart = FALSE
    MayStop = TRUE
    MaxFailures = 2
    MaxCrashes = 0
CHECK_DEADLOCK FALSE
INVARIANT StopDelivers
PROPERTY StopReturns
