SPECIFICATION FairSpec
CONSTANTS
    r1 = r1  r2 = r2  k1 = k1
    Requests = {r1, r2}
    Keys = {k1}
    KeyOf <- PairKeyOf
    GlobalCap = 2
    KeyCap = 1
    WrapperMode = "required"
    RecoveryPolicy = "repair_then_retry"
    EmptyRetries = 2
    Streaming = {TRUE, FALSE}
    Bodies <- FewBodies
    MaxArrivals = 2
INVARIANTS TypeOK AnsweredOnce GaugeExact UpstreamWithinLimits
    ResentSafely LatestAnswerServed EmptyAnswersRetried
PROPERTIES HandlerReturns
CHECK_DEADLOCK FALSE
