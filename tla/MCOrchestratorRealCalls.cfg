SPECIFICATION FairSpec
CONSTANTS
    r1 = r1  r2 = r2  k1 = k1
    Requests = {r1}
    Keys = {k1}
    KeyOf <- SingleKeyOf
    GlobalCap = 1
    KeyCap = 1
    WrapperMode = "prefer"
    RecoveryPolicy = "repair_then_retry"
    EmptyRetries = 2
    Streaming = {FALSE}
    Bodies <- FewBodies
    MaxArrivals = 1
INVARIANTS RealCallsKept
CHECK_DEADLOCK FALSE
