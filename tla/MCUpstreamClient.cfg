SPECIFICATION GwFairSpec
CONSTANTS
    u1 = u1  u2 = u2  env = env  s1 = s1   q1 = q1  q2 = q2
    Updates = {u1, u2}
    Settings = {env, s1}
    Env = env
    NoFile = NoFile
    Partial = Partial
    NoOne = NoOne
    MaxBegun = 3
    MaxStarts = 2
    Requests = {q1, q2}
    Operations = {"models", "chat", "passthrough"}
    TTL = 2
    Timeout = 1
    Grace = 1
    NoList = NoList
    Garbled = Garbled
    Serving = Serving
    Loads <- RaceOrServe
INVARIANTS RestartFindsSettings StoreIsOnDisk FreshSettings StaleModelsBounded
PROPERTIES UpdateReturns ShutdownEnds
CHECK_DEADLOCK FALSE
