SPECIFICATION Spec
CONSTANTS
    u1 = u1  u2 = u2  env = env  s1 = s1  s2 = s2
    Updates = {u1, u2}
    Settings = {env, s1, s2}
    Env = env
    NoFile = NoFile
    Partial = Partial
    NoOne = NoOne
    MaxBegun = 3
    MaxStarts = 1
INVARIANTS HotUpdate
CHECK_DEADLOCK FALSE
