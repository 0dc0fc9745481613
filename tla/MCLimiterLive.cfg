SPECIFICATION FairSpec
CONSTANTS
    r1 = r1  r2 = r2  r3 = r3  r4 = r4  r5 = r5
    k1 = k1  k2 = k2
    Keys = {k1, k2}
    NoKey = NoKey
    Global = Global
    Requests = {r1, r2, r4, r5}
    KeyOf <- PairKeyOf
    MaxGlobal = 1
    MaxPerKey = 1
    QueueTimeouts = {1}
PROPERTIES AcquireReturns
