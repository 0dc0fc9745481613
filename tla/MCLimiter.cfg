SPECIFICATION Spec
CONSTANTS
    r1 = r1  r2 = r2  r3 = r3  r4 = r4  r5 = r5
    k1 = k1  k2 = k2
    Keys = {k1, k2}
    NoKey = NoKey
    Global = Global
    Requests = {r1, r2, r3, r4, r5}
    KeyOf <- MixedKeyOf
    MaxGlobal = 2
    MaxPerKey = 1
    QueueTimeouts = {0, 1}
SYMMETRY Symmetry
INVARIANTS SlotsAccounted NoLostWakeup KeyShareBounded
PROPERTIES FirstComeFirstServed ImplementsAdmission
