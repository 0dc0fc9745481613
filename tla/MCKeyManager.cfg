SPECIFICATION FairSpec
CONSTANTS
    server = server  cli = cli
    o1 = o1  o2 = o2  c1 = c1
    s1 = s1  s2 = s2  d1 = d1  d2 = d2
    IdOf <- DefaultId
    ConcurrentStarts = FALSE
    Procs = {server}
    Servers = {server}
    Ops = {o1, o2}
    ProcOf <- ServerOps
    Configs <- RotatedKey
    DynKeys = {d1}
    Faults = {TRUE, FALSE}
    MaxStarts <- ThreeStarts
INVARIANTS RefusesRetired HonoursIssued SnapshotCurrent
PROPERTIES NoResurrection ImportCompletes CallsReturn
CHECK_DEADLOCK FALSE
