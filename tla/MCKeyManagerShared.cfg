SPECIFICATION Spec
CONSTANTS
    server = server  cli = cli
    o1 = o1  o2 = o2  c1 = c1
    s1 = s1  s2 = s2  d1 = d1  d2 = d2
    IdOf <- OwnIds
    ConcurrentStarts = FALSE
    Procs = {server, cli}
    Servers = {server}
    Ops = {o1, c1}
    ProcOf <- CliOps
    Configs <- OneConfig
    DynKeys = {d1}
    Faults = {FALSE}
    MaxStarts <- RestartedServer
INVARIANTS RefusedEverywhere
CHECK_DEADLOCK FALSE
