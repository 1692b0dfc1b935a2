\* Everything that sends, without a full channel: clients, ECAN thread, bytecode.
CONSTANTS
    t1 = t1
    t2 = t2
    Atom = {1, 2, 3}
    Channel = {1, 2, 3}
    Src <- FanSrc
    Dst <- FanDst
    Capacity = 6
    Tv = {v1, v2}
    NoTv = NoTv
    NoThread = NoThread
    Clients = {t1}
    Workers = {w1}
    Ecan = {e1}
    Sets <- SetsFirst
    Infers <- InfersFirst
    Program <- Mixed
    MaxCalls = 2
SPECIFICATION FairSpec
INVARIANTS
    HeardIsCurrent
\* The calls of the bounded run are used up.
CHECK_DEADLOCK FALSE
