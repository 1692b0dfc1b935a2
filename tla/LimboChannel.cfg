\* One producer (which also sweeps), two blocking receivers, one worker.
CONSTANTS
    Message = {m1, m2}
    NoMessage = NoMessage
    BufMax = 3
    Senders = {s1}
    Collectors = {s1}
    Receivers = {r1, r2}
    Workers = {w1}
SPECIFICATION FairSpec
INVARIANTS
    TypeOK
    FreshNext
    NoLostWakeup
PROPERTIES
    SendReturns
    ImplementsFairFifo
