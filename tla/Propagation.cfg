\* Truth values set by two clients, two workers, channels with room for two.
CONSTANTS
    t1 = t1
    t2 = t2
    Atom = {1, 2, 3}
    Channel = {1, 2, 3}
    Src <- FanSrc
    Dst <- FanDst
    Capacity = 2
    Tv = {v1}
    NoTv = NoTv
    NoThread = NoThread
    Clients = {t1, t2}
    Workers = {w1, w2}
    Ecan = {}
    Sets <- SetsOwn
    Infers <- InfersNone
    Program <- Local
    MaxCalls = 3
SPECIFICATION FairSpec
INVARIANTS
    TypeOK
    EveryMessageHasATicket
PROPERTIES
    MessagesAreTaken
    CallsReturn
\* The calls of the bounded run are used up.
CHECK_DEADLOCK FALSE
