\* The versions that the comment on push_tv_history promises.
CONSTANTS
    c1 = c1
    c2 = c2
    Client = {c1, c2}
    Patient = {c1}
    MaxRequests = 2
    Slots = 2
    Tv <- Pairs
    Blank <- Zeros
    Absent <- NoVersion
    MaxAtoms = 2
    MaxLinks = 1
    Top = 1
    AtomType = {y1, y2}
    MaxSti = 1
    Host = host
    MaxUuid = 2
    MaxOut = 1
    MaxCalls = 3
    Room = 5
    Width <- Digits
    NewTv <- Ones
    LlmAtom = {"first", "second", "third"}
    Caller = {t1, t2}
    Buckets = 2
    Home <- HomeOf
    MaxChildren = 5
    Atom <- MCAtom
    Kind <- MCKind
    VariableNode = "VariableNode"
    Name <- MCName
    Anonymous = ""
    BindLink = 9
    Graphs <- MCGraphs
    Pools <- MCPools
    Sleepers <- MCSleepers
    MaxBindings = 2
SPECIFICATION Spec
INVARIANT HistoryIsOfThePast
CHECK_DEADLOCK FALSE
