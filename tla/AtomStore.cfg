\* Two threads on the packages, the atoms and the file, or on the STI of two atoms.
CONSTANTS
    Type = {conceptNode, andLink}
    Package = {p1, p2}
    Tv = {default, high}
    SpawnTv = default
    Nil = Nil
    client = client
    keeper = keeper
    Thread = {client, keeper}
    Ops <- OpsAll
    MaxUuid = 2
    MaxLinks = 1
    Atom = {"hub", "leaf"}
    Caller = {c1, c2}
    OutCount <- TwoChannels
    Amounts <- DebtOrFour
    InitialFunds = 2
    MaxCalls = 3
SYMMETRY Symmetry
SPECIFICATION KernelSpec
INVARIANTS
    TypeOK
    RefsCounted
    NextUuidIsFresh
    BooksAgree
PROPERTIES
    
    SaveIsWhole
\* There are no more uuids, packages or calls.
CHECK_DEADLOCK FALSE
