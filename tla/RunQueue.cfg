\* STI changes under the queue: bag, wakeups, stop.  The array has room for one
\* entry and doubles once.
CONSTANTS
    Atom = {1, 2}
    NoAtom = NoAtom
    Workers = {w1, w2}
    InitialCap = 1
    MaxCap = 2
    MaxSti = 1
    EcanEnabled = TRUE
    StartAlone = TRUE
SPECIFICATION Spec
INVARIANTS
    NoSleeperBesideWork
PROPERTIES
    ImplementsBag
    WorkIsTaken
    StopReturns
