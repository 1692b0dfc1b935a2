\* STI values fixed: the heap order and the priority queue.  Five entries, so that
\* the heap has two levels below the root, equal STI and the same atom several times.
CONSTANTS
    Atom = {1, 2, 3}
    NoAtom = NoAtom
    Workers = {w1}
    InitialCap = 5
    MaxCap = 5
    MaxSti = 1
    EcanEnabled = FALSE
    StartAlone = TRUE
SPECIFICATION FixedStiSpec
PROPERTY ImplementsPriorityBag
