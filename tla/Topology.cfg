\* One thread in nearly every operation, two that free nothing, and two
\* that free beside each other.
CONSTANTS
    Atom = {a1, a2}
    Channel = {c1, c2, c3}
    Nil = Nil
    t1 = t1
    t2 = t2
    Thread = {t1, t2}
    Sharings <- InEveryWay
SPECIFICATION Spec
INVARIANTS
    FreedOnce
    ListsOK
SYMMETRY Symmetry
CHECK_DEADLOCK FALSE
