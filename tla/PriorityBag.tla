---------------------------- MODULE PriorityBag ----------------------------
(***************************************************************************)
(* What the run queue promises: a bag of scheduled atoms from which the    *)
(* worker threads take.  Nothing that was put in disappears or multiplies. *)
(* The array, its capacity, the heap and the condition variable are left   *)
(* out.                                                                    *)
(***************************************************************************)
EXTENDS Naturals

CONSTANTS
    Atom,       \* the atoms, named by their uuid
    NoAtom,     \* what a worker holds between two atoms
    Workers     \* the worker threads

VARIABLES
    sti,        \* the short-term importance of each atom
    bag,        \* bag[a]: how many times a is scheduled
    held        \* held[w]: the atom worker w is busy with

vars == <<sti, bag, held>>

Init ==
    /\ sti \in [Atom -> Nat]
    /\ bag = [a \in Atom |-> 0]
    /\ held = [w \in Workers |-> NoAtom]

\* Higher STI first, the older atom first among equals.
Precedes(a, b) == sti[a] > sti[b] \/ (sti[a] = sti[b] /\ a < b)

Put(a) ==
    /\ bag' = [bag EXCEPT ![a] = @ + 1]
    /\ UNCHANGED <<sti, held>>

Take(w, a) ==
    /\ held[w] = NoAtom
    /\ bag[a] > 0
    /\ bag' = [bag EXCEPT ![a] = @ - 1]
    /\ held' = [held EXCEPT ![w] = a]
    /\ UNCHANGED sti

TakeHighest(w, a) ==
    /\ \A b \in Atom : bag[b] > 0 => ~Precedes(b, a)
    /\ Take(w, a)

Release(w) ==
    /\ held' = [held EXCEPT ![w] = NoAtom]
    /\ UNCHANGED <<sti, bag>>

Attend(a) ==
    /\ sti' \in [Atom -> Nat]
    /\ \A b \in Atom \ {a} : sti'[b] = sti[b]
    /\ UNCHANGED <<bag, held>>

\* A bag: any scheduled atom may be next, importance may change at any time.
Next ==
    \/ \E a \in Atom : Put(a) \/ Attend(a)
    \/ \E w \in Workers : Release(w) \/ \E a \in Atom : Take(w, a)

Spec == Init /\ [][Next]_vars

\* A priority queue, while the importance of the atoms stays what it is.
PriorityNext ==
    \/ \E a \in Atom : Put(a)
    \/ \E w \in Workers : Release(w) \/ \E a \in Atom : TakeHighest(w, a)

PrioritySpec == Init /\ [][PriorityNext]_vars
=============================================================================
