----------------------------- MODULE MCTopology -----------------------------
(***************************************************************************)
(* Topology for TLC: which operations overlap in each run.                 *)
(***************************************************************************)
EXTENDS Topology, TLC

CONSTANTS t1, t2

\* One thread does everything but the workers' part; cogdiod_set_tv wakes atoms as
\* attention does.
Alone == (t1 :> Operations \ {"work", "attend"}) @@ (t2 :> {})

\* Two threads, nothing is ever freed.
Growing ==
    (t1 :> {"spawn", "link", "attend"}) @@ (t2 :> {"link", "set_tv", "work"})

\* Two threads that free what the other one links or frees as well.
Freeing == {
    (t1 :> {"spawn", "link", "gc"}) @@ (t2 :> {"unlink", "destroy"}),
    (t1 :> {"spawn", "link", "decay", "prune"}) @@ (t2 :> {"unlink"})}

InEveryWay == {Alone, Growing} \cup Freeing

\* One thread links, unlinks and prunes while another works under the locks.
Pruning == {
    (t1 :> {"spawn", "link", "unlink", "prune", "set_tv", "work"})
        @@ (t2 :> {"hebbian", "decay", "attend"})}

\* One thread links and walks the outgoing list in cogdiod_set_tv while another
\* unlinks.
Unlinking == {(t1 :> {"spawn", "link", "set_tv"}) @@ (t2 :> {"unlink"})}

\* A collector beside a client that gives attention and destroys.
Collecting == {(t1 :> {"spawn", "link", "gc"}) @@ (t2 :> {"attend", "destroy"})}

\* Pruning by one thread: links, weights, pruning.
PruningAlone == {[t \in Thread |-> {"spawn", "link", "hebbian", "decay", "prune"}]}

\* Which of them are what ListsOK asks for.
ASSUME DisciplineAssumption ==
    /\ \A o \in {Alone, Growing} \cup Pruning : Disciplined(o)
    /\ t1 # t2 /\ t2 \in Thread =>
          \A o \in Freeing \cup Unlinking \cup Collecting : ~ Disciplined(o)

\* Channel objects are interchangeable, and so are atoms: no operation orders them
\* (safety only).
Symmetry == Permutations(Channel) \cup Permutations(Atom)
=============================================================================
