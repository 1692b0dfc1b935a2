---------------------------- MODULE PatternMatch ----------------------------
(***************************************************************************)
(* The pattern matcher, src/pm/unify.c: cogdiod_match takes the body of a  *)
(* BindLink and tries to unify every living atom of the pool with it.  The *)
(* recursion of unify is the list of pairs that are still to be unified;   *)
(* one step unifies one pair.                                              *)
(*                                                                         *)
(* The walk holds the pool's read lock: atoms do not come or go, but they  *)
(* wake up, since a state changes under the atom's own lock.  Links do not *)
(* change while it walks: nothing but the caller's discipline sees to that *)
(* (unify reads outgoing_count and the list without the atom's lock).      *)
(* A graph that leads back to itself is left out: there unify calls itself *)
(* until the C stack is used up.  So is a wait: cogdiod_get_atom takes the *)
(* read lock a second time for every target, and where a waiting writer    *)
(* goes first neither of the two goes on (glibc lets readers pass).        *)
(***************************************************************************)
EXTENDS Naturals, Sequences, SequencesExt, FiniteSetsExt

CONSTANTS
    Atom,           \* uuids, numbered so that links point to smaller ones
    Kind(_),        \* type_id
    VariableNode,
    Name(_),
    Anonymous,      \* the empty name
    BindLink,       \* the uuid cogdiod_match is called with
    Graphs,         \* what the outgoing lists may be, latest link first
    Pools,          \* the atoms that may exist
    Sleepers,       \* those that may be ATOM_SLEEPING when the call begins
    MaxBindings     \* MAX_BINDINGS

ASSUME MatchAssumption ==
    /\ Atom \subseteq Nat \ {0} /\ IsFiniteSet(Atom) /\ MaxBindings \in Nat
    /\ Graphs \subseteq [Atom -> Seq(Atom)]
    /\ \A lists \in Graphs, a \in Atom : \A i \in DOMAIN lists[a] : lists[a][i] < a
    /\ BindLink \in Atom /\ \A atoms \in Pools : BindLink \in atoms /\ atoms \subseteq Atom

VARIABLES
    out,        \* out[a]: where the atom's outgoing channels lead
    pool,       \* the atoms that exist; a channel may lead to one that is gone
    alive,      \* those whose state is ATOM_ALIVE
    wasAlive,   \* those that were when the call began
    left,       \* atoms the walk has not come to
    trial,      \* the atom at trial, or 0
    pairs,      \* pattern and graph atoms still to be unified
    bound,      \* Bindings: bound[v] for the variables met
    reported    \* reported[a]: the bindings the callback got

matchVars == <<out, pool, alive, wasAlive, left, trial, pairs, bound, reported>>
graph == <<out, pool>>

Unbound == [v \in {} |-> 0]

\* The second outgoing atom of the BindLink, if it has one and it exists.
Bodies == IF Len(out[BindLink]) < 2 THEN {} ELSE {out[BindLink][2]} \cap pool

MatchInit ==
    /\ out \in Graphs
    /\ pool \in Pools
    /\ alive \in {pool \ sleepers : sleepers \in Sleepers}
    /\ wasAlive = alive
    /\ left = IF Bodies = {} THEN {} ELSE pool
    /\ trial = 0
    /\ pairs = <<>>
    /\ bound = Unbound
    /\ reported = Unbound

\* cogdiod_attend by another thread.
Wake(a) ==
    /\ a \in pool \ alive
    /\ left # {}
    /\ alive' = alive \cup {a}
    /\ UNCHANGED <<graph, wasAlive, left, trial, pairs, bound, reported>>

\* Mutant: the bindings of the last trial are kept.
TryBoundAlready(a) ==
    /\ trial = 0 /\ left # {} /\ a = Min(left)
    /\ left' = left \ {a}
    /\ IF a # BindLink /\ a \in alive
       THEN \E body \in Bodies : trial' = a /\ pairs' = <<<<body, a>>>> /\ bound' = bound
       ELSE UNCHANGED <<trial, pairs, bound>>
    /\ UNCHANGED <<graph, alive, wasAlive, reported>>
\* The walk comes to the next atom, bucket by bucket.  Each trial starts with no
\* binding.
Try(a) ==
    /\ trial = 0 /\ left # {} /\ a = Min(left)
    /\ left' = left \ {a}
    /\ IF a # BindLink /\ a \in alive
       THEN \E body \in Bodies : trial' = a /\ pairs' = <<<<body, a>>>> /\ bound' = Unbound
       ELSE UNCHANGED <<trial, pairs, bound>>
    /\ UNCHANGED <<graph, alive, wasAlive, reported>>

\* Rule 1: what a variable may be bound to.
\* Mutant: the bound on the bindings is met before the variable is looked up.
BindsWhileRoom(v, g) ==
    Cardinality(DOMAIN bound) < MaxBindings /\ (v \in DOMAIN bound => bound[v] = g)
Binds(v, g) ==
    IF v \in DOMAIN bound THEN bound[v] = g ELSE Cardinality(DOMAIN bound) < MaxBindings

\* Rule 2: nodes of one type whose names do not differ.
SameNode(p, g) ==
    /\ out[p] = <<>> /\ out[g] = <<>>
    /\ Name(p) = Name(g) \/ Name(p) = Anonymous \/ Name(g) = Anonymous

\* Rule 3: links of one type and arity.
\* Mutant: the arity is not compared.
SameShapeAnyArity(p, g) == out[p] # <<>> /\ out[g] # <<>>
SameShape(p, g) == out[p] # <<>> /\ Len(out[p]) = Len(out[g])

\* Mutant: no test for an atom that is gone.
UnifiesWithTheGone(p, g) ==
    IF Kind(p) = VariableNode THEN Binds(p, g)
    ELSE Kind(p) = Kind(g) /\ (SameNode(p, g) \/ SameShape(p, g))
\* An atom that is gone unifies with nothing.
Unifies(p, g) ==
    /\ {p, g} \subseteq pool
    /\ IF Kind(p) = VariableNode THEN Binds(p, g)
       ELSE Kind(p) = Kind(g) /\ (SameNode(p, g) \/ SameShape(p, g))

Unify ==
    /\ pairs # <<>>
    /\ LET p == Head(pairs)[1]
           g == Head(pairs)[2]
           variable == Kind(p) = VariableNode
       IN
       /\ Unifies(p, g)
       /\ bound' = IF variable THEN [v \in DOMAIN bound \cup {p} |-> IF v = p THEN g ELSE bound[v]]
                   ELSE bound
       /\ pairs' = (IF variable THEN <<>> ELSE Zip(out[p], out[g])) \o Tail(pairs)
    /\ UNCHANGED <<graph, alive, wasAlive, left, trial, reported>>

\* The first pair that does not unify ends the trial.
Fail ==
    /\ pairs # <<>>
    /\ ~Unifies(Head(pairs)[1], Head(pairs)[2])
    /\ trial' = 0
    /\ pairs' = <<>>
    /\ UNCHANGED <<graph, alive, wasAlive, left, bound, reported>>

\* Every pair was unified: the callback gets the atom and the bindings.
Report ==
    /\ trial # 0 /\ pairs = <<>>
    /\ reported' = [a \in DOMAIN reported \cup {trial} |->
                       IF a = trial THEN bound ELSE reported[a]]
    /\ trial' = 0
    /\ UNCHANGED <<graph, alive, wasAlive, left, pairs, bound>>

MatchNext == (\E a \in Atom : Wake(a) \/ Try(a)) \/ Unify \/ Fail \/ Report

-----------------------------------------------------------------------------

\* Every component has its type, and no trial leaves the pool's atoms.
MatchTypeOK ==
    /\ left \cup alive \cup wasAlive \cup DOMAIN reported \subseteq pool
    /\ trial \in pool \cup {0}
    /\ pairs \in Seq(Atom \X Atom) /\ (trial = 0 => pairs = <<>>)
    /\ \A b \in {bound} \cup {reported[a] : a \in DOMAIN reported} :
          \A v \in DOMAIN b : Kind(v) = VariableNode /\ b[v] \in pool

\* What it means that a pattern and an atom are alike, whatever order they are
\* compared in, and the atoms the variables would have to stand for.
Like ==
    LET like[x \in Atom \X Atom] ==
        LET p == x[1]  g == x[2] IN
        /\ {p, g} \subseteq pool
        /\ \/ Kind(p) = VariableNode
           \/ /\ Kind(p) = Kind(g)
              /\ Len(out[p]) = Len(out[g])
              /\ out[p] = <<>> => Name(p) = Name(g) \/ Anonymous \in {Name(p), Name(g)}
              /\ \A i \in DOMAIN out[p] : like[<<out[p][i], out[g][i]>>]
    IN like
Demands ==
    LET demands[x \in Atom \X Atom] ==
        LET p == x[1]  g == x[2] IN
        IF Kind(p) = VariableNode THEN {x}
        ELSE UNION {demands[<<out[p][i], out[g][i]>>] : i \in DOMAIN out[p] \cap DOMAIN out[g]}
    IN demands

\* Whoever the callback heard of is like the pattern, and the bindings it got are
\* those the pattern demands, no more and no other: nothing of an earlier trial
\* or of a later pair is in them, and they give every variable one atom.
ReportsAreMatches ==
    \A body \in Bodies, a \in DOMAIN reported :
        /\ Like[<<body, a>>]
        /\ {<<v, reported[a][v]>> : v \in DOMAIN reported[a]} = Demands[<<body, a>>]

\* The same with the types, among them that no binding is of an atom that is gone
\* (unify's test of its arguments).
ReportsOK == MatchTypeOK /\ ReportsAreMatches

\* Whoever was alive when the call began, is like the pattern and demands one atom
\* for every variable, of MAX_BINDINGS at most, is reported once it was tried; the
\* order of the walk and those that failed before it make no difference.
OneEach(S) == \A x, y \in S : x[1] = y[1] => x = y
MatchesAreReported ==
    \A body \in Bodies, a \in wasAlive \ (left \cup {trial, BindLink}) :
        Like[<<body, a>>] =>
            \/ a \in DOMAIN reported
            \/ ~OneEach(Demands[<<body, a>>])
            \/ Cardinality(Demands[<<body, a>>]) > MaxBindings

=============================================================================
