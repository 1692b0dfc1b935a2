--------------------------- MODULE StiLedgerProofs ---------------------------
(***************************************************************************)
(* The books of StiLedger agree, for any finite pool of atoms and any      *)
(* finite number of threads.                                               *)
(*                                                                         *)
(* The first half is about sums: a finite set has a minimal subset in      *)
(* every family of its subsets (the order of strict subsets is well        *)
(* founded), so a smallest subset for which a claim on sums fails would be *)
(* one.  That gives the function by which MapThenSumSet adds, and that one *)
(* term can be taken out of a sum.  The second half is the inductive       *)
(* invariant: the books, and what an undisturbed normalisation has still   *)
(* to scale down.                                                          *)
(***************************************************************************)
EXTENDS StiLedger, FiniteSetTheorems, WellFoundedInduction, TLAPS

\* Every family of subsets of a finite set has a minimal member.
LEMMA MinimalSubset ==
    ASSUME NEW S, IsFiniteSet(S), NEW U \in SUBSET SUBSET S, U # {}
    PROVE  \E s \in U : \A t \in U : t \subseteq s => t = s
<1>1. PICK s \in U : \A t \in U : ~(<<t, s>> \in StrictSubsetOrdering(S))
  BY FS_FiniteSubsetsOfFinite, FS_StrictSubsetOrderingWellFounded, WFMin
<1>2. \A t \in U : t \subseteq s => t = s
  BY <1>1 DEF StrictSubsetOrdering
<1> QED BY <1>2

One(s) == CHOOSE x \in s : TRUE
\* g is the function by which MapThenSumSet adds f over the subsets of S.
Adds(f, S, g) == g = [s \in SUBSET S |-> IF s = {} THEN 0 ELSE f[One(s)] + g[s \ {One(s)}]]

\* One(s) is what MapThenSumSet takes out of s first.
LEMMA OneIsIn == \A s : s # {} => One(s) \in s
BY DEF One

\* There is one such function at most: a smallest set on which two differ would
\* differ already without its first element.
LEMMA AddsOnce ==
    ASSUME NEW f, NEW S, IsFiniteSet(S), NEW T \in SUBSET S, NEW g, NEW h,
           Adds(f, S, g), Adds(f, T, h)
    PROVE  g[T] = h[T]
<1> DEFINE U == {s \in SUBSET T : g[s] # h[s]}
<1>1. ASSUME U # {} PROVE FALSE
  <2>1. IsFiniteSet(T)
    BY FS_Subset
  <2>2. PICK s \in U : \A t \in U : t \subseteq s => t = s
    <3> U \in SUBSET SUBSET T
      OBVIOUS
    <3> HIDE DEF U
    <3> QED BY <1>1, <2>1, MinimalSubset
  <2>3. s \in SUBSET T /\ s \in SUBSET S /\ g[s] # h[s]
    OBVIOUS
  <2>4. /\ g[s] = IF s = {} THEN 0 ELSE f[One(s)] + g[s \ {One(s)}]
        /\ h[s] = IF s = {} THEN 0 ELSE f[One(s)] + h[s \ {One(s)}]
    BY <2>3 DEF Adds
  <2>5. s # {}
    BY <2>3, <2>4
  <2>6. One(s) \in s
    BY <2>5, OneIsIn
  <2>7. s \ {One(s)} \notin U
    BY <2>2, <2>6
  <2>8. g[s \ {One(s)}] = h[s \ {One(s)}]
    BY <2>3, <2>7
  <2> QED BY <2>3, <2>4, <2>5, <2>8
<1> QED BY <1>1

\* There is such a function for every finite set, made of those for its subsets.
LEMMA AddsExists ==
    ASSUME NEW f, NEW S, IsFiniteSet(S)
    PROVE  \E g : Adds(f, S, g)
<1> DEFINE U == {s \in SUBSET S : ~ \E g : Adds(f, s, g)}
<1>1. ASSUME U # {} PROVE FALSE
  <2>1. PICK s \in U : \A t \in U : t \subseteq s => t = s
    <3> U \in SUBSET SUBSET S
      OBVIOUS
    <3> HIDE DEF U
    <3> QED BY <1>1, MinimalSubset
  <2> DEFINE G(t) == CHOOSE g : Adds(f, t, g)
             new == [t \in SUBSET s |-> IF t = {} THEN 0 ELSE f[One(t)] + G(t \ {One(t)})[t \ {One(t)}]]
  <2>2. \A t \in SUBSET s : t # s => Adds(f, t, G(t))
    BY <2>1
  <2>3. IsFiniteSet(s)
    BY FS_Subset
  <2>4. ASSUME NEW t \in SUBSET s, t # {} PROVE new[t \ {One(t)}] = G(t \ {One(t)})[t \ {One(t)}]
    <3> DEFINE u == t \ {One(t)}
               v == u \ {One(u)}
    <3>1. u \in SUBSET s /\ u # s
      BY <2>4, OneIsIn
    <3>2. Adds(f, u, G(u))
      BY <2>2, <3>1
    <3>3. G(u)[u] = IF u = {} THEN 0 ELSE f[One(u)] + G(u)[v]
      BY <3>2 DEF Adds
    <3>4. u # {} => G(u)[v] = G(v)[v]
      <4> SUFFICES ASSUME u # {} PROVE G(u)[v] = G(v)[v]
        OBVIOUS
      <4>1. v \in SUBSET u /\ v # s
        BY OneIsIn, <3>1
      <4>2. Adds(f, v, G(v))
        BY <4>1, <3>1, <2>2
      <4>3. IsFiniteSet(u)
        BY <3>1, <2>3, FS_Subset
      <4> HIDE DEF G, u, v
      <4> QED BY <4>1, <4>2, <4>3, <3>2, AddsOnce
    <3> QED BY <3>1, <3>3, <3>4
  <2>5. new = [t \in SUBSET s |-> IF t = {} THEN 0 ELSE f[One(t)] + new[t \ {One(t)}]]
    <3>1. \A t \in SUBSET s : t # {} => G(t \ {One(t)})[t \ {One(t)}] = new[t \ {One(t)}]
      BY <2>4
    <3> DEFINE v(t) == G(t \ {One(t)})[t \ {One(t)}]
               w(t) == new[t \ {One(t)}]
    <3>2. /\ new = [t \in SUBSET s |-> IF t = {} THEN 0 ELSE f[One(t)] + v(t)]
          /\ \A t \in SUBSET s : t # {} => v(t) = w(t)
      BY <3>1
    <3> SUFFICES [t \in SUBSET s |-> IF t = {} THEN 0 ELSE f[One(t)] + v(t)]
                   = [t \in SUBSET s |-> IF t = {} THEN 0 ELSE f[One(t)] + w(t)]
      BY <3>2
    <3> HIDE DEF v, w
    <3> QED BY <3>2
  <2>6. Adds(f, s, new)
    <3> HIDE DEF new
    <3> QED BY <2>5 DEF Adds
  <2> QED BY <2>1, <2>6
<1> QED BY <1>1, FS_Subset

\* The function that adds f, on a set and on its subsets.
LEMMA TotalIsAdds ==
    ASSUME NEW f, IsFiniteSet(DOMAIN f), NEW g, Adds(f, DOMAIN f, g)
    PROVE  TotalOf(f) = g[DOMAIN f]
<1> DEFINE S == DOMAIN f
<1>1. PICK h : Adds(f, S, h) /\ TotalOf(f) = h[S]
  BY DEF Adds, One, TotalOf, MapThenSumSet, MapThenFoldSet
<1>2. h[S] = g[S]
  <2>1. IsFiniteSet(S) /\ S \in SUBSET S /\ Adds(f, S, g)
    OBVIOUS
  <2> HIDE DEF S
  <2> QED BY <1>1, <2>1, AddsOnce
<1> QED BY <1>1, <1>2

Part(f, S) == [x \in S |-> f[x]]
Without(f, a) == [x \in DOMAIN f \ {a} |-> f[x]]

\* On a subset it is the function that adds the part of f.
LEMMA AddsPart ==
    ASSUME NEW f, NEW S, NEW T \in SUBSET S, NEW g, Adds(f, S, g)
    PROVE  \E h : Adds(Part(f, T), T, h) /\ h[T] = g[T]
<1>1. \A s \in SUBSET T : g[s] = IF s = {} THEN 0 ELSE f[One(s)] + g[s \ {One(s)}]
  BY DEF Adds
<1>2. ASSUME NEW s \in SUBSET T, s # {} PROVE One(s) \in s
  BY <1>2, OneIsIn
<1> DEFINE h == [s \in SUBSET T |-> g[s]]
<1>3. \A s \in SUBSET T : h[s] = IF s = {} THEN 0 ELSE Part(f, T)[One(s)] + h[s \ {One(s)}]
  BY <1>1, <1>2 DEF Part
<1>4. h = [s \in SUBSET T |-> h[s]]
  OBVIOUS
<1>5. Adds(Part(f, T), T, h)
  BY <1>3, <1>4 DEF Adds
<1>6. h[T] = g[T]
  OBVIOUS
<1> QED BY <1>5, <1>6

\* So it gives the sum of every part of f.
LEMMA TotalPart ==
    ASSUME NEW f, NEW S, IsFiniteSet(S), DOMAIN f = S, NEW T \in SUBSET S, NEW g, Adds(f, S, g)
    PROVE  TotalOf(Part(f, T)) = g[T]
<1>1. PICK h : Adds(Part(f, T), T, h) /\ h[T] = g[T]
  BY AddsPart
<1>2. DOMAIN Part(f, T) = T /\ IsFiniteSet(T)
  BY FS_Subset DEF Part
<1> QED BY <1>1, <1>2, TotalIsAdds

\* Nothing adds up to nothing.
LEMMA TotalEmpty ==
    ASSUME NEW f, DOMAIN f = {}
    PROVE  TotalOf(f) = 0
<1>1. PICK g : Adds(f, {}, g)
  BY FS_EmptySet, AddsExists
<1>2. TotalOf(f) = g[{}]
  BY <1>1, FS_EmptySet, TotalIsAdds
<1> QED BY <1>1, <1>2 DEF Adds

\* A sum is the term that is added first and the sum of the others.
LEMMA TotalOne ==
    ASSUME NEW f, IsFiniteSet(DOMAIN f), DOMAIN f # {}
    PROVE  \E a \in DOMAIN f : TotalOf(f) = f[a] + TotalOf(Without(f, a))
<1> DEFINE S == DOMAIN f
           a == One(S)
<1>1. PICK g : Adds(f, S, g)
  BY AddsExists
<1>2. a \in S
  BY OneIsIn
<1>3. TotalOf(f) = g[S]
  BY <1>1, TotalIsAdds
<1>4. TotalOf(Without(f, a)) = g[S \ {a}]
  <2>1. Without(f, a) = Part(f, S \ {a})
    BY DEF Without, Part
  <2>2. S \ {a} \in SUBSET S
    OBVIOUS
  <2> QED BY <1>1, <2>1, <2>2, TotalPart
<1>5. g[S] = f[a] + g[S \ {a}]
  BY <1>1 DEF Adds
<1> QED BY <1>2, <1>3, <1>4, <1>5

\* Integers add up to an integer.
LEMMA TotalInt ==
    ASSUME NEW S, IsFiniteSet(S), NEW f \in [S -> Int]
    PROVE  TotalOf(f) \in Int
<1> DEFINE U == {s \in SUBSET S : TotalOf(Part(f, s)) \notin Int}
<1>1. ASSUME U # {} PROVE FALSE
  <2>1. PICK s \in U : \A t \in U : t \subseteq s => t = s
    <3> U \in SUBSET SUBSET S
      OBVIOUS
    <3> HIDE DEF U
    <3> QED BY <1>1, MinimalSubset
  <2>2. DOMAIN Part(f, s) = s /\ IsFiniteSet(s)
    BY FS_Subset DEF Part
  <2>3. s # {}
    <3>1. TotalOf(Part(f, s)) \notin Int
      BY <2>1
    <3>2. s = {} => TotalOf(Part(f, s)) = 0
      BY <2>2, TotalEmpty
    <3> QED BY <3>1, <3>2
  <2>4. PICK a \in s : TotalOf(Part(f, s)) = Part(f, s)[a] + TotalOf(Without(Part(f, s), a))
    BY <2>2, <2>3, TotalOne
  <2>5. Without(Part(f, s), a) = Part(f, s \ {a}) /\ Part(f, s)[a] \in Int
    BY DEF Without, Part
  <2>6. TotalOf(Part(f, s \ {a})) \in Int
    BY <2>1
  <2> QED BY <2>4, <2>5, <2>6
<1>2. Part(f, S) = f
  BY DEF Part
<1> QED BY <1>1, <1>2

\* Any term can be taken out of a sum, not only the one that is added first.
LEMMA TotalRemove ==
    ASSUME NEW S, IsFiniteSet(S), NEW f \in [S -> Int], NEW a \in S
    PROVE  TotalOf(f) = f[a] + TotalOf(Without(f, a))
<1> DEFINE U == {s \in SUBSET S : \E b \in s : TotalOf(Part(f, s)) # f[b] + TotalOf(Part(f, s \ {b}))}
<1>1. ASSUME U # {} PROVE FALSE
  <2>1. PICK s \in U : \A t \in U : t \subseteq s => t = s
    <3> U \in SUBSET SUBSET S
      OBVIOUS
    <3> HIDE DEF U
    <3> QED BY <1>1, MinimalSubset
  <2>2. PICK b \in s : TotalOf(Part(f, s)) # f[b] + TotalOf(Part(f, s \ {b}))
    BY <2>1
  <2>3. DOMAIN Part(f, s) = s /\ IsFiniteSet(s)
    BY FS_Subset DEF Part
  <2>4. PICK c \in s : TotalOf(Part(f, s)) = Part(f, s)[c] + TotalOf(Without(Part(f, s), c))
    BY <2>2, <2>3, TotalOne
  <2>5. Without(Part(f, s), c) = Part(f, s \ {c}) /\ Part(f, s)[c] = f[c]
    BY DEF Without, Part
  <2>6. b # c
    BY <2>2, <2>4, <2>5
  <2>7. /\ TotalOf(Part(f, s \ {c})) = f[b] + TotalOf(Part(f, (s \ {c}) \ {b}))
        /\ TotalOf(Part(f, s \ {b})) = f[c] + TotalOf(Part(f, (s \ {b}) \ {c}))
    <3>1. s \ {c} \notin U /\ s \ {b} \notin U
      <4> HIDE DEF U
      <4> QED BY <2>1, <2>2, <2>4
    <3>2. b \in s \ {c} /\ c \in s \ {b} /\ s \ {c} \in SUBSET S /\ s \ {b} \in SUBSET S
      BY <2>6
    <3> QED BY <3>1, <3>2
  <2>8. (s \ {c}) \ {b} = (s \ {b}) \ {c}
    OBVIOUS
  <2>9. \A t \in SUBSET S : TotalOf(Part(f, t)) \in Int
    <3> TAKE t \in SUBSET S
    <3>1. IsFiniteSet(t) /\ Part(f, t) \in [t -> Int]
      BY FS_Subset DEF Part
    <3> QED BY <3>1, TotalInt
  <2>10. f[b] \in Int /\ f[c] \in Int /\ TotalOf(Part(f, (s \ {b}) \ {c})) \in Int
    BY <2>9
  <2> DEFINE rest == TotalOf(Part(f, (s \ {b}) \ {c}))
  <2>11. TotalOf(Part(f, s)) = f[c] + (f[b] + rest) /\ TotalOf(Part(f, s \ {b})) = f[c] + rest
    BY <2>4, <2>5, <2>7, <2>8
  <2>12. TotalOf(Part(f, s)) # f[b] + (f[c] + rest)
    BY <2>2, <2>11
  <2> HIDE DEF U, rest
  <2> QED BY <2>10, <2>11, <2>12 DEF rest
<1>2. Part(f, S) = f /\ Part(f, S \ {a}) = Without(f, a)
  BY DEF Part, Without
<1> QED BY <1>1, <1>2

\* A change of one term changes the sum by as much.
LEMMA TotalChange ==
    ASSUME NEW S, IsFiniteSet(S), NEW f \in [S -> Int], NEW g \in [S -> Int], NEW a \in S,
           \A x \in S \ {a} : g[x] = f[x]
    PROVE  /\ TotalOf(f) \in Int /\ TotalOf(g) \in Int
           /\ TotalOf(g) = TotalOf(f) - f[a] + g[a]
<1>1. Without(f, a) = Without(g, a)
  BY DEF Without
<1>2. TotalOf(f) = f[a] + TotalOf(Without(f, a)) /\ TotalOf(g) = g[a] + TotalOf(Without(g, a))
  BY TotalRemove
<1>3. TotalOf(f) \in Int /\ TotalOf(g) \in Int /\ TotalOf(Without(f, a)) \in Int
  <2>1. IsFiniteSet(S \ {a}) /\ Without(f, a) \in [S \ {a} -> Int]
    BY FS_Subset DEF Without
  <2> QED BY <2>1, TotalInt
<1> DEFINE rest == TotalOf(Without(f, a))
<1>4. TotalOf(f) = f[a] + rest /\ TotalOf(g) = g[a] + rest /\ rest \in Int
  BY <1>1, <1>2, <1>3
<1>5. f[a] \in Int /\ g[a] \in Int
  OBVIOUS
<1> HIDE DEF rest
<1> QED BY <1>3, <1>4, <1>5

\* What threads in a call have of some amount adds up to that of the others and
\* that of one thread, which is nothing when it is in another call.
Shares(d, call, field) == [t \in {t \in Caller : d[t].call = call} |-> d[t][field]]
ShareOf(c, call, field) == IF c.call = call THEN c[field] ELSE 0

\* One thread's share can be taken out of what is in the threads' hands.
LEMMA SharesSplit ==
    ASSUME NEW call, NEW field, NEW d, NEW t \in Caller, IsFiniteSet(Caller),
           \A u \in Caller : d[u].call = call => d[u][field] \in Int
    PROVE  /\ TotalOf(Shares(d, call, field)) \in Int
           /\ TotalOf(Without(Shares(d, call, field), t)) \in Int
           /\ TotalOf(Shares(d, call, field))
                = ShareOf(d[t], call, field) + TotalOf(Without(Shares(d, call, field), t))
<1> DEFINE S == {u \in Caller : d[u].call = call}
           f == Shares(d, call, field)
<1>1. IsFiniteSet(S) /\ IsFiniteSet(S \ {t})
  BY FS_Subset
<1>2. f \in [S -> Int] /\ Without(f, t) \in [S \ {t} -> Int]
  BY DEF Shares, Without
<1>3. TotalOf(f) \in Int /\ TotalOf(Without(f, t)) \in Int
  <2> HIDE DEF S, f
  <2> QED BY <1>1, <1>2, TotalInt
<1>4. CASE t \in S
  <2>1. TotalOf(f) = f[t] + TotalOf(Without(f, t))
    <3> HIDE DEF S, f
    <3> QED BY <1>1, <1>2, <1>4, TotalRemove
  <2> QED BY <1>3, <1>4, <2>1 DEF Shares, ShareOf
<1>5. CASE t \notin S
  <2>1. Without(f, t) = f
    BY <1>5 DEF Shares, Without
  <2> QED BY <1>3, <1>5, <2>1 DEF ShareOf
<1> QED BY <1>4, <1>5

\* When one thread goes on, the amounts change by what it takes up and gives up.
LEMMA SharesChange ==
    ASSUME NEW call, NEW field, NEW d, NEW e, NEW t \in Caller, IsFiniteSet(Caller),
           \A u \in Caller : d[u].call = call => d[u][field] \in Int,
           \A u \in Caller : e[u].call = call => e[u][field] \in Int,
           \A u \in Caller \ {t} : e[u] = d[u]
    PROVE  /\ TotalOf(Shares(d, call, field)) \in Int
           /\ TotalOf(Shares(e, call, field))
                = TotalOf(Shares(d, call, field))
                  - ShareOf(d[t], call, field) + ShareOf(e[t], call, field)
<1> DEFINE rest == TotalOf(Without(Shares(d, call, field), t))
<1>1. Without(Shares(d, call, field), t) = Without(Shares(e, call, field), t)
  BY DEF Shares, Without
<1>2. /\ TotalOf(Shares(d, call, field)) = ShareOf(d[t], call, field) + rest
      /\ TotalOf(Shares(e, call, field)) = ShareOf(e[t], call, field) + rest
      /\ TotalOf(Shares(d, call, field)) \in Int /\ rest \in Int
  BY <1>1, SharesSplit
<1>3. ShareOf(d[t], call, field) \in Int /\ ShareOf(e[t], call, field) \in Int
  BY DEF ShareOf
<1> HIDE DEF rest
<1> QED BY <1>2, <1>3

\* A factor can be taken out of a sum.
LEMMA TotalScale ==
    ASSUME NEW S, IsFiniteSet(S), NEW f \in [S -> Int], NEW c \in Int
    PROVE  TotalOf([x \in S |-> c * f[x]]) = c * TotalOf(f)
<1> DEFINE g == [x \in S |-> c * f[x]]
           U == {s \in SUBSET S : TotalOf(Part(g, s)) # c * TotalOf(Part(f, s))}
<1>1. ASSUME U # {} PROVE FALSE
  <2>1. PICK s \in U : \A t \in U : t \subseteq s => t = s
    <3> U \in SUBSET SUBSET S
      OBVIOUS
    <3> HIDE DEF U
    <3> QED BY <1>1, MinimalSubset
  <2>2. IsFiniteSet(s) /\ Part(f, s) \in [s -> Int] /\ Part(g, s) \in [s -> Int]
    BY FS_Subset DEF Part
  <2>3. s # {}
    <3>1. s = {} => TotalOf(Part(f, s)) = 0 /\ TotalOf(Part(g, s)) = 0
      BY <2>2, TotalEmpty
    <3> QED BY <3>1
  <2>4. PICK b \in s : TRUE
    BY <2>3
  <2> DEFINE r == s \ {b}
  <2>5. /\ TotalOf(Part(f, s)) = Part(f, s)[b] + TotalOf(Without(Part(f, s), b))
        /\ TotalOf(Part(g, s)) = Part(g, s)[b] + TotalOf(Without(Part(g, s), b))
    BY <2>2, <2>4, TotalRemove
  <2>6. /\ Without(Part(f, s), b) = Part(f, r) /\ Part(f, s)[b] = f[b]
        /\ Without(Part(g, s), b) = Part(g, r) /\ Part(g, s)[b] = c * f[b]
    BY DEF Without, Part
  <2>7. TotalOf(Part(g, r)) = c * TotalOf(Part(f, r))
    BY <2>1, <2>4
  <2>8. TotalOf(Part(f, r)) \in Int
    <3>1. IsFiniteSet(r) /\ Part(f, r) \in [r -> Int]
      BY <2>2, FS_Subset DEF Part
    <3> HIDE DEF r
    <3> QED BY <3>1, TotalInt
  <2>9. \A x, y \in Int : c * (x + y) = c * x + c * y
    OBVIOUS
  <2>10. f[b] \in Int
    OBVIOUS
  <2>11. /\ TotalOf(Part(f, s)) = f[b] + TotalOf(Part(f, r))
         /\ TotalOf(Part(g, s)) = c * f[b] + c * TotalOf(Part(f, r))
    <3> HIDE DEF g, r, U
    <3> QED BY <2>5, <2>6, <2>7
  <2>12. TotalOf(Part(g, s)) = c * TotalOf(Part(f, s))
    <3> HIDE DEF g, r, U
    <3> QED BY <2>8, <2>9, <2>10, <2>11
  <2> QED BY <2>12
<1>2. Part(f, S) = f /\ Part(g, S) = g
  BY DEF Part
<1> QED BY <1>1, <1>2

-----------------------------------------------------------------------------

\* What a thread has in its hands, by the call it is in.
LEMMA CallShapes ==
    ASSUME NEW c \in Call
    PROVE  /\ c.call \in {"idle", "bytecode", "attend", "diffuse", "rent", "normalize"}
           /\ c.call = "idle" => c = Idle
           /\ c.call = "attend" => c.delta \in Int
           /\ c.call = "diffuse" => c = [call |-> "diffuse", left |-> c.left] /\ c.left \in SUBSET Atom
           /\ c.call = "rent" =>
                /\ c = [call |-> "rent", left |-> c.left, rent |-> c.rent]
                /\ c.left \in SUBSET Atom /\ c.rent \in Nat
           /\ c.call = "normalize" =>
                /\ c = [call |-> "normalize", left |-> c.left, total |-> c.total, target2 |-> c.target2]
                /\ c.left \in SUBSET Atom /\ c.total \in Nat \ {0} /\ c.target2 \in Nat
<1>1. CASE c = Idle
  BY <1>1 DEF Idle
<1>2. CASE c \in [call : {"bytecode"}]
  BY <1>2
<1>3. CASE c \in [call : {"attend"}, delta : Amounts]
  BY <1>3, LedgerAssumption
<1>4. CASE c \in [call : {"diffuse"}, left : SUBSET Atom]
  BY <1>4
<1>5. CASE c \in [call : {"rent"}, left : SUBSET Atom, rent : Nat]
  BY <1>5
<1>6. CASE c \in [call : {"normalize"}, left : SUBSET Atom, total : Nat \ {0}, target2 : Nat]
  BY <1>6
<1> QED BY <1>1, <1>2, <1>3, <1>4, <1>5, <1>6 DEF Call

\* A thread that goes on to c is the only one that moves.
Becomes(t, c) == doing' = [doing EXCEPT ![t] = c]

\* What that makes of the types.
LEMMA BecomesType ==
    ASSUME LedgerTypeOK, NEW t \in Caller, NEW c \in Call, Becomes(t, c), sti' \in [DOMAIN sti -> Int],
           c.call \in {"rent", "diffuse", "normalize"} => c.left \subseteq DOMAIN sti
    PROVE  /\ DOMAIN doing' = Caller /\ \A u \in Caller : doing'[u] \in Call
           /\ doing'[t] = c /\ \A u \in Caller \ {t} : doing'[u] = doing[u]
           /\ \A u \in Walkers' : doing'[u].left \subseteq DOMAIN sti'
<1>1. doing'[t] = c /\ \A u \in Caller \ {t} : doing'[u] = doing[u]
  BY DEF LedgerTypeOK, Becomes
<1>2. DOMAIN doing' = Caller /\ \A u \in Caller : doing'[u] \in Call
  BY <1>1 DEF LedgerTypeOK, Becomes
<1>3. ASSUME NEW u \in Walkers' PROVE doing'[u].left \subseteq DOMAIN sti'
  <2>1. CASE u = t
    BY <1>1, <1>3, <2>1 DEF Walkers, In
  <2>2. CASE u # t
    BY <1>1, <1>3, <2>2 DEF Walkers, In, LedgerTypeOK
  <2> QED BY <2>1, <2>2
<1> QED BY <1>1, <1>2, <1>3

\* What an atom gives away leaves it a rest.
LEMMA SharesLeaveARest ==
    ASSUME NEW n \in Nat, n > 1, NEW k \in Nat, k > 0, NEW share \in 0 .. (n - 1) \div k
    PROVE  share * k \in 0 .. n - 1
<1>1. ((n - 1) \div k) * k <= n - 1 /\ (n - 1) \div k \in Nat
  BY Z3
<1>2. share * k <= ((n - 1) \div k) * k
  BY <1>1, Z3
<1> QED BY <1>1, <1>2

\* The part that leaves an atom is a number, and no more than the atom has unless
\* that is a debt.
LEMMA PartOfSti ==
    ASSUME NEW n \in Int, NEW amount \in PartOf(n)
    PROVE  amount \in Int /\ (n >= 0 => 0 <= amount /\ amount <= n)
BY DEF PartOf

\* A step of one thread keeps the types when it keeps those of its variables.
LEMMA TypeOfStep ==
    ASSUME LedgerTypeOK, NEW t \in Caller, NEW c \in Call, Becomes(t, c), sti' \in [DOMAIN sti -> Int],
           c.call \in {"rent", "diffuse", "normalize"} => c.left \subseteq DOMAIN sti,
           total' \in Int, gone' \in Int, funds2' \in Nat, charged' \in Nat,
           calls' \in 0 .. MaxCalls, overlapped' \in BOOLEAN, plain' \in BOOLEAN
    PROVE  LedgerTypeOK'
<1>1. doing' \in [Caller -> Call] /\ \A u \in Walkers' : doing'[u].left \subseteq DOMAIN sti'
  BY BecomesType DEF LedgerTypeOK, Becomes
<1>2. DOMAIN sti' \subseteq Atom /\ sti' \in [DOMAIN sti' -> Int]
  BY DEF LedgerTypeOK
<1> QED BY <1>1, <1>2 DEF LedgerTypeOK

\* Entering a call and returning from it.
LEMMA Enters ==
    ASSUME LedgerTypeOK, NEW t \in Caller, NEW c, Enter(t, c)
    PROVE  /\ Becomes(t, c) /\ doing[t] = Idle
           /\ calls' \in 0 .. MaxCalls /\ overlapped' \in BOOLEAN
<1>1. Becomes(t, c) /\ doing[t] = Idle /\ calls' \in 0 .. MaxCalls
  BY LedgerAssumption DEF Enter, Becomes, LedgerTypeOK
<1>2. overlapped' \in BOOLEAN
  BY Zenon DEF Enter
<1> QED BY <1>1, <1>2

\* Returning makes it idle.
LEMMA Returns ==
    ASSUME LedgerTypeOK, NEW t \in Caller, Return(t)
    PROVE  /\ Becomes(t, Idle) /\ Idle \in Call /\ Idle.call = "idle"
           /\ calls' \in 0 .. MaxCalls /\ overlapped' \in BOOLEAN
BY DEF Return, Becomes, LedgerTypeOK, Idle, Call

\* A thread that forgets an atom stays in its call.
LEMMA ForgetsAtom ==
    ASSUME LedgerTypeOK, NEW a \in Atom, Destroy(a)
    PROVE  /\ doing' \in [Caller -> Call]
           /\ \A t \in Walkers' : doing'[t].left \subseteq DOMAIN sti'
           /\ \A call : In(call)' = In(call)
           /\ \A t \in Caller : doing[t].call # "normalize" => doing'[t] = doing[t]
           /\ \A t \in In("normalize") :
                 /\ doing'[t].left = doing[t].left \ {a}
                 /\ doing'[t].total = doing[t].total /\ doing'[t].target2 = doing[t].target2
<1>1. /\ doing' = [t \in Caller |-> Forgets(doing[t], a)]
      /\ DOMAIN sti' = DOMAIN sti \ {a} /\ ~ PoolLocked /\ a \in DOMAIN sti
  BY DEF Destroy
<1>2. \A t \in Caller : doing[t] \in Call
  BY DEF LedgerTypeOK
<1>3. \A t \in Caller : doing[t].call # "normalize" => doing'[t] = doing[t]
  BY <1>1 DEF Forgets
<1>4. ASSUME NEW t \in In("normalize")
      PROVE  /\ doing'[t] \in Call /\ doing'[t].call = "normalize"
             /\ doing'[t].left = doing[t].left \ {a}
             /\ doing'[t].total = doing[t].total /\ doing'[t].target2 = doing[t].target2
  <2>1. /\ doing[t] = [call |-> "normalize", left |-> doing[t].left,
                       total |-> doing[t].total, target2 |-> doing[t].target2]
        /\ doing[t].left \in SUBSET Atom /\ doing[t].total \in Nat \ {0} /\ doing[t].target2 \in Nat
    BY <1>2, CallShapes DEF In
  <2>2. doing'[t] = [doing[t] EXCEPT !.left = @ \ {a}]
    BY <1>1 DEF Forgets, In
  <2>3. doing'[t] = [call |-> "normalize", left |-> doing[t].left \ {a},
                     total |-> doing[t].total, target2 |-> doing[t].target2]
    BY <2>1, <2>2
  <2> QED BY <2>1, <2>3 DEF Call
<1>5. doing' \in [Caller -> Call]
  BY <1>1, <1>2, <1>3, <1>4 DEF In
<1>6. \A call : In(call)' = In(call)
  <2>1. ASSUME NEW t \in Caller PROVE doing'[t].call = doing[t].call
    <3>1. CASE doing[t].call = "normalize"
      <4>1. t \in In("normalize")
        BY <3>1 DEF In
      <4> QED BY <1>4, <3>1, <4>1
    <3>2. CASE doing[t].call # "normalize"
      BY <1>3, <3>2
    <3> QED BY <3>1, <3>2
  <2> QED BY <2>1 DEF In
<1>7. ASSUME NEW t \in Walkers' PROVE doing'[t].left \subseteq DOMAIN sti'
  <2>1. t \in Walkers /\ t \in Caller /\ doing[t].left \subseteq DOMAIN sti
    BY <1>6 DEF LedgerTypeOK, Walkers, In
  <2>2. CASE t \in In("normalize")
    <3>1. doing'[t].left = doing[t].left \ {a}
      BY <1>4, <2>2
    <3> QED BY <1>1, <2>1, <3>1
  <2>3. CASE t \notin In("normalize")
    BY <1>1, <1>3, <2>1, <2>3 DEF PoolLocked, In
  <2> QED BY <2>2, <2>3
<1> QED BY <1>3, <1>4, <1>5, <1>6, <1>7

\* The types are kept.
LEMMA TypesKept ==
    ASSUME LedgerTypeOK, [LedgerNext]_ledgerVars
    PROVE  LedgerTypeOK'
<1>0. /\ sti \in [DOMAIN sti -> Int] /\ DOMAIN sti \subseteq Atom
      /\ total \in Int /\ gone \in Int /\ funds2 \in Nat /\ charged \in Nat
      /\ plain \in BOOLEAN /\ \A t \in Caller : doing[t] \in Call
  BY DEF LedgerTypeOK
<1>1. ASSUME NEW t \in Caller, NEW a \in DOMAIN sti, NEW delta \in Amounts, AttendAtom(t, a, delta)
      PROVE  LedgerTypeOK'
  <2> DEFINE c == [call |-> "attend", delta |-> delta]
  <2>1. c \in Call /\ sti' \in [DOMAIN sti -> Int] /\ c.call = "attend"
    BY <1>0, <1>1, LedgerAssumption DEF AttendAtom, Call
  <2> HIDE DEF c
  <2>2. Enter(t, c) /\ UNCHANGED <<total, funds2, gone, charged>> /\ plain' \in BOOLEAN
    BY <1>0, <1>1 DEF AttendAtom, c
  <2> QED BY <2>1, <2>2, <1>0, Enters, TypeOfStep
<1>2. ASSUME NEW t \in Caller, AttendTotal(t) PROVE LedgerTypeOK'
  <2>1. total' \in Int
    BY <1>0, <1>2, CallShapes DEF AttendTotal, In
  <2> QED BY <2>1, <1>0, <1>2, Returns, TypeOfStep DEF AttendTotal
<1>3. ASSUME NEW t \in Caller, Diffuse(t) PROVE LedgerTypeOK'
  <2> DEFINE c == [call |-> "diffuse", left |-> DOMAIN sti]
  <2>1. c \in Call /\ c.left = DOMAIN sti
    BY <1>0 DEF Call
  <2> HIDE DEF c
  <2>2. Enter(t, c) /\ UNCHANGED <<sti, total, funds2, gone, plain, charged>>
    BY <1>3 DEF Diffuse, c
  <2> QED BY <2>1, <2>2, <1>0, Enters, TypeOfStep
<1>4. ASSUME NEW t \in Caller, NEW a \in DOMAIN sti, DiffuseAtom(t, a) PROVE LedgerTypeOK'
  <2> DEFINE c == [call |-> "diffuse", left |-> doing[t].left \ {a}]
  <2>1. doing[t] = [call |-> "diffuse", left |-> doing[t].left] /\ doing[t].left \subseteq DOMAIN sti
    BY <1>0, <1>4, CallShapes DEF DiffuseAtom, Visits, In, LedgerTypeOK, Walkers
  <2>2. c \in Call /\ c.left \subseteq DOMAIN sti /\ Becomes(t, c)
    <3>1. [doing[t] EXCEPT !.left = @ \ {a}] = c
      BY <2>1
    <3>2. doing' = [doing EXCEPT ![t] = [doing[t] EXCEPT !.left = @ \ {a}]]
      BY <1>4 DEF DiffuseAtom, GoesOn
    <3> QED BY <2>1, <3>1, <3>2, <1>0 DEF Call, Becomes
  <2>3. sti' \in [DOMAIN sti -> Int] /\ gone' \in Int
    <3>1. CASE sti[a] > 1 /\ OutCount(a) > 0
      <4>1. PICK share \in 0 .. (sti[a] - 1) \div OutCount(a) : Lose(a, share * OutCount(a))
        BY <3>1, <1>4 DEF DiffuseAtom
      <4>2. share * OutCount(a) \in 0 .. sti[a] - 1
        BY <1>0, <3>1, LedgerAssumption, SharesLeaveARest
      <4> QED BY <4>1, <4>2, <1>0 DEF Lose
    <3>2. CASE ~(sti[a] > 1 /\ OutCount(a) > 0)
      BY <3>2, <1>0, <1>4 DEF DiffuseAtom
    <3> QED BY <3>1, <3>2
  <2>4. UNCHANGED <<total, funds2, plain, charged, calls, overlapped>>
    BY <1>4 DEF DiffuseAtom, GoesOn
  <2> HIDE DEF c
  <2> QED BY <2>2, <2>3, <2>4, <1>0, TypeOfStep DEF LedgerTypeOK
<1>5. ASSUME NEW t \in Caller, DiffuseEnds(t) PROVE LedgerTypeOK'
  BY <1>0, <1>5, Returns, TypeOfStep DEF DiffuseEnds
<1>6. ASSUME NEW t \in Caller, NEW a \in DOMAIN sti,
             Spread(t, a) \/ \E amount \in Amounts : SetSti(t, a, amount)
      PROVE  LedgerTypeOK'
  <2> DEFINE c == [call |-> "bytecode"]
  <2>1. c \in Call /\ c.call = "bytecode"
    BY DEF Call
  <2>2. PICK amount \in Int : Lose(a, amount)
    BY <1>0, <1>6, PartOfSti, LedgerAssumption DEF Spread, SetSti
  <2>3. sti' \in [DOMAIN sti -> Int] /\ gone' \in Int
    BY <2>2, <1>0 DEF Lose
  <2> HIDE DEF c
  <2>4. Enter(t, c) /\ UNCHANGED <<total, funds2, charged>> /\ plain' \in BOOLEAN
    BY <1>0, <1>6 DEF Spread, SetSti, c
  <2> QED BY <2>1, <2>3, <2>4, <1>0, Enters, TypeOfStep
<1>7. ASSUME NEW t \in Caller, BytecodeEnds(t) PROVE LedgerTypeOK'
  BY <1>0, <1>7, Returns, TypeOfStep DEF BytecodeEnds
<1>8. ASSUME NEW t \in Caller, Rent(t) PROVE LedgerTypeOK'
  <2> DEFINE c == [call |-> "rent", left |-> DOMAIN sti, rent |-> 0]
  <2>1. c \in Call /\ c.left = DOMAIN sti
    BY <1>0 DEF Call
  <2> HIDE DEF c
  <2>2. Enter(t, c) /\ UNCHANGED <<sti, total, funds2, gone, plain, charged>>
    BY <1>8 DEF Rent, c
  <2> QED BY <2>1, <2>2, <1>0, Enters, TypeOfStep
<1>9. ASSUME NEW t \in Caller, NEW a \in DOMAIN sti, RentAtom(t, a) PROVE LedgerTypeOK'
  <2>1. /\ doing[t] = [call |-> "rent", left |-> doing[t].left, rent |-> doing[t].rent]
        /\ doing[t].left \subseteq DOMAIN sti /\ doing[t].rent \in Nat
    BY <1>0, <1>9, CallShapes DEF RentAtom, Visits, In, LedgerTypeOK, Walkers
  <2>2. PICK rent \in IF sti[a] > 0 THEN PartOf(sti[a]) ELSE {0} :
           /\ sti' = [sti EXCEPT ![a] = @ - rent]
           /\ doing' = [doing EXCEPT ![t] =
                           [call |-> "rent", left |-> @.left \ {a}, rent |-> @.rent + rent]]
           /\ charged' = charged + rent
    BY <1>9 DEF RentAtom
  <2> DEFINE c == [call |-> "rent", left |-> doing[t].left \ {a}, rent |-> doing[t].rent + rent]
  <2>3. rent \in Nat
    BY <1>0 DEF PartOf
  <2>4. c \in Call /\ c.left \subseteq DOMAIN sti
    BY <2>1, <2>3, <1>0 DEF Call
  <2>5. Becomes(t, c)
    BY <2>2 DEF Becomes
  <2>6. sti' \in [DOMAIN sti -> Int] /\ charged' \in Nat
    BY <2>2, <2>3, <1>0
  <2>7. UNCHANGED <<calls, overlapped, total, funds2, gone, plain>>
    BY <1>9 DEF RentAtom
  <2> HIDE DEF c
  <2> QED BY <2>4, <2>5, <2>6, <2>7, <1>0, TypeOfStep DEF LedgerTypeOK
<1>10. ASSUME NEW t \in Caller, RentEnds(t) PROVE LedgerTypeOK'
  <2>1. funds2' \in Nat /\ total' \in Int
    BY <1>0, <1>10, CallShapes DEF RentEnds, Finishes, In
  <2> QED BY <2>1, <1>0, <1>10, Returns, TypeOfStep DEF RentEnds
<1>11. ASSUME NEW t \in Caller, Normalize(t) PROVE LedgerTypeOK'
  <2> DEFINE c == [call |-> "normalize", left |-> DOMAIN sti, total |-> total, target2 |-> funds2]
  <2>1. c \in Call /\ c.left = DOMAIN sti
    BY <1>0, <1>11 DEF Call, Normalize
  <2> HIDE DEF c
  <2>2. Enter(t, c) /\ UNCHANGED <<sti, total, funds2, gone, plain, charged>>
    BY <1>11 DEF Normalize, c
  <2> QED BY <2>1, <2>2, <1>0, Enters, TypeOfStep
<1>12. ASSUME NEW t \in Caller, NEW a \in DOMAIN sti, NormalizeAtom(t, a) PROVE LedgerTypeOK'
  <2>1. /\ doing[t] = [call |-> "normalize", left |-> doing[t].left,
                       total |-> doing[t].total, target2 |-> doing[t].target2]
        /\ doing[t].left \subseteq DOMAIN sti
        /\ doing[t].total \in Nat \ {0} /\ doing[t].target2 \in Nat
    BY <1>0, <1>12, CallShapes DEF NormalizeAtom, Visits, In, LedgerTypeOK, Walkers
  <2> DEFINE c == [call |-> "normalize", left |-> doing[t].left \ {a},
                   total |-> doing[t].total, target2 |-> doing[t].target2]
  <2>2. c \in Call /\ c.left \subseteq DOMAIN sti
    BY <2>1, <1>0 DEF Call
  <2>3. Becomes(t, c)
    <3>1. [doing[t] EXCEPT !.left = @ \ {a}] = c
      BY <2>1
    <3>2. doing' = [doing EXCEPT ![t] = [doing[t] EXCEPT !.left = @ \ {a}]]
      BY <1>12 DEF NormalizeAtom, GoesOn
    <3> QED BY <3>1, <3>2 DEF Becomes
  <2>4. (sti[a] * doing[t].target2) \div (2 * doing[t].total) \in Int
    <3>1. \A n \in Int, k \in Nat, d \in Nat \ {0} : (n * k) \div (2 * d) \in Int
      BY Z3
    <3> QED BY <3>1, <2>1, <1>0
  <2>5. sti' \in [DOMAIN sti -> Int]
    BY <2>4, <1>0, <1>12 DEF NormalizeAtom
  <2>6. UNCHANGED <<total, funds2, gone, plain, charged, calls, overlapped>>
    BY <1>12 DEF NormalizeAtom, GoesOn
  <2> HIDE DEF c
  <2> QED BY <2>2, <2>3, <2>5, <2>6, <1>0, TypeOfStep DEF LedgerTypeOK
<1>13. ASSUME NEW t \in Caller, NormalizeEnds(t) PROVE LedgerTypeOK'
  <2>1. total' \in Int
    BY <1>0, <1>13, CallShapes DEF NormalizeEnds, Finishes, In
  <2>2. TotalOf(sti) \in Int
    BY <1>0, LedgerAssumption, FS_Subset, TotalInt
  <2>3. gone' \in Int
    BY <2>1, <2>2, <1>13 DEF NormalizeEnds
  <2> QED BY <2>1, <2>3, <1>0, <1>13, Returns, TypeOfStep DEF NormalizeEnds
<1>14. ASSUME NEW a \in Atom, Destroy(a) PROVE LedgerTypeOK'
  <2>1. /\ doing' \in [Caller -> Call]
        /\ \A t \in Walkers' : doing'[t].left \subseteq DOMAIN sti'
    BY <1>14, ForgetsAtom DEF LedgerTypeOK
  <2> QED BY <1>0, <1>14, <2>1 DEF Destroy, LedgerTypeOK
<1>15. CASE UNCHANGED ledgerVars
  BY <1>15 DEF ledgerVars, LedgerTypeOK, Walkers, In
<1> QED BY <1>1, <1>2, <1>3, <1>4, <1>5, <1>6, <1>7, <1>8, <1>9, <1>10, <1>11, <1>12, <1>13,
           <1>14, <1>15 DEF LedgerNext

-----------------------------------------------------------------------------

\* A normalisation that nobody disturbs is alone.
Alone == ~overlapped =>
    \A t \in In("normalize") : \A u \in Caller \ {t} : doing[u] = Idle

\* Where nobody owes, it has the atoms that are left still to scale down from what
\* they had in the total it read, and the others have their part of its target.
Weights(t) == [a \in DOMAIN sti |->
    (IF a \in doing[t].left THEN doing[t].target2 ELSE 2 * doing[t].total) * sti[a]]
ScalesDown == ~overlapped /\ plain =>
    \A t \in In("normalize") : TotalOf(Weights(t)) <= doing[t].target2 * doing[t].total

IInv == BooksAgree /\ Alone /\ ScalesDown

\* How the amounts that are given or collected and not yet booked change in a
\* step of one thread.
LEMMA HandsChange ==
    ASSUME LedgerTypeOK, LedgerTypeOK', NEW t \in Caller, NEW c \in Call, Becomes(t, c)
    PROVE  /\ TotalOf(Given) \in Int /\ TotalOf(Collected) \in Int
           /\ TotalOf(Given') = TotalOf(Given)
                - ShareOf(doing[t], "attend", "delta") + ShareOf(c, "attend", "delta")
           /\ TotalOf(Collected') = TotalOf(Collected)
                - ShareOf(doing[t], "rent", "rent") + ShareOf(c, "rent", "rent")
<1>1. /\ Given = Shares(doing, "attend", "delta") /\ Given' = Shares(doing', "attend", "delta")
      /\ Collected = Shares(doing, "rent", "rent") /\ Collected' = Shares(doing', "rent", "rent")
  BY DEF Given, Collected, Shares, In
<1>2. \A u \in Caller : doing[u] \in Call /\ doing'[u] \in Call
  BY DEF LedgerTypeOK
<1>3. \A u \in Caller : doing[u].call = "attend" => doing[u]["delta"] \in Int
  BY <1>2, CallShapes
<1>4. \A u \in Caller : doing'[u].call = "attend" => doing'[u]["delta"] \in Int
  BY <1>2, CallShapes
<1>5. \A u \in Caller : doing[u].call = "rent" => doing[u]["rent"] \in Int
  BY <1>2, CallShapes
<1>6. \A u \in Caller : doing'[u].call = "rent" => doing'[u]["rent"] \in Int
  BY <1>2, CallShapes
<1>7. doing'[t] = c /\ \A u \in Caller \ {t} : doing'[u] = doing[u]
  BY DEF LedgerTypeOK, Becomes
<1>8. IsFiniteSet(Caller)
  BY LedgerAssumption
<1>9. /\ TotalOf(Given) \in Int
      /\ TotalOf(Given') = TotalOf(Given)
           - ShareOf(doing[t], "attend", "delta") + ShareOf(doing'[t], "attend", "delta")
  BY <1>1, <1>3, <1>4, <1>7, <1>8, SharesChange
<1>10. /\ TotalOf(Collected) \in Int
       /\ TotalOf(Collected') = TotalOf(Collected)
            - ShareOf(doing[t], "rent", "rent") + ShareOf(doing'[t], "rent", "rent")
  BY <1>1, <1>5, <1>6, <1>7, <1>8, SharesChange
<1> QED BY <1>7, <1>9, <1>10

\* How the atoms' STI changes when one atom's does.
LEMMA StiChange ==
    ASSUME LedgerTypeOK, NEW a \in DOMAIN sti, sti' \in [DOMAIN sti -> Int],
           \A x \in DOMAIN sti \ {a} : sti'[x] = sti[x]
    PROVE  /\ TotalOf(sti) \in Int /\ TotalOf(sti') \in Int /\ sti[a] \in Int /\ sti'[a] \in Int
           /\ TotalOf(sti') = TotalOf(sti) - sti[a] + sti'[a]
<1> DEFINE S == DOMAIN sti
<1>1. IsFiniteSet(S) /\ a \in S /\ sti \in [S -> Int] /\ sti' \in [S -> Int]
  BY LedgerAssumption, FS_Subset DEF LedgerTypeOK
<1>2. \A x \in S \ {a} : sti'[x] = sti[x]
  OBVIOUS
<1> HIDE DEF S
<1>3. TotalOf(sti) \in Int /\ TotalOf(sti') \in Int /\ TotalOf(sti') = TotalOf(sti) - sti[a] + sti'[a]
  BY <1>1, <1>2, TotalChange
<1>4. sti[a] \in Int /\ sti'[a] \in Int
  BY <1>1
<1> QED BY <1>3, <1>4

\* What the atoms have is a number.
LEMMA StiTotal ==
    ASSUME LedgerTypeOK
    PROVE  TotalOf(sti) \in Int
BY LedgerAssumption, FS_Subset, TotalInt DEF LedgerTypeOK

\* A thread that is not in a normalisation, and goes on in its call or enters one
\* beside none, leaves no normalisation alone that was not.
LEMMA Undisturbed ==
    ASSUME IInv, NEW t \in Caller, NEW c \in Call, Becomes(t, c),
           doing[t].call # "normalize", c.call # "normalize", overlapped => overlapped',
           doing[t] # Idle \/ overlapped' \/ In("normalize") = {}
    PROVE  ~overlapped' => ~overlapped /\ In("normalize") = {} /\ In("normalize")' = {}
<1>1. doing'[t] = c /\ \A u \in Caller \ {t} : doing'[u] = doing[u]
  BY DEF IInv, BooksAgree, LedgerTypeOK, Becomes
<1>2. SUFFICES ASSUME ~overlapped' PROVE In("normalize") = {}
  BY <1>1 DEF In
<1>3. ASSUME NEW u \in In("normalize") PROVE FALSE
  <2>1. u \in Caller /\ u # t
    BY DEF In
  <2>2. doing[t] # Idle
    BY <1>2, <1>3
  <2> QED BY <1>2, <2>1, <2>2 DEF IInv, Alone
<1> QED BY <1>3

\* A step outside normalisations keeps the books when it writes into them what it
\* takes from or gives to the atoms and the hands.
LEMMA BookedStep ==
    ASSUME IInv, LedgerTypeOK', NEW t \in Caller, NEW c \in Call, Becomes(t, c),
           doing[t].call # "normalize", c.call # "normalize", overlapped => overlapped',
           doing[t] # Idle \/ overlapped' \/ In("normalize") = {},
           total' + ShareOf(c, "attend", "delta") - ShareOf(doing[t], "attend", "delta") - total
             = TotalOf(sti') + gone' + ShareOf(c, "rent", "rent")
               - TotalOf(sti) - gone - ShareOf(doing[t], "rent", "rent"),
           plain' => plain /\ gone' >= gone /\ \A a \in DOMAIN sti' : sti'[a] >= 0,
           funds2' + ShareOf(c, "rent", "rent") - funds2 - ShareOf(doing[t], "rent", "rent")
             = charged' - charged
    PROVE  IInv'
<1>0. LedgerTypeOK /\ LedgerBalances /\ NobodyOwes /\ FundsAreHalfTheRent
  BY DEF IInv, BooksAgree
<1>1. ~overlapped' => ~overlapped /\ In("normalize") = {} /\ In("normalize")' = {}
  BY Undisturbed
<1>2. Alone' /\ ScalesDown'
  BY <1>1 DEF Alone, ScalesDown
<1> DEFINE x == ShareOf(doing[t], "rent", "rent")
           y == ShareOf(c, "rent", "rent")
           v == ShareOf(doing[t], "attend", "delta")
           w == ShareOf(c, "attend", "delta")
           given == TotalOf(Given)
           rents == TotalOf(Collected)
           had == TotalOf(sti)
           has == TotalOf(sti')
<1>3. given \in Int /\ rents \in Int /\ TotalOf(Given') = given - v + w /\ TotalOf(Collected') = rents - x + y
  BY <1>0, HandsChange
<1>4. v \in Int /\ w \in Int /\ x \in Int /\ y \in Int
  BY <1>0, CallShapes DEF ShareOf, LedgerTypeOK
<1>5. /\ total \in Int /\ total' \in Int /\ gone \in Int /\ gone' \in Int
      /\ funds2 \in Int /\ funds2' \in Int /\ charged \in Int /\ charged' \in Int
      /\ had \in Int /\ has \in Int
  <2>1. has \in Int
    BY LedgerAssumption, FS_Subset, TotalInt DEF LedgerTypeOK
  <2> QED BY <1>0, <2>1, StiTotal DEF LedgerTypeOK
<1>6. /\ total' + w - v - total = has + gone' + y - had - gone - x
      /\ funds2' + y - funds2 - x = charged' - charged
  OBVIOUS
<1> HIDE DEF given, rents, had, has, v, w, x, y
<1>7. funds2' + (rents - x + y) = 2 * InitialFunds + charged'
  <2>1. InitialFunds \in Int
    BY LedgerAssumption
  <2>2. funds2 + rents = 2 * InitialFunds + charged
    BY <1>0 DEF FundsAreHalfTheRent, rents
  <2>3. \A f, g, r, m, n, a, b, h \in Int :
           f + r = m + a /\ g + h - f - n = b - a => g + (r - n + h) = m + b
    BY Z3
  <2>4. 2 * InitialFunds \in Int
    BY <2>1
  <2> QED BY <1>3, <1>4, <1>5, <1>6, <2>2, <2>3, <2>4
<1>8. FundsAreHalfTheRent'
  BY <1>3, <1>7 DEF FundsAreHalfTheRent
<1>9. LedgerBalances'
  <2>1. SUFFICES ASSUME ~overlapped'
                 PROVE  total' + TotalOf(Given') = TotalOf(sti') + gone' + TotalOf(Collected')
    BY DEF LedgerBalances
  <2>2. total + given = had + gone + rents
    BY <1>0, <1>1, <2>1 DEF LedgerBalances, given, had, rents
  <2>3. total' + (given - v + w) = has + gone' + (rents - x + y)
    BY <1>3, <1>4, <1>5, <1>6, <2>2
  <2> QED BY <1>3, <2>3 DEF has
<1>10. NobodyOwes'
  <2>1. SUFFICES ASSUME plain'
                 PROVE  /\ \A a \in DOMAIN sti' : sti'[a] >= 0
                        /\ overlapped' \/ gone' >= 0
    BY DEF NobodyOwes
  <2>2. plain /\ gone' >= gone /\ \A a \in DOMAIN sti' : sti'[a] >= 0
    BY <2>1
  <2>3. overlapped' \/ gone >= 0
    BY <1>0, <1>1, <2>2 DEF NobodyOwes
  <2>4. gone' >= 0 \/ overlapped'
    BY <1>5, <2>2, <2>3
  <2> QED BY <2>2, <2>4
<1> QED BY <1>2, <1>8, <1>9, <1>10 DEF IInv, BooksAgree

\* Each step that is not a normalisation's keeps the books.
LEMMA AttendsBooked ==
    ASSUME IInv, LedgerTypeOK', NEW t \in Caller,
           \/ \E a \in DOMAIN sti, delta \in Amounts : AttendAtom(t, a, delta)
           \/ AttendTotal(t)
    PROVE  IInv'
<1>0. LedgerTypeOK
  BY DEF IInv, BooksAgree
<1>1. ASSUME NEW a \in DOMAIN sti, NEW delta \in Amounts, AttendAtom(t, a, delta) PROVE IInv'
  <2> DEFINE c == [call |-> "attend", delta |-> delta]
  <2>1. /\ Enter(t, c) /\ sti' = [sti EXCEPT ![a] = @ + delta]
        /\ plain' = (plain /\ delta >= 0) /\ UNCHANGED <<total, funds2, gone, charged>>
    BY <1>1 DEF AttendAtom
  <2>2. c \in Call /\ c.call = "attend" /\ c["delta"] = delta /\ delta \in Int
    BY LedgerAssumption DEF Call
  <2>3. doing[t].call = "idle" /\ (overlapped => overlapped') /\ (overlapped' \/ In("normalize") = {})
    BY <2>1 DEF Enter, Idle
  <2>4. sti' \in [DOMAIN sti -> Int] /\ sti'[a] = sti[a] + delta /\ \A x \in DOMAIN sti \ {a} : sti'[x] = sti[x]
    BY <1>0, <2>1, <2>2 DEF LedgerTypeOK
  <2>5. /\ TotalOf(sti) \in Int /\ TotalOf(sti') \in Int /\ sti[a] \in Int
        /\ TotalOf(sti') = TotalOf(sti) - sti[a] + sti'[a]
    BY <1>0, <2>4, StiChange
  <2>6. /\ ShareOf(c, "attend", "delta") = delta /\ ShareOf(c, "rent", "rent") = 0
        /\ ShareOf(doing[t], "attend", "delta") = 0 /\ ShareOf(doing[t], "rent", "rent") = 0
    BY <2>2, <2>3 DEF ShareOf
  <2> HIDE DEF c
  <2>7. TotalOf(sti') = TotalOf(sti) + delta /\ total \in Int /\ gone \in Int /\ funds2 \in Int /\ charged \in Int
    BY <1>0, <2>2, <2>4, <2>5 DEF LedgerTypeOK
  <2>8. /\ total' + ShareOf(c, "attend", "delta") - ShareOf(doing[t], "attend", "delta") - total
             = TotalOf(sti') + gone' + ShareOf(c, "rent", "rent")
               - TotalOf(sti) - gone - ShareOf(doing[t], "rent", "rent")
        /\ funds2' + ShareOf(c, "rent", "rent") - funds2 - ShareOf(doing[t], "rent", "rent")
             = charged' - charged
    BY <2>1, <2>2, <2>5, <2>6, <2>7
  <2>9. Becomes(t, c)
    BY <2>1 DEF Enter, Becomes
  <2>10. plain' => plain /\ gone' >= gone /\ \A x \in DOMAIN sti' : sti'[x] >= 0
    <3>1. SUFFICES ASSUME plain' PROVE gone' >= gone /\ \A x \in DOMAIN sti' : sti'[x] >= 0
      BY <2>1
    <3>2. plain /\ delta >= 0 /\ \A x \in DOMAIN sti : sti[x] >= 0
      BY <2>1, <3>1 DEF IInv, BooksAgree, NobodyOwes
    <3> QED BY <2>1, <2>2, <2>4, <2>5, <2>7, <3>2
  <2> QED BY <2>2, <2>3, <2>8, <2>9, <2>10, BookedStep
<1>2. CASE AttendTotal(t)
  <2>1. /\ Return(t) /\ total' = total + doing[t].delta
        /\ UNCHANGED <<sti, funds2, gone, plain, charged>>
    BY <1>2 DEF AttendTotal
  <2>2. Idle \in Call /\ Idle.call = "idle" /\ Becomes(t, Idle) /\ overlapped' = overlapped
    BY <2>1 DEF Call, Idle, Return, Becomes
  <2>3. doing[t].call = "attend" /\ doing[t] # Idle /\ doing[t].delta \in Int
    BY <1>0, <1>2, CallShapes DEF AttendTotal, In, Idle, LedgerTypeOK
  <2>4. /\ ShareOf(doing[t], "attend", "delta") = doing[t].delta /\ ShareOf(doing[t], "rent", "rent") = 0
        /\ ShareOf(Idle, "attend", "delta") = 0 /\ ShareOf(Idle, "rent", "rent") = 0
    BY <2>2, <2>3 DEF ShareOf
  <2>5. total \in Int /\ gone \in Int /\ funds2 \in Int /\ charged \in Int /\ TotalOf(sti) \in Int
    BY <1>0, StiTotal DEF LedgerTypeOK
  <2>6. TotalOf(sti') = TotalOf(sti)
    BY <2>1
  <2>7. /\ total' + ShareOf(Idle, "attend", "delta") - ShareOf(doing[t], "attend", "delta") - total
             = TotalOf(sti') + gone' + ShareOf(Idle, "rent", "rent")
               - TotalOf(sti) - gone - ShareOf(doing[t], "rent", "rent")
        /\ funds2' + ShareOf(Idle, "rent", "rent") - funds2 - ShareOf(doing[t], "rent", "rent")
             = charged' - charged
    BY <2>1, <2>3, <2>4, <2>5, <2>6
  <2>8. plain' => plain /\ gone' >= gone /\ \A x \in DOMAIN sti' : sti'[x] >= 0
    BY <2>1, <2>5 DEF IInv, BooksAgree, NobodyOwes
  <2> QED BY <2>2, <2>3, <2>7, <2>8, BookedStep
<1> QED BY <1>1, <1>2

\* A step that takes nothing in hand and at most loses some of an atom's STI.
LEMMA LosesBooked ==
    ASSUME IInv, LedgerTypeOK', NEW t \in Caller, NEW c \in Call, Becomes(t, c),
           doing[t].call \in {"idle", "diffuse", "bytecode"},
           c.call \in {"idle", "diffuse", "bytecode"} \/ (c.call = "rent" /\ c.rent = 0),
           overlapped => overlapped', doing[t] # Idle \/ overlapped' \/ In("normalize") = {},
           total' = total, funds2' = funds2, charged' = charged,
           plain' => plain,
           \/ sti' = sti /\ gone' = gone
           \/ \E a \in DOMAIN sti : \E amount \in Int :
                 Lose(a, amount) /\ (plain' => 0 <= amount /\ amount <= sti[a])
    PROVE  IInv'
<1>0. LedgerTypeOK
  BY DEF IInv, BooksAgree
<1>1. /\ total \in Int /\ gone \in Int /\ funds2 \in Int /\ charged \in Int /\ TotalOf(sti) \in Int
  BY <1>0, StiTotal DEF LedgerTypeOK
<1>2. /\ ShareOf(doing[t], "attend", "delta") = 0 /\ ShareOf(doing[t], "rent", "rent") = 0
      /\ ShareOf(c, "attend", "delta") = 0 /\ ShareOf(c, "rent", "rent") = 0
  BY DEF ShareOf
<1>3. /\ TotalOf(sti') + gone' = TotalOf(sti) + gone /\ gone' \in Int /\ TotalOf(sti') \in Int
      /\ plain' => gone' >= gone /\ \A x \in DOMAIN sti' : sti'[x] >= 0
  <2>0. plain' => \A x \in DOMAIN sti : sti[x] >= 0
    BY DEF IInv, BooksAgree, NobodyOwes
  <2>1. CASE sti' = sti /\ gone' = gone
    <3>1. TotalOf(sti') = TotalOf(sti)
      BY <2>1
    <3> QED BY <1>1, <2>0, <2>1, <3>1
  <2>2. ASSUME NEW a \in DOMAIN sti, NEW amount \in Int, Lose(a, amount),
               plain' => 0 <= amount /\ amount <= sti[a]
        PROVE  /\ TotalOf(sti') + gone' = TotalOf(sti) + gone /\ gone' \in Int /\ TotalOf(sti') \in Int
               /\ plain' => gone' >= gone /\ \A x \in DOMAIN sti' : sti'[x] >= 0
    <3>1. gone' = gone + amount
      BY <2>2 DEF Lose
    <3>2. /\ sti' \in [DOMAIN sti -> Int] /\ sti'[a] = sti[a] - amount
          /\ \A x \in DOMAIN sti \ {a} : sti'[x] = sti[x]
      BY <1>0, <2>2 DEF Lose, LedgerTypeOK
    <3>3. /\ TotalOf(sti') \in Int /\ sti[a] \in Int
          /\ TotalOf(sti') = TotalOf(sti) - sti[a] + sti'[a]
      BY <1>0, <3>2, StiChange
    <3>4. sti'[a] = sti[a] - amount
      BY <3>2
    <3>5. TotalOf(sti') + gone' = TotalOf(sti) + gone /\ gone' \in Int /\ TotalOf(sti') \in Int
      BY <1>1, <3>1, <3>3, <3>4
    <3>6. ASSUME plain' PROVE gone' >= gone /\ \A x \in DOMAIN sti' : sti'[x] >= 0
      BY <1>1, <2>0, <2>2, <3>1, <3>2, <3>3, <3>6
    <3> QED BY <3>5, <3>6
  <2> QED BY <2>1, <2>2
<1>4. /\ total' + ShareOf(c, "attend", "delta") - ShareOf(doing[t], "attend", "delta") - total
           = TotalOf(sti') + gone' + ShareOf(c, "rent", "rent")
             - TotalOf(sti) - gone - ShareOf(doing[t], "rent", "rent")
      /\ funds2' + ShareOf(c, "rent", "rent") - funds2 - ShareOf(doing[t], "rent", "rent")
           = charged' - charged
  BY <1>1, <1>2, <1>3
<1>5. doing[t].call # "normalize" /\ c.call # "normalize"
  OBVIOUS
<1> QED BY <1>3, <1>4, <1>5, BookedStep

\* Entering is a step beside no normalisation, or is noted.
LEMMA EntersApart ==
    ASSUME LedgerTypeOK, NEW t \in Caller, NEW c, Enter(t, c)
    PROVE  /\ Becomes(t, c) /\ doing[t].call = "idle"
           /\ overlapped => overlapped'
           /\ overlapped' \/ In("normalize") = {}
BY DEF Enter, Becomes, Idle

\* Going on to the next atom of a diffusion.
LEMMA GoesOnApart ==
    ASSUME LedgerTypeOK, NEW t \in Caller, NEW a, GoesOn(t, a), doing[t].call = "diffuse"
    PROVE  \E c \in Call : Becomes(t, c) /\ c.call = "diffuse" /\ overlapped' = overlapped
<1> DEFINE c == [call |-> "diffuse", left |-> doing[t].left \ {a}]
<1>1. doing[t] = [call |-> "diffuse", left |-> doing[t].left] /\ doing[t].left \subseteq Atom
  BY CallShapes DEF LedgerTypeOK
<1>2. [doing[t] EXCEPT !.left = @ \ {a}] = c
  BY <1>1
<1>3. doing' = [doing EXCEPT ![t] = [doing[t] EXCEPT !.left = @ \ {a}]] /\ overlapped' = overlapped
  BY DEF GoesOn
<1>4. c \in Call /\ Becomes(t, c) /\ c.call = "diffuse"
  BY <1>1, <1>2, <1>3 DEF Call, Becomes
<1> QED BY <1>3, <1>4

\* Diffusion and spreading lose STI, and a collection begins with nothing in hand.
LEMMA SpreadingBooked ==
    ASSUME IInv, LedgerTypeOK', NEW t \in Caller,
           \/ Diffuse(t) \/ DiffuseEnds(t) \/ BytecodeEnds(t) \/ Rent(t)
           \/ \E a \in DOMAIN sti : DiffuseAtom(t, a) \/ Spread(t, a) \/ \E n \in Amounts : SetSti(t, a, n)
    PROVE  IInv'
<1>0. /\ LedgerTypeOK /\ (\A a \in DOMAIN sti : sti[a] \in Int) /\ DOMAIN sti \subseteq Atom
      /\ plain => \A a \in DOMAIN sti : sti[a] >= 0
  BY DEF IInv, BooksAgree, LedgerTypeOK, NobodyOwes
<1>1. CASE Diffuse(t)
  <2> DEFINE c == [call |-> "diffuse", left |-> DOMAIN sti]
  <2>1. c \in Call /\ c.call = "diffuse"
    BY <1>0 DEF Call
  <2>2. Enter(t, c) /\ UNCHANGED <<sti, total, funds2, gone, plain, charged>>
    BY <1>1 DEF Diffuse
  <2> HIDE DEF c
  <2> QED BY <1>0, <2>1, <2>2, EntersApart, LosesBooked
<1>2. CASE Rent(t)
  <2> DEFINE c == [call |-> "rent", left |-> DOMAIN sti, rent |-> 0]
  <2>1. c \in Call /\ c.call = "rent" /\ c.rent = 0
    BY <1>0 DEF Call
  <2>2. Enter(t, c) /\ UNCHANGED <<sti, total, funds2, gone, plain, charged>>
    BY <1>2 DEF Rent
  <2> HIDE DEF c
  <2> QED BY <1>0, <2>1, <2>2, EntersApart, LosesBooked
<1>3. CASE DiffuseEnds(t) \/ BytecodeEnds(t)
  <2>1. doing[t].call \in {"diffuse", "bytecode"} /\ doing[t] # Idle
    BY <1>3 DEF DiffuseEnds, BytecodeEnds, Finishes, In, Idle
  <2>2. Return(t) /\ UNCHANGED <<sti, total, funds2, gone, plain, charged>>
    BY <1>3 DEF DiffuseEnds, BytecodeEnds
  <2>3. Becomes(t, Idle) /\ Idle \in Call /\ Idle.call = "idle" /\ overlapped' = overlapped
    BY <2>2 DEF Return, Becomes, Idle, Call
  <2> QED BY <2>1, <2>2, <2>3, LosesBooked
<1>4. ASSUME NEW a \in DOMAIN sti, DiffuseAtom(t, a) PROVE IInv'
  <2>1. doing[t].call = "diffuse" /\ doing[t] # Idle /\ GoesOn(t, a) /\ UNCHANGED <<total, funds2, plain, charged>>
    BY <1>4 DEF DiffuseAtom, Visits, In, Idle
  <2>2. \/ sti' = sti /\ gone' = gone
        \/ \E amount \in Int : Lose(a, amount) /\ 0 <= amount /\ amount <= sti[a]
    <3>1. CASE sti[a] > 1 /\ OutCount(a) > 0
      <4>1. PICK share \in 0 .. (sti[a] - 1) \div OutCount(a) : Lose(a, share * OutCount(a))
        BY <3>1, <1>4 DEF DiffuseAtom
      <4>2. share * OutCount(a) \in 0 .. sti[a] - 1
        BY <1>0, <3>1, LedgerAssumption, SharesLeaveARest
      <4> DEFINE amount == share * OutCount(a)
      <4>3. amount \in Int /\ 0 <= amount /\ amount <= sti[a] /\ Lose(a, amount)
        BY <4>1, <4>2, <1>0
      <4> QED BY <4>3
    <3>2. CASE ~(sti[a] > 1 /\ OutCount(a) > 0)
      BY <3>2, <1>4 DEF DiffuseAtom
    <3> QED BY <3>1, <3>2
  <2>3. PICK c \in Call : Becomes(t, c) /\ c.call = "diffuse" /\ overlapped' = overlapped
    BY <1>0, <2>1, GoesOnApart
  <2> QED BY <2>1, <2>2, <2>3, LosesBooked
<1>5. ASSUME NEW a \in DOMAIN sti, Spread(t, a) \/ \E n \in Amounts : SetSti(t, a, n) PROVE IInv'
  <2> DEFINE c == [call |-> "bytecode"]
  <2>1. c \in Call /\ c.call = "bytecode"
    BY DEF Call
  <2>2. Enter(t, c) /\ UNCHANGED <<total, funds2, charged>> /\ (plain' => plain)
    BY <1>5 DEF Spread, SetSti
  <2>3. \E amount \in Int : Lose(a, amount) /\ (plain' => 0 <= amount /\ amount <= sti[a])
    <3>1. CASE Spread(t, a)
      <4>1. PICK amount \in PartOf(sti[a]) : Lose(a, amount) /\ plain' = plain
        BY <3>1 DEF Spread
      <4>2. amount \in Int /\ (sti[a] >= 0 => 0 <= amount /\ amount <= sti[a])
        BY <1>0, PartOfSti
      <4> QED BY <1>0, <4>1, <4>2
    <3>2. CASE \E n \in Amounts : SetSti(t, a, n)
      <4>1. PICK n \in Amounts : Lose(a, sti[a] - n) /\ ~ plain'
        BY <3>2 DEF SetSti
      <4>2. sti[a] - n \in Int
        BY <1>0, LedgerAssumption
      <4> QED BY <4>1, <4>2
    <3> QED BY <1>5, <3>1, <3>2
  <2> HIDE DEF c
  <2> QED BY <1>0, <2>1, <2>2, <2>3, EntersApart, LosesBooked
<1> QED BY <1>1, <1>2, <1>3, <1>4, <1>5

\* Rent that is taken from an atom is in hand until half of it is booked.
LEMMA RentBooked ==
    ASSUME IInv, LedgerTypeOK', NEW t \in Caller,
           RentEnds(t) \/ \E a \in DOMAIN sti : RentAtom(t, a)
    PROVE  IInv'
<1>0. /\ LedgerTypeOK /\ \A a \in DOMAIN sti : sti[a] \in Int
      /\ plain => \A a \in DOMAIN sti : sti[a] >= 0
  BY DEF IInv, BooksAgree, LedgerTypeOK, NobodyOwes
<1>1. total \in Int /\ gone \in Int /\ funds2 \in Int /\ charged \in Int /\ TotalOf(sti) \in Int
  BY <1>0, StiTotal DEF LedgerTypeOK
<1>2. /\ doing[t].call = "rent" /\ doing[t] # Idle /\ doing[t].rent \in Nat /\ doing[t].left \in SUBSET Atom
  BY <1>0, CallShapes DEF RentEnds, RentAtom, Finishes, Visits, In, Idle, LedgerTypeOK
<1>3. ShareOf(doing[t], "attend", "delta") = 0 /\ ShareOf(doing[t], "rent", "rent") = doing[t].rent
  BY <1>2 DEF ShareOf
<1>4. CASE RentEnds(t)
  <2>1. /\ Return(t) /\ funds2' = funds2 + doing[t].rent /\ total' = total - doing[t].rent
        /\ UNCHANGED <<sti, gone, plain, charged>>
    BY <1>4 DEF RentEnds
  <2>2. Becomes(t, Idle) /\ Idle \in Call /\ Idle.call = "idle" /\ overlapped' = overlapped
    BY <2>1 DEF Return, Becomes, Idle, Call
  <2>3. ShareOf(Idle, "attend", "delta") = 0 /\ ShareOf(Idle, "rent", "rent") = 0
    BY <2>2 DEF ShareOf
  <2>4. TotalOf(sti') = TotalOf(sti)
    BY <2>1
  <2>5. /\ total' + ShareOf(Idle, "attend", "delta") - ShareOf(doing[t], "attend", "delta") - total
             = TotalOf(sti') + gone' + ShareOf(Idle, "rent", "rent")
               - TotalOf(sti) - gone - ShareOf(doing[t], "rent", "rent")
        /\ funds2' + ShareOf(Idle, "rent", "rent") - funds2 - ShareOf(doing[t], "rent", "rent")
             = charged' - charged
    BY <1>1, <1>2, <1>3, <2>1, <2>3, <2>4
  <2>6. plain' => plain /\ gone' >= gone /\ \A x \in DOMAIN sti' : sti'[x] >= 0
    BY <1>0, <1>1, <2>1
  <2> QED BY <1>2, <2>2, <2>5, <2>6, BookedStep
<1>5. ASSUME NEW a \in DOMAIN sti, RentAtom(t, a) PROVE IInv'
  <2>1. PICK rent \in IF sti[a] > 0 THEN PartOf(sti[a]) ELSE {0} :
           /\ sti' = [sti EXCEPT ![a] = @ - rent]
           /\ doing' = [doing EXCEPT ![t] =
                           [call |-> "rent", left |-> @.left \ {a}, rent |-> @.rent + rent]]
           /\ charged' = charged + rent
    BY <1>5 DEF RentAtom
  <2> DEFINE c == [call |-> "rent", left |-> doing[t].left \ {a}, rent |-> doing[t].rent + rent]
  <2>2. rent \in Nat /\ (sti[a] >= 0 => rent <= sti[a])
    BY <1>0 DEF PartOf
  <2>3. c \in Call /\ c.call = "rent" /\ c["rent"] = doing[t].rent + rent
    BY <1>2, <2>2 DEF Call
  <2>4. Becomes(t, c) /\ UNCHANGED <<overlapped, total, funds2, gone, plain>>
    BY <1>5, <2>1 DEF Becomes, RentAtom
  <2>5. ShareOf(c, "attend", "delta") = 0 /\ ShareOf(c, "rent", "rent") = doing[t].rent + rent
    BY <2>3 DEF ShareOf
  <2> HIDE DEF c
  <2>6. /\ sti' \in [DOMAIN sti -> Int] /\ sti'[a] = sti[a] - rent
        /\ \A x \in DOMAIN sti \ {a} : sti'[x] = sti[x]
    BY <1>0, <2>1, <2>2 DEF LedgerTypeOK
  <2>7. /\ TotalOf(sti') \in Int /\ sti[a] \in Int
        /\ TotalOf(sti') = TotalOf(sti) - sti[a] + sti'[a]
    BY <1>0, <2>6, StiChange
  <2>8. TotalOf(sti') = TotalOf(sti) - rent
    BY <1>1, <2>2, <2>6, <2>7
  <2>9. /\ total' + ShareOf(c, "attend", "delta") - ShareOf(doing[t], "attend", "delta") - total
             = TotalOf(sti') + gone' + ShareOf(c, "rent", "rent")
               - TotalOf(sti) - gone - ShareOf(doing[t], "rent", "rent")
        /\ funds2' + ShareOf(c, "rent", "rent") - funds2 - ShareOf(doing[t], "rent", "rent")
             = charged' - charged
    <3>1. charged' = charged + rent
      BY <2>1
    <3> QED BY <1>1, <1>2, <1>3, <2>2, <2>4, <2>5, <2>8, <3>1
  <2>10. plain' => plain /\ gone' >= gone /\ \A x \in DOMAIN sti' : sti'[x] >= 0
    BY <1>0, <1>1, <2>2, <2>4, <2>6, <2>7
  <2> QED BY <1>2, <2>3, <2>4, <2>9, <2>10, BookedStep
<1> QED BY <1>4, <1>5

\* A normalisation that begins alone finds no more STI than the total it reads.
LEMMA NormalizeBooked ==
    ASSUME IInv, LedgerTypeOK', NEW t \in Caller, Normalize(t)
    PROVE  IInv'
<1> DEFINE c == [call |-> "normalize", left |-> DOMAIN sti, total |-> total, target2 |-> funds2]
<1>0. /\ LedgerTypeOK /\ sti \in [DOMAIN sti -> Int] /\ IsFiniteSet(DOMAIN sti)
      /\ funds2 \in Nat /\ total \in Int /\ gone \in Int /\ charged \in Nat
  BY LedgerAssumption, FS_Subset DEF IInv, BooksAgree, LedgerTypeOK
<1>1. /\ Enter(t, c) /\ total > 0 /\ UNCHANGED <<sti, total, funds2, gone, plain, charged>>
  BY DEF Normalize
<1>2. c \in Call /\ c.call = "normalize"
  BY <1>0, <1>1 DEF Call, LedgerTypeOK
<1>3. Becomes(t, c) /\ doing[t].call = "idle" /\ (overlapped => overlapped')
  BY <1>0, <1>1, EntersApart
<1>4. doing'[t] = c /\ \A u \in Caller \ {t} : doing'[u] = doing[u]
  BY <1>0, <1>3 DEF LedgerTypeOK, Becomes
<1>5. ~overlapped' => In("normalize") = {} /\ In("idle") = Caller /\ ~overlapped
  BY <1>1, <1>2 DEF Enter
<1>6. LedgerBalances' /\ NobodyOwes'
  <2>1. t \in In("normalize")'
    BY <1>2, <1>4 DEF In
  <2> QED BY <2>1, <1>1 DEF LedgerBalances, NobodyOwes, IInv, BooksAgree
<1>7. TotalOf(Given') = TotalOf(Given) /\ TotalOf(Collected') = TotalOf(Collected)
  <2>1. Given' = Given /\ Collected' = Collected
    BY <1>2, <1>3, <1>4 DEF Given, Collected, In
  <2> QED BY <2>1
<1>8. FundsAreHalfTheRent'
  <2>1. funds2' + TotalOf(Collected') = 2 * InitialFunds + charged'
    BY <1>1, <1>7 DEF IInv, BooksAgree, FundsAreHalfTheRent
  <2> QED BY <2>1 DEF FundsAreHalfTheRent
<1>9. Alone'
  <2> SUFFICES ASSUME ~overlapped', NEW u \in In("normalize")', NEW v \in Caller \ {u}
               PROVE  doing'[v] = Idle
    BY DEF Alone
  <2>1. u = t
    BY <1>4, <1>5 DEF In
  <2>2. doing'[v] = doing[v] /\ doing[v].call = "idle" /\ doing[v] \in Call
    BY <1>0, <1>4, <1>5, <2>1 DEF In, LedgerTypeOK
  <2> QED BY <2>2, CallShapes
<1>10. ScalesDown'
  <2> SUFFICES ASSUME ~overlapped', plain', NEW u \in In("normalize")'
               PROVE  TotalOf(Weights(u)') <= doing'[u].target2 * doing'[u].total
    BY DEF ScalesDown
  <2>1. u = t
    BY <1>4, <1>5 DEF In
  <2>2. Weights(t)' = [a \in DOMAIN sti |-> funds2 * sti[a]]
    BY <1>1, <1>4 DEF Weights
  <2>3. TotalOf([a \in DOMAIN sti |-> funds2 * sti[a]]) = funds2 * TotalOf(sti)
    <3>1. \A S : \A f \in [S -> Int] : \A k \in Int : IsFiniteSet(S) =>
             TotalOf([a \in S |-> k * f[a]]) = k * TotalOf(f)
      BY TotalScale
    <3> QED BY <1>0, <3>1
  <2>4. TotalOf(sti) \in Int /\ TotalOf(sti) <= total
    <3>1. TotalOf(Given) = 0 /\ TotalOf(Collected) = 0
      <4>1. DOMAIN Given = {} /\ DOMAIN Collected = {}
        BY <1>5 DEF Given, Collected, In
      <4> QED BY <4>1, TotalEmpty
    <3>2. total + TotalOf(Given) = TotalOf(sti) + gone + TotalOf(Collected) /\ gone >= 0
      BY <1>1, <1>5 DEF IInv, BooksAgree, LedgerBalances, NobodyOwes
    <3>3. TotalOf(sti) \in Int
      BY <1>0, StiTotal
    <3> QED BY <1>0, <3>1, <3>2, <3>3
  <2>5. funds2 * TotalOf(sti) <= funds2 * total
    <3>1. \A k \in Nat : \A x, y \in Int : x <= y => k * x <= k * y
      BY Z3
    <3> QED BY <1>0, <2>4, <3>1
  <2>6. doing'[u].target2 = funds2 /\ doing'[u].total = total
    BY <1>4, <2>1
  <2> QED BY <2>1, <2>2, <2>3, <2>5, <2>6
<1> QED BY <1>6, <1>8, <1>9, <1>10 DEF IInv, BooksAgree

\* Scaling an atom down rounds towards nothing.
LEMMA ScaledDown ==
    ASSUME NEW n \in Nat, NEW k \in Nat, NEW d \in Nat \ {0}
    PROVE  (2 * d) * ((n * k) \div (2 * d)) <= k * n /\ (n * k) \div (2 * d) \in Nat
<1>1. \A x \in Nat : \A y \in Nat \ {0} : y * (x \div y) <= x /\ x \div y \in Nat
  BY Z3
<1>2. n * k \in Nat /\ 2 * d \in Nat \ {0} /\ n * k = k * n
  BY Z3
<1> QED BY <1>1, <1>2

\* An atom that is scaled weighs no more than before.
LEMMA NormalizeAtomBooked ==
    ASSUME IInv, LedgerTypeOK', NEW t \in Caller, NEW a \in DOMAIN sti, NormalizeAtom(t, a)
    PROVE  IInv'
<1> DEFINE left == doing[t].left
           d == doing[t].total
           k == doing[t].target2
           c == [call |-> "normalize", left |-> left \ {a}, total |-> d, target2 |-> k]
<1>0. /\ LedgerTypeOK /\ IsFiniteSet(DOMAIN sti) /\ sti \in [DOMAIN sti -> Int]
      /\ plain => \A x \in DOMAIN sti : sti[x] \in Nat
  BY LedgerAssumption, FS_Subset DEF IInv, BooksAgree, LedgerTypeOK, NobodyOwes
<1>1. /\ t \in In("normalize") /\ a \in left
      /\ UNCHANGED <<total, funds2, gone, plain, charged, overlapped>>
  BY DEF NormalizeAtom, Visits, GoesOn
<1>2. /\ doing[t] = [call |-> "normalize", left |-> left, total |-> d, target2 |-> k]
      /\ d \in Nat \ {0} /\ k \in Nat /\ left \subseteq DOMAIN sti
  BY <1>0, <1>1, CallShapes DEF In, LedgerTypeOK, Walkers
<1>3. doing'[t] = c /\ \A u \in Caller \ {t} : doing'[u] = doing[u]
  <2>1. [doing[t] EXCEPT !.left = @ \ {a}] = c
    BY <1>2
  <2>2. doing' = [doing EXCEPT ![t] = [doing[t] EXCEPT !.left = @ \ {a}]]
    BY DEF NormalizeAtom, GoesOn
  <2> QED BY <1>0, <2>1, <2>2 DEF LedgerTypeOK
<1>4. /\ sti' \in [DOMAIN sti -> Int] /\ sti'[a] = (sti[a] * k) \div (2 * d)
      /\ \A x \in DOMAIN sti \ {a} : sti'[x] = sti[x]
  <2>1. sti' = [sti EXCEPT ![a] = (@ * k) \div (2 * d)]
    BY DEF NormalizeAtom
  <2>2. sti[a] \in Int /\ (sti[a] * k) \div (2 * d) \in Int
    <3>1. \A n \in Int, m \in Nat, b \in Nat \ {0} : (n * m) \div (2 * b) \in Int
      BY Z3
    <3> QED BY <3>1, <1>0, <1>2
  <2> HIDE DEF k, d
  <2> QED BY <1>0, <2>1, <2>2
<1>5. \A call : In(call)' = In(call)
  BY <1>2, <1>3 DEF In
<1>6. LedgerBalances' /\ NobodyOwes'
  <2>1. t \in In("normalize")'
    BY <1>1, <1>5
  <2>2. ASSUME plain', NEW x \in DOMAIN sti' PROVE sti'[x] >= 0
    <3>1. plain /\ \A y \in DOMAIN sti : sti[y] \in Nat
      BY <1>0, <1>1, <2>2
    <3>2. (sti[a] * k) \div (2 * d) \in Nat
      BY <1>2, <3>1, ScaledDown
    <3> HIDE DEF k, d
    <3> QED BY <1>4, <3>1, <3>2
  <2> QED BY <2>1, <2>2 DEF LedgerBalances, NobodyOwes
<1>7. FundsAreHalfTheRent'
  <2>1. \A u \in In("rent") : doing'[u] = doing[u]
    BY <1>2, <1>3 DEF In
  <2>2. Collected' = Collected
    BY <1>5, <2>1 DEF Collected
  <2>3. funds2' + TotalOf(Collected') = 2 * InitialFunds + charged'
    BY <1>1, <2>2 DEF IInv, BooksAgree, FundsAreHalfTheRent
  <2> QED BY <2>3 DEF FundsAreHalfTheRent
<1>8. Alone'
  <2> SUFFICES ASSUME ~overlapped', NEW u \in In("normalize")', NEW v \in Caller \ {u}
               PROVE  doing'[v] = Idle
    BY DEF Alone
  <2>1. ~overlapped /\ u \in In("normalize")
    BY <1>1, <1>5
  <2>2. doing[v] = Idle
    BY <2>1 DEF IInv, Alone
  <2>3. v # t
    BY <1>2, <2>2 DEF Idle
  <2> QED BY <1>3, <2>2, <2>3
<1>9. ScalesDown'
  <2> SUFFICES ASSUME ~overlapped', plain', NEW u \in In("normalize")'
               PROVE  TotalOf(Weights(u)') <= doing'[u].target2 * doing'[u].total
    BY DEF ScalesDown
  <2>1. ~overlapped /\ u \in In("normalize")
    BY <1>1, <1>5
  <2>2. u = t
    <3>1. u # t => doing[t] = Idle
      BY <2>1 DEF IInv, Alone, In
    <3> QED BY <3>1, <1>2 DEF Idle
  <2>3. TotalOf(Weights(t)) <= k * d
    BY <1>1, <2>1 DEF IInv, ScalesDown
  <2> DEFINE f == Weights(t)
             g == Weights(t)'
             S == DOMAIN sti
  <2>4. /\ f \in [S -> Int] /\ f[a] = k * sti[a]
        /\ \A x \in S \ {a} : f[x] = (IF x \in left THEN k ELSE 2 * d) * sti[x]
    BY <1>0, <1>1, <1>2 DEF Weights
  <2>5. g = [x \in S |-> (IF x \in left \ {a} THEN k ELSE 2 * d) * sti'[x]]
    BY <1>3, <1>4 DEF Weights
  <2>6. /\ g \in [S -> Int] /\ g[a] = (2 * d) * sti'[a]
        /\ \A x \in S \ {a} : g[x] = (IF x \in left THEN k ELSE 2 * d) * sti'[x]
    BY <1>2, <1>4, <2>5
  <2>7. \A x \in S \ {a} : g[x] = f[x]
    BY <1>4, <2>4, <2>6
  <2>8. g[a] <= f[a] /\ g[a] \in Int /\ f[a] \in Int
    <3>1. sti[a] \in Nat
      BY <1>0, <1>1
    <3>2. (2 * d) * ((sti[a] * k) \div (2 * d)) <= k * sti[a]
      BY <1>2, <3>1, ScaledDown
    <3> QED BY <1>4, <2>4, <2>6, <3>2
  <2>9. /\ TotalOf(f) \in Int /\ TotalOf(g) \in Int
        /\ TotalOf(g) = TotalOf(f) - f[a] + g[a]
    <3>1. IsFiniteSet(S) /\ a \in S
      BY <1>0
    <3> HIDE DEF f, g, S
    <3> QED BY <2>4, <2>6, <2>7, <3>1, TotalChange
  <2>10. k * d \in Int
    BY <1>2
  <2>11. TotalOf(g) <= k * d
    <3> DEFINE m == k * d
    <3>1. m \in Int /\ TotalOf(f) <= m
      BY <2>3, <2>10
    <3> HIDE DEF f, g, m
    <3>2. TotalOf(g) <= m
      BY <2>8, <2>9, <3>1
    <3> QED BY <3>2 DEF m
  <2>12. doing'[u].target2 = k /\ doing'[u].total = d
    BY <1>3, <2>2
  <2> QED BY <2>2, <2>11, <2>12
<1> QED BY <1>6, <1>7, <1>8, <1>9 DEF IInv, BooksAgree

\* A normalisation that ends alone sets the total no lower than what is left.
LEMMA NormalizeEndsBooked ==
    ASSUME IInv, LedgerTypeOK', NEW t \in Caller, NormalizeEnds(t)
    PROVE  IInv'
<1> DEFINE d == doing[t].total
           k == doing[t].target2
<1>0. /\ LedgerTypeOK /\ IsFiniteSet(DOMAIN sti) /\ sti \in [DOMAIN sti -> Int] /\ TotalOf(sti) \in Int
  BY LedgerAssumption, FS_Subset, StiTotal DEF IInv, BooksAgree, LedgerTypeOK
<1>1. /\ doing[t].call = "normalize" /\ doing[t].left = {}
      /\ total' = k \div 2 /\ gone' = total' - TotalOf(sti)
      /\ UNCHANGED <<sti, funds2, plain, charged, overlapped>>
  BY DEF NormalizeEnds, Finishes, In, Return
<1>2. d \in Nat \ {0} /\ k \in Nat
  BY <1>0, <1>1, CallShapes DEF LedgerTypeOK
<1>3. doing'[t] = Idle /\ Idle.call = "idle" /\ \A u \in Caller \ {t} : doing'[u] = doing[u]
  BY <1>0 DEF NormalizeEnds, Return, LedgerTypeOK, Idle
<1>4. Given' = Given /\ Collected' = Collected
  BY <1>1, <1>3 DEF Given, Collected, In
<1>5. FundsAreHalfTheRent'
  <2>1. funds2' + TotalOf(Collected') = 2 * InitialFunds + charged'
    BY <1>1, <1>4 DEF IInv, BooksAgree, FundsAreHalfTheRent
  <2> QED BY <2>1 DEF FundsAreHalfTheRent
<1>6. ASSUME ~overlapped' PROVE \A u \in Caller : doing'[u].call = "idle"
  <2>1. ~overlapped /\ t \in In("normalize")
    BY <1>1, <1>6 DEF In
  <2>2. \A u \in Caller \ {t} : doing[u] = Idle
    BY <2>1 DEF IInv, Alone
  <2> QED BY <1>3, <2>2
<1>7. Alone' /\ ScalesDown'
  BY <1>6 DEF Alone, ScalesDown, In
<1>8. LedgerBalances'
  <2>1. SUFFICES ASSUME ~overlapped'
                 PROVE  total' + TotalOf(Given') = TotalOf(sti') + gone' + TotalOf(Collected')
    BY DEF LedgerBalances
  <2>2. TotalOf(Given') = 0 /\ TotalOf(Collected') = 0
    <3>1. DOMAIN (Given') = {} /\ DOMAIN (Collected') = {}
      BY <1>6, <2>1 DEF Given, Collected, In
    <3> QED BY <3>1, TotalEmpty
  <2>3. TotalOf(sti') = TotalOf(sti) /\ total' \in Int
    BY <1>1 DEF LedgerTypeOK
  <2> QED BY <1>0, <1>1, <2>2, <2>3
<1>9. NobodyOwes'
  <2>1. SUFFICES ASSUME plain', ~overlapped' PROVE gone' >= 0
    BY <1>1 DEF NobodyOwes, IInv, BooksAgree
  <2>2. TotalOf(Weights(t)) <= k * d
    BY <1>1, <2>1 DEF IInv, ScalesDown, In
  <2>3. Weights(t) = [a \in DOMAIN sti |-> (2 * d) * sti[a]]
    BY <1>1 DEF Weights
  <2>4. TotalOf([a \in DOMAIN sti |-> (2 * d) * sti[a]]) = (2 * d) * TotalOf(sti)
    <3>1. \A S : \A f \in [S -> Int] : \A x \in Int : IsFiniteSet(S) =>
             TotalOf([a \in S |-> x * f[a]]) = x * TotalOf(f)
      BY TotalScale
    <3>2. 2 * d \in Int
      BY <1>2
    <3> HIDE DEF d
    <3> QED BY <1>0, <3>1, <3>2
  <2>5. TotalOf(sti) <= k \div 2 /\ k \div 2 \in Int
    <3>1. (2 * d) * TotalOf(sti) <= k * d
      BY <2>2, <2>3, <2>4
    <3>2. \A s \in Int : \A n \in Nat : \A m \in Nat \ {0} : (2 * m) * s <= n * m => 2 * s <= n
      BY Z3
    <3>3. \A s \in Int : \A n \in Nat : 2 * s <= n => s <= n \div 2 /\ n \div 2 \in Int
      BY Z3
    <3>4. 2 * TotalOf(sti) <= k
      BY <1>0, <1>2, <3>1, <3>2
    <3>5. k \div 2 \in Int
      BY <1>2
    <3> QED BY <1>0, <1>2, <3>3, <3>4, <3>5
  <2> QED BY <1>0, <1>1, <2>5
<1> QED BY <1>5, <1>7, <1>8, <1>9 DEF IInv, BooksAgree

\* What a destroyed atom had is gone.
LEMMA DestroyBooked ==
    ASSUME IInv, LedgerTypeOK', NEW a \in Atom, Destroy(a)
    PROVE  IInv'
<1>0. /\ LedgerTypeOK /\ IsFiniteSet(DOMAIN sti) /\ sti \in [DOMAIN sti -> Int] /\ TotalOf(sti) \in Int
      /\ total \in Int /\ gone \in Int
      /\ plain => \A x \in DOMAIN sti : sti[x] \in Nat
  BY LedgerAssumption, FS_Subset, StiTotal DEF IInv, BooksAgree, LedgerTypeOK, NobodyOwes
<1>1. /\ a \in DOMAIN sti /\ sti' = Without(sti, a) /\ gone' = gone + sti[a]
      /\ UNCHANGED <<total, funds2, plain, charged, overlapped>>
  BY DEF Destroy, Without
<1>2. /\ \A call : In(call)' = In(call)
      /\ \A t \in Caller : doing[t].call # "normalize" => doing'[t] = doing[t]
      /\ \A t \in In("normalize") :
            /\ doing'[t].left = doing[t].left \ {a}
            /\ doing'[t].total = doing[t].total /\ doing'[t].target2 = doing[t].target2
  BY <1>0, ForgetsAtom
<1>3. Given' = Given /\ Collected' = Collected
  <2>1. \A t \in In("attend") \cup In("rent") : doing'[t] = doing[t]
    BY <1>2 DEF In
  <2> QED BY <1>2, <2>1 DEF Given, Collected
<1>4. FundsAreHalfTheRent'
  <2>1. funds2' + TotalOf(Collected') = 2 * InitialFunds + charged'
    BY <1>1, <1>3 DEF IInv, BooksAgree, FundsAreHalfTheRent
  <2> QED BY <2>1 DEF FundsAreHalfTheRent
<1>5. Alone'
  <2> SUFFICES ASSUME ~overlapped', NEW u \in In("normalize")', NEW v \in Caller \ {u}
               PROVE  doing'[v] = Idle
    BY DEF Alone
  <2>1. doing[v] = Idle
    BY <1>1, <1>2 DEF IInv, Alone
  <2> QED BY <1>2, <2>1 DEF Idle
\* One atom can be taken out of a sum over all.
<1>6. ASSUME NEW f \in [DOMAIN sti -> Int]
      PROVE  /\ TotalOf(f) \in Int /\ TotalOf(Without(f, a)) \in Int
             /\ TotalOf(f) = f[a] + TotalOf(Without(f, a))
  <2> DEFINE S == DOMAIN sti
  <2>1. IsFiniteSet(S) /\ a \in S /\ f \in [S -> Int]
    BY <1>0, <1>1
  <2>2. IsFiniteSet(S \ {a}) /\ Without(f, a) \in [S \ {a} -> Int]
    BY <2>1, FS_Subset DEF Without
  <2> HIDE DEF S
  <2> QED BY <2>1, <2>2, TotalInt, TotalRemove
<1>7. ScalesDown'
  <2> SUFFICES ASSUME ~overlapped', plain', NEW u \in In("normalize")'
               PROVE  TotalOf(Weights(u)') <= doing'[u].target2 * doing'[u].total
    BY DEF ScalesDown
  <2> DEFINE d == doing[u].total
             k == doing[u].target2
             f == Weights(u)
  <2>1. /\ u \in In("normalize") /\ u \in Caller /\ doing'[u].left = doing[u].left \ {a}
        /\ doing'[u].target2 = k /\ doing'[u].total = d
    <3>1. u \in In("normalize") /\ u \in Caller
      BY <1>2 DEF In
    <3> QED BY <1>2, <3>1
  <2>2. d \in Nat \ {0} /\ k \in Nat
    BY <1>0, <2>1, CallShapes DEF In, LedgerTypeOK
  <2>3. TotalOf(f) <= k * d
    BY <1>1, <2>1 DEF IInv, ScalesDown
  <2>4. /\ f \in [DOMAIN sti -> Int] /\ f[a] \in Nat
    <3>1. \A x, y \in Nat : x * y \in Nat
      BY Z3
    <3>2. \A x \in DOMAIN sti : sti[x] \in Nat
      BY <1>0, <1>1
    <3>3. k \in Nat /\ 2 * d \in Nat
      BY <2>2
    <3> QED BY <1>1, <3>1, <3>2, <3>3 DEF Weights
  <2>5. Weights(u)' = Without(f, a)
    BY <1>1, <2>1 DEF Weights, Without
  <2> DEFINE m == k * d
  <2>6. m \in Int /\ TotalOf(f) <= m
    BY <2>2, <2>3
  <2>7. TotalOf(Without(f, a)) <= m
    <3> HIDE DEF f, m
    <3> QED BY <1>6, <2>4, <2>6
  <2> QED BY <2>1, <2>5, <2>7
<1>8. LedgerBalances'
  <2>1. SUFFICES ASSUME ~overlapped', In("normalize") = {}
                 PROVE  total' + TotalOf(Given') = TotalOf(sti') + gone' + TotalOf(Collected')
    BY <1>2 DEF LedgerBalances
  <2>2. total + TotalOf(Given) = TotalOf(sti) + gone + TotalOf(Collected)
    BY <1>1, <2>1 DEF IInv, BooksAgree, LedgerBalances
  <2> DEFINE rest == TotalOf(Without(sti, a))
  <2>3. /\ TotalOf(sti') = rest /\ rest \in Int /\ sti[a] \in Int
        /\ TotalOf(sti) = sti[a] + rest
    BY <1>0, <1>1, <1>6
  <2>4. TotalOf(Given') = TotalOf(Given) /\ TotalOf(Collected') = TotalOf(Collected)
    BY <1>3
  <2>5. TotalOf(Collected) \in Int
    <3>1. /\ IsFiniteSet(In("rent")) /\ Collected \in [In("rent") -> Int]
      <4>1. \A u \in In("rent") : doing[u].rent \in Int
        BY <1>0, CallShapes DEF In, LedgerTypeOK
      <4> QED BY <4>1, LedgerAssumption, FS_Subset DEF In, Collected
    <3> QED BY <3>1, TotalInt
  <2> HIDE DEF rest
  <2>6. total + TotalOf(Given) = rest + (gone + sti[a]) + TotalOf(Collected)
    BY <1>0, <2>2, <2>3, <2>5
  <2> QED BY <1>1, <2>3, <2>4, <2>6
<1>9. NobodyOwes'
  <2>1. SUFFICES ASSUME plain'
                 PROVE  /\ \A x \in DOMAIN sti' : sti'[x] >= 0
                        /\ overlapped' \/ In("normalize")' # {} \/ gone' >= 0
    BY DEF NobodyOwes
  <2>2. \A x \in DOMAIN sti : sti[x] \in Nat
    BY <1>0, <1>1, <2>1
  <2>3. overlapped' \/ In("normalize")' # {} \/ gone >= 0
    BY <1>1, <1>2, <2>1 DEF IInv, BooksAgree, NobodyOwes
  <2>4. \A x \in DOMAIN sti' : x \in DOMAIN sti /\ sti'[x] = sti[x]
    BY <1>1 DEF Without
  <2>5. gone' = gone + sti[a] /\ sti[a] \in Nat
    BY <1>1, <2>2
  <2> QED BY <1>0, <2>2, <2>3, <2>4, <2>5
<1> QED BY <1>4, <1>5, <1>7, <1>8, <1>9 DEF IInv, BooksAgree

\* A saved file has numbers.
LEMMA LoadedSti == LedgerInit => sti \in [Atom -> Int]
<1> SUFFICES ASSUME LedgerInit PROVE sti \in [Atom -> Int]
  OBVIOUS
<1>1. CASE sti = [a \in Atom |-> 0]
  BY <1>1
<1>2. CASE sti \in [Atom -> Amounts]
  BY <1>2, LedgerAssumption
<1> QED BY <1>1, <1>2 DEF LedgerInit

\* A new kernel's books are empty, and a loaded one's lack what was loaded.
LEMMA InitBooked ==
    ASSUME LedgerInit
    PROVE  IInv
<1>0. TotalOf(sti) \in Int
  <2>1. sti \in [Atom -> Int]
    BY LoadedSti
  <2> QED BY <2>1, LedgerAssumption, TotalInt
<1>1. LedgerTypeOK
  <2>1. Idle \in Call /\ Idle.call = "idle"
    BY DEF Idle, Call
  <2>2. doing \in [Caller -> Call] /\ Walkers = {}
    BY <2>1 DEF LedgerInit, Walkers, In
  <2>3. DOMAIN sti \subseteq Atom /\ sti \in [DOMAIN sti -> Int]
    BY LoadedSti
  <2>4. total \in Int /\ gone \in Int /\ funds2 \in Nat /\ charged \in Nat /\ calls \in 0 .. MaxCalls
    BY <1>0, LedgerAssumption DEF LedgerInit
  <2>5. overlapped \in BOOLEAN /\ plain \in BOOLEAN
    BY DEF LedgerInit
  <2> QED BY <2>2, <2>3, <2>4, <2>5 DEF LedgerTypeOK
<1>2. \A t \in Caller : doing[t].call = "idle"
  BY DEF LedgerInit, Idle
<1>3. DOMAIN Given = {} /\ DOMAIN Collected = {} /\ In("normalize") = {}
  BY <1>2 DEF Given, Collected, In
<1>4. TotalOf(Given) = 0 /\ TotalOf(Collected) = 0
  BY <1>3, TotalEmpty
<1>5. plain => TotalOf(sti) = 0
  <2>1. TotalOf([a \in Atom |-> 0 * [b \in Atom |-> 0][a]]) = 0 * TotalOf([b \in Atom |-> 0])
    <3> DEFINE zero == [b \in Atom |-> 0]
    <3>1. zero \in [Atom -> Int] /\ IsFiniteSet(Atom)
      BY LedgerAssumption
    <3> HIDE DEF zero
    <3>2. TotalOf([a \in Atom |-> 0 * zero[a]]) = 0 * TotalOf(zero)
      BY <3>1, TotalScale
    <3> QED BY <3>2 DEF zero
  <2>2. TotalOf([b \in Atom |-> 0]) \in Int
    BY LedgerAssumption, TotalInt
  <2>3. [a \in Atom |-> 0 * [b \in Atom |-> 0][a]] = [a \in Atom |-> 0]
    OBVIOUS
  <2>4. 0 * TotalOf([b \in Atom |-> 0]) = 0
    BY <2>2
  <2>5. TotalOf([a \in Atom |-> 0]) = 0
    BY <2>1, <2>3, <2>4
  <2> QED BY <2>5 DEF LedgerInit
<1>6. LedgerBalances /\ FundsAreHalfTheRent
  BY <1>0, <1>4, LedgerAssumption DEF LedgerInit, LedgerBalances, FundsAreHalfTheRent
<1>7. NobodyOwes
  <2>1. ASSUME plain PROVE gone >= 0 /\ \A a \in DOMAIN sti : sti[a] >= 0
    <3>1. sti = [a \in Atom |-> 0] /\ TotalOf(sti) = 0 /\ gone = - TotalOf(sti)
      BY <1>5, <2>1 DEF LedgerInit
    <3>2. gone >= 0
      BY <3>1
    <3>3. \A a \in DOMAIN sti : sti[a] >= 0
      BY <3>1
    <3> QED BY <3>2, <3>3
  <2> QED BY <2>1 DEF NobodyOwes
<1>8. Alone /\ ScalesDown
  BY <1>3 DEF Alone, ScalesDown
<1> QED BY <1>1, <1>6, <1>7, <1>8 DEF IInv, BooksAgree

\* The books agree, however many atoms there are and threads attend, spread, set,
\* collect rent, normalise and destroy, on a new kernel and on a loaded one
\* (cogdiod_attend, cogdiod_ecan_diffuse, OP_ECAN_SP, OP_SET_STI,
\* cogdiod_ecan_collect_rent, cogdiod_ecan_normalize, cogdiod_destroy_atom,
\* cogdiod_load): until a normalisation overlaps another call, total_sti is what
\* the atoms have and what is on its way, lost or was never booked, and sti_funds
\* always is what the rent has made it.
THEOREM BooksAlwaysAgree == LedgerSpec => []BooksAgree
<1>1. LedgerInit => IInv
  BY InitBooked
<1>2. IInv /\ [LedgerNext]_ledgerVars => IInv'
  <2> SUFFICES ASSUME IInv, [LedgerNext]_ledgerVars PROVE IInv'
    OBVIOUS
  <2>1. LedgerTypeOK'
    BY TypesKept DEF IInv, BooksAgree
  <2>2. CASE UNCHANGED ledgerVars
    <3>1. LedgerTypeOK' /\ Given' = Given /\ Collected' = Collected /\ \A t : Weights(t)' = Weights(t)
      BY <2>1, <2>2 DEF ledgerVars, Given, Collected, In, Weights
    <3>2. LedgerBalances' /\ NobodyOwes' /\ FundsAreHalfTheRent'
      BY <2>2, <3>1 DEF ledgerVars, IInv, BooksAgree, LedgerBalances, NobodyOwes, FundsAreHalfTheRent, In
    <3>3. Alone' /\ ScalesDown'
      BY <2>2, <3>1 DEF ledgerVars, IInv, Alone, ScalesDown, In
    <3> QED BY <3>1, <3>2, <3>3 DEF IInv, BooksAgree
  <2>3. ASSUME NEW t \in Caller,
               \/ \E a \in DOMAIN sti, amount \in Amounts :
                   AttendAtom(t, a, amount) \/ SetSti(t, a, amount)
               \/ \E a \in DOMAIN sti :
                   DiffuseAtom(t, a) \/ Spread(t, a) \/ RentAtom(t, a) \/ NormalizeAtom(t, a)
               \/ AttendTotal(t) \/ Diffuse(t) \/ DiffuseEnds(t) \/ BytecodeEnds(t)
               \/ Rent(t) \/ RentEnds(t) \/ Normalize(t) \/ NormalizeEnds(t)
        PROVE  IInv'
    BY <2>1, <2>3, AttendsBooked, SpreadingBooked, RentBooked, NormalizeBooked,
       NormalizeAtomBooked, NormalizeEndsBooked
  <2>4. ASSUME NEW a \in Atom, Destroy(a) PROVE IInv'
    BY <2>1, <2>4, DestroyBooked
  <2> QED BY <2>2, <2>3, <2>4 DEF LedgerNext
<1>3. IInv => BooksAgree
  BY DEF IInv
<1> QED BY <1>1, <1>2, <1>3, PTL DEF LedgerSpec
=============================================================================
