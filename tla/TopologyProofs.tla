--------------------------- MODULE TopologyProofs ---------------------------
(***************************************************************************)
(* Proofs about Topology, for any number of threads, atoms and channels:   *)
(* whatever the threads do beside each other, everything is freed at most  *)
(* once; and as long as they share the operations as Disciplined says, the *)
(* lists and counts of every atom stay in order.                           *)
(*                                                                         *)
(* Both invariants, TopologyInv and FreeInv, say of a list which channels  *)
(* are on it: those that live and that no thread is about to put there or  *)
(* has taken off; FreeInv of the outgoing lists only, where cogdiod_unlink *)
(* finds what it frees.  That a list is of a set of channels means that    *)
(* they can be numbered so that the pointers lead from each to the next    *)
(* (IsList).  What the walks OnList and FirstTo find on such a list is     *)
(* shown by looking for the first step at which they would go wrong.       *)
(***************************************************************************)
EXTENDS Topology, FiniteSetTheorems, FunctionTheorems, WellFoundedInduction, TLAPS

-----------------------------------------------------------------------------
(* Numbers. *)

\* A set of numbers has a least one: the sets of the numbers below them are
\* ordered by inclusion, and on finite sets that order is well founded.
LEMMA LeastNat ==
    ASSUME NEW T \in SUBSET Nat, T # {}
    PROVE  \E n \in T : \A m \in T : n <= m
<1> DEFINE U == {0 .. n - 1 : n \in T}
<1>1. U \subseteq FiniteSubsetsOf(Nat)
  <2>1. ASSUME NEW n \in T PROVE IsFiniteSet(0 .. n - 1) /\ 0 .. n - 1 \subseteq Nat
    <3>1. 0 \in Int /\ n - 1 \in Int
      OBVIOUS
    <3> QED BY <3>1, FS_Interval
  <2> QED BY <2>1 DEF FiniteSubsetsOf
<1>2. U # {}
  OBVIOUS
<1>3. PICK x \in U : \A y \in U : ~(<<y, x>> \in StrictSubsetOrdering(Nat))
  <2> HIDE DEF U
  <2> QED BY <1>1, <1>2, FS_StrictSubsetOrderingWellFounded, WFMin
<1>4. PICK n \in T : x = 0 .. n - 1
  OBVIOUS
<1>5. ASSUME NEW m \in T, m < n PROVE FALSE
  <2>1. 0 .. m - 1 \in U
    OBVIOUS
  <2>2. /\ 0 .. m - 1 \subseteq 0 .. n - 1 /\ 0 .. n - 1 \subseteq Nat
        /\ m \in 0 .. n - 1 /\ m \notin 0 .. m - 1
    BY <1>5
  <2>3. <<0 .. m - 1, x>> \in StrictSubsetOrdering(Nat)
    BY <2>2, <1>4 DEF StrictSubsetOrdering
  <2> QED BY <2>1, <2>3, <1>3
<1> QED BY <1>5, <1>4

\* What holds of nothing, and of the next number with a number, holds up to n.
LEMMA UpTo ==
    ASSUME NEW n \in Nat, NEW T, 0 \in T, \A k \in 0 .. n - 1 : k \in T => k + 1 \in T
    PROVE  n \in T
<1> DEFINE U == {k \in 0 .. n : k \notin T}
<1>1. ASSUME n \notin T PROVE FALSE
  <2>1. U # {} /\ U \in SUBSET Nat
    BY <1>1
  <2>2. PICK k \in U : \A m \in U : k <= m
    <3> HIDE DEF U
    <3> QED BY <2>1, LeastNat
  <2>3. k # 0 /\ k \in Nat /\ k <= n
    OBVIOUS
  <2>4. k - 1 \in 0 .. n - 1 /\ k - 1 \notin U
    BY <2>2, <2>3
  <2> QED BY <2>3, <2>4
<1> QED BY <1>1

\* A step can be repeated any number of times.
Repeats(f, V, v, F, N) ==
    f \in [0 .. N -> V] /\ f[0] = v /\ \A n \in 1 .. N : f[n] = F[f[n - 1]]

\* So there is a function that repeats it from a value on.
LEMMA Repeated ==
    ASSUME NEW V, NEW v \in V, NEW F \in [V -> V], NEW N \in Nat
    PROVE  \E f : Repeats(f, V, v, F, N)
<1> DEFINE Does(f, k) == f[0] = v /\ \A n \in 1 .. k : f[n] = F[f[n - 1]]
           T == {k \in 0 .. N : \E f \in [0 .. k -> V] : Does(f, k)}
<1>1. 0 \in T
  <2> DEFINE f == [n \in 0 .. 0 |-> v]
  <2>1. f \in [0 .. 0 -> V] /\ Does(f, 0)
    OBVIOUS
  <2> HIDE DEF f, Does
  <2> QED BY <2>1
<1>2. ASSUME NEW k \in 0 .. N - 1, k \in T PROVE k + 1 \in T
  <2>1. PICK f \in [0 .. k -> V] : Does(f, k)
    BY <1>2
  <2> DEFINE g == [n \in 0 .. k + 1 |-> IF n = k + 1 THEN F[f[k]] ELSE f[n]]
  <2>2. g \in [0 .. k + 1 -> V]
    OBVIOUS
  <2>3. \A n \in 1 .. k + 1 : g[n] = F[g[n - 1]]
    <3> SUFFICES ASSUME NEW n \in 1 .. k + 1 PROVE g[n] = F[g[n - 1]]
      OBVIOUS
    <3>1. n - 1 \in 0 .. k /\ n - 1 # k + 1 /\ g[n - 1] = f[n - 1]
      OBVIOUS
    <3>2. CASE n = k + 1
      <4>1. n - 1 = k
        BY <3>2
      <4> QED BY <3>1, <3>2, <4>1
    <3>3. CASE n # k + 1
      <4>1. n \in 1 .. k
        BY <3>3
      <4> QED BY <2>1, <3>1, <3>3, <4>1
    <3> QED BY <3>2, <3>3
  <2>4. g[0] = v
    BY <2>1
  <2> HIDE DEF g
  <2>5. Does(g, k + 1)
    BY <2>3, <2>4
  <2> HIDE DEF Does
  <2> QED BY <2>2, <2>5
<1> HIDE DEF T
<1>3. N \in T
  BY <1>1, <1>2, UpTo
<1>4. \E f \in [0 .. N -> V] : Does(f, N)
  BY <1>3 DEF T
<1> QED BY <1>4 DEF Repeats

-----------------------------------------------------------------------------
(* Lists. *)

\* The channels of S in the order of the list that begins at h.
Ordered(s, n, h, nxt, S) ==
    /\ \A c \in S : \E i \in 1 .. n : s[i] = c
    /\ \A i, j \in 1 .. n : s[i] = s[j] => i = j
    /\ h = IF n = 0 THEN Nil ELSE s[1]
    /\ \A i \in 1 .. n : nxt[s[i]] = IF i = n THEN Nil ELSE s[i + 1]
IsList(h, nxt, S) == \E n \in Nat : \E s \in [1 .. n -> S] : Ordered(s, n, h, nxt, S)

\* As many as there are channels: the length of the walks OnList and FirstTo.
Places == Cardinality(Channel)

\* A list has no more places than there are channels.
LEMMA ListLength ==
    ASSUME NEW S \in SUBSET Channel, NEW n \in Nat, NEW s \in [1 .. n -> S],
           NEW h, NEW nxt, Ordered(s, n, h, nxt, S)
    PROVE  n <= Places /\ Places \in Nat
<1>1. s \in Injection(1 .. n, S)
  BY DEF Ordered, Injection, IsInjective
<1>2. IsFiniteSet(S) /\ Cardinality(S) <= Places /\ Places \in Nat /\ Cardinality(S) \in Nat
  BY ChannelAssumption, FS_Subset, FS_CardinalityType DEF Places
<1>3. Cardinality(1 .. n) <= Cardinality(S)
  BY <1>1, <1>2, FS_Injection
<1>4. Cardinality(1 .. n) = n
  BY FS_Interval
<1> HIDE DEF Places
<1> QED BY <1>2, <1>3, <1>4

\* OnList gathers the channels of the list, and no other.
LEMMA OnListIs ==
    ASSUME NEW S \in SUBSET Channel, NEW h, NEW nxt \in [Channel -> Channel \cup {Nil}],
           IsList(h, nxt, S)
    PROVE  OnList(h, nxt) = S
<1> DEFINE Grown(x) == x \cup ({nxt[c] : c \in x} \ {Nil})
           Reach(f) == f = [k \in 0 .. Places |-> IF k = 0 THEN {h} \ {Nil} ELSE Grown(f[k - 1])]
<1>1. PICK n \in Nat : \E s \in [1 .. n -> S] : Ordered(s, n, h, nxt, S)
  BY DEF IsList
<1>2. PICK s \in [1 .. n -> S] : Ordered(s, n, h, nxt, S)
  BY <1>1
<1>3. n <= Places /\ Places \in Nat
  BY <1>2, ListLength
<1>4. OnList(h, nxt) = (CHOOSE f : Reach(f))[Places]
  BY DEF OnList, Places
<1>5. \E f : Reach(f)
  <2> DEFINE V == SUBSET Channel
             F == [x \in V |-> Grown(x)]
  <2>1. F \in [V -> V]
    OBVIOUS
  <2>2. {h} \ {Nil} \in V
    <3>1. n # 0 => s[1] \in S
      BY <1>2
    <3> QED BY <1>2, <3>1 DEF Ordered
  <2>3. PICK f \in [0 .. Places -> V] :
          f[0] = {h} \ {Nil} /\ \A k \in 1 .. Places : f[k] = F[f[k - 1]]
    <3> DEFINE v == {h} \ {Nil}
    <3>1. v \in V /\ Places \in Nat
      BY <1>3, <2>2
    <3> HIDE DEF F, V, Places, v
    <3>2. \E f : Repeats(f, V, v, F, Places)
      BY <2>1, <3>1, Repeated
    <3> QED BY <3>2 DEF Repeats, v
  <2>4. \A k \in 0 .. Places : f[k] = IF k = 0 THEN {h} \ {Nil} ELSE Grown(f[k - 1])
    <3> SUFFICES ASSUME NEW k \in 0 .. Places, k # 0 PROVE f[k] = Grown(f[k - 1])
      BY <2>3
    <3>1. k \in 1 .. Places /\ k - 1 \in 0 .. Places
      BY <1>3
    <3>2. f[k - 1] \in V
      BY <3>1
    <3>3. f[k] = F[f[k - 1]]
      BY <2>3, <3>1
    <3> HIDE DEF V, Grown
    <3> QED BY <3>2, <3>3
  <2>5. Reach(f)
    <3> HIDE DEF Grown
    <3> QED BY <2>4
  <2> QED BY <2>5
<1> DEFINE r == CHOOSE f : Reach(f)
<1>6. Reach(r)
  BY <1>5
<1> HIDE DEF r
<1>7. /\ r[0] = {h} \ {Nil}
      /\ \A k \in 0 .. Places - 1 : r[k + 1] = Grown(r[k])
  <2> DEFINE Body(k) == IF k = 0 THEN {h} \ {Nil} ELSE Grown(r[k - 1])
  <2>1. r = [k \in 0 .. Places |-> Body(k)]
    BY <1>6
  <2> HIDE DEF Body, Grown, Places
  <2>2. \A k \in 0 .. Places : r[k] = Body(k)
    BY <2>1
  <2>3. r[0] = {h} \ {Nil}
    <3>1. r[0] = Body(0)
      BY <1>3, <2>2
    <3> QED BY <3>1 DEF Body
  <2>4. ASSUME NEW k \in 0 .. Places - 1 PROVE r[k + 1] = Grown(r[k])
    <3>1. k + 1 \in 0 .. Places /\ k + 1 # 0 /\ k + 1 - 1 = k
      BY <1>3
    <3>2. r[k + 1] = Body(k + 1)
      BY <2>2, <3>1
    <3>3. Body(k + 1) = Grown(r[k])
      BY <3>1 DEF Body
    <3> QED BY <3>2, <3>3
  <2> QED BY <2>3, <2>4
<1> DEFINE Front(k) == {s[i] : i \in {j \in 1 .. n : j <= k + 1}}
           T == {k \in 0 .. Places : r[k] = Front(k)}
<1> HIDE DEF Places, Reach
<1>8. 0 \in T
  <2>1. Front(0) = {h} \ {Nil}
    <3>1. CASE n = 0
      BY <1>2, <3>1 DEF Ordered
    <3>2. CASE n # 0
      <4>1. {j \in 1 .. n : j <= 0 + 1} = {1} /\ s[1] \in S
        BY <1>2, <3>2
      <4>2. h = s[1] /\ h # Nil
        BY <1>2, <3>2, <4>1, NilAssumption DEF Ordered
      <4> QED BY <4>1, <4>2
    <3> QED BY <3>1, <3>2
  <2> QED BY <1>3, <1>7, <2>1
<1>9. ASSUME NEW k \in 0 .. Places - 1, k \in T PROVE k + 1 \in T
  <2>1. r[k] = Front(k) /\ r[k + 1] = Grown(r[k]) /\ k \in Nat /\ k + 1 \in 0 .. Places
    BY <1>3, <1>7, <1>9
  <2>2. Grown(Front(k)) \subseteq Front(k + 1)
    <3> SUFFICES ASSUME NEW c \in Grown(Front(k)) PROVE c \in Front(k + 1)
      OBVIOUS
    <3>1. CASE c \in Front(k)
      <4>1. PICK i \in 1 .. n : i <= k + 1 /\ s[i] = c
        BY <3>1
      <4> QED BY <2>1, <4>1
    <3>2. CASE c \notin Front(k)
      <4>1. PICK i \in 1 .. n : i <= k + 1 /\ c = nxt[s[i]] /\ c # Nil
        BY <3>2
      <4>2. i # n /\ c = s[i + 1] /\ i + 1 \in 1 .. n /\ i + 1 <= k + 1 + 1
        BY <1>2, <2>1, <4>1 DEF Ordered
      <4> QED BY <4>2
    <3> QED BY <3>1, <3>2
  <2>3. Front(k + 1) \subseteq Grown(Front(k))
    <3> SUFFICES ASSUME NEW i \in 1 .. n, i <= k + 1 + 1 PROVE s[i] \in Grown(Front(k))
      OBVIOUS
    <3>1. CASE i <= k + 1
      BY <3>1
    <3>2. CASE i > k + 1
      <4>1. i - 1 \in 1 .. n /\ i - 1 <= k + 1 /\ i - 1 # n /\ i - 1 + 1 = i
        BY <2>1, <3>2
      <4>2. nxt[s[i - 1]] = s[i]
        BY <1>2, <4>1 DEF Ordered
      <4>3. s[i] # Nil
        BY <1>2, NilAssumption
      <4>4. s[i - 1] \in Front(k)
        BY <4>1
      <4> HIDE DEF Front
      <4> QED BY <4>2, <4>3, <4>4
    <3> QED BY <2>1, <3>1, <3>2
  <2> HIDE DEF Front, Grown
  <2> QED BY <2>1, <2>2, <2>3
<1> HIDE DEF T
<1>10. Places \in T
  BY <1>3, <1>8, <1>9, UpTo
<1>11. r[Places] = Front(Places)
  BY <1>10 DEF T
<1>12. Front(Places) = S
  <2>1. \A j \in 1 .. n : j <= Places + 1
    BY <1>3
  <2> QED BY <1>2, <2>1 DEF Ordered
<1> QED BY <1>4, <1>11, <1>12 DEF r

\* What is on a list, the first of it and what comes next of one that is on it.
LEMMA OnTheList ==
    ASSUME NEW S, NEW h, NEW nxt, IsList(h, nxt, S)
    PROVE  h \in S \cup {Nil} /\ \A c \in S : nxt[c] \in S \cup {Nil}
<1>1. PICK n \in Nat : \E s \in [1 .. n -> S] : Ordered(s, n, h, nxt, S)
  BY DEF IsList
<1>2. PICK s \in [1 .. n -> S] : Ordered(s, n, h, nxt, S)
  BY <1>1
<1>3. h \in S \cup {Nil}
  BY <1>2 DEF Ordered
<1>4. ASSUME NEW c \in S PROVE nxt[c] \in S \cup {Nil}
  <2>1. PICK i \in 1 .. n : s[i] = c
    BY <1>2 DEF Ordered
  <2>2. nxt[c] = IF i = n THEN Nil ELSE s[i + 1]
    BY <1>2, <2>1 DEF Ordered
  <2> QED BY <2>2
<1> QED BY <1>3, <1>4

\* The list that cogdiod_spawn leaves to an atom.
LEMMA EmptyList ==
    ASSUME NEW nxt PROVE IsList(Nil, nxt, {})
<1> DEFINE s == [i \in 1 .. 0 |-> Nil]
<1>1. s \in [1 .. 0 -> {}] /\ Ordered(s, 0, Nil, nxt, {})
  BY DEF Ordered
<1> HIDE DEF s
<1> QED BY <1>1 DEF IsList

\* A list depends on nothing but the pointers of what is on it.
LEMMA SameList ==
    ASSUME NEW S, NEW h, NEW nxt, NEW nxt2, IsList(h, nxt, S), \A c \in S : nxt2[c] = nxt[c]
    PROVE  IsList(h, nxt2, S)
<1>1. PICK n \in Nat : \E s \in [1 .. n -> S] : Ordered(s, n, h, nxt, S)
  BY DEF IsList
<1>2. PICK s \in [1 .. n -> S] : Ordered(s, n, h, nxt, S)
  BY <1>1
<1>3. Ordered(s, n, h, nxt2, S)
  BY <1>2 DEF Ordered
<1> QED BY <1>3 DEF IsList

\* cogdiod_link puts a channel first.
LEMMA PutFirst ==
    ASSUME NEW S \in SUBSET Channel, NEW h, NEW nxt \in [Channel -> Channel \cup {Nil}],
           IsList(h, nxt, S), NEW c \in Channel, c \notin S
    PROVE  IsList(c, [nxt EXCEPT ![c] = h], S \cup {c})
<1>1. PICK n \in Nat : \E s \in [1 .. n -> S] : Ordered(s, n, h, nxt, S)
  BY DEF IsList
<1>2. PICK s \in [1 .. n -> S] : Ordered(s, n, h, nxt, S)
  BY <1>1
<1> DEFINE nxt2 == [nxt EXCEPT ![c] = h]
           s2 == [i \in 1 .. n + 1 |-> IF i = 1 THEN c ELSE s[i - 1]]
<1>3. nxt2[c] = h /\ \A d \in S : nxt2[d] = nxt[d] /\ d # c
  OBVIOUS
<1>4. /\ \A i \in 2 .. n + 1 : i - 1 \in 1 .. n /\ s2[i] = s[i - 1]
      /\ s2[1] = c /\ s2 \in [1 .. n + 1 -> S \cup {c}]
  <2>1. \A i \in 1 .. n + 1 : i = 1 \/ i - 1 \in 1 .. n
    OBVIOUS
  <2> QED BY <2>1
<1> HIDE DEF s2, nxt2
<1>5. ASSUME NEW d \in S \cup {c} PROVE \E i \in 1 .. n + 1 : s2[i] = d
  <2>1. CASE d = c
    BY <1>4, <2>1
  <2>2. CASE d # c
    <3>1. PICK i \in 1 .. n : s[i] = d
      BY <1>2, <2>2 DEF Ordered
    <3>2. i + 1 \in 2 .. n + 1 /\ i + 1 - 1 = i /\ i + 1 \in 1 .. n + 1
      OBVIOUS
    <3>3. s2[i + 1] = d
      BY <1>4, <3>1, <3>2
    <3> QED BY <3>2, <3>3
  <2> QED BY <2>1, <2>2
<1>6. ASSUME NEW i \in 1 .. n + 1, NEW j \in 1 .. n + 1, s2[i] = s2[j] PROVE i = j
  <2>1. CASE i = 1 /\ j = 1
    BY <2>1
  <2>2. CASE i = 1 /\ j # 1
    <3>1. j \in 2 .. n + 1
      BY <2>2
    <3>2. s2[j] \in S
      BY <1>4, <3>1
    <3> QED BY <1>3, <1>4, <1>6, <2>2, <3>2
  <2>3. CASE i # 1 /\ j = 1
    <3>1. i \in 2 .. n + 1
      BY <2>3
    <3>2. s2[i] \in S
      BY <1>4, <3>1
    <3> QED BY <1>3, <1>4, <1>6, <2>3, <3>2
  <2>4. CASE i # 1 /\ j # 1
    <3>1. i \in 2 .. n + 1 /\ j \in 2 .. n + 1
      BY <2>4
    <3>2. i - 1 \in 1 .. n /\ j - 1 \in 1 .. n /\ s[i - 1] = s[j - 1]
      BY <1>4, <1>6, <3>1
    <3>3. i - 1 = j - 1
      BY <1>2, <3>2 DEF Ordered
    <3> QED BY <3>3
  <2> QED BY <2>1, <2>2, <2>3, <2>4
<1>7. ASSUME NEW i \in 1 .. n + 1
      PROVE  nxt2[s2[i]] = IF i = n + 1 THEN Nil ELSE s2[i + 1]
  <2>1. CASE i = 1
    <3>1. nxt2[s2[i]] = h
      BY <1>3, <1>4, <2>1
    <3>2. CASE n = 0
      BY <1>2, <2>1, <3>1, <3>2 DEF Ordered
    <3>3. CASE n # 0
      <4>1. 2 \in 2 .. n + 1 /\ 2 - 1 = 1 /\ 1 + 1 = 2 /\ 1 # n + 1
        BY <3>3
      <4>2. s2[2] = s[1]
        BY <1>4, <4>1
      <4> QED BY <1>2, <2>1, <3>1, <3>3, <4>1, <4>2 DEF Ordered
    <3> QED BY <3>2, <3>3
  <2>2. CASE i # 1
    <3>1. i \in 2 .. n + 1
      BY <2>2
    <3>2. i - 1 \in 1 .. n /\ s2[i] = s[i - 1]
      BY <1>4, <3>1
    <3>3. nxt2[s2[i]] = IF i - 1 = n THEN Nil ELSE s[i - 1 + 1]
      BY <1>2, <1>3, <3>2 DEF Ordered
    <3>4. CASE i = n + 1
      <4>1. i - 1 = n
        BY <3>4
      <4> QED BY <3>3, <3>4, <4>1
    <3>5. CASE i # n + 1
      <4>1. i + 1 \in 2 .. n + 1 /\ i - 1 # n /\ i + 1 - 1 = i - 1 + 1
        BY <3>1, <3>5
      <4>2. s2[i + 1] = s[i + 1 - 1]
        BY <1>4, <4>1
      <4> QED BY <3>3, <3>5, <4>1, <4>2
    <3> QED BY <3>4, <3>5
  <2> QED BY <2>1, <2>2
<1>8. n + 1 \in Nat /\ n + 1 # 0
  OBVIOUS
<1>9. Ordered(s2, n + 1, c, nxt2, S \cup {c})
  BY <1>4, <1>5, <1>6, <1>7, <1>8 DEF Ordered
<1>10. IsList(c, nxt2, S \cup {c})
  BY <1>4, <1>8, <1>9 DEF IsList
<1> QED BY <1>10 DEF nxt2

\* cogdiod_unlink takes a channel out.
LEMMA TakeOut ==
    ASSUME NEW S \in SUBSET Channel, NEW h, NEW nxt \in [Channel -> Channel \cup {Nil}],
           IsList(h, nxt, S), NEW c \in S
    PROVE  IsList(SkipHead(h, c, nxt), SkipNext(S, c, nxt), S \ {c})
<1>1. PICK n \in Nat : \E s \in [1 .. n -> S] : Ordered(s, n, h, nxt, S)
  BY DEF IsList
<1>2. PICK s \in [1 .. n -> S] : Ordered(s, n, h, nxt, S)
  BY <1>1
<1>3. PICK k \in 1 .. n : s[k] = c
  BY <1>2 DEF Ordered
<1>4. \A i \in 1 .. n : s[i] = c => i = k
  BY <1>2, <1>3 DEF Ordered
<1> DEFINE m == n - 1
           h2 == SkipHead(h, c, nxt)
           nxt2 == SkipNext(S, c, nxt)
           s2 == [i \in 1 .. m |-> IF i < k THEN s[i] ELSE s[i + 1]]
<1>5. /\ m \in Nat /\ m + 1 = n
      /\ \A i \in 1 .. m : i \in 1 .. n /\ i + 1 \in 1 .. n
  OBVIOUS
<1>6. \A d \in S : nxt2[d] = IF nxt[d] = c THEN nxt[c] ELSE nxt[d]
  BY DEF SkipNext
<1>7. \A i \in 1 .. m : s2[i] = IF i < k THEN s[i] ELSE s[i + 1]
  OBVIOUS
<1>8. s2 \in [1 .. m -> S \ {c}]
  <2>1. \A i \in 1 .. m : IF i < k THEN s[i] \in S \ {c} ELSE s[i + 1] \in S \ {c}
    <3> SUFFICES ASSUME NEW i \in 1 .. m
                 PROVE  IF i < k THEN s[i] \in S \ {c} ELSE s[i + 1] \in S \ {c}
      OBVIOUS
    <3>1. i \in 1 .. n /\ i + 1 \in 1 .. n /\ (i < k => i # k) /\ (~(i < k) => i + 1 # k)
      BY <1>5
    <3> QED BY <1>4, <3>1
  <2> QED BY <2>1
<1>9. h2 = IF m = 0 THEN Nil ELSE s2[1]
  <2>1. h = s[1] /\ 1 \in 1 .. n
    BY <1>2, <1>3 DEF Ordered
  <2>2. nxt[c] = IF k = n THEN Nil ELSE s[k + 1]
    BY <1>2, <1>3 DEF Ordered
  <2>3. CASE k = 1
    <3>1. h2 = nxt[c]
      BY <1>3, <2>1, <2>3 DEF SkipHead
    <3>2. CASE m = 0
      BY <2>2, <2>3, <3>1, <3>2
    <3>3. CASE m # 0
      BY <2>2, <2>3, <3>1, <3>3
    <3> QED BY <3>2, <3>3
  <2>4. CASE k # 1
    <3>1. h # c /\ m # 0 /\ 1 < k /\ 1 \in 1 .. m
      BY <1>4, <2>1, <2>4
    <3>2. s2[1] = s[1]
      BY <3>1
    <3> QED BY <2>1, <3>1, <3>2 DEF SkipHead
  <2> QED BY <2>3, <2>4
<1> HIDE DEF s2, h2, nxt2, m
<1>10. ASSUME NEW d \in S \ {c} PROVE \E i \in 1 .. m : s2[i] = d
  <2>1. PICK i \in 1 .. n : s[i] = d
    BY <1>2 DEF Ordered
  <2>2. i # k
    BY <1>3, <2>1
  <2>3. CASE i < k
    <3>1. i \in 1 .. m
      BY <1>5, <2>3
    <3> QED BY <1>7, <2>1, <2>3, <3>1
  <2>4. CASE i > k
    <3>1. i - 1 \in 1 .. m /\ ~(i - 1 < k) /\ i - 1 + 1 = i
      BY <1>5, <2>4
    <3>2. s2[i - 1] = d
      BY <1>7, <2>1, <3>1
    <3> QED BY <3>1, <3>2
  <2> QED BY <2>2, <2>3, <2>4
<1>11. ASSUME NEW i \in 1 .. m, NEW j \in 1 .. m, s2[i] = s2[j] PROVE i = j
  <2> DEFINE p(x) == IF x < k THEN x ELSE x + 1
  <2>1. \A x \in 1 .. m : p(x) \in 1 .. n /\ s2[x] = s[p(x)]
    BY <1>5, <1>7
  <2>2. p(i) = p(j)
    <3> HIDE DEF p
    <3> QED BY <1>2, <1>11, <2>1 DEF Ordered
  <2> QED BY <1>5, <2>2
<1>12. ASSUME NEW i \in 1 .. m
       PROVE  nxt2[s2[i]] = IF i = m THEN Nil ELSE s2[i + 1]
  <2>1. nxt[c] = IF k = n THEN Nil ELSE s[k + 1]
    BY <1>2, <1>3 DEF Ordered
  <2>2. c # Nil
    BY NilAssumption
  <2>3. CASE i < k
    <3>1. s2[i] = s[i] /\ i \in 1 .. n /\ i # n /\ i + 1 \in 1 .. n
      BY <1>5, <1>7, <2>3
    <3>2. nxt[s[i]] = s[i + 1]
      BY <1>2, <3>1 DEF Ordered
    <3>3. CASE i + 1 = k
      <4>1. nxt2[s2[i]] = nxt[c]
        BY <1>3, <1>6, <3>1, <3>2, <3>3
      <4>2. CASE k = n
        <5>1. i = m
          BY <1>5, <3>3, <4>2
        <5> QED BY <2>1, <4>1, <4>2, <5>1
      <4>3. CASE k # n
        <5>1. i # m /\ i + 1 \in 1 .. m /\ ~(i + 1 < k)
          BY <1>5, <3>3, <4>3
        <5>2. s2[i + 1] = s[k + 1]
          BY <1>7, <3>3, <5>1
        <5> QED BY <2>1, <4>1, <4>3, <5>1, <5>2
      <4> QED BY <4>2, <4>3
    <3>4. CASE i + 1 # k
      <4>1. nxt2[s2[i]] = s[i + 1]
        BY <1>4, <1>6, <3>1, <3>2, <3>4
      <4>2. i # m /\ i + 1 \in 1 .. m /\ i + 1 < k
        BY <1>5, <2>3, <3>4
      <4>3. s2[i + 1] = s[i + 1]
        BY <1>7, <4>2
      <4> QED BY <4>1, <4>2, <4>3
    <3> QED BY <3>3, <3>4
  <2>4. CASE ~(i < k)
    <3>1. s2[i] = s[i + 1] /\ i + 1 \in 1 .. n
      BY <1>5, <1>7, <2>4
    <3>2. nxt[s[i + 1]] = IF i + 1 = n THEN Nil ELSE s[i + 1 + 1]
      BY <1>2, <3>1 DEF Ordered
    <3>3. CASE i = m
      <4>1. i + 1 = n
        BY <1>5, <3>3
      <4> QED BY <1>6, <2>2, <3>1, <3>2, <3>3, <4>1
    <3>4. CASE i # m
      <4>1. i + 1 # n /\ i + 1 \in 1 .. m /\ ~(i + 1 < k) /\ i + 1 + 1 \in 1 .. n /\ i + 1 + 1 # k
        BY <1>5, <2>4, <3>4
      <4>2. nxt2[s2[i]] = s[i + 1 + 1]
        BY <1>4, <1>6, <3>1, <3>2, <4>1
      <4>3. s2[i + 1] = s[i + 1 + 1]
        BY <1>7, <4>1
      <4> QED BY <3>4, <4>2, <4>3
    <3> QED BY <3>3, <3>4
  <2> QED BY <2>3, <2>4
<1>13. Ordered(s2, m, h2, nxt2, S \ {c})
  BY <1>8, <1>9, <1>10, <1>11, <1>12 DEF Ordered
<1>14. IsList(h2, nxt2, S \ {c})
  BY <1>5, <1>8, <1>13 DEF IsList
<1> QED BY <1>14 DEF h2, nxt2

\* The search of cogdiod_unlink and cogdiod_hebbian_update ends at a channel of the
\* list that leads to d, or at its end.
LEMMA FirstToIs ==
    ASSUME NEW S \in SUBSET Channel, outNext \in [Channel -> Channel \cup {Nil}],
           NEW a, NEW d, IsList(outHead[a], outNext, S)
    PROVE  /\ FirstTo(a, d) \in S \cup {Nil}
           /\ FirstTo(a, d) # Nil => ends[FirstTo(a, d)].dst = d
<1> DEFINE Found(c) == c = Nil \/ (c # Nil /\ ends[c].dst = d)
           On(c) == IF Found(c) THEN c ELSE outNext[c]
           Search(f) == f = [k \in 0 .. Places |-> IF k = 0 THEN outHead[a] ELSE On(f[k - 1])]
<1>1. PICK n \in Nat : \E s \in [1 .. n -> S] : Ordered(s, n, outHead[a], outNext, S)
  BY DEF IsList
<1>2. PICK s \in [1 .. n -> S] : Ordered(s, n, outHead[a], outNext, S)
  BY <1>1
<1>3. n <= Places /\ Places \in Nat
  BY <1>2, ListLength
<1>4. FirstTo(a, d) = (CHOOSE f : Search(f))[Places]
  BY DEF FirstTo, Places
<1>5. \E f : Search(f)
  <2> DEFINE V == Channel \cup {Nil}
             F == [c \in V |-> On(c)]
             v == outHead[a]
  <2>1. F \in [V -> V]
    OBVIOUS
  <2>2. v \in V
    BY OnTheList
  <2>3. \E f : Repeats(f, V, v, F, Places)
    <3> HIDE DEF F, V, Places, v
    <3> QED BY <1>3, <2>1, <2>2, Repeated
  <2>4. PICK f \in [0 .. Places -> V] : f[0] = v /\ \A k \in 1 .. Places : f[k] = F[f[k - 1]]
    BY <2>3 DEF Repeats
  <2>5. \A k \in 0 .. Places : f[k] = IF k = 0 THEN outHead[a] ELSE On(f[k - 1])
    <3> SUFFICES ASSUME NEW k \in 0 .. Places, k # 0 PROVE f[k] = On(f[k - 1])
      BY <2>4
    <3>1. k \in 1 .. Places /\ k - 1 \in 0 .. Places
      BY <1>3
    <3>2. f[k - 1] \in V
      BY <3>1
    <3>3. f[k] = F[f[k - 1]]
      BY <2>4, <3>1
    <3> HIDE DEF V, On
    <3> QED BY <3>2, <3>3
  <2>6. Search(f)
    <3> HIDE DEF On
    <3> QED BY <2>5
  <2> QED BY <2>6
<1> DEFINE r == CHOOSE f : Search(f)
<1>6. Search(r)
  BY <1>5
<1> HIDE DEF r
<1>7. r[0] = outHead[a] /\ \A k \in 0 .. Places - 1 : r[k + 1] = On(r[k])
  <2> DEFINE Body(k) == IF k = 0 THEN outHead[a] ELSE On(r[k - 1])
  <2>1. r = [k \in 0 .. Places |-> Body(k)]
    BY <1>6
  <2> HIDE DEF Body, On, Places
  <2>2. \A k \in 0 .. Places : r[k] = Body(k)
    BY <2>1
  <2>3. r[0] = outHead[a]
    <3>1. r[0] = Body(0)
      BY <1>3, <2>2
    <3> QED BY <3>1 DEF Body
  <2>4. ASSUME NEW k \in 0 .. Places - 1 PROVE r[k + 1] = On(r[k])
    <3>1. k + 1 \in 0 .. Places /\ k + 1 # 0 /\ k + 1 - 1 = k
      BY <1>3
    <3>2. r[k + 1] = Body(k + 1)
      BY <2>2, <3>1
    <3>3. Body(k + 1) = On(r[k])
      BY <3>1 DEF Body
    <3> QED BY <3>2, <3>3
  <2> QED BY <2>3, <2>4
<1> DEFINE Right(k) == /\ r[k] \in S \cup {Nil}
                       /\ Found(r[k]) \/ (k + 1 <= n /\ r[k] = s[k + 1])
           T == {k \in 0 .. Places : Right(k)}
<1> HIDE DEF Places, Search
<1>8. 0 \in T
  <2>1. outHead[a] \in S \cup {Nil}
    BY OnTheList
  <2>2. outHead[a] = Nil \/ (1 <= n /\ outHead[a] = s[1])
    BY <1>2 DEF Ordered
  <2>3. Right(0)
    BY <1>7, <2>1, <2>2
  <2> HIDE DEF Right
  <2> QED BY <1>3, <2>3
<1>9. ASSUME NEW k \in 0 .. Places - 1, k \in T PROVE k + 1 \in T
  <2>1. Right(k) /\ r[k + 1] = On(r[k]) /\ k \in Nat /\ k + 1 \in 0 .. Places
    BY <1>3, <1>7, <1>9
  <2>2. CASE Found(r[k])
    <3>1. r[k + 1] = r[k]
      BY <2>1, <2>2
    <3>2. Right(k + 1)
      <4> HIDE DEF Found
      <4> QED BY <2>1, <2>2, <3>1
    <3> HIDE DEF Right
    <3> QED BY <2>1, <3>2
  <2>3. CASE ~ Found(r[k])
    <3>1. k + 1 \in 1 .. n /\ r[k] = s[k + 1] /\ r[k + 1] = outNext[s[k + 1]]
      <4> HIDE DEF Found
      <4> QED BY <2>1, <2>3
    <3>2. r[k + 1] = IF k + 1 = n THEN Nil ELSE s[k + 1 + 1]
      BY <1>2, <3>1 DEF Ordered
    <3>3. r[k + 1] \in S \cup {Nil}
      BY <3>1, <3>2
    <3>4. Right(k + 1)
      BY <3>1, <3>2, <3>3
    <3> HIDE DEF Right
    <3> QED BY <2>1, <3>4
  <2> QED BY <2>2, <2>3
<1> HIDE DEF T
<1>10. Places \in T
  BY <1>3, <1>8, <1>9, UpTo
<1>11. Right(Places)
  BY <1>10 DEF T
<1>12. r[Places] \in S \cup {Nil} /\ Found(r[Places])
  <2>1. ~(Places + 1 <= n)
    BY <1>3
  <2> HIDE DEF Found
  <2> QED BY <1>11, <2>1
<1> QED BY <1>4, <1>12 DEF r

-----------------------------------------------------------------------------
(* The invariant. *)

\* Each thread is where one of its operations has brought it.
AtWork(t) ==
    /\ pc[t] \in {"linkFind", "linkOut", "linkIn"} => "link" \in ops[t]
    /\ pc[t] \in {"unlinkFind", "unlinkOut", "unlinkIn", "unlinkFree"} => ops[t] \cap {"unlink", "prune"} # {}
    /\ pc[t] = "destroyFree" => ops[t] \cap {"destroy", "gc"} # {}
    /\ pc[t] = "attend" => "attend" \in ops[t]
    /\ pc[t] = "hebbian" => "hebbian" \in ops[t]
    /\ pc[t] = "gcWalk" \/ gcList[t] # {} => "gc" \in ops[t]
    /\ pc[t] \in {"setTv", "firstOut", "walk", "wake"} => "set_tv" \in ops[t]
    /\ pc[t] \in {"examine", "drain"} => "work" \in ops[t]
    /\ pruneList[t] # {} => "prune" \in ops[t]

\* The channels on the outgoing lists, and on the incoming ones: all that live but
\* those that a thread is about to put there or has taken off.
Moving == {"linkOut", "linkIn", "unlinkIn", "unlinkFree"}
OffOut(c) == \E t \in Thread : ch[t] = c /\ pc[t] \in {"linkOut", "unlinkIn", "unlinkFree"}
OffIn(c) == \E t \in Thread : ch[t] = c /\ pc[t] \in {"linkOut", "linkIn", "unlinkFree"}
OnOut == {c \in Channel : cmem[c] = "live" /\ ~ OffOut(c)}
OnIn == {c \in Channel : cmem[c] = "live" /\ ~ OffIn(c)}
OutOf(a) == {c \in OnOut : ends[c].src = a}
Into(a) == {c \in OnIn : ends[c].dst = a}

\* The lists are of these channels, and their lengths are the counts.
OutHolds(a) == IsList(outHead[a], outNext, OutOf(a)) /\ outCount[a] = Cardinality(OutOf(a))
InHolds(a) == IsList(inHead[a], inNext, Into(a)) /\ inCount[a] = Cardinality(Into(a))
ListsHold == \A a \in Atom : OutHolds(a) /\ InHolds(a)

\* What a thread holds is there, and is what it takes it for.
Holds(t) ==
    /\ pc[t] \in {"linkFind", "linkOut", "unlinkFind", "unlinkOut", "attend", "hebbian",
                  "setTv", "firstOut", "examine", "drain", "destroyFree", "gcWalk"} =>
          src[t] \in Atom /\ mem[src[t]] # "freed"
    /\ pc[t] \in {"linkFind", "unlinkFind"} => dst[t] \in Atom
    /\ pc[t] \in {"linkOut", "linkIn", "unlinkOut", "unlinkIn", "wake"} =>
          dst[t] \in Atom /\ mem[dst[t]] # "freed"
    /\ pc[t] \in Moving => ch[t] \in Channel /\ cmem[ch[t]] = "live"
    /\ pc[t] = "linkOut" => ends[ch[t]].src = src[t]
    /\ pc[t] \in {"linkOut", "linkIn", "unlinkIn"} => ends[ch[t]].dst = dst[t]
    /\ pc[t] \in {"walk", "wake"} => ch[t] \in OnOut \cup {Nil}
    /\ pc[t] = "wake" => ch[t] # Nil
    /\ pc[t] \in {"gcWalk", "drain"} => ch[t] \in OnIn \cup {Nil}

\* Nobody moves a channel that somebody else moves.
Apart == \A t, u \in Thread :
    t # u /\ pc[t] \in Moving /\ pc[u] \in Moving => ch[t] # ch[u]

\* Every channel that was allocated leads from an atom to an atom, and those that
\* are to be pruned were.
HasEnds ==
    /\ \A c \in Channel : cmem[c] # "unborn" => ends[c].src \in Atom /\ ends[c].dst \in Atom
    /\ \A t \in Thread : \A c \in pruneList[t] : cmem[c] # "unborn"

\* Where nobody destroys, nothing is freed.
Safekeeping ==
    (\A t \in Thread : ops[t] \cap {"destroy", "gc"} = {}) => \A a \in Atom : mem[a] # "freed"

\* All of it.
TopologyInv ==
    /\ TypeOK /\ Disciplined(ops)
    /\ \A t \in Thread : AtWork(t) /\ Holds(t)
    /\ Apart /\ HasEnds /\ Safekeeping
    /\ ListsHold

-----------------------------------------------------------------------------
(* What follows from it. *)

\* The model's lists are the sets of channels said to be on them, and finite.
LEMMA ListsAre ==
    ASSUME TopologyInv, NEW a \in Atom
    PROVE  /\ Outgoing(a) = OutOf(a) /\ OutOf(a) \in SUBSET Channel
           /\ Incoming(a) = Into(a) /\ Into(a) \in SUBSET Channel
           /\ IsFiniteSet(OutOf(a)) /\ Cardinality(OutOf(a)) \in 0 .. Cardinality(Channel)
           /\ IsFiniteSet(Into(a)) /\ Cardinality(Into(a)) \in 0 .. Cardinality(Channel)
<1>1. OutOf(a) \in SUBSET Channel /\ Into(a) \in SUBSET Channel
  BY DEF OutOf, Into, OnOut, OnIn
<1>2. /\ outNext \in [Channel -> Channel \cup {Nil}] /\ inNext \in [Channel -> Channel \cup {Nil}]
      /\ IsList(outHead[a], outNext, OutOf(a)) /\ IsList(inHead[a], inNext, Into(a))
  BY DEF TopologyInv, TypeOK, ListsHold, OutHolds, InHolds
<1>3. OnList(outHead[a], outNext) = OutOf(a) /\ OnList(inHead[a], inNext) = Into(a)
  BY <1>1, <1>2, OnListIs
<1>4. ASSUME NEW S \in SUBSET Channel
      PROVE  IsFiniteSet(S) /\ Cardinality(S) \in 0 .. Cardinality(Channel)
  <2>1. IsFiniteSet(S) /\ Cardinality(S) <= Cardinality(Channel)
    BY ChannelAssumption, FS_Subset
  <2>2. Cardinality(S) \in Nat /\ Cardinality(Channel) \in Nat
    BY <2>1, ChannelAssumption, FS_CardinalityType
  <2> QED BY <2>1, <2>2
<1> QED BY <1>1, <1>3, <1>4 DEF Outgoing, Incoming

\* Whoever unlinks or prunes moves the channels alone, and nobody else follows
\* the lists without a lock.
LEMMA MovesAlone ==
    ASSUME TopologyInv, NEW t \in Thread, NEW u \in Thread \ {t},
           pc[t] \in {"unlinkOut", "unlinkIn", "unlinkFree"}
    PROVE  pc[u] \in {"idle", "hebbian", "attend"}
<1>1. ops[t] \cap {"unlink", "prune"} # {}
  BY DEF TopologyInv, AtWork
<1>2. ops[u] \subseteq {"spawn", "hebbian", "decay", "attend"}
  BY <1>1 DEF TopologyInv, Disciplined
<1>3. pc[u] \in Controls
  BY DEF TopologyInv, TypeOK
<1>4. AtWork(u)
  BY DEF TopologyInv
<1> QED BY <1>2, <1>3, <1>4 DEF AtWork, Controls

\* Whoever destroys shares no atom.
LEMMA DestroysAlone ==
    ASSUME TopologyInv, NEW t \in Thread, NEW u \in Thread \ {t},
           ops[t] \cap {"destroy", "gc"} # {}
    PROVE  pc[u] = "idle"
<1>1. ops[u] \subseteq {"spawn", "decay"}
  BY DEF TopologyInv, Disciplined
<1>2. pc[u] \in Controls
  BY DEF TopologyInv, TypeOK
<1>3. AtWork(u)
  BY DEF TopologyInv
<1> QED BY <1>1, <1>2, <1>3 DEF AtWork, Controls

\* Between operations the lists agree with each other and with the counts.
LEMMA InvLists == TopologyInv => ListsOK
<1> SUFFICES ASSUME TopologyInv PROVE ListsOK
  OBVIOUS
<1>1. ListsAgree
  <2> SUFFICES ASSUME Quiet PROVE
          /\ \A c \in {l \in Channel : cmem[l] = "live"} :
                Pooled(ends[c].src) /\ Pooled(ends[c].dst) =>
                (c \in Outgoing(ends[c].src) <=> c \in Incoming(ends[c].dst))
          /\ \A a \in Atom : Pooled(a) =>
                /\ outCount[a] = Cardinality(Outgoing(a))
                /\ inCount[a] = Cardinality(Incoming(a))
    BY DEF ListsAgree
  <2>1. \A c \in Channel : ~ OffOut(c) /\ ~ OffIn(c)
    BY DEF Quiet, OffOut, OffIn
  <2>2. ASSUME NEW c \in Channel, cmem[c] = "live"
        PROVE  c \in Outgoing(ends[c].src) /\ c \in Incoming(ends[c].dst)
    <3>1. ends[c].src \in Atom /\ ends[c].dst \in Atom
      BY <2>2 DEF TopologyInv, HasEnds
    <3>2. c \in OutOf(ends[c].src) /\ c \in Into(ends[c].dst)
      BY <2>1, <2>2 DEF OutOf, Into, OnOut, OnIn
    <3> QED BY <3>1, <3>2, ListsAre
  <2>3. ASSUME NEW a \in Atom
        PROVE  outCount[a] = Cardinality(Outgoing(a)) /\ inCount[a] = Cardinality(Incoming(a))
    <3>1. outCount[a] = Cardinality(OutOf(a)) /\ inCount[a] = Cardinality(Into(a))
      BY DEF TopologyInv, ListsHold, OutHolds, InHolds
    <3> QED BY <3>1, ListsAre
  <2> QED BY <2>2, <2>3
<1>2. NoFreedChannelListed
  <2> SUFFICES ASSUME NEW a \in Atom, NEW c \in Outgoing(a) \cup Incoming(a)
               PROVE  cmem[c] # "freed"
    BY DEF NoFreedChannelListed
  <2>1. c \in OutOf(a) \cup Into(a)
    BY ListsAre
  <2> QED BY <2>1 DEF OutOf, Into, OnOut, OnIn
<1> QED BY <1>1, <1>2 DEF TopologyInv, ListsOK

-----------------------------------------------------------------------------
(* Steps. *)

\* It holds at first: there is nothing on any list.
LEMMA TopologyInit ==
    ASSUME \A o \in Sharings : Disciplined(o), Init PROVE TopologyInv
<1>1. /\ \A t \in Thread : pc[t] = "idle" /\ ch[t] = Nil /\ pruneList[t] = {} /\ gcList[t] = {}
      /\ \A c \in Channel : cmem[c] = "unborn"
      /\ \A a \in Atom : /\ outHead[a] = Nil /\ inHead[a] = Nil
                         /\ outCount[a] = 0 /\ inCount[a] = 0 /\ mem[a] = "unborn"
  BY DEF Init
<1>2. TypeOK
  <2>1. Cardinality(Channel) \in Nat
    BY ChannelAssumption, FS_CardinalityType
  <2>2. 0 \in 0 .. Cardinality(Channel)
    BY <2>1
  <2> QED BY <2>2 DEF Init, TypeOK, Controls
<1>3. Disciplined(ops)
  BY DEF Init
<1>4. \A t \in Thread : AtWork(t) /\ Holds(t)
  BY <1>1 DEF AtWork, Holds, Moving
<1>5. Apart /\ HasEnds /\ Safekeeping
  BY <1>1 DEF Apart, HasEnds, Safekeeping, Moving
<1>6. ListsHold
  <2>1. ASSUME NEW a \in Atom PROVE OutOf(a) = {} /\ Into(a) = {}
    BY <1>1 DEF OutOf, Into, OnOut, OnIn
  <2>2. Cardinality({}) = 0
    BY FS_EmptySet
  <2>3. IsList(Nil, outNext, {}) /\ IsList(Nil, inNext, {})
    BY EmptyList
  <2> QED BY <1>1, <2>1, <2>2, <2>3 DEF ListsHold, OutHolds, InHolds
<1> QED BY <1>2, <1>3, <1>4, <1>5, <1>6 DEF TopologyInv

\* A thread's step leaves what the other threads have alone.
Leaves(t) == \A u \in Thread \ {t} :
    /\ pc'[u] = pc[u] /\ src'[u] = src[u] /\ dst'[u] = dst[u] /\ ch'[u] = ch[u]
    /\ pruneList'[u] = pruneList[u] /\ gcList'[u] = gcList[u]

\* So another thread holds what it held, unless that was freed or taken off.
LEMMA StillHolds ==
    ASSUME NEW t \in Thread, Leaves(t), NEW u \in Thread \ {t}, Holds(u),
           \A a \in Atom : mem[a] # "freed" => mem'[a] # "freed",
           pc[u] \in Moving => cmem'[ch[u]] = cmem[ch[u]] /\ ends'[ch[u]] = ends[ch[u]],
           pc[u] \in {"walk", "wake"} => OnOut \subseteq OnOut',
           pc[u] \in {"gcWalk", "drain"} => OnIn \subseteq OnIn'
    PROVE  Holds(u)'
<1>1. pc'[u] = pc[u] /\ src'[u] = src[u] /\ dst'[u] = dst[u] /\ ch'[u] = ch[u]
  BY DEF Leaves
<1> DEFINE On == OnOut
           In == OnIn
<1>2. pc[u] \in {"walk", "wake"} => ch[u] \in OnOut' \cup {Nil}
  BY DEF Holds
<1>3. pc[u] \in {"gcWalk", "drain"} => ch[u] \in OnIn' \cup {Nil}
  BY DEF Holds
<1> QED BY <1>1, <1>2, <1>3 DEF Holds, Moving

\* The parts of the invariant that a step of t does not reach.
LEMMA Stepped ==
    ASSUME TopologyInv, NEW t \in Thread, Leaves(t), TypeOK', ops' = ops,
           \A u \in Thread \ {t} : Holds(u)', AtWork(t)', Holds(t)',
           \A a \in Atom : mem[a] # "freed" => mem'[a] # "freed",
           Apart', HasEnds', ListsHold'
    PROVE  TopologyInv'
<1>1. Disciplined(ops)'
  BY DEF TopologyInv, Disciplined
<1>2. ASSUME NEW u \in Thread PROVE AtWork(u)' /\ Holds(u)'
  <2>1. CASE u = t
    BY <2>1
  <2>2. CASE u # t
    <3>1. AtWork(u)
      BY DEF TopologyInv
    <3> QED BY <2>2, <3>1 DEF AtWork, Leaves
  <2> QED BY <2>1, <2>2
<1>3. Safekeeping'
  BY DEF TopologyInv, Safekeeping
<1> QED BY <1>1, <1>2, <1>3 DEF TopologyInv

\* A step of t that moves no channel.
LEMMA SameOnLists ==
    ASSUME TopologyInv, NEW t \in Thread, Leaves(t), cmem' = cmem, ends' = ends,
           pc[t] \notin Moving, pc'[t] \notin Moving
    PROVE  OnOut' = OnOut /\ OnIn' = OnIn
<1>1. ASSUME NEW c \in Channel PROVE (OffOut(c)' <=> OffOut(c)) /\ (OffIn(c)' <=> OffIn(c))
  BY DEF OffOut, OffIn, Leaves, Moving
<1> QED BY <1>1 DEF OnOut, OnIn

\* The invariant survives it, if the thread that makes it stays in order.
LEMMA Unmoved ==
    ASSUME TopologyInv, NEW t \in Thread, Leaves(t), TypeOK', ops' = ops,
           cmem' = cmem, ends' = ends,
           outHead' = outHead, inHead' = inHead, outNext' = outNext, inNext' = inNext,
           outCount' = outCount, inCount' = inCount,
           pc[t] \notin Moving, pc'[t] \notin Moving,
           \A a \in Atom : mem[a] # "freed" => mem'[a] # "freed",
           \A c \in pruneList'[t] : cmem[c] # "unborn",
           AtWork(t)', Holds(t)'
    PROVE  TopologyInv'
<1>1. OnOut' = OnOut /\ OnIn' = OnIn
  BY SameOnLists
<1>2. \A u \in Thread \ {t} : Holds(u)'
  <2> SUFFICES ASSUME NEW u \in Thread \ {t} PROVE Holds(u)'
    OBVIOUS
  <2>1. Holds(u)
    BY DEF TopologyInv
  <2> QED BY <1>1, <2>1, StillHolds
<1>3. Apart'
  BY DEF TopologyInv, Apart, Leaves
<1>4. HasEnds'
  BY DEF TopologyInv, HasEnds, Leaves
<1>5. ListsHold'
  <2> SUFFICES ASSUME NEW a \in Atom PROVE OutHolds(a)' /\ InHolds(a)'
    BY DEF ListsHold
  <2>1. OutOf(a)' = OutOf(a) /\ Into(a)' = Into(a)
    BY <1>1 DEF OutOf, Into
  <2>2. OutHolds(a) /\ InHolds(a)
    BY DEF TopologyInv, ListsHold
  <2> QED BY <2>1, <2>2 DEF OutHolds, InHolds
<1> QED BY <1>2, <1>3, <1>4, <1>5, Stepped

\* Where a step takes its thread, and with what.
LEMMA Went ==
    ASSUME TypeOK, NEW t \in Thread, NEW control, NEW s, NEW d, NEW c,
           Goto(t, control), Hold(t, s, d, c)
    PROVE  /\ pc'[t] = control /\ src'[t] = s /\ dst'[t] = d /\ ch'[t] = c
           /\ \A u \in Thread \ {t} :
                 pc'[u] = pc[u] /\ src'[u] = src[u] /\ dst'[u] = dst[u] /\ ch'[u] = ch[u]
BY DEF TypeOK, Goto, Hold

\* The same of a return to the caller.
LEMMA Returned ==
    ASSUME TypeOK, NEW t \in Thread, Return(t)
    PROVE  /\ pc'[t] = "idle"
           /\ \A u \in Thread \ {t} :
                 pc'[u] = pc[u] /\ src'[u] = src[u] /\ dst'[u] = dst[u] /\ ch'[u] = ch[u]
BY Went DEF Return

\* cogdiod_spawn puts an atom into the pool.
LEMMA SpawnStep ==
    ASSUME TopologyInv, NEW t \in Thread, NEW a \in Atom, Spawn(t, a) PROVE TopologyInv'
<1>1. /\ ops' = ops /\ cmem' = cmem /\ ends' = ends /\ outHead' = outHead /\ inHead' = inHead
      /\ outNext' = outNext /\ inNext' = inNext /\ outCount' = outCount /\ inCount' = inCount
      /\ pc' = pc /\ src' = src /\ dst' = dst /\ ch' = ch /\ pruneList' = pruneList
      /\ gcList' = gcList /\ mem' = [mem EXCEPT ![a] = "pooled"] /\ pc[t] = "idle"
  BY DEF Spawn, Calls, Free, lists, channels, locals
<1>2. TypeOK'
  BY <1>1 DEF TopologyInv, TypeOK, Spawn, channels
<1>3. Leaves(t)
  BY <1>1 DEF Leaves
<1>4. \A b \in Atom : mem[b] # "freed" => mem'[b] # "freed"
  BY <1>1 DEF TopologyInv, TypeOK
<1>5. AtWork(t)' /\ Holds(t)' /\ \A c \in pruneList'[t] : cmem[c] # "unborn"
  BY <1>1 DEF TopologyInv, AtWork, Holds, Moving, HasEnds
<1> QED BY <1>1, <1>2, <1>3, <1>4, <1>5, Unmoved DEF Moving

\* A thread's pointers keep their types.
LEMMA WentTypes ==
    ASSUME TypeOK, NEW t \in Thread, NEW control \in Controls,
           NEW s \in Atom \cup {Nil}, NEW d \in Atom \cup {Nil}, NEW c \in Channel \cup {Nil},
           Goto(t, control), Hold(t, s, d, c)
    PROVE  /\ pc' \in [Thread -> Controls] /\ src' \in [Thread -> Atom \cup {Nil}]
           /\ dst' \in [Thread -> Atom \cup {Nil}] /\ ch' \in [Thread -> Channel \cup {Nil}]
BY DEF TypeOK, Goto, Hold

\* The same of a return to the caller.
LEMMA ReturnedTypes ==
    ASSUME TypeOK, NEW t \in Thread, Return(t)
    PROVE  /\ pc' \in [Thread -> Controls] /\ src' \in [Thread -> Atom \cup {Nil}]
           /\ dst' \in [Thread -> Atom \cup {Nil}] /\ ch' \in [Thread -> Channel \cup {Nil}]
<1>1. "idle" \in Controls
  BY DEF Controls
<1> QED BY <1>1, WentTypes DEF Return

\* cogdiod_unlink and cogdiod_link find the first atom.
LEMMA FirstLookStep ==
    ASSUME TopologyInv, NEW t \in Thread, NEW s \in Atom, NEW d \in Atom,
           LinkCall(t, s, d) \/ UnlinkCall(t, s, d)
    PROVE  TopologyInv'
<1>1. /\ ops' = ops /\ cmem' = cmem /\ ends' = ends /\ outHead' = outHead /\ inHead' = inHead
      /\ outNext' = outNext /\ inNext' = inNext /\ outCount' = outCount /\ inCount' = inCount
      /\ pruneList' = pruneList /\ gcList' = gcList /\ mem' = mem
      /\ state' = state /\ queued' = queued /\ weight' = weight /\ notice' = notice
      /\ mem[s] = "pooled" /\ pc[t] = "idle"
  BY DEF LinkCall, UnlinkCall, Calls, Free, Pooled, atoms, lists, channels
<1>2. PICK control \in {"linkFind", "unlinkFind"} :
         /\ Goto(t, control) /\ Hold(t, s, d, Nil)
         /\ IF control = "linkFind" THEN "link" \in ops[t] ELSE "unlink" \in ops[t]
  BY DEF LinkCall, UnlinkCall, Calls
<1>3. /\ pc'[t] = control /\ src'[t] = s /\ dst'[t] = d /\ Leaves(t)
  BY <1>1, <1>2, Went DEF TopologyInv, Leaves
<1>4. TypeOK'
  <2>1. control \in Controls
    BY DEF Controls
  <2>2. /\ pc' \in [Thread -> Controls] /\ src' \in [Thread -> Atom \cup {Nil}]
        /\ dst' \in [Thread -> Atom \cup {Nil}] /\ ch' \in [Thread -> Channel \cup {Nil}]
    BY <1>2, <2>1, WentTypes DEF TopologyInv
  <2> QED BY <1>1, <2>2 DEF TopologyInv, TypeOK
<1>5. AtWork(t)' /\ Holds(t)' /\ \A c \in pruneList'[t] : cmem[c] # "unborn"
  BY <1>1, <1>2, <1>3 DEF TopologyInv, AtWork, Holds, Moving, HasEnds
<1> QED BY <1>1, <1>3, <1>4, <1>5, Unmoved DEF Moving

\* cogdiod_unlink finds the second one, or returns.
LEMMA UnlinkFindStep ==
    ASSUME TopologyInv, NEW t \in Thread, UnlinkFind(t) PROVE TopologyInv'
<1>1. /\ ops' = ops /\ cmem' = cmem /\ ends' = ends /\ outHead' = outHead /\ inHead' = inHead
      /\ outNext' = outNext /\ inNext' = inNext /\ outCount' = outCount /\ inCount' = inCount
      /\ pruneList' = pruneList /\ gcList' = gcList /\ mem' = mem
      /\ state' = state /\ queued' = queued /\ weight' = weight /\ notice' = notice
      /\ pc[t] = "unlinkFind"
  BY DEF UnlinkFind, At, atoms, lists, channels
<1>2. TypeOK /\ AtWork(t) /\ Holds(t) /\ \A c \in pruneList[t] : cmem[c] # "unborn"
  BY DEF TopologyInv, HasEnds
<1>3. src[t] \in Atom /\ mem[src[t]] # "freed" /\ dst[t] \in Atom
  BY <1>1, <1>2 DEF Holds
<1>4. CASE Pooled(dst[t])
  <2>1. Goto(t, "unlinkOut") /\ Hold(t, src[t], dst[t], Nil)
    BY <1>4 DEF UnlinkFind
  <2>2. /\ pc'[t] = "unlinkOut" /\ src'[t] = src[t] /\ dst'[t] = dst[t] /\ Leaves(t)
    BY <1>1, <1>2, <2>1, Went DEF Leaves
  <2>3. TypeOK'
    <3>1. "unlinkOut" \in Controls
      BY DEF Controls
    <3>2. /\ pc' \in [Thread -> Controls] /\ src' \in [Thread -> Atom \cup {Nil}]
          /\ dst' \in [Thread -> Atom \cup {Nil}] /\ ch' \in [Thread -> Channel \cup {Nil}]
      BY <1>2, <1>3, <2>1, <3>1, WentTypes
    <3> QED BY <1>1, <1>2, <3>2 DEF TypeOK
  <2>4. AtWork(t)' /\ Holds(t)'
    BY <1>1, <1>2, <1>3, <1>4, <2>2 DEF AtWork, Holds, Moving, Pooled
  <2> QED BY <1>1, <1>2, <2>2, <2>3, <2>4, Unmoved DEF Moving
<1>5. CASE ~ Pooled(dst[t])
  <2>1. Return(t)
    BY <1>5 DEF UnlinkFind
  <2>2. pc'[t] = "idle" /\ Leaves(t)
    BY <1>1, <1>2, <2>1, Returned DEF Leaves
  <2>3. TypeOK'
    BY <1>1, <1>2, <2>1, ReturnedTypes DEF TypeOK
  <2>4. AtWork(t)' /\ Holds(t)'
    BY <1>1, <1>2, <2>2 DEF AtWork, Holds, Moving
  <2> QED BY <1>1, <1>2, <2>2, <2>3, <2>4, Unmoved DEF Moving
<1> QED BY <1>4, <1>5

\* cogdiod_destroy_atom takes an atom out of the pool.
LEMMA UnhashStep ==
    ASSUME TopologyInv, NEW t \in Thread, NEW a \in Atom, Unhash(t, a),
           pc[t] \in {"idle", "gcWalk"}, ops[t] \cap {"destroy", "gc"} # {},
           UNCHANGED <<ops, state, queued, lists, channels, pruneList, gcList>>
    PROVE  TopologyInv'
<1>1. /\ ops' = ops /\ cmem' = cmem /\ ends' = ends /\ outHead' = outHead /\ inHead' = inHead
      /\ outNext' = outNext /\ inNext' = inNext /\ outCount' = outCount /\ inCount' = inCount
      /\ pruneList' = pruneList /\ gcList' = gcList /\ mem' = [mem EXCEPT ![a] = "unhashed"]
  BY DEF Unhash, lists, channels
<1>2. /\ pc'[t] = "destroyFree" /\ src'[t] = a /\ Leaves(t)
  BY <1>1, Went DEF Unhash, TopologyInv, Leaves
<1>3. TypeOK'
  BY <1>1 DEF TopologyInv, TypeOK, Unhash, Goto, Hold, Controls, channels
<1>4. mem'[a] # "freed" /\ \A b \in Atom : mem[b] # "freed" => mem'[b] # "freed"
  BY <1>1 DEF TopologyInv, TypeOK
<1>5. AtWork(t)' /\ Holds(t)' /\ \A c \in pruneList'[t] : cmem[c] # "unborn"
  BY <1>1, <1>2, <1>4 DEF TopologyInv, AtWork, Holds, Moving, HasEnds
<1> QED BY <1>1, <1>2, <1>3, <1>4, <1>5, Unmoved DEF Moving

\* The same when a client calls it.
LEMMA DestroyCallStep ==
    ASSUME TopologyInv, NEW t \in Thread, NEW a \in Atom, DestroyCall(t, a) PROVE TopologyInv'
BY UnhashStep DEF DestroyCall, Calls, Free

\* Whoever frees an atom is alone with it.
LEMMA DestroyFreeStep ==
    ASSUME TopologyInv, NEW t \in Thread, DestroyFree(t) PROVE TopologyInv'
<1>1. /\ ops' = ops /\ cmem' = cmem /\ ends' = ends /\ outHead' = outHead /\ inHead' = inHead
      /\ outNext' = outNext /\ inNext' = inNext /\ outCount' = outCount /\ inCount' = inCount
      /\ pruneList' = pruneList /\ gcList' = gcList /\ pc[t] = "destroyFree"
  BY DEF DestroyFree, At, lists, channels
<1>2. /\ pc'[t] = "idle" /\ Leaves(t)
  BY <1>1, Returned DEF DestroyFree, TopologyInv, Leaves
<1>3. TypeOK'
  BY <1>1 DEF TopologyInv, TypeOK, DestroyFree, Return, Goto, Hold, Controls, channels
<1>4. ops[t] \cap {"destroy", "gc"} # {}
  BY <1>1 DEF TopologyInv, AtWork
<1>5. \A u \in Thread \ {t} : pc[u] = "idle"
  BY <1>4, DestroysAlone
<1>6. \A u \in Thread : pc'[u] = "idle"
  BY <1>2, <1>5 DEF Leaves
<1>7. \A u \in Thread : AtWork(u)' /\ Holds(u)'
  BY <1>1, <1>6 DEF TopologyInv, AtWork, Holds, Moving
<1>8. Apart' /\ HasEnds' /\ Safekeeping' /\ Disciplined(ops)'
  BY <1>1, <1>4, <1>6 DEF TopologyInv, Apart, HasEnds, Safekeeping, Disciplined, Moving
<1>9. OnOut' = OnOut /\ OnIn' = OnIn
  BY <1>1, <1>2, SameOnLists DEF Moving
<1>10. ListsHold'
  <2> SUFFICES ASSUME NEW a \in Atom PROVE OutHolds(a)' /\ InHolds(a)'
    BY DEF ListsHold
  <2>1. OutOf(a)' = OutOf(a) /\ Into(a)' = Into(a)
    BY <1>1, <1>9 DEF OutOf, Into
  <2>2. OutHolds(a) /\ InHolds(a)
    BY DEF TopologyInv, ListsHold
  <2> QED BY <1>1, <2>1, <2>2 DEF OutHolds, InHolds
<1> QED BY <1>3, <1>7, <1>8, <1>10 DEF TopologyInv

\* cogdiod_attend looks the atom up, then locks it.
LEMMA AttendStep ==
    ASSUME TopologyInv, NEW t \in Thread,
           (\E a \in Atom : AttendCall(t, a)) \/ AttendLock(t)
    PROVE  TopologyInv'
<1>1. ASSUME NEW a \in Atom, AttendCall(t, a) PROVE TopologyInv'
  <2>1. /\ ops' = ops /\ cmem' = cmem /\ ends' = ends /\ outHead' = outHead /\ inHead' = inHead
        /\ outNext' = outNext /\ inNext' = inNext /\ outCount' = outCount /\ inCount' = inCount
        /\ pruneList' = pruneList /\ gcList' = gcList /\ mem' = mem
        /\ mem[a] = "pooled" /\ pc[t] = "idle" /\ "attend" \in ops[t]
    BY <1>1 DEF AttendCall, Calls, Free, Pooled, atoms, lists, channels
  <2>2. /\ pc'[t] = "attend" /\ src'[t] = a /\ Leaves(t)
    BY <1>1, <2>1, Went DEF AttendCall, TopologyInv, Leaves
  <2>3. TypeOK'
    BY <1>1, <2>1 DEF TopologyInv, TypeOK, AttendCall, Goto, Hold, Controls, atoms, channels
  <2>4. AtWork(t)' /\ Holds(t)' /\ \A c \in pruneList'[t] : cmem[c] # "unborn"
    BY <2>1, <2>2 DEF TopologyInv, AtWork, Holds, Moving, HasEnds
  <2> QED BY <2>1, <2>2, <2>3, <2>4, Unmoved DEF Moving
<1>2. ASSUME AttendLock(t) PROVE TopologyInv'
  <2>1. /\ ops' = ops /\ cmem' = cmem /\ ends' = ends /\ outHead' = outHead /\ inHead' = inHead
        /\ outNext' = outNext /\ inNext' = inNext /\ outCount' = outCount /\ inCount' = inCount
        /\ pruneList' = pruneList /\ gcList' = gcList /\ mem' = mem /\ pc[t] = "attend"
    BY <1>2 DEF AttendLock, At, lists, channels
  <2>2. /\ pc'[t] = "idle" /\ Leaves(t)
    BY <1>2, <2>1, Returned DEF AttendLock, TopologyInv, Leaves
  <2>3. TypeOK'
    BY <1>2, <2>1 DEF TopologyInv, TypeOK, AttendLock, Return, Goto, Hold, Controls, channels
  <2>4. AtWork(t)' /\ Holds(t)' /\ \A c \in pruneList'[t] : cmem[c] # "unborn"
    BY <2>1, <2>2 DEF TopologyInv, AtWork, Holds, Moving, HasEnds
  <2> QED BY <2>1, <2>2, <2>3, <2>4, Unmoved DEF Moving
<1> QED BY <1>1, <1>2

\* The lists lead from channels on them to channels on them.
LEMMA ListsLead ==
    ASSUME TopologyInv
    PROVE  /\ \A a \in Atom : outHead[a] \in OnOut \cup {Nil} /\ inHead[a] \in OnIn \cup {Nil}
           /\ \A c \in OnOut : outNext[c] \in OnOut \cup {Nil}
           /\ \A c \in OnIn : inNext[c] \in OnIn \cup {Nil}
           /\ \A c \in OnOut \cup OnIn :
                 c \in Channel /\ cmem[c] = "live" /\ ends[c].src \in Atom /\ ends[c].dst \in Atom
<1>1. \A c \in OnOut \cup OnIn :
          c \in Channel /\ cmem[c] = "live" /\ ends[c].src \in Atom /\ ends[c].dst \in Atom
  BY DEF TopologyInv, HasEnds, OnOut, OnIn
<1>2. \A a \in Atom : IsList(outHead[a], outNext, OutOf(a)) /\ IsList(inHead[a], inNext, Into(a))
  BY DEF TopologyInv, ListsHold, OutHolds, InHolds
<1>3. ASSUME NEW a \in Atom
      PROVE  outHead[a] \in OnOut \cup {Nil} /\ inHead[a] \in OnIn \cup {Nil}
  <2>1. outHead[a] \in OutOf(a) \cup {Nil} /\ inHead[a] \in Into(a) \cup {Nil}
    BY <1>2, OnTheList
  <2> QED BY <2>1 DEF OutOf, Into
<1>4. ASSUME NEW c \in OnOut PROVE outNext[c] \in OnOut \cup {Nil}
  <2>1. c \in OutOf(ends[c].src) /\ ends[c].src \in Atom
    BY <1>1 DEF OutOf
  <2>2. outNext[c] \in OutOf(ends[c].src) \cup {Nil}
    BY <1>2, <2>1, OnTheList
  <2> QED BY <2>2 DEF OutOf
<1>5. ASSUME NEW c \in OnIn PROVE inNext[c] \in OnIn \cup {Nil}
  <2>1. c \in Into(ends[c].dst) /\ ends[c].dst \in Atom
    BY <1>1 DEF Into
  <2>2. inNext[c] \in Into(ends[c].dst) \cup {Nil}
    BY <1>2, <2>1, OnTheList
  <2> QED BY <2>2 DEF Into
<1> QED BY <1>1, <1>3, <1>4, <1>5

\* The steps of cogdiod_set_tv and of the workers.
LEMMA SetTvStep ==
    ASSUME TopologyInv, NEW t \in Thread,
           \/ \E a \in Atom : SetTvCall(t, a)
           \/ SetTvLock(t) \/ FirstOut(t) \/ Walk(t) \/ WakeTarget(t)
    PROVE  TopologyInv'
<1>1. /\ ops' = ops /\ cmem' = cmem /\ ends' = ends /\ outHead' = outHead /\ inHead' = inHead
      /\ outNext' = outNext /\ inNext' = inNext /\ outCount' = outCount /\ inCount' = inCount
      /\ pruneList' = pruneList /\ gcList' = gcList /\ mem' = mem
      /\ weight' = weight /\ notice' = notice
  BY DEF SetTvCall, SetTvLock, FirstOut, Walk, WakeTarget, atoms, lists, channels
<1>2. /\ TypeOK /\ AtWork(t) /\ Holds(t) /\ ops \in Sharings
      /\ \A c \in pruneList[t] : cmem[c] # "unborn"
  BY DEF TopologyInv, HasEnds, TypeOK
<1>3. CASE \E a \in Atom : SetTvCall(t, a)
  <2>1. PICK a \in Atom : SetTvCall(t, a)
    BY <1>3
  <2>2. pc'[t] = "setTv" /\ src'[t] = a /\ Leaves(t) /\ mem[a] = "pooled"
    BY <1>1, <1>2, <2>1, Went DEF SetTvCall, Leaves, Pooled
  <2>3. pc[t] = "idle" /\ "set_tv" \in ops[t] /\ pruneList[t] = {} /\ gcList[t] = {}
    BY <2>1 DEF SetTvCall, Calls, Free
  <2>4. TypeOK'
    BY <1>1, <1>2, <2>1 DEF TypeOK, SetTvCall, Goto, Hold, Controls, atoms
  <2>5. AtWork(t)' /\ Holds(t)'
    BY <1>1, <1>2, <2>2, <2>3 DEF AtWork, Holds, Moving
  <2> QED BY <1>1, <1>2, <2>2, <2>3, <2>4, <2>5, Unmoved DEF Moving
<1>6. CASE SetTvLock(t)
  <2>1. pc[t] = "setTv" /\ "set_tv" \in ops[t] /\ src[t] \in Atom /\ mem[src[t]] # "freed"
    BY <1>2, <1>6 DEF SetTvLock, At, Holds, AtWork
  <2>2. pc'[t] = "firstOut" /\ src'[t] = src[t] /\ Leaves(t)
    BY <1>1, <1>2, <1>6, Went DEF SetTvLock, Leaves
  <2>3. TypeOK'
    BY <1>1, <1>2, <1>6, <2>1 DEF TypeOK, SetTvLock, Goto, Hold, Controls, atoms
  <2>4. AtWork(t)' /\ Holds(t)'
    BY <1>1, <1>2, <2>1, <2>2 DEF AtWork, Holds, Moving
  <2> QED BY <1>1, <1>2, <2>1, <2>2, <2>3, <2>4, Unmoved DEF Moving
<1>7. CASE FirstOut(t)
  <2>1. pc[t] = "firstOut" /\ "set_tv" \in ops[t] /\ src[t] \in Atom
    BY <1>2, <1>7 DEF FirstOut, At, Holds, AtWork
  <2>2. pc'[t] = "walk" /\ ch'[t] = outHead[src[t]] /\ Leaves(t)
    BY <1>1, <1>2, <1>7, Went DEF FirstOut, Leaves
  <2>3. TypeOK'
    BY <1>1, <1>2, <1>7, <2>1 DEF TypeOK, FirstOut, Goto, Hold, Controls, atoms
  <2>4. OnOut' = OnOut /\ OnIn' = OnIn
    BY <1>1, <2>1, <2>2, SameOnLists DEF Moving
  <2>5. ch'[t] \in OnOut' \cup {Nil}
    BY <2>1, <2>2, <2>4, ListsLead
  <2>6. AtWork(t)' /\ Holds(t)'
    BY <1>1, <1>2, <2>1, <2>2, <2>5 DEF AtWork, Holds, Moving
  <2> QED BY <1>1, <1>2, <2>1, <2>2, <2>3, <2>6, Unmoved DEF Moving
<1>4. CASE Walk(t)
  <2>1. pc[t] = "walk" /\ ch[t] \in OnOut \cup {Nil} /\ "set_tv" \in ops[t]
    BY <1>2, <1>4 DEF Walk, At, Holds, AtWork
  <2>2. \/ /\ pc'[t] = "idle" /\ Leaves(t)
        \/ /\ ch[t] # Nil /\ Pooled(ends[ch[t]].dst)
           /\ pc'[t] = "wake" /\ src'[t] = src[t] /\ dst'[t] = ends[ch[t]].dst /\ ch'[t] = ch[t]
           /\ Leaves(t)
        \/ /\ ch[t] # Nil /\ pc'[t] = "walk" /\ ch'[t] = outNext[ch[t]] /\ Leaves(t)
    <3>1. CASE ch[t] = Nil
      BY <1>1, <1>2, <1>4, <3>1, Returned DEF Walk, Leaves
    <3>2. CASE ch[t] # Nil /\ Pooled(ends[ch[t]].dst)
      BY <1>1, <1>2, <1>4, <3>2, Went DEF Walk, Leaves
    <3>3. CASE ch[t] # Nil /\ ~ Pooled(ends[ch[t]].dst)
      BY <1>1, <1>2, <1>4, <3>3, Went DEF Walk, Leaves
    <3> QED BY <3>1, <3>2, <3>3
  <2>3. TypeOK'
    <3>1. ch[t] # Nil => ends[ch[t]].dst \in Atom /\ outNext[ch[t]] \in Channel \cup {Nil}
      BY <1>2, <2>1, ListsLead DEF TypeOK
    <3>2. /\ pc' \in [Thread -> Controls] /\ src' \in [Thread -> Atom \cup {Nil}]
          /\ dst' \in [Thread -> Atom \cup {Nil}] /\ ch' \in [Thread -> Channel \cup {Nil}]
      <4>1. {"walk", "wake"} \subseteq Controls /\ src[t] \in Atom \cup {Nil}
        BY <1>2 DEF Controls, TypeOK
      <4>2. CASE ch[t] = Nil
        BY <1>2, <1>4, <4>2, ReturnedTypes DEF Walk
      <4>3. CASE ch[t] # Nil /\ Pooled(ends[ch[t]].dst)
        <5>1. ch[t] \in Channel \cup {Nil}
          BY <1>2 DEF TypeOK
        <5> QED BY <1>2, <1>4, <3>1, <4>1, <4>3, <5>1, WentTypes DEF Walk
      <4>4. CASE ch[t] # Nil /\ ~ Pooled(ends[ch[t]].dst)
        BY <1>2, <1>4, <3>1, <4>1, <4>4, WentTypes DEF Walk
      <4> QED BY <4>2, <4>3, <4>4
    <3>3. state' = state /\ queued' = queued
      BY <1>4 DEF Walk, atoms
    <3> QED BY <1>1, <1>2, <3>2, <3>3 DEF TypeOK
  <2>4. OnOut' = OnOut /\ OnIn' = OnIn
    BY <1>1, <2>1, <2>2, SameOnLists DEF Moving
  <2>5. ch[t] # Nil => /\ outNext[ch[t]] \in OnOut' \cup {Nil} /\ ch[t] \in OnOut'
                       /\ ends[ch[t]].dst \in Atom
    BY <2>1, <2>4, ListsLead
  <2>6. AtWork(t)' /\ Holds(t)'
    BY <1>1, <1>2, <2>1, <2>2, <2>5 DEF AtWork, Holds, Moving, Pooled
  <2> QED BY <1>1, <1>2, <2>1, <2>2, <2>3, <2>6, Unmoved DEF Moving
<1>5. CASE WakeTarget(t)
  <2>1. pc[t] = "wake" /\ ch[t] \in OnOut /\ "set_tv" \in ops[t] /\ dst[t] \in Atom
    BY <1>2, <1>5 DEF WakeTarget, At, Holds, AtWork
  <2>2. pc'[t] = "walk" /\ ch'[t] = outNext[ch[t]] /\ Leaves(t)
    BY <1>1, <1>2, <1>5, Went DEF WakeTarget, Leaves
  <2>3. TypeOK'
    <3>1. outNext[ch[t]] \in Channel \cup {Nil}
      BY <1>2, <2>1, ListsLead DEF TypeOK
    <3> QED BY <1>1, <1>2, <1>5, <2>1, <3>1 DEF TypeOK, WakeTarget, Goto, Hold, Controls
  <2>4. OnOut' = OnOut /\ OnIn' = OnIn
    BY <1>1, <2>1, <2>2, SameOnLists DEF Moving
  <2>5. ch'[t] \in OnOut' \cup {Nil}
    BY <2>1, <2>2, <2>4, ListsLead
  <2>6. AtWork(t)' /\ Holds(t)'
    BY <1>1, <1>2, <2>1, <2>2, <2>5 DEF AtWork, Holds, Moving
  <2> QED BY <1>1, <1>2, <2>1, <2>2, <2>3, <2>6, Unmoved DEF Moving
<1> QED BY <1>3, <1>4, <1>5, <1>6, <1>7

\* A worker's atom was queued, not freed: nobody destroys beside a worker.
LEMMA WorkStep ==
    ASSUME TopologyInv, NEW t \in Thread,
           \/ \E a \in Atom : WorkPop(t, a)
           \/ WorkExamine(t) \/ WorkDrain(t)
    PROVE  TopologyInv'
<1>1. /\ ops' = ops /\ cmem' = cmem /\ ends' = ends /\ outHead' = outHead /\ inHead' = inHead
      /\ outNext' = outNext /\ inNext' = inNext /\ outCount' = outCount /\ inCount' = inCount
      /\ pruneList' = pruneList /\ gcList' = gcList /\ mem' = mem /\ state' = state
      /\ weight' = weight /\ notice' = notice
  BY DEF WorkPop, WorkExamine, WorkDrain, atoms, lists, channels
<1>2. /\ TypeOK /\ AtWork(t) /\ Holds(t) /\ ops \in Sharings
      /\ \A c \in pruneList[t] : cmem[c] # "unborn"
  BY DEF TopologyInv, HasEnds, TypeOK
<1>3. CASE \E a \in Atom : WorkPop(t, a)
  <2>1. PICK a \in Atom : WorkPop(t, a)
    BY <1>3
  <2>2. pc'[t] = "examine" /\ src'[t] = a /\ Leaves(t)
    BY <1>1, <1>2, <2>1, Went DEF WorkPop, Leaves
  <2>3. pc[t] = "idle" /\ "work" \in ops[t] /\ pruneList[t] = {} /\ gcList[t] = {}
    BY <2>1 DEF WorkPop, Calls, Free
  <2>4. TypeOK'
    BY <1>1, <1>2, <2>1 DEF TypeOK, WorkPop, Goto, Hold, Controls
  <2>5. mem[a] # "freed"
    <3>1. ASSUME NEW u \in Thread PROVE ops[u] \cap {"destroy", "gc"} = {}
      BY <2>3 DEF TopologyInv, Disciplined
    <3> QED BY <3>1 DEF TopologyInv, Safekeeping
  <2>6. AtWork(t)' /\ Holds(t)'
    BY <1>1, <1>2, <2>2, <2>3, <2>5 DEF AtWork, Holds, Moving
  <2> QED BY <1>1, <1>2, <2>2, <2>3, <2>4, <2>6, Unmoved DEF Moving
<1>4. CASE WorkExamine(t)
  <2>1. pc[t] = "examine" /\ "work" \in ops[t] /\ src[t] \in Atom /\ mem[src[t]] # "freed"
    BY <1>2, <1>4 DEF WorkExamine, At, Holds, AtWork
  <2>2. \/ pc'[t] = "idle" /\ Leaves(t)
        \/ pc'[t] = "drain" /\ src'[t] = src[t] /\ ch'[t] = inHead[src[t]] /\ Leaves(t)
    <3>1. CASE state[src[t]] = "ALIVE"
      BY <1>1, <1>2, <1>4, <3>1, Went DEF WorkExamine, Leaves
    <3>2. CASE state[src[t]] # "ALIVE"
      BY <1>1, <1>2, <1>4, <3>2, Returned DEF WorkExamine, Leaves
    <3> QED BY <3>1, <3>2
  <2>3. TypeOK'
    <3>1. queued' = queued /\ inHead[src[t]] \in Channel \cup {Nil}
      BY <1>2, <1>4, <2>1 DEF WorkExamine, atoms, TypeOK
    <3>2. "drain" \in Controls
      BY DEF Controls
    <3>3. /\ pc' \in [Thread -> Controls] /\ src' \in [Thread -> Atom \cup {Nil}]
          /\ dst' \in [Thread -> Atom \cup {Nil}] /\ ch' \in [Thread -> Channel \cup {Nil}]
      <4>1. CASE state[src[t]] = "ALIVE"
        BY <1>2, <1>4, <2>1, <3>1, <3>2, <4>1, WentTypes DEF WorkExamine
      <4>2. CASE state[src[t]] # "ALIVE"
        BY <1>2, <1>4, <4>2, ReturnedTypes DEF WorkExamine
      <4> QED BY <4>1, <4>2
    <3> QED BY <1>1, <1>2, <3>1, <3>3 DEF TypeOK
  <2>4. OnOut' = OnOut /\ OnIn' = OnIn
    BY <1>1, <2>1, <2>2, SameOnLists DEF Moving
  <2>5. inHead[src[t]] \in OnIn' \cup {Nil}
    BY <2>1, <2>4, ListsLead
  <2>6. AtWork(t)' /\ Holds(t)'
    BY <1>1, <1>2, <2>1, <2>2, <2>5 DEF AtWork, Holds, Moving
  <2> QED BY <1>1, <1>2, <2>1, <2>2, <2>3, <2>6, Unmoved DEF Moving
<1>5. CASE WorkDrain(t)
  <2>1. /\ pc[t] = "drain" /\ "work" \in ops[t] /\ src[t] \in Atom /\ mem[src[t]] # "freed"
        /\ ch[t] \in OnIn \cup {Nil}
    BY <1>2, <1>5 DEF WorkDrain, At, Holds, AtWork
  <2>2. \/ pc'[t] = "idle" /\ Leaves(t)
        \/ /\ ch[t] # Nil /\ pc'[t] = "drain" /\ src'[t] = src[t] /\ ch'[t] = inNext[ch[t]]
           /\ Leaves(t)
    <3>1. CASE ch[t] # Nil
      BY <1>1, <1>2, <1>5, <3>1, Went DEF WorkDrain, Leaves
    <3>2. CASE ch[t] = Nil
      BY <1>1, <1>2, <1>5, <3>2, Returned DEF WorkDrain, Leaves
    <3> QED BY <3>1, <3>2
  <2>3. TypeOK'
    <3>1. ch[t] # Nil => inNext[ch[t]] \in Channel \cup {Nil}
      BY <1>2, <2>1, ListsLead DEF TypeOK
    <3>2. queued' = queued
      BY <1>5 DEF WorkDrain, atoms
    <3>3. "drain" \in Controls
      BY DEF Controls
    <3>4. /\ pc' \in [Thread -> Controls] /\ src' \in [Thread -> Atom \cup {Nil}]
          /\ dst' \in [Thread -> Atom \cup {Nil}] /\ ch' \in [Thread -> Channel \cup {Nil}]
      <4>1. CASE ch[t] = Nil
        BY <1>2, <1>5, <4>1, ReturnedTypes DEF WorkDrain
      <4>2. CASE ch[t] # Nil
        BY <1>2, <1>5, <2>1, <3>1, <3>3, <4>2, WentTypes DEF WorkDrain
      <4> QED BY <4>1, <4>2
    <3> QED BY <1>1, <1>2, <3>2, <3>4 DEF TypeOK
  <2>4. OnOut' = OnOut /\ OnIn' = OnIn
    BY <1>1, <2>1, <2>2, SameOnLists DEF Moving
  <2>5. ch[t] # Nil => inNext[ch[t]] \in OnIn' \cup {Nil}
    BY <2>1, <2>4, ListsLead
  <2>6. AtWork(t)' /\ Holds(t)'
    BY <1>1, <1>2, <2>1, <2>2, <2>5 DEF AtWork, Holds, Moving
  <2> QED BY <1>1, <1>2, <2>1, <2>2, <2>3, <2>6, Unmoved DEF Moving
<1> QED BY <1>3, <1>4, <1>5

\* The collector.
LEMMA CollectStep ==
    ASSUME TopologyInv, NEW t \in Thread,
           GcMark(t) \/ GcNext(t) \/ GcWalk(t) \/ GcDestroy(t)
    PROVE  TopologyInv'
<1>1. /\ TypeOK /\ AtWork(t) /\ Holds(t) /\ ops \in Sharings
      /\ \A c \in pruneList[t] : cmem[c] # "unborn"
  BY DEF TopologyInv, HasEnds, TypeOK
<1>2. CASE GcMark(t)
  <2>1. /\ ops' = ops /\ cmem' = cmem /\ ends' = ends /\ outHead' = outHead /\ inHead' = inHead
        /\ outNext' = outNext /\ inNext' = inNext /\ outCount' = outCount /\ inCount' = inCount
        /\ pruneList' = pruneList /\ mem' = mem /\ pc' = pc /\ src' = src /\ dst' = dst
        /\ ch' = ch /\ weight' = weight /\ notice' = notice /\ queued' = queued
        /\ gcList' = [gcList EXCEPT ![t] = GcCandidates]
        /\ state' = [a \in Atom |-> IF a \in GcCandidates THEN "DYING" ELSE state[a]]
        /\ pc[t] = "idle" /\ "gc" \in ops[t]
    BY <1>2 DEF GcMark, Calls, Free, lists, channels
  <2>2. TypeOK'
    BY <1>1, <2>1 DEF TypeOK, GcCandidates
  <2>3. Leaves(t)
    BY <1>1, <2>1 DEF TypeOK, Leaves
  <2>4. AtWork(t)' /\ Holds(t)'
    BY <1>1, <2>1 DEF AtWork, Holds, Moving
  <2> QED BY <1>1, <2>1, <2>2, <2>3, <2>4, Unmoved DEF Moving
<1>3. CASE GcNext(t)
  <2>1. /\ ops' = ops /\ cmem' = cmem /\ ends' = ends /\ outHead' = outHead /\ inHead' = inHead
        /\ outNext' = outNext /\ inNext' = inNext /\ outCount' = outCount /\ inCount' = inCount
        /\ pruneList' = pruneList /\ mem' = mem /\ state' = state /\ queued' = queued
        /\ weight' = weight /\ notice' = notice /\ pc[t] = "idle"
    BY <1>3 DEF GcNext, atoms, lists, channels
  <2>2. PICK a \in gcList[t] :
           /\ gcList' = [gcList EXCEPT ![t] = @ \ {a}]
           /\ IF Pooled(a)
              THEN Goto(t, "gcWalk") /\ Hold(t, a, Nil, inHead[a])
              ELSE UNCHANGED <<pc, src, dst, ch>>
    BY <1>3 DEF GcNext
  <2>3. a \in Atom /\ "gc" \in ops[t]
    BY <1>1, <2>2 DEF TypeOK, AtWork
  <2>4. TypeOK'
    <3>1. gcList' \in [Thread -> SUBSET Atom] /\ inHead[a] \in Channel \cup {Nil}
      BY <1>1, <2>2, <2>3 DEF TypeOK
    <3>2. "gcWalk" \in Controls
      BY DEF Controls
    <3>3. /\ pc' \in [Thread -> Controls] /\ src' \in [Thread -> Atom \cup {Nil}]
          /\ dst' \in [Thread -> Atom \cup {Nil}] /\ ch' \in [Thread -> Channel \cup {Nil}]
      <4>1. CASE Pooled(a)
        BY <1>1, <2>2, <2>3, <3>1, <3>2, <4>1, WentTypes
      <4>2. CASE ~ Pooled(a)
        BY <1>1, <2>2, <4>2 DEF TypeOK
      <4> QED BY <4>1, <4>2
    <3> QED BY <1>1, <2>1, <3>1, <3>3 DEF TypeOK
  <2>5. \/ /\ Pooled(a) /\ pc'[t] = "gcWalk" /\ src'[t] = a /\ ch'[t] = inHead[a] /\ Leaves(t)
        \/ pc'[t] = "idle" /\ Leaves(t)
    <3>1. \A u \in Thread \ {t} : gcList'[u] = gcList[u]
      BY <1>1, <2>2 DEF TypeOK
    <3>2. CASE Pooled(a)
      BY <1>1, <2>1, <2>2, <3>1, <3>2, Went DEF Leaves
    <3>3. CASE ~ Pooled(a)
      BY <1>1, <2>1, <2>2, <3>1, <3>3 DEF Leaves
    <3> QED BY <3>2, <3>3
  <2>6. OnOut' = OnOut /\ OnIn' = OnIn
    BY <2>1, <2>5, SameOnLists DEF Moving
  <2>7. inHead[a] \in OnIn' \cup {Nil}
    BY <2>3, <2>6, ListsLead
  <2>8. AtWork(t)' /\ Holds(t)'
    BY <1>1, <2>1, <2>3, <2>5, <2>7 DEF AtWork, Holds, Moving, Pooled
  <2> QED BY <1>1, <2>1, <2>4, <2>5, <2>8, Unmoved DEF Moving
<1>4. CASE GcWalk(t)
  <2>1. /\ ops' = ops /\ cmem' = cmem /\ ends' = ends /\ outHead' = outHead /\ inHead' = inHead
        /\ outNext' = outNext /\ inNext' = inNext /\ outCount' = outCount /\ inCount' = inCount
        /\ pruneList' = pruneList /\ gcList' = gcList /\ mem' = mem /\ state' = state
        /\ queued' = queued /\ weight' = weight /\ pc' = pc
        /\ pc[t] = "gcWalk" /\ ch[t] # Nil /\ Hold(t, src[t], Nil, inNext[ch[t]])
    BY <1>4 DEF GcWalk, At, atoms, lists
  <2>2. /\ ch[t] \in OnIn /\ src[t] \in Atom /\ mem[src[t]] # "freed" /\ "gc" \in ops[t]
    BY <1>1, <2>1 DEF Holds, AtWork
  <2>3. ch[t] \in Channel /\ ends[ch[t]].src \in Atom /\ inNext[ch[t]] \in OnIn \cup {Nil}
    BY <2>2, ListsLead
  <2>4. notice' \in [Channel -> SUBSET Atom]
    BY <1>1, <1>4, <2>2, <2>3 DEF GcWalk, TypeOK
  <2>5. TypeOK'
    <3>1. inNext[ch[t]] \in Channel \cup {Nil}
      BY <1>1, <2>3 DEF TypeOK
    <3> QED BY <1>1, <2>1, <2>2, <2>4, <3>1 DEF TypeOK, Hold
  <2>6. src'[t] = src[t] /\ ch'[t] = inNext[ch[t]] /\ Leaves(t)
    BY <1>1, <2>1 DEF TypeOK, Hold, Leaves
  <2>7. OnOut' = OnOut /\ OnIn' = OnIn
    BY <2>1, <2>6, SameOnLists DEF Moving
  <2>8. AtWork(t)' /\ Holds(t)'
    BY <1>1, <2>1, <2>2, <2>3, <2>6, <2>7 DEF AtWork, Holds, Moving
  <2> QED BY <1>1, <2>1, <2>5, <2>6, <2>8, Unmoved DEF Moving
<1>5. CASE GcDestroy(t)
  <2>1. pc[t] = "gcWalk" /\ "gc" \in ops[t] /\ src[t] \in Atom
    BY <1>1, <1>5 DEF GcDestroy, At, AtWork, Holds
  <2>2. CASE Unhash(t, src[t])
    BY <1>5, <2>1, <2>2, UnhashStep DEF GcDestroy
  <2>3. CASE Return(t) /\ UNCHANGED mem
    <3>1. /\ ops' = ops /\ cmem' = cmem /\ ends' = ends /\ outHead' = outHead /\ inHead' = inHead
          /\ outNext' = outNext /\ inNext' = inNext /\ outCount' = outCount /\ inCount' = inCount
          /\ pruneList' = pruneList /\ gcList' = gcList /\ mem' = mem /\ state' = state
          /\ queued' = queued /\ weight' = weight /\ notice' = notice
      BY <1>5, <2>3 DEF GcDestroy, lists, channels
    <3>2. pc'[t] = "idle" /\ Leaves(t)
      BY <1>1, <2>3, <3>1, Returned DEF Leaves
    <3>3. TypeOK'
      BY <1>1, <2>3, <3>1 DEF TypeOK, Return, Goto, Hold, Controls
    <3>4. AtWork(t)' /\ Holds(t)'
      BY <1>1, <2>1, <3>1, <3>2 DEF AtWork, Holds, Moving
    <3> QED BY <1>1, <2>1, <3>1, <3>2, <3>3, <3>4, Unmoved DEF Moving
  <2> QED BY <1>5, <2>2, <2>3 DEF GcDestroy
<1> QED BY <1>2, <1>3, <1>4, <1>5

\* Weights and the start of a pruning.
LEMMA WeightStep ==
    ASSUME TopologyInv, NEW t \in Thread,
           \/ \E s, d \in Atom : HebbianCall(t, s, d)
           \/ HebbianLock(t) \/ Decay(t) \/ PruneMark(t) \/ PruneNext(t)
    PROVE  TopologyInv'
<1>1. /\ TypeOK /\ AtWork(t) /\ Holds(t) /\ ops \in Sharings
      /\ \A c \in pruneList[t] : cmem[c] # "unborn"
  BY DEF TopologyInv, HasEnds, TypeOK
<1>2. /\ ops' = ops /\ cmem' = cmem /\ ends' = ends /\ outHead' = outHead /\ inHead' = inHead
      /\ outNext' = outNext /\ inNext' = inNext /\ outCount' = outCount /\ inCount' = inCount
      /\ gcList' = gcList /\ mem' = mem /\ state' = state /\ queued' = queued
      /\ notice' = notice
  BY DEF HebbianCall, HebbianLock, Decay, PruneMark, PruneNext, atoms, lists, channels, locals
<1>3. CASE \E s, d \in Atom : HebbianCall(t, s, d)
  <2>1. PICK s \in Atom, d \in Atom : HebbianCall(t, s, d)
    BY <1>3
  <2>2. /\ pc'[t] = "hebbian" /\ src'[t] = s /\ Leaves(t) /\ mem[s] = "pooled"
        /\ pc[t] = "idle" /\ "hebbian" \in ops[t] /\ pruneList' = pruneList /\ weight' = weight
    BY <1>1, <1>2, <2>1, Went DEF HebbianCall, Leaves, Calls, Free, Pooled, channels
  <2>3. TypeOK'
    BY <1>1, <1>2, <2>1, <2>2 DEF TypeOK, HebbianCall, Goto, Hold, Controls
  <2>4. AtWork(t)' /\ Holds(t)'
    BY <1>1, <1>2, <2>2 DEF AtWork, Holds, Moving
  <2> QED BY <1>1, <1>2, <2>2, <2>3, <2>4, Unmoved DEF Moving
<1>4. CASE HebbianLock(t)
  <2>1. pc'[t] = "idle" /\ Leaves(t) /\ pc[t] = "hebbian" /\ pruneList' = pruneList
    BY <1>1, <1>2, <1>4, Returned DEF HebbianLock, At, Leaves
  <2>2. weight' \in [Channel -> {"weak", "strong"}]
    <3>1. CASE FirstTo(src[t], dst[t]) = Nil
      BY <1>1, <1>4, <3>1 DEF HebbianLock, TypeOK
    <3>2. CASE FirstTo(src[t], dst[t]) # Nil
      BY <1>1, <1>4, <3>2 DEF HebbianLock, TypeOK
    <3> QED BY <3>1, <3>2
  <2>3. TypeOK'
    <3>1. pc' \in [Thread -> Controls] /\ src' \in [Thread -> Atom \cup {Nil}]
          /\ dst' \in [Thread -> Atom \cup {Nil}] /\ ch' \in [Thread -> Channel \cup {Nil}]
      BY <1>1, <1>4 DEF TypeOK, HebbianLock, Return, Goto, Hold, Controls
    <3> QED BY <1>1, <1>2, <2>1, <2>2, <3>1 DEF TypeOK
  <2>4. AtWork(t)' /\ Holds(t)'
    BY <1>1, <1>2, <2>1 DEF AtWork, Holds, Moving
  <2> QED BY <1>1, <1>2, <2>1, <2>3, <2>4, Unmoved DEF Moving
<1>5. CASE Decay(t)
  <2>1. /\ pc' = pc /\ src' = src /\ dst' = dst /\ ch' = ch /\ pruneList' = pruneList
        /\ pc[t] = "idle" /\ weight' \in [Channel -> {"weak", "strong"}]
    BY <1>1, <1>5 DEF Decay, Calls, Free, locals, TypeOK
  <2>2. TypeOK' /\ Leaves(t)
    BY <1>1, <1>2, <2>1 DEF TypeOK, Leaves
  <2>3. AtWork(t)' /\ Holds(t)'
    BY <1>1, <1>2, <2>1 DEF AtWork, Holds, Moving
  <2> QED BY <1>1, <1>2, <2>1, <2>2, <2>3, Unmoved DEF Moving
<1>6. CASE PruneMark(t)
  <2>1. /\ pc' = pc /\ src' = src /\ dst' = dst /\ ch' = ch /\ weight' = weight
        /\ pc[t] = "idle" /\ "prune" \in ops[t]
        /\ pruneList' = [pruneList EXCEPT ![t] = {c \in Linked : weight[c] = "weak"}]
    BY <1>6 DEF PruneMark, Calls, Free, channels
  <2>2. \A c \in Linked : c \in Channel /\ cmem[c] = "live"
    <3> SUFFICES ASSUME NEW c \in Linked PROVE c \in Channel /\ cmem[c] = "live"
      OBVIOUS
    <3>1. PICK a \in Atom : c \in Outgoing(a)
      BY DEF Linked
    <3>2. c \in OutOf(a)
      BY <3>1, ListsAre
    <3> QED BY <3>2 DEF OutOf, OnOut
  <2>3. TypeOK' /\ Leaves(t) /\ \A c \in pruneList'[t] : cmem[c] # "unborn"
    BY <1>1, <1>2, <2>1, <2>2 DEF TypeOK, Leaves
  <2>4. AtWork(t)' /\ Holds(t)'
    BY <1>1, <1>2, <2>1 DEF AtWork, Holds, Moving
  <2> QED BY <1>1, <1>2, <2>1, <2>3, <2>4, Unmoved DEF Moving
<1>7. CASE PruneNext(t)
  <2>1. PICK c \in pruneList[t] :
           /\ pruneList' = [pruneList EXCEPT ![t] = @ \ {c}]
           /\ IF Pooled(ends[c].src)
              THEN Goto(t, "unlinkFind") /\ Hold(t, ends[c].src, ends[c].dst, Nil)
              ELSE UNCHANGED <<pc, src, dst, ch>>
    BY <1>7 DEF PruneNext
  <2>2. /\ pc[t] = "idle" /\ weight' = weight /\ "prune" \in ops[t]
        /\ c \in Channel /\ ends[c].src \in Atom /\ ends[c].dst \in Atom
    BY <1>1, <1>7, <2>1 DEF PruneNext, channels, AtWork, TopologyInv, HasEnds, TypeOK
  <2>3. \/ /\ Pooled(ends[c].src) /\ pc'[t] = "unlinkFind"
           /\ src'[t] = ends[c].src /\ dst'[t] = ends[c].dst /\ Leaves(t)
        \/ pc'[t] = "idle" /\ Leaves(t)
    <3>1. \A u \in Thread \ {t} : pruneList'[u] = pruneList[u]
      BY <1>1, <2>1 DEF TypeOK
    <3>2. CASE Pooled(ends[c].src)
      BY <1>1, <1>2, <2>1, <3>1, <3>2, Went DEF Leaves
    <3>3. CASE ~ Pooled(ends[c].src)
      BY <1>1, <1>2, <2>1, <2>2, <3>1, <3>3 DEF Leaves
    <3> QED BY <3>2, <3>3
  <2>4. TypeOK'
    <3>1. "unlinkFind" \in Controls
      BY DEF Controls
    <3>2. /\ pc' \in [Thread -> Controls] /\ src' \in [Thread -> Atom \cup {Nil}]
          /\ dst' \in [Thread -> Atom \cup {Nil}] /\ ch' \in [Thread -> Channel \cup {Nil}]
      <4>1. CASE Pooled(ends[c].src)
        BY <1>1, <2>1, <2>2, <3>1, <4>1, WentTypes
      <4>2. CASE ~ Pooled(ends[c].src)
        BY <1>1, <2>1, <4>2 DEF TypeOK
      <4> QED BY <4>1, <4>2
    <3>3. pruneList' \in [Thread -> SUBSET Channel]
      BY <1>1, <2>1 DEF TypeOK
    <3> QED BY <1>1, <1>2, <2>2, <3>2, <3>3 DEF TypeOK
  <2>5. \A e \in pruneList'[t] : cmem[e] # "unborn"
    BY <1>1, <2>1 DEF TypeOK
  <2>6. AtWork(t)' /\ Holds(t)'
    BY <1>1, <1>2, <2>2, <2>3 DEF AtWork, Holds, Moving, Pooled
  <2> QED BY <1>2, <2>2, <2>3, <2>4, <2>5, <2>6, Unmoved DEF Moving
<1> QED BY <1>3, <1>4, <1>5, <1>6, <1>7

\* A list with one channel more has one more in its count, which has room for it.
LEMMA OneMore ==
    ASSUME NEW S \in SUBSET Channel, NEW c \in Channel, c \notin S
    PROVE  /\ Cardinality(S \cup {c}) = Cardinality(S) + 1
           /\ Cardinality(S) + 1 \in 0 .. Cardinality(Channel)
<1>1. IsFiniteSet(S) /\ IsFiniteSet(S \cup {c}) /\ Cardinality(S \cup {c}) <= Cardinality(Channel)
  BY ChannelAssumption, FS_Subset
<1>2. Cardinality(S \cup {c}) = Cardinality(S) + 1
  BY <1>1, FS_AddElement
<1>3. Cardinality(S) \in Nat /\ Cardinality(Channel) \in Nat
  BY <1>1, ChannelAssumption, FS_CardinalityType
<1> QED BY <1>1, <1>2, <1>3

\* And with one channel less.
LEMMA OneLess ==
    ASSUME NEW S \in SUBSET Channel, NEW c \in S
    PROVE  /\ Cardinality(S \ {c}) = Cardinality(S) - 1
           /\ Cardinality(S) - 1 \in 0 .. Cardinality(Channel)
<1>1. IsFiniteSet(S) /\ Cardinality(S) <= Cardinality(Channel)
  BY ChannelAssumption, FS_Subset
<1>2. IsFiniteSet(S \ {c}) /\ Cardinality(S \ {c}) = Cardinality(S) - 1
  BY <1>1, FS_RemoveElement
<1>3. Cardinality(S \ {c}) \in Nat /\ Cardinality(S) \in Nat /\ Cardinality(Channel) \in Nat
  BY <1>1, <1>2, ChannelAssumption, FS_CardinalityType
<1> QED BY <1>1, <1>2, <1>3

\* cogdiod_link finds no second atom, or no memory for a channel.
LEMMA LinkNothingStep ==
    ASSUME TopologyInv, NEW t \in Thread, LinkFind(t), UNCHANGED <<cmem, ends>>, Return(t)
    PROVE  TopologyInv'
<1>1. /\ ops' = ops /\ cmem' = cmem /\ ends' = ends /\ outHead' = outHead /\ inHead' = inHead
      /\ outNext' = outNext /\ inNext' = inNext /\ outCount' = outCount /\ inCount' = inCount
      /\ pruneList' = pruneList /\ gcList' = gcList /\ mem' = mem
      /\ state' = state /\ queued' = queued /\ weight' = weight /\ notice' = notice
      /\ pc[t] = "linkFind"
  BY DEF LinkFind, At, atoms, lists
<1>2. TypeOK /\ AtWork(t) /\ Holds(t) /\ \A c \in pruneList[t] : cmem[c] # "unborn"
  BY DEF TopologyInv, HasEnds
<1>3. pc'[t] = "idle" /\ Leaves(t)
  BY <1>1, <1>2, Returned DEF Leaves
<1>4. TypeOK'
  BY <1>1, <1>2, ReturnedTypes DEF TypeOK
<1>5. AtWork(t)' /\ Holds(t)'
  BY <1>1, <1>2, <1>3 DEF AtWork, Holds, Moving
<1> QED BY <1>1, <1>2, <1>3, <1>4, <1>5, Unmoved DEF Moving

\* A new channel is on no list until the two sections put it there.
LEMMA NewChannelStep ==
    ASSUME TopologyInv, NEW t \in Thread, NEW s, NEW d, NEW c \in Channel, LinkFind(t),
           s = src[t], d = dst[t], Pooled(d), cmem[c] = "unborn",
           cmem' = [cmem EXCEPT ![c] = "live"],
           ends' = [ends EXCEPT ![c] = [src |-> s, dst |-> d]],
           Goto(t, "linkOut") /\ Hold(t, s, d, c)
    PROVE  TopologyInv'
<1>1. /\ ops' = ops /\ mem' = mem /\ state' = state /\ queued' = queued
      /\ outHead' = outHead /\ inHead' = inHead /\ outNext' = outNext /\ inNext' = inNext
      /\ outCount' = outCount /\ inCount' = inCount /\ weight' = weight /\ notice' = notice
      /\ pruneList' = pruneList /\ gcList' = gcList
      /\ cmem' = [cmem EXCEPT ![c] = "live"]
      /\ ends' = [ends EXCEPT ![c] = [src |-> s, dst |-> d]]
      /\ cmem[c] = "unborn" /\ mem[s] # "freed" /\ mem[d] = "pooled"
      /\ s \in Atom /\ d \in Atom /\ pc[t] = "linkFind" /\ "link" \in ops[t]
      /\ Goto(t, "linkOut") /\ Hold(t, s, d, c)
  BY DEF LinkFind, At, Pooled, atoms, lists, TopologyInv, Holds, AtWork
<1>2. TypeOK /\ AtWork(t) /\ HasEnds /\ Apart /\ \A u \in Thread : Holds(u)
  BY DEF TopologyInv
<1>3. /\ pc'[t] = "linkOut" /\ src'[t] = s /\ dst'[t] = d /\ ch'[t] = c /\ Leaves(t)
  BY <1>1, <1>2, Went DEF Leaves
<1>4. /\ cmem'[c] = "live" /\ ends'[c] = [src |-> s, dst |-> d]
      /\ \A x \in Channel \ {c} : cmem'[x] = cmem[x] /\ ends'[x] = ends[x]
  BY <1>1, <1>2 DEF TypeOK
<1>5. TypeOK'
  <2>1. "linkOut" \in Controls
    BY DEF Controls
  <2>2. /\ pc' \in [Thread -> Controls] /\ src' \in [Thread -> Atom \cup {Nil}]
        /\ dst' \in [Thread -> Atom \cup {Nil}] /\ ch' \in [Thread -> Channel \cup {Nil}]
    BY <1>1, <1>2, <2>1, WentTypes
  <2>3. cmem' \in [Channel -> {"unborn", "live", "freed"}]
        /\ ends' \in [Channel -> [src : Atom \cup {Nil}, dst : Atom \cup {Nil}]]
    BY <1>1, <1>2 DEF TypeOK
  <2> QED BY <1>1, <1>2, <2>2, <2>3 DEF TypeOK
<1>6. \A u \in Thread \ {t} : pc[u] \in Moving => ch[u] \in Channel \ {c}
  BY <1>1, <1>2 DEF Holds
<1>7. OnOut' = OnOut /\ OnIn' = OnIn
  <2>1. ASSUME NEW x \in Channel \ {c}
        PROVE  (OffOut(x)' <=> OffOut(x)) /\ (OffIn(x)' <=> OffIn(x))
    BY <1>1, <1>3 DEF OffOut, OffIn, Leaves
  <2>2. OffOut(c)' /\ OffIn(c)'
    BY <1>3 DEF OffOut, OffIn
  <2> QED BY <1>1, <1>4, <2>1, <2>2 DEF OnOut, OnIn
<1>8. ASSUME NEW u \in Thread \ {t} PROVE Holds(u)'
  <2>1. pc[u] \in Moving => cmem'[ch[u]] = cmem[ch[u]] /\ ends'[ch[u]] = ends[ch[u]]
    BY <1>4, <1>6
  <2> QED BY <1>1, <1>2, <1>3, <1>7, <2>1, StillHolds
<1>9. AtWork(t)' /\ Holds(t)'
  BY <1>1, <1>2, <1>3, <1>4 DEF AtWork, Holds, Moving
<1>10. Apart'
  BY <1>2, <1>3, <1>6 DEF Apart, Leaves
<1>11. HasEnds'
  BY <1>1, <1>2, <1>4 DEF HasEnds
<1>12. ListsHold'
  <2> SUFFICES ASSUME NEW a \in Atom PROVE OutHolds(a)' /\ InHolds(a)'
    BY DEF ListsHold
  <2>1. c \notin OnOut /\ c \notin OnIn
    BY <1>1 DEF OnOut, OnIn
  <2>2. OutOf(a)' = OutOf(a) /\ Into(a)' = Into(a)
    <3>1. \A x \in OnOut \cup OnIn : ends'[x] = ends[x]
      BY <1>4, <2>1 DEF OnOut, OnIn
    <3> QED BY <1>7, <3>1 DEF OutOf, Into
  <2>3. OutHolds(a) /\ InHolds(a)
    BY DEF TopologyInv, ListsHold
  <2> QED BY <1>1, <2>2, <2>3 DEF OutHolds, InHolds
<1> QED BY <1>1, <1>3, <1>5, <1>8, <1>9, <1>10, <1>11, <1>12, Stepped

\* Whether cogdiod_link finds the second atom or not.
LEMMA LinkFindStep ==
    ASSUME TopologyInv, NEW t \in Thread, LinkFind(t) PROVE TopologyInv'
<1>1. \/ /\ Pooled(dst[t])
         /\ \E c \in Channel :
               /\ cmem[c] = "unborn"
               /\ cmem' = [cmem EXCEPT ![c] = "live"]
               /\ ends' = [ends EXCEPT ![c] = [src |-> src[t], dst |-> dst[t]]]
               /\ Goto(t, "linkOut") /\ Hold(t, src[t], dst[t], c)
      \/ Return(t) /\ UNCHANGED <<cmem, ends>>
  BY DEF LinkFind
<1> QED BY <1>1, NewChannelStep, LinkNothingStep

\* The section under src->lock.
LEMMA LinkOutStep ==
    ASSUME TopologyInv, NEW t \in Thread, NEW c, NEW s, c = ch[t], s = src[t], LinkOut(t)
    PROVE  TopologyInv'
<1>1. /\ ops' = ops /\ mem' = mem /\ state' = state /\ queued' = queued
      /\ inHead' = inHead /\ inNext' = inNext /\ inCount' = inCount
      /\ cmem' = cmem /\ ends' = ends /\ weight' = weight /\ notice' = notice
      /\ src' = src /\ dst' = dst /\ ch' = ch /\ pruneList' = pruneList /\ gcList' = gcList
      /\ outNext' = [outNext EXCEPT ![c] = outHead[s]]
      /\ outHead' = [outHead EXCEPT ![s] = c]
      /\ outCount' = [outCount EXCEPT ![s] = @ + 1]
      /\ pc' = [pc EXCEPT ![t] = "linkIn"] /\ pc[t] = "linkOut"
  BY DEF LinkOut, At, Goto, atoms, channels
<1>2. /\ TypeOK /\ AtWork(t) /\ HasEnds /\ Apart /\ ListsHold /\ \A u \in Thread : Holds(u)
  BY DEF TopologyInv
<1>3. /\ s \in Atom /\ c \in Channel /\ cmem[c] = "live" /\ ends[c].src = s
      /\ dst[t] \in Atom /\ mem[dst[t]] # "freed" /\ ends[c].dst = dst[t]
  BY <1>1, <1>2 DEF Holds, Moving
<1>4. pc'[t] = "linkIn" /\ Leaves(t)
  BY <1>1, <1>2 DEF TypeOK, Leaves
<1>5. \A u \in Thread \ {t} : pc[u] \in Moving => ch[u] # c
  BY <1>1, <1>2 DEF Apart, Moving
<1>6. OffOut(c) /\ ~ OffOut(c)'
  <2>1. OffOut(c)
    BY <1>1 DEF OffOut
  <2>2. \A u \in Thread : ch'[u] = c => pc'[u] \notin {"linkOut", "unlinkIn", "unlinkFree"}
    BY <1>1, <1>4, <1>5 DEF Leaves, Moving
  <2> QED BY <2>1, <2>2 DEF OffOut
<1>7. OnOut' = OnOut \cup {c} /\ OnIn' = OnIn /\ c \notin OnOut
  <2>1. ASSUME NEW x \in Channel \ {c} PROVE OffOut(x)' <=> OffOut(x)
    BY <1>1, <1>4 DEF OffOut, Leaves
  <2>2. ASSUME NEW x \in Channel PROVE OffIn(x)' <=> OffIn(x)
    BY <1>1, <1>4 DEF OffIn, Leaves
  <2> QED BY <1>1, <1>3, <1>6, <2>1, <2>2 DEF OnOut, OnIn
<1>8. /\ OutOf(s)' = OutOf(s) \cup {c} /\ c \notin OutOf(s)
      /\ \A a \in Atom \ {s} : OutOf(a)' = OutOf(a) /\ c \notin OutOf(a)
      /\ \A a \in Atom : Into(a)' = Into(a)
  BY <1>1, <1>3, <1>7 DEF OutOf, Into
<1>9. OutOf(s) \in SUBSET Channel /\ outCount[s] = Cardinality(OutOf(s))
  BY <1>2, <1>3 DEF ListsHold, OutHolds, OutOf, OnOut
<1>10. /\ Cardinality(OutOf(s) \cup {c}) = Cardinality(OutOf(s)) + 1
       /\ Cardinality(OutOf(s)) + 1 \in 0 .. Cardinality(Channel)
  BY <1>3, <1>8, <1>9, OneMore
<1>11. /\ outHead'[s] = c /\ outCount'[s] = Cardinality(OutOf(s)) + 1
       /\ \A a \in Atom \ {s} : outHead'[a] = outHead[a] /\ outCount'[a] = outCount[a]
       /\ \A x \in Channel \ {c} : outNext'[x] = outNext[x]
  BY <1>1, <1>2, <1>3, <1>9 DEF TypeOK
<1>12. TypeOK'
  <2>1. outHead' \in [Atom -> Channel \cup {Nil}] /\ outNext' \in [Channel -> Channel \cup {Nil}]
    BY <1>1, <1>2, <1>3 DEF TypeOK
  <2>2. outCount' \in [Atom -> 0 .. Cardinality(Channel)]
    <3>1. \A a \in Atom : outCount'[a] \in 0 .. Cardinality(Channel)
      BY <1>2, <1>10, <1>11 DEF TypeOK
    <3> QED BY <1>1, <1>2, <3>1 DEF TypeOK
  <2>3. pc' \in [Thread -> Controls]
    BY <1>1, <1>2 DEF TypeOK, Controls
  <2> QED BY <1>1, <1>2, <2>1, <2>2, <2>3 DEF TypeOK
<1>13. ASSUME NEW u \in Thread \ {t} PROVE Holds(u)'
  BY <1>1, <1>2, <1>4, <1>7, StillHolds
<1>14. AtWork(t)' /\ Holds(t)'
  BY <1>1, <1>2, <1>3, <1>4 DEF AtWork, Holds, Moving
<1>15. Apart'
  BY <1>1, <1>2, <1>4, <1>5 DEF Apart, Leaves
<1>16. HasEnds'
  BY <1>1, <1>2 DEF HasEnds
<1>17. ListsHold'
  <2> SUFFICES ASSUME NEW a \in Atom PROVE OutHolds(a)' /\ InHolds(a)'
    BY DEF ListsHold
  <2>1. OutHolds(a) /\ InHolds(a) /\ OutHolds(s)
    BY <1>2, <1>3 DEF ListsHold
  <2>2. InHolds(a)'
    BY <1>1, <1>8, <2>1 DEF InHolds
  <2>3. CASE a = s
    <3>1. IsList(c, [outNext EXCEPT ![c] = outHead[s]], OutOf(s) \cup {c})
      BY <1>2, <1>3, <1>8, <1>9, <2>1, PutFirst DEF OutHolds, TypeOK
    <3>2. OutHolds(s)'
      BY <1>1, <1>8, <1>10, <1>11, <3>1 DEF OutHolds
    <3> QED BY <2>2, <2>3, <3>2
  <2>4. CASE a # s
    <3>1. \A x \in OutOf(a) : outNext'[x] = outNext[x]
      BY <1>8, <1>11, <2>4 DEF OutOf, OnOut
    <3>2. IsList(outHead[a], outNext', OutOf(a))
      BY <2>1, <3>1, SameList DEF OutHolds
    <3> QED BY <1>8, <1>11, <2>1, <2>2, <2>4, <3>2 DEF OutHolds
  <2> QED BY <2>3, <2>4
<1> QED BY <1>1, <1>4, <1>12, <1>13, <1>14, <1>15, <1>16, <1>17, Stepped

\* The section under dst->lock.
LEMMA LinkInStep ==
    ASSUME TopologyInv, NEW t \in Thread, NEW c, NEW d, c = ch[t], d = dst[t], LinkIn(t)
    PROVE  TopologyInv'
<1>1. /\ ops' = ops /\ mem' = mem /\ state' = state /\ queued' = queued
      /\ outHead' = outHead /\ outNext' = outNext /\ outCount' = outCount
      /\ cmem' = cmem /\ ends' = ends /\ weight' = weight /\ notice' = notice
      /\ pruneList' = pruneList /\ gcList' = gcList
      /\ inNext' = [inNext EXCEPT ![c] = inHead[d]]
      /\ inHead' = [inHead EXCEPT ![d] = c]
      /\ inCount' = [inCount EXCEPT ![d] = @ + 1]
      /\ Return(t) /\ pc[t] = "linkIn"
  BY DEF LinkIn, At, atoms, channels
<1>2. /\ TypeOK /\ AtWork(t) /\ HasEnds /\ Apart /\ ListsHold /\ \A u \in Thread : Holds(u)
  BY DEF TopologyInv
<1>3. d \in Atom /\ c \in Channel /\ cmem[c] = "live" /\ ends[c].dst = d
  BY <1>1, <1>2 DEF Holds, Moving
<1>4. pc'[t] = "idle" /\ Leaves(t)
  BY <1>1, <1>2, Returned DEF Leaves
<1>5. \A u \in Thread \ {t} : pc[u] \in Moving => ch[u] # c
  BY <1>1, <1>2 DEF Apart, Moving
<1>6. OffIn(c) /\ ~ OffIn(c)'
  <2>1. OffIn(c)
    BY <1>1 DEF OffIn
  <2>2. \A u \in Thread : ch'[u] = c => pc'[u] \notin {"linkOut", "linkIn", "unlinkFree"}
    BY <1>4, <1>5 DEF Leaves, Moving
  <2> QED BY <2>1, <2>2 DEF OffIn
<1>7. OnIn' = OnIn \cup {c} /\ OnOut' = OnOut /\ c \notin OnIn
  <2>1. ASSUME NEW x \in Channel \ {c} PROVE OffIn(x)' <=> OffIn(x)
    BY <1>1, <1>4 DEF OffIn, Leaves
  <2>2. ASSUME NEW x \in Channel PROVE OffOut(x)' <=> OffOut(x)
    BY <1>1, <1>4 DEF OffOut, Leaves
  <2> QED BY <1>1, <1>3, <1>6, <2>1, <2>2 DEF OnOut, OnIn
<1>8. /\ Into(d)' = Into(d) \cup {c} /\ c \notin Into(d)
      /\ \A a \in Atom \ {d} : Into(a)' = Into(a) /\ c \notin Into(a)
      /\ \A a \in Atom : OutOf(a)' = OutOf(a)
  BY <1>1, <1>3, <1>7 DEF OutOf, Into
<1>9. Into(d) \in SUBSET Channel /\ inCount[d] = Cardinality(Into(d))
  BY <1>2, <1>3 DEF ListsHold, InHolds, Into, OnIn
<1>10. /\ Cardinality(Into(d) \cup {c}) = Cardinality(Into(d)) + 1
       /\ Cardinality(Into(d)) + 1 \in 0 .. Cardinality(Channel)
  BY <1>3, <1>8, <1>9, OneMore
<1>11. /\ inHead'[d] = c /\ inCount'[d] = Cardinality(Into(d)) + 1
       /\ \A a \in Atom \ {d} : inHead'[a] = inHead[a] /\ inCount'[a] = inCount[a]
       /\ \A x \in Channel \ {c} : inNext'[x] = inNext[x]
  BY <1>1, <1>2, <1>3, <1>9 DEF TypeOK
<1>12. TypeOK'
  <2>1. inHead' \in [Atom -> Channel \cup {Nil}] /\ inNext' \in [Channel -> Channel \cup {Nil}]
    BY <1>1, <1>2, <1>3 DEF TypeOK
  <2>2. inCount' \in [Atom -> 0 .. Cardinality(Channel)]
    <3>1. \A a \in Atom : inCount'[a] \in 0 .. Cardinality(Channel)
      BY <1>2, <1>10, <1>11 DEF TypeOK
    <3> QED BY <1>1, <1>2, <3>1 DEF TypeOK
  <2>3. /\ pc' \in [Thread -> Controls] /\ src' \in [Thread -> Atom \cup {Nil}]
        /\ dst' \in [Thread -> Atom \cup {Nil}] /\ ch' \in [Thread -> Channel \cup {Nil}]
    BY <1>1, <1>2, ReturnedTypes
  <2> QED BY <1>1, <1>2, <2>1, <2>2, <2>3 DEF TypeOK
<1>13. ASSUME NEW u \in Thread \ {t} PROVE Holds(u)'
  BY <1>1, <1>2, <1>4, <1>7, StillHolds
<1>14. AtWork(t)' /\ Holds(t)'
  BY <1>1, <1>2, <1>4 DEF AtWork, Holds, Moving
<1>15. Apart'
  BY <1>1, <1>2, <1>4 DEF Apart, Leaves, Moving
<1>16. HasEnds'
  BY <1>1, <1>2 DEF HasEnds
<1>17. ListsHold'
  <2> SUFFICES ASSUME NEW a \in Atom PROVE OutHolds(a)' /\ InHolds(a)'
    BY DEF ListsHold
  <2>1. OutHolds(a) /\ InHolds(a) /\ InHolds(d)
    BY <1>2, <1>3 DEF ListsHold
  <2>2. OutHolds(a)'
    BY <1>1, <1>8, <2>1 DEF OutHolds
  <2>3. CASE a = d
    <3>1. IsList(c, [inNext EXCEPT ![c] = inHead[d]], Into(d) \cup {c})
      BY <1>2, <1>3, <1>8, <1>9, <2>1, PutFirst DEF InHolds, TypeOK
    <3>2. InHolds(a)'
      BY <1>1, <1>8, <1>10, <1>11, <2>3, <3>1 DEF InHolds
    <3> QED BY <2>2, <3>2
  <2>4. CASE a # d
    <3>1. \A x \in Into(a) : inNext'[x] = inNext[x]
      BY <1>8, <1>11, <2>4 DEF Into, OnIn
    <3>2. IsList(inHead[a], inNext', Into(a))
      BY <2>1, <3>1, SameList DEF InHolds
    <3> QED BY <1>8, <1>11, <2>1, <2>2, <2>4, <3>2 DEF InHolds
  <2> QED BY <2>3, <2>4
<1> QED BY <1>1, <1>4, <1>12, <1>13, <1>14, <1>15, <1>16, <1>17, Stepped

\* cogdiod_unlink: the channel comes off one list, then off the other, then it is
\* freed; nobody else moves one or follows a list without a lock.
LEMMA UnlinkOutStep ==
    ASSUME TopologyInv, NEW t \in Thread, NEW s, NEW c, s = src[t], c = FirstTo(s, dst[t]),
           UnlinkOut(t)
    PROVE  TopologyInv'
<1>1. /\ ops' = ops /\ mem' = mem /\ state' = state /\ queued' = queued
      /\ inHead' = inHead /\ inNext' = inNext /\ inCount' = inCount
      /\ cmem' = cmem /\ ends' = ends /\ weight' = weight /\ notice' = notice
      /\ pruneList' = pruneList /\ gcList' = gcList /\ pc[t] = "unlinkOut"
      /\ IF c = Nil
         THEN Return(t) /\ UNCHANGED <<outHead, outNext, outCount>>
         ELSE /\ outHead' = [outHead EXCEPT ![s] = SkipHead(@, c, outNext)]
              /\ outNext' = SkipNext(Outgoing(s), c, outNext)
              /\ outCount' = [outCount EXCEPT ![s] = @ - 1]
              /\ Goto(t, "unlinkIn") /\ Hold(t, s, dst[t], c)
  BY DEF UnlinkOut, At, atoms, channels
<1>2. /\ TypeOK /\ AtWork(t) /\ HasEnds /\ Apart /\ ListsHold /\ \A u \in Thread : Holds(u)
  BY DEF TopologyInv
<1>3. /\ s \in Atom /\ mem[s] # "freed" /\ dst[t] \in Atom /\ mem[dst[t]] # "freed"
  BY <1>1, <1>2 DEF Holds
<1>4. CASE c = Nil
  <2>1. pc'[t] = "idle" /\ Leaves(t)
    BY <1>1, <1>2, <1>4, Returned DEF Leaves
  <2>2. TypeOK'
    <3>1. /\ pc' \in [Thread -> Controls] /\ src' \in [Thread -> Atom \cup {Nil}]
          /\ dst' \in [Thread -> Atom \cup {Nil}] /\ ch' \in [Thread -> Channel \cup {Nil}]
      BY <1>1, <1>2, <1>4, ReturnedTypes
    <3> QED BY <1>1, <1>2, <1>4, <3>1 DEF TypeOK
  <2>3. AtWork(t)' /\ Holds(t)' /\ \A x \in pruneList'[t] : cmem[x] # "unborn"
    BY <1>1, <1>2, <2>1 DEF AtWork, Holds, Moving, HasEnds
  <2> QED BY <1>1, <1>4, <2>1, <2>2, <2>3, Unmoved DEF Moving
<1>5. CASE c # Nil
  <2>1. Outgoing(s) = OutOf(s) /\ OutOf(s) \in SUBSET Channel
    BY <1>3, ListsAre
  <2>2. /\ IsList(outHead[s], outNext, OutOf(s)) /\ outCount[s] = Cardinality(OutOf(s))
        /\ outNext \in [Channel -> Channel \cup {Nil}]
    BY <1>2, <1>3 DEF ListsHold, OutHolds, TypeOK
  <2>3. c \in OutOf(s) /\ ends[c].dst = dst[t]
    BY <1>5, <2>1, <2>2, FirstToIs
  <2>4. c \in Channel /\ cmem[c] = "live" /\ ends[c].src = s
    BY <2>3 DEF OutOf, OnOut
  <2>5. /\ pc'[t] = "unlinkIn" /\ src'[t] = s /\ dst'[t] = dst[t] /\ ch'[t] = c /\ Leaves(t)
    BY <1>1, <1>2, <1>5, Went DEF Leaves
  <2>6. \A u \in Thread \ {t} : pc[u] \in {"idle", "hebbian", "attend"}
    BY <1>1, MovesAlone
  <2>7. OnOut' = OnOut \ {c} /\ OnIn' = OnIn
    <3>1. ASSUME NEW x \in Channel \ {c} PROVE OffOut(x)' <=> OffOut(x)
      BY <1>1, <2>5 DEF OffOut, Leaves
    <3>2. ASSUME NEW x \in Channel PROVE OffIn(x)' <=> OffIn(x)
      BY <1>1, <2>5 DEF OffIn, Leaves
    <3>3. OffOut(c)'
      BY <2>5 DEF OffOut
    <3> QED BY <1>1, <3>1, <3>2, <3>3 DEF OnOut, OnIn
  <2>8. /\ OutOf(s)' = OutOf(s) \ {c}
        /\ \A a \in Atom \ {s} : OutOf(a)' = OutOf(a)
        /\ \A a \in Atom : Into(a)' = Into(a)
    BY <1>1, <2>4, <2>7 DEF OutOf, Into
  <2>9. /\ Cardinality(OutOf(s) \ {c}) = Cardinality(OutOf(s)) - 1
        /\ Cardinality(OutOf(s)) - 1 \in 0 .. Cardinality(Channel)
    BY <2>1, <2>3, OneLess
  <2>10. /\ outHead' = [outHead EXCEPT ![s] = SkipHead(@, c, outNext)]
         /\ outNext' = SkipNext(OutOf(s), c, outNext)
         /\ outCount' = [outCount EXCEPT ![s] = @ - 1]
         /\ Goto(t, "unlinkIn") /\ Hold(t, s, dst[t], c)
    BY <1>1, <1>5, <2>1
  <2>11. /\ outHead'[s] = SkipHead(outHead[s], c, outNext)
         /\ outCount'[s] = Cardinality(OutOf(s)) - 1
         /\ \A a \in Atom \ {s} : outHead'[a] = outHead[a] /\ outCount'[a] = outCount[a]
    BY <1>2, <1>3, <2>2, <2>10 DEF TypeOK
  <2>12. TypeOK'
    <3>1. SkipHead(outHead[s], c, outNext) \in Channel \cup {Nil}
      BY <1>2, <1>3, <2>2, <2>4 DEF SkipHead, TypeOK
    <3>2. outHead' \in [Atom -> Channel \cup {Nil}]
      BY <1>2, <1>3, <2>10, <3>1 DEF TypeOK
    <3>3. outNext' \in [Channel -> Channel \cup {Nil}]
      BY <2>2, <2>4, <2>10 DEF SkipNext
    <3>4. outCount' \in [Atom -> 0 .. Cardinality(Channel)]
      <4>1. \A a \in Atom : outCount'[a] \in 0 .. Cardinality(Channel)
        BY <1>2, <2>9, <2>11 DEF TypeOK
      <4> QED BY <1>2, <2>10, <4>1 DEF TypeOK
    <3>5. "unlinkIn" \in Controls
      BY DEF Controls
    <3>6. /\ pc' \in [Thread -> Controls] /\ src' \in [Thread -> Atom \cup {Nil}]
          /\ dst' \in [Thread -> Atom \cup {Nil}] /\ ch' \in [Thread -> Channel \cup {Nil}]
      BY <1>2, <1>3, <2>4, <2>10, <3>5, WentTypes
    <3> QED BY <1>1, <1>2, <3>2, <3>3, <3>4, <3>6 DEF TypeOK
  <2>13. ASSUME NEW u \in Thread \ {t} PROVE Holds(u)'
    BY <1>1, <1>2, <2>5, <2>6, StillHolds DEF Moving
  <2>14. AtWork(t)' /\ Holds(t)'
    BY <1>1, <1>2, <1>3, <2>3, <2>4, <2>5 DEF AtWork, Holds, Moving
  <2>15. Apart'
    BY <2>5, <2>6 DEF Apart, Leaves, Moving
  <2>16. HasEnds'
    BY <1>1, <1>2 DEF HasEnds
  <2>17. ListsHold'
    <3> SUFFICES ASSUME NEW a \in Atom PROVE OutHolds(a)' /\ InHolds(a)'
      BY DEF ListsHold
    <3>1. OutHolds(a) /\ InHolds(a)
      BY <1>2 DEF ListsHold
    <3>2. InHolds(a)'
      BY <1>1, <2>8, <3>1 DEF InHolds
    <3>3. CASE a = s
      <4>1. IsList(SkipHead(outHead[s], c, outNext), SkipNext(OutOf(s), c, outNext),
                   OutOf(s) \ {c})
        BY <2>1, <2>2, <2>3, TakeOut
      <4>2. OutHolds(s)'
        BY <2>8, <2>9, <2>10, <2>11, <4>1 DEF OutHolds
      <4> QED BY <3>2, <3>3, <4>2
    <3>4. CASE a # s
      <4>1. \A x \in OutOf(a) : x \in Channel /\ x \notin OutOf(s)
        BY <3>4 DEF OutOf, OnOut
      <4>2. \A x \in OutOf(a) : outNext'[x] = outNext[x]
        BY <2>10, <4>1 DEF SkipNext
      <4>3. IsList(outHead[a], outNext', OutOf(a))
        BY <3>1, <4>2, SameList DEF OutHolds
      <4> QED BY <2>8, <2>11, <3>1, <3>2, <3>4, <4>3 DEF OutHolds
    <3> QED BY <3>3, <3>4
  <2> QED BY <1>1, <2>5, <2>12, <2>13, <2>14, <2>15, <2>16, <2>17, Stepped
<1> QED BY <1>4, <1>5

\* The section under dst->lock finds it there.
LEMMA UnlinkInStep ==
    ASSUME TopologyInv, NEW t \in Thread, NEW d, NEW c, d = dst[t], c = ch[t], UnlinkIn(t)
    PROVE  TopologyInv'
<1>1. /\ ops' = ops /\ mem' = mem /\ state' = state /\ queued' = queued
      /\ outHead' = outHead /\ outNext' = outNext /\ outCount' = outCount
      /\ cmem' = cmem /\ ends' = ends /\ weight' = weight /\ notice' = notice
      /\ src' = src /\ dst' = dst /\ ch' = ch /\ pruneList' = pruneList /\ gcList' = gcList
      /\ pc' = [pc EXCEPT ![t] = "unlinkFree"] /\ pc[t] = "unlinkIn"
      /\ c \in Incoming(d) =>
            /\ inHead' = [inHead EXCEPT ![d] = SkipHead(@, c, inNext)]
            /\ inNext' = SkipNext(Incoming(d), c, inNext)
            /\ inCount' = [inCount EXCEPT ![d] = @ - 1]
  BY DEF UnlinkIn, At, Goto, atoms, channels
<1>2. /\ TypeOK /\ AtWork(t) /\ HasEnds /\ Apart /\ ListsHold /\ \A u \in Thread : Holds(u)
  BY DEF TopologyInv
<1>3. /\ d \in Atom /\ c \in Channel /\ cmem[c] = "live" /\ ends[c].dst = d
  BY <1>1, <1>2 DEF Holds, Moving
<1>4. pc'[t] = "unlinkFree" /\ Leaves(t)
  BY <1>1, <1>2 DEF TypeOK, Leaves
<1>5. \A u \in Thread \ {t} : pc[u] \in {"idle", "hebbian", "attend"}
  BY <1>1, MovesAlone
<1>6. Incoming(d) = Into(d) /\ Into(d) \in SUBSET Channel
  BY <1>3, ListsAre
<1>7. c \in Into(d)
  <2>1. ~ OffIn(c)
    BY <1>1, <1>5 DEF OffIn
  <2> QED BY <1>3, <2>1 DEF Into, OnIn
<1>8. /\ inHead' = [inHead EXCEPT ![d] = SkipHead(@, c, inNext)]
      /\ inNext' = SkipNext(Into(d), c, inNext)
      /\ inCount' = [inCount EXCEPT ![d] = @ - 1]
  BY <1>1, <1>6, <1>7
<1>9. /\ IsList(inHead[d], inNext, Into(d)) /\ inCount[d] = Cardinality(Into(d))
      /\ inNext \in [Channel -> Channel \cup {Nil}]
  BY <1>2, <1>3 DEF ListsHold, InHolds, TypeOK
<1>10. OnIn' = OnIn \ {c} /\ OnOut' = OnOut
  <2>1. ASSUME NEW x \in Channel \ {c} PROVE OffIn(x)' <=> OffIn(x)
    BY <1>1, <1>4 DEF OffIn, Leaves
  <2>2. ASSUME NEW x \in Channel PROVE OffOut(x)' <=> OffOut(x)
    BY <1>1, <1>4 DEF OffOut, Leaves
  <2>3. OffIn(c)'
    BY <1>1, <1>4 DEF OffIn
  <2> QED BY <1>1, <2>1, <2>2, <2>3 DEF OnOut, OnIn
<1>11. /\ Into(d)' = Into(d) \ {c}
       /\ \A a \in Atom \ {d} : Into(a)' = Into(a)
       /\ \A a \in Atom : OutOf(a)' = OutOf(a)
  BY <1>1, <1>3, <1>10 DEF OutOf, Into
<1>12. /\ Cardinality(Into(d) \ {c}) = Cardinality(Into(d)) - 1
       /\ Cardinality(Into(d)) - 1 \in 0 .. Cardinality(Channel)
  BY <1>6, <1>7, OneLess
<1>13. /\ inHead'[d] = SkipHead(inHead[d], c, inNext)
       /\ inCount'[d] = Cardinality(Into(d)) - 1
       /\ \A a \in Atom \ {d} : inHead'[a] = inHead[a] /\ inCount'[a] = inCount[a]
  BY <1>2, <1>3, <1>8, <1>9 DEF TypeOK
<1>14. TypeOK'
  <2>1. SkipHead(inHead[d], c, inNext) \in Channel \cup {Nil}
    BY <1>2, <1>3, <1>9 DEF SkipHead, TypeOK
  <2>2. inHead' \in [Atom -> Channel \cup {Nil}]
    BY <1>2, <1>3, <1>8, <2>1 DEF TypeOK
  <2>3. inNext' \in [Channel -> Channel \cup {Nil}]
    BY <1>3, <1>8, <1>9 DEF SkipNext
  <2>4. inCount' \in [Atom -> 0 .. Cardinality(Channel)]
    <3>1. \A a \in Atom : inCount'[a] \in 0 .. Cardinality(Channel)
      BY <1>2, <1>12, <1>13 DEF TypeOK
    <3> QED BY <1>2, <1>8, <3>1 DEF TypeOK
  <2>5. pc' \in [Thread -> Controls]
    BY <1>1, <1>2 DEF TypeOK, Controls
  <2> QED BY <1>1, <1>2, <2>2, <2>3, <2>4, <2>5 DEF TypeOK
<1>15. ASSUME NEW u \in Thread \ {t} PROVE Holds(u)'
  BY <1>1, <1>2, <1>4, <1>5, StillHolds DEF Moving
<1>16. AtWork(t)' /\ Holds(t)'
  BY <1>1, <1>2, <1>3, <1>4 DEF AtWork, Holds, Moving
<1>17. Apart'
  BY <1>4, <1>5 DEF Apart, Leaves, Moving
<1>18. HasEnds'
  BY <1>1, <1>2 DEF HasEnds
<1>19. ListsHold'
  <2> SUFFICES ASSUME NEW a \in Atom PROVE OutHolds(a)' /\ InHolds(a)'
    BY DEF ListsHold
  <2>1. OutHolds(a) /\ InHolds(a)
    BY <1>2 DEF ListsHold
  <2>2. OutHolds(a)'
    BY <1>1, <1>11, <2>1 DEF OutHolds
  <2>3. CASE a = d
    <3>1. IsList(SkipHead(inHead[d], c, inNext), SkipNext(Into(d), c, inNext), Into(d) \ {c})
      BY <1>6, <1>7, <1>9, TakeOut
    <3>2. InHolds(a)'
      BY <1>8, <1>11, <1>12, <1>13, <2>3, <3>1 DEF InHolds
    <3> QED BY <2>2, <3>2
  <2>4. CASE a # d
    <3>1. \A x \in Into(a) : x \in Channel /\ x \notin Into(d)
      BY <2>4 DEF Into, OnIn
    <3>2. \A x \in Into(a) : inNext'[x] = inNext[x]
      BY <1>8, <3>1 DEF SkipNext
    <3>3. IsList(inHead[a], inNext', Into(a))
      BY <2>1, <3>2, SameList DEF InHolds
    <3> QED BY <1>11, <1>13, <2>1, <2>2, <2>4, <3>3 DEF InHolds
  <2> QED BY <2>3, <2>4
<1> QED BY <1>1, <1>4, <1>14, <1>15, <1>16, <1>17, <1>18, <1>19, Stepped

\* free(found), when it is on neither list.
LEMMA UnlinkFreeStep ==
    ASSUME TopologyInv, NEW t \in Thread, NEW c, c = ch[t], UnlinkFree(t) PROVE TopologyInv'
<1>1. /\ ops' = ops /\ mem' = mem /\ state' = state /\ queued' = queued
      /\ outHead' = outHead /\ outNext' = outNext /\ outCount' = outCount
      /\ inHead' = inHead /\ inNext' = inNext /\ inCount' = inCount
      /\ cmem' = [cmem EXCEPT ![c] = "freed"] /\ ends' = ends /\ weight' = weight
      /\ notice' = notice /\ pruneList' = pruneList /\ gcList' = gcList
      /\ Return(t) /\ pc[t] = "unlinkFree"
  BY DEF UnlinkFree, At, atoms, lists
<1>2. /\ TypeOK /\ AtWork(t) /\ HasEnds /\ Apart /\ ListsHold /\ \A u \in Thread : Holds(u)
  BY DEF TopologyInv
<1>3. c \in Channel /\ cmem[c] = "live"
  BY <1>1, <1>2 DEF Holds, Moving
<1>4. pc'[t] = "idle" /\ Leaves(t)
  BY <1>1, <1>2, Returned DEF Leaves
<1>5. \A u \in Thread \ {t} : pc[u] \in {"idle", "hebbian", "attend"}
  BY <1>1, MovesAlone
<1>6. cmem'[c] = "freed" /\ \A x \in Channel \ {c} : cmem'[x] = cmem[x]
  BY <1>1, <1>2, <1>3 DEF TypeOK
<1>7. OnOut' = OnOut /\ OnIn' = OnIn
  <2>1. ASSUME NEW x \in Channel \ {c}
        PROVE  (OffOut(x)' <=> OffOut(x)) /\ (OffIn(x)' <=> OffIn(x))
    BY <1>1, <1>4 DEF OffOut, OffIn, Leaves
  <2>2. OffOut(c) /\ OffIn(c)
    BY <1>1 DEF OffOut, OffIn
  <2> QED BY <1>6, <2>1, <2>2 DEF OnOut, OnIn
<1>8. TypeOK'
  <2>1. /\ pc' \in [Thread -> Controls] /\ src' \in [Thread -> Atom \cup {Nil}]
        /\ dst' \in [Thread -> Atom \cup {Nil}] /\ ch' \in [Thread -> Channel \cup {Nil}]
    BY <1>1, <1>2, ReturnedTypes
  <2>2. cmem' \in [Channel -> {"unborn", "live", "freed"}]
    BY <1>1, <1>2 DEF TypeOK
  <2> QED BY <1>1, <1>2, <2>1, <2>2 DEF TypeOK
<1>9. ASSUME NEW u \in Thread \ {t} PROVE Holds(u)'
  BY <1>1, <1>2, <1>4, <1>5, StillHolds DEF Moving
<1>10. AtWork(t)' /\ Holds(t)'
  BY <1>1, <1>2, <1>4 DEF AtWork, Holds, Moving
<1>11. Apart'
  BY <1>4, <1>5 DEF Apart, Leaves, Moving
<1>12. HasEnds'
  BY <1>1, <1>2, <1>3, <1>6 DEF HasEnds, TypeOK
<1>13. ListsHold'
  <2> SUFFICES ASSUME NEW a \in Atom PROVE OutHolds(a)' /\ InHolds(a)'
    BY DEF ListsHold
  <2>1. OutOf(a)' = OutOf(a) /\ Into(a)' = Into(a)
    BY <1>1, <1>7 DEF OutOf, Into
  <2>2. OutHolds(a) /\ InHolds(a)
    BY <1>2 DEF ListsHold
  <2> QED BY <1>1, <2>1, <2>2 DEF OutHolds, InHolds
<1> QED BY <1>1, <1>4, <1>8, <1>9, <1>10, <1>11, <1>12, <1>13, Stepped

\* Every step keeps the invariant.
LEMMA TopologyStep ==
    ASSUME TopologyInv, [Next]_vars PROVE TopologyInv'
<1>1. CASE UNCHANGED vars
  <2>1. /\ ops' = ops /\ mem' = mem /\ state' = state /\ queued' = queued
        /\ outHead' = outHead /\ outNext' = outNext /\ outCount' = outCount
        /\ inHead' = inHead /\ inNext' = inNext /\ inCount' = inCount
        /\ cmem' = cmem /\ ends' = ends /\ weight' = weight /\ notice' = notice
        /\ pc' = pc /\ src' = src /\ dst' = dst /\ ch' = ch
        /\ pruneList' = pruneList /\ gcList' = gcList
    BY <1>1 DEF vars, atoms, lists, channels, locals
  <2>2. TypeOK' /\ Disciplined(ops)' /\ Safekeeping' /\ HasEnds' /\ Apart'
    BY <2>1 DEF TopologyInv, TypeOK, Disciplined, Safekeeping, HasEnds, Apart
  <2>3. OnOut' = OnOut /\ OnIn' = OnIn
    BY <2>1 DEF OnOut, OnIn, OffOut, OffIn
  <2>4. ASSUME NEW t \in Thread PROVE AtWork(t)' /\ Holds(t)'
    <3>1. AtWork(t) /\ Holds(t)
      BY DEF TopologyInv
    <3> QED BY <2>1, <2>3, <3>1 DEF AtWork, Holds
  <2>5. ASSUME NEW a \in Atom PROVE OutHolds(a)' /\ InHolds(a)'
    <3>1. OutHolds(a) /\ InHolds(a)
      BY DEF TopologyInv, ListsHold
    <3>2. OutOf(a)' = OutOf(a) /\ Into(a)' = Into(a)
      BY <2>1, <2>3 DEF OutOf, Into
    <3> QED BY <2>1, <3>1, <3>2 DEF OutHolds, InHolds
  <2> QED BY <2>2, <2>4, <2>5 DEF TopologyInv, ListsHold
<1>2. ASSUME NEW t \in Thread, Links(t) PROVE TopologyInv'
  <2>1. ASSUME NEW s \in Atom, NEW d \in Atom, LinkCall(t, s, d) \/ UnlinkCall(t, s, d)
        PROVE  TopologyInv'
    BY <2>1, FirstLookStep
  <2>2. CASE LinkOut(t)
    BY <2>2, LinkOutStep
  <2>3. CASE LinkIn(t)
    BY <2>3, LinkInStep
  <2>4. CASE LinkFind(t)
    BY <2>4, LinkFindStep
  <2>8. CASE UnlinkFind(t)
    BY <2>8, UnlinkFindStep
  <2>5. CASE UnlinkOut(t)
    BY <2>5, UnlinkOutStep
  <2>6. CASE UnlinkIn(t)
    BY <2>6, UnlinkInStep
  <2>7. CASE UnlinkFree(t)
    BY <2>7, UnlinkFreeStep
  <2> QED BY <1>2, <2>1, <2>2, <2>3, <2>4, <2>5, <2>6, <2>7, <2>8 DEF Links
<1>3. ASSUME NEW t \in Thread, Lifecycle(t) PROVE TopologyInv'
  BY <1>3, SpawnStep, DestroyCallStep, AttendStep, DestroyFreeStep, CollectStep DEF Lifecycle
<1>4. ASSUME NEW t \in Thread, Signals(t) PROVE TopologyInv'
  BY <1>4, SetTvStep, WorkStep DEF Signals
<1>5. ASSUME NEW t \in Thread, Weights(t) PROVE TopologyInv'
  BY <1>5, WeightStep DEF Weights
<1> QED BY <1>1, <1>2, <1>3, <1>4, <1>5 DEF Next

-----------------------------------------------------------------------------
(* What is freed, whatever the threads do beside each other.  Of the lists  *)
(* only the outgoing ones matter: a channel is on the one of its source     *)
(* until an unlink finds it there, under the lock it takes it off under.    *)

IsThreads(f) == f = [t \in Thread |-> f[t]]

FreeTypes ==
    /\ mem \in [Atom -> {"unborn", "pooled", "unhashed", "freed"}]
    /\ cmem \in [Channel -> {"unborn", "live", "freed"}]
    /\ ends = [c \in Channel |-> ends[c]]
    /\ outHead \in [Atom -> Channel \cup {Nil}]
    /\ outNext \in [Channel -> Channel \cup {Nil}]
    /\ IsThreads(pc) /\ IsThreads(src) /\ IsThreads(dst) /\ IsThreads(ch)
    /\ IsThreads(pruneList) /\ IsThreads(gcList)

\* The threads that hold a channel which is on no outgoing list.
Taking == {"linkOut", "unlinkIn", "unlinkFree"}

FreeHolds(t) ==
    /\ pc[t] \in {"linkFind", "unlinkFind", "linkOut", "unlinkOut", "gcWalk", "destroyFree"} =>
          src[t] \in Atom
    /\ pc[t] = "linkFind" => dst[t] \in Atom
    /\ pc[t] = "destroyFree" => mem[src[t]] = "unhashed"
    /\ pc[t] \in Taking => ch[t] \in Channel /\ cmem[ch[t]] = "live"
    /\ pc[t] = "linkOut" => ends[ch[t]].src = src[t]
    /\ pruneList[t] \subseteq Channel /\ gcList[t] \subseteq Atom

FreeApart == \A t, u \in Thread : t # u =>
    /\ pc[t] \in Taking /\ pc[u] \in Taking => ch[t] # ch[u]
    /\ pc[t] = "destroyFree" /\ pc[u] = "destroyFree" => src[t] # src[u]

OutLists == \A a \in Atom : IsList(outHead[a], outNext, OutOf(a))

FreeInv ==
    /\ FreeTypes /\ \A t \in Thread : FreeHolds(t)
    /\ FreeApart /\ HasEnds /\ OutLists

\* The outgoing lists are of the channels said to be on them.
LEMMA OutgoingIs ==
    ASSUME FreeInv, NEW a \in Atom
    PROVE  Outgoing(a) = OutOf(a) /\ OutOf(a) \in SUBSET Channel
<1>1. OutOf(a) \in SUBSET Channel
  BY DEF OutOf, OnOut
<1>2. outNext \in [Channel -> Channel \cup {Nil}] /\ IsList(outHead[a], outNext, OutOf(a))
  BY DEF FreeInv, FreeTypes, OutLists
<1> QED BY <1>1, <1>2, OnListIs DEF Outgoing

\* So what is about to be freed is freed once.
LEMMA InvFreedOnce == FreeInv => FreedOnce
<1> SUFFICES ASSUME FreeInv, NEW t \in Thread
             PROVE  /\ pc[t] = "destroyFree" =>
                          /\ mem[src[t]] = "unhashed"
                          /\ \A u \in Thread \ {t} : pc[u] = "destroyFree" => src[u] # src[t]
                    /\ pc[t] \in {"unlinkIn", "unlinkFree"} =>
                          /\ cmem[ch[t]] = "live"
                          /\ \A a \in Atom : ch[t] \notin Outgoing(a)
                          /\ \A u \in Thread \ {t} :
                                pc[u] \in {"unlinkIn", "unlinkFree"} => ch[u] # ch[t]
  BY DEF FreedOnce
<1>1. FreeHolds(t) /\ FreeApart
  BY DEF FreeInv
<1>2. ASSUME pc[t] \in {"unlinkIn", "unlinkFree"}, NEW a \in Atom PROVE ch[t] \notin Outgoing(a)
  <2>1. OffOut(ch[t])
    BY <1>2 DEF OffOut
  <2>2. ch[t] \notin OutOf(a)
    BY <2>1 DEF OutOf, OnOut
  <2> QED BY <2>2, OutgoingIs
<1> QED BY <1>1, <1>2 DEF FreeHolds, FreeApart, Taking

LEMMA FreeInit ==
    ASSUME Init PROVE FreeInv
<1>1. /\ \A t \in Thread : pc[t] = "idle" /\ pruneList[t] = {} /\ gcList[t] = {}
      /\ \A c \in Channel : cmem[c] = "unborn"
      /\ \A a \in Atom : outHead[a] = Nil
  BY DEF Init
<1>2. FreeTypes
  BY DEF Init, FreeTypes, IsThreads
<1>3. OutLists
  <2>1. ASSUME NEW a \in Atom PROVE OutOf(a) = {}
    BY <1>1 DEF OutOf, OnOut
  <2> QED BY <1>1, <2>1, EmptyList DEF OutLists
<1> QED BY <1>1, <1>2, <1>3 DEF FreeInv, FreeHolds, FreeApart, HasEnds, Taking

\* What a thread's step leaves: the other threads as they were, and functions.
Apiece(t) ==
    /\ Leaves(t)
    /\ IsThreads(pc)' /\ IsThreads(src)' /\ IsThreads(dst)' /\ IsThreads(ch)'
    /\ IsThreads(pruneList)' /\ IsThreads(gcList)'

LEMMA GoesAlone ==
    ASSUME FreeTypes, NEW t \in Thread, NEW control, NEW s, NEW d, NEW c,
           Goto(t, control), Hold(t, s, d, c), pruneList' = pruneList, gcList' = gcList
    PROVE  Apiece(t) /\ pc'[t] = control /\ src'[t] = s /\ dst'[t] = d /\ ch'[t] = c
BY DEF FreeTypes, IsThreads, Goto, Hold, Apiece, Leaves

\* A step of t that moves no channel and frees nothing.
LEMMA Elsewhere ==
    ASSUME FreeInv, NEW t \in Thread, Apiece(t), FreeHolds(t)', pc[t] \notin Taking,
           pc'[t] \notin Taking \cup {"destroyFree"},
           mem' \in [Atom -> {"unborn", "pooled", "unhashed", "freed"}],
           \A a \in Atom : mem[a] = "unhashed" => mem'[a] = "unhashed",
           UNCHANGED <<cmem, ends, outHead, outNext>>,
           \A c \in pruneList'[t] : cmem[c] # "unborn"
    PROVE  FreeInv'
<1>1. FreeTypes'
  BY DEF FreeInv, FreeTypes, Apiece
<1>2. ASSUME NEW u \in Thread PROVE FreeHolds(u)'
  <2>1. CASE u = t
    BY <2>1
  <2>2. CASE u # t
    <3>1. FreeHolds(u)
      BY DEF FreeInv
    <3> QED BY <2>2, <3>1 DEF FreeHolds, Apiece, Leaves
  <2> QED BY <2>1, <2>2
<1>3. FreeApart' /\ HasEnds'
  BY DEF FreeInv, FreeApart, HasEnds, Apiece, Leaves
<1>4. OutLists'
  <2>1. ASSUME NEW c \in Channel PROVE OffOut(c)' <=> OffOut(c)
    BY DEF OffOut, Apiece, Leaves, Taking
  <2>2. \A a \in Atom : OutOf(a)' = OutOf(a)
    BY <2>1 DEF OutOf, OnOut
  <2> QED BY <2>2 DEF FreeInv, OutLists
<1> QED BY <1>1, <1>2, <1>3, <1>4 DEF FreeInv

\* Where only t goes on.
LEMMA GoesElsewhere ==
    ASSUME FreeInv, NEW t \in Thread, pc[t] \notin Taking,
           NEW control, control \notin Taking \cup {"destroyFree"}, NEW s, NEW d, NEW c,
           Goto(t, control), Hold(t, s, d, c),
           UNCHANGED <<mem, cmem, ends, outHead, outNext, pruneList, gcList>>,
           control \in {"linkFind", "unlinkFind", "unlinkOut", "gcWalk"} => s \in Atom,
           control = "linkFind" => d \in Atom
    PROVE  FreeInv'
<1>1. FreeTypes /\ FreeHolds(t) /\ HasEnds
  BY DEF FreeInv
<1>2. Apiece(t) /\ pc'[t] = control /\ src'[t] = s /\ dst'[t] = d /\ ch'[t] = c
  BY <1>1, GoesAlone
<1>3. FreeHolds(t)'
  BY <1>1, <1>2 DEF FreeHolds, Taking
<1> QED BY <1>1, <1>2, <1>3, Elsewhere DEF FreeTypes, HasEnds

\* Where t returns.
LEMMA ReturnsElsewhere ==
    ASSUME FreeInv, NEW t \in Thread, pc[t] \notin Taking, Return(t),
           UNCHANGED <<mem, cmem, ends, outHead, outNext, pruneList, gcList>>
    PROVE  FreeInv'
BY GoesElsewhere DEF Return, Taking

\* Where t stays and what it keeps is the lists of a pruning or of a sweep.
LEMMA StaysElsewhere ==
    ASSUME FreeInv, NEW t \in Thread, pc[t] = "idle",
           UNCHANGED <<cmem, ends, outHead, outNext, pc, src, dst, ch>>,
           mem' \in [Atom -> {"unborn", "pooled", "unhashed", "freed"}],
           \A a \in Atom : mem[a] = "unhashed" => mem'[a] = "unhashed",
           \/ pruneList' = pruneList
           \/ \E P \in SUBSET Channel : /\ pruneList' = [pruneList EXCEPT ![t] = P]
                                       /\ \A c \in P : cmem[c] # "unborn",
           \/ gcList' = gcList
           \/ \E G \in SUBSET Atom : gcList' = [gcList EXCEPT ![t] = G]
    PROVE  FreeInv'
<1>1. FreeTypes /\ FreeHolds(t) /\ HasEnds
  BY DEF FreeInv
<1>2. Apiece(t)
  BY <1>1 DEF FreeTypes, IsThreads, Apiece, Leaves
<1>3. /\ pruneList'[t] \subseteq Channel /\ \A c \in pruneList'[t] : cmem[c] # "unborn"
      /\ gcList'[t] \subseteq Atom
  BY <1>1 DEF FreeTypes, IsThreads, FreeHolds, HasEnds
<1>4. FreeHolds(t)'
  BY <1>1, <1>3 DEF FreeHolds, Taking
<1> QED BY <1>1, <1>2, <1>3, <1>4, Elsewhere DEF HasEnds, Taking

\* The steps that look something up, walk a list or change what is in an atom.
LEMMA FreeLooks ==
    ASSUME FreeInv, NEW t \in Thread,
           \/ \E s, d \in Atom : LinkCall(t, s, d) \/ UnlinkCall(t, s, d) \/ HebbianCall(t, s, d)
           \/ \E a \in Atom : AttendCall(t, a) \/ SetTvCall(t, a) \/ WorkPop(t, a)
           \/ UnlinkFind(t) \/ LinkIn(t) \/ AttendLock(t) \/ HebbianLock(t)
           \/ SetTvLock(t) \/ FirstOut(t) \/ Walk(t) \/ WakeTarget(t)
           \/ WorkExamine(t) \/ WorkDrain(t)
    PROVE  FreeInv'
<1>1. UNCHANGED <<mem, cmem, ends, outHead, outNext, pruneList, gcList>>
  BY DEF LinkCall, UnlinkCall, HebbianCall, AttendCall, SetTvCall, WorkPop, UnlinkFind, LinkIn,
         AttendLock, HebbianLock, SetTvLock, FirstOut, Walk, WakeTarget, WorkExamine, WorkDrain,
         atoms, lists, channels
<1>2. pc[t] \notin Taking
  BY DEF LinkCall, UnlinkCall, HebbianCall, AttendCall, SetTvCall, WorkPop, UnlinkFind, LinkIn,
         AttendLock, HebbianLock, SetTvLock, FirstOut, Walk, WakeTarget, WorkExamine, WorkDrain,
         At, Calls, Free, Taking
<1>3. ASSUME NEW s \in Atom, NEW d \in Atom,
             LinkCall(t, s, d) \/ UnlinkCall(t, s, d) \/ HebbianCall(t, s, d)
      PROVE  FreeInv'
  <2>1. \E control \in {"linkFind", "unlinkFind", "hebbian"} :
            Goto(t, control) /\ Hold(t, s, d, Nil)
    BY <1>3 DEF LinkCall, UnlinkCall, HebbianCall
  <2> QED BY <1>1, <1>2, <2>1, GoesElsewhere DEF Taking
<1>4. ASSUME NEW a \in Atom, AttendCall(t, a) \/ SetTvCall(t, a) \/ WorkPop(t, a)
      PROVE  FreeInv'
  <2>1. \E control \in {"attend", "setTv", "examine"} : Goto(t, control) /\ Hold(t, a, Nil, Nil)
    BY <1>4 DEF AttendCall, SetTvCall, WorkPop
  <2> QED BY <1>1, <1>2, <2>1, GoesElsewhere DEF Taking
<1>5. CASE UnlinkFind(t)
  <2>1. src[t] \in Atom
    BY <1>5 DEF UnlinkFind, At, FreeInv, FreeHolds
  <2>2. \/ Goto(t, "unlinkOut") /\ Hold(t, src[t], dst[t], Nil)
        \/ Return(t)
    BY <1>5 DEF UnlinkFind
  <2> QED BY <1>1, <1>2, <2>1, <2>2, GoesElsewhere, ReturnsElsewhere DEF Taking
<1>6. CASE LinkIn(t) \/ AttendLock(t) \/ HebbianLock(t)
  <2>1. Return(t)
    BY <1>6 DEF LinkIn, AttendLock, HebbianLock
  <2> QED BY <1>1, <1>2, <2>1, ReturnsElsewhere
<1>7. CASE SetTvLock(t) \/ FirstOut(t) \/ Walk(t) \/ WakeTarget(t) \/ WorkExamine(t) \/ WorkDrain(t)
  <2>1. \/ Return(t)
        \/ \E control \in {"firstOut", "walk", "wake", "drain"} : \E s, d, c :
              Goto(t, control) /\ Hold(t, s, d, c)
    <3>1. CASE SetTvLock(t)
      BY <3>1 DEF SetTvLock
    <3>2. CASE FirstOut(t)
      BY <3>2 DEF FirstOut
    <3>3. CASE Walk(t)
      BY <3>3 DEF Walk
    <3>4. CASE WakeTarget(t)
      BY <3>4 DEF WakeTarget
    <3>5. CASE WorkExamine(t)
      BY <3>5 DEF WorkExamine
    <3>6. CASE WorkDrain(t)
      BY <3>6 DEF WorkDrain
    <3> QED BY <1>7, <3>1, <3>2, <3>3, <3>4, <3>5, <3>6
  <2>2. CASE Return(t)
    BY <1>1, <1>2, <2>2, ReturnsElsewhere
  <2>3. ASSUME NEW control \in {"firstOut", "walk", "wake", "drain"}, NEW s, NEW d, NEW c,
               Goto(t, control), Hold(t, s, d, c)
        PROVE  FreeInv'
    BY <1>1, <1>2, <2>3, GoesElsewhere DEF Taking
  <2> QED BY <2>1, <2>2, <2>3
<1> QED BY <1>3, <1>4, <1>5, <1>6, <1>7

\* The steps of a pruning or of a sweep between the calls they make, spawning and
\* decay.
LEMMA FreeMarks ==
    ASSUME FreeInv, NEW t \in Thread,
           \/ \E a \in Atom : Spawn(t, a)
           \/ Decay(t) \/ PruneMark(t) \/ PruneNext(t) \/ GcMark(t) \/ GcNext(t) \/ GcWalk(t)
    PROVE  FreeInv'
<1>1. UNCHANGED <<cmem, ends, outHead, outNext>>
  BY DEF Spawn, Decay, PruneMark, PruneNext, GcMark, GcNext, GcWalk, atoms, lists, channels
<1>2. /\ FreeTypes /\ FreeHolds(t) /\ HasEnds
      /\ mem \in [Atom -> {"unborn", "pooled", "unhashed", "freed"}]
  BY DEF FreeInv, FreeTypes
<1>3. ASSUME NEW a \in Atom, Spawn(t, a) PROVE FreeInv'
  <2>1. /\ pc[t] = "idle" /\ UNCHANGED <<pc, src, dst, ch, pruneList, gcList>>
        /\ mem' = [mem EXCEPT ![a] = "pooled"] /\ mem[a] = "unborn"
    BY <1>3 DEF Spawn, Calls, Free, locals
  <2>2. /\ mem' \in [Atom -> {"unborn", "pooled", "unhashed", "freed"}]
        /\ \A b \in Atom : mem[b] = "unhashed" => mem'[b] = "unhashed"
    BY <1>2, <2>1
  <2> QED BY <1>1, <2>1, <2>2, StaysElsewhere
<1>4. CASE Decay(t)
  <2>1. pc[t] = "idle" /\ UNCHANGED <<pc, src, dst, ch, pruneList, gcList, mem>>
    BY <1>4 DEF Decay, Calls, Free, locals, atoms
  <2> QED BY <1>1, <1>2, <2>1, StaysElsewhere
<1>5. CASE PruneMark(t)
  <2> DEFINE P == {c \in Linked : weight[c] = "weak"}
  <2>1. /\ pc[t] = "idle" /\ UNCHANGED <<pc, src, dst, ch, gcList, mem>>
        /\ pruneList' = [pruneList EXCEPT ![t] = P]
    BY <1>5 DEF PruneMark, Calls, Free, atoms
  <2>2. P \in SUBSET Channel /\ \A c \in P : cmem[c] # "unborn"
    <3> SUFFICES ASSUME NEW c \in Linked PROVE c \in Channel /\ cmem[c] # "unborn"
      OBVIOUS
    <3>1. PICK a \in Atom : c \in Outgoing(a)
      BY DEF Linked
    <3>2. c \in OutOf(a)
      BY <3>1, OutgoingIs
    <3> QED BY <3>2 DEF OutOf, OnOut
  <2> HIDE DEF P
  <2> QED BY <1>1, <1>2, <2>1, <2>2, StaysElsewhere
<1>6. CASE PruneNext(t)
  <2>1. PICK c \in pruneList[t] :
           /\ pruneList' = [pruneList EXCEPT ![t] = @ \ {c}]
           /\ IF Pooled(ends[c].src)
              THEN Goto(t, "unlinkFind") /\ Hold(t, ends[c].src, ends[c].dst, Nil)
              ELSE UNCHANGED <<pc, src, dst, ch>>
    BY <1>6 DEF PruneNext
  <2>2. /\ pc[t] = "idle" /\ UNCHANGED <<gcList, mem>> /\ ends[c].src \in Atom
        /\ pruneList[t] \ {c} \subseteq Channel /\ \A e \in pruneList[t] : cmem[e] # "unborn"
    BY <1>2, <1>6, <2>1 DEF PruneNext, atoms, HasEnds, FreeHolds
  <2>3. CASE Pooled(ends[c].src)
    <3>1. Goto(t, "unlinkFind") /\ Hold(t, ends[c].src, ends[c].dst, Nil)
      BY <2>1, <2>3
    <3>2. /\ Apiece(t) /\ pc'[t] = "unlinkFind" /\ src'[t] = ends[c].src
          /\ pruneList'[t] = pruneList[t] \ {c} /\ gcList'[t] = gcList[t]
      BY <1>2, <2>1, <2>2, <3>1 DEF FreeTypes, IsThreads, Goto, Hold, Apiece, Leaves
    <3>3. FreeHolds(t)'
      BY <1>2, <2>2, <3>2 DEF FreeHolds, Taking
    <3> QED BY <1>1, <1>2, <2>2, <3>2, <3>3, Elsewhere DEF Taking
  <2>4. CASE ~ Pooled(ends[c].src)
    <3> DEFINE P == pruneList[t] \ {c}
    <3>1. /\ P \in SUBSET Channel /\ pruneList' = [pruneList EXCEPT ![t] = P]
          /\ \A e \in P : cmem[e] # "unborn"
      BY <2>1, <2>2
    <3> HIDE DEF P
    <3> QED BY <1>1, <1>2, <2>1, <2>2, <2>4, <3>1, StaysElsewhere
  <2> QED BY <2>3, <2>4
<1>7. CASE GcMark(t)
  <2>1. /\ pc[t] = "idle" /\ UNCHANGED <<pc, src, dst, ch, pruneList, mem>>
        /\ gcList' = [gcList EXCEPT ![t] = GcCandidates] /\ GcCandidates \in SUBSET Atom
    BY <1>7 DEF GcMark, Calls, Free, GcCandidates
  <2> QED BY <1>1, <1>2, <2>1, StaysElsewhere
<1>8. CASE GcNext(t)
  <2>1. PICK a \in gcList[t] :
           /\ gcList' = [gcList EXCEPT ![t] = @ \ {a}]
           /\ IF Pooled(a)
              THEN Goto(t, "gcWalk") /\ Hold(t, a, Nil, inHead[a])
              ELSE UNCHANGED <<pc, src, dst, ch>>
    BY <1>8 DEF GcNext
  <2>2. /\ pc[t] = "idle" /\ UNCHANGED <<pruneList, mem>> /\ a \in Atom
        /\ gcList[t] \ {a} \subseteq Atom /\ \A e \in pruneList[t] : cmem[e] # "unborn"
    BY <1>2, <1>8, <2>1 DEF GcNext, atoms, HasEnds, FreeHolds
  <2>3. CASE Pooled(a)
    <3>1. Goto(t, "gcWalk") /\ Hold(t, a, Nil, inHead[a])
      BY <2>1, <2>3
    <3>2. /\ Apiece(t) /\ pc'[t] = "gcWalk" /\ src'[t] = a
          /\ gcList'[t] = gcList[t] \ {a} /\ pruneList'[t] = pruneList[t]
      BY <1>2, <2>1, <2>2, <3>1 DEF FreeTypes, IsThreads, Goto, Hold, Apiece, Leaves
    <3>3. FreeHolds(t)'
      BY <1>2, <2>2, <3>2 DEF FreeHolds, Taking
    <3> QED BY <1>1, <1>2, <2>2, <3>2, <3>3, Elsewhere DEF Taking
  <2>4. CASE ~ Pooled(a)
    BY <1>1, <1>2, <2>1, <2>2, <2>4, StaysElsewhere
  <2> QED BY <2>3, <2>4
<1>9. CASE GcWalk(t)
  <2>1. /\ pc[t] = "gcWalk" /\ pc' = pc /\ Hold(t, src[t], Nil, inNext[ch[t]])
        /\ UNCHANGED <<pruneList, gcList, mem>>
    BY <1>9 DEF GcWalk, At, atoms
  <2>2. /\ Apiece(t) /\ pc'[t] = "gcWalk" /\ src'[t] = src[t]
        /\ gcList'[t] = gcList[t] /\ pruneList'[t] = pruneList[t]
    BY <1>2, <2>1 DEF FreeTypes, IsThreads, Hold, Apiece, Leaves
  <2>3. FreeHolds(t)'
    BY <1>2, <2>1, <2>2 DEF FreeHolds, Taking
  <2> QED BY <1>1, <1>2, <2>1, <2>2, <2>3, Elsewhere DEF Taking, HasEnds
<1> QED BY <1>3, <1>4, <1>5, <1>6, <1>7, <1>8, <1>9

\* A new channel is on no list, and nobody else has it.
LEMMA FreeLinkFind ==
    ASSUME FreeInv, NEW t \in Thread, LinkFind(t) PROVE FreeInv'
<1>1. /\ FreeTypes /\ FreeHolds(t) /\ HasEnds /\ FreeApart /\ OutLists
      /\ \A u \in Thread : FreeHolds(u)
  BY DEF FreeInv
<1>2. /\ pc[t] = "linkFind" /\ src[t] \in Atom /\ dst[t] \in Atom
      /\ UNCHANGED <<mem, outHead, outNext, pruneList, gcList>>
  BY <1>1 DEF LinkFind, At, FreeHolds, atoms, lists
<1>3. CASE Return(t) /\ UNCHANGED <<cmem, ends>>
  BY <1>2, <1>3, ReturnsElsewhere DEF Taking
<1>4. ASSUME NEW c \in Channel, cmem[c] = "unborn",
             cmem' = [cmem EXCEPT ![c] = "live"],
             ends' = [ends EXCEPT ![c] = [src |-> src[t], dst |-> dst[t]]],
             Goto(t, "linkOut") /\ Hold(t, src[t], dst[t], c)
      PROVE  FreeInv'
  <2>1. /\ Apiece(t) /\ pc'[t] = "linkOut" /\ src'[t] = src[t] /\ ch'[t] = c
    BY <1>1, <1>2, <1>4, GoesAlone
  <2>2. /\ cmem'[c] = "live" /\ ends'[c] = [src |-> src[t], dst |-> dst[t]]
        /\ \A x \in Channel \ {c} : cmem'[x] = cmem[x] /\ ends'[x] = ends[x]
    BY <1>1, <1>4 DEF FreeTypes
  <2>3. FreeTypes'
    <3>1. ends' = [x \in Channel |-> ends'[x]]
      BY <1>1, <1>4 DEF FreeTypes
    <3> QED BY <1>1, <1>2, <1>4, <2>1, <3>1 DEF FreeTypes, Apiece
  <2>4. \A u \in Thread \ {t} : pc[u] \in Taking => ch[u] \in Channel \ {c}
    BY <1>1, <1>4 DEF FreeHolds
  <2>5. ASSUME NEW u \in Thread PROVE FreeHolds(u)'
    <3>1. CASE u = t
      BY <1>1, <1>2, <2>1, <2>2, <3>1 DEF FreeHolds, Taking
    <3>2. CASE u # t
      BY <1>1, <1>2, <2>1, <2>2, <2>4, <3>2 DEF FreeHolds, Apiece, Leaves, Taking
    <3> QED BY <3>1, <3>2
  <2>6. FreeApart'
    BY <1>1, <2>1, <2>4 DEF FreeApart, Apiece, Leaves
  <2>7. HasEnds'
    BY <1>1, <1>2, <2>2, <2>5 DEF HasEnds, FreeHolds
  <2>8. OutLists'
    <3>1. ASSUME NEW x \in Channel \ {c} PROVE OffOut(x)' <=> OffOut(x)
      BY <1>2, <2>1 DEF OffOut, Apiece, Leaves
    <3>2. OffOut(c)'
      BY <2>1 DEF OffOut
    <3>3. \A a \in Atom : OutOf(a)' = OutOf(a)
      BY <1>4, <2>2, <3>1, <3>2 DEF OutOf, OnOut
    <3> QED BY <1>1, <1>2, <3>3 DEF OutLists
  <2> QED BY <2>3, <2>5, <2>6, <2>7, <2>8 DEF FreeInv
<1> QED BY <1>3, <1>4 DEF LinkFind

\* It comes first on the list of its source.
LEMMA FreeLinkOut ==
    ASSUME FreeInv, NEW t \in Thread, NEW c, NEW s, c = ch[t], s = src[t], LinkOut(t)
    PROVE  FreeInv'
<1>1. /\ FreeTypes /\ HasEnds /\ FreeApart /\ OutLists /\ \A u \in Thread : FreeHolds(u)
  BY DEF FreeInv
<1>2. /\ UNCHANGED <<mem, cmem, ends, src, dst, ch, pruneList, gcList>>
      /\ outNext' = [outNext EXCEPT ![c] = outHead[s]]
      /\ outHead' = [outHead EXCEPT ![s] = c]
      /\ pc' = [pc EXCEPT ![t] = "linkIn"] /\ pc[t] = "linkOut"
  BY DEF LinkOut, At, Goto, atoms, channels
<1>3. s \in Atom /\ c \in Channel /\ cmem[c] = "live" /\ ends[c].src = s
  BY <1>1, <1>2 DEF FreeHolds, Taking
<1>4. Apiece(t) /\ pc'[t] = "linkIn"
  BY <1>1, <1>2 DEF FreeTypes, IsThreads, Apiece, Leaves
<1>5. /\ FreeTypes'
  BY <1>1, <1>2, <1>3, <1>4 DEF FreeTypes, Apiece
<1>6. ASSUME NEW u \in Thread PROVE FreeHolds(u)'
  BY <1>1, <1>2, <1>4 DEF FreeHolds, Apiece, Leaves, Taking
<1>7. FreeApart' /\ HasEnds'
  BY <1>1, <1>2, <1>4 DEF FreeApart, HasEnds, Apiece, Leaves, Taking
<1>8. \A u \in Thread \ {t} : pc[u] \in Taking => ch[u] # c
  BY <1>1, <1>2 DEF FreeApart, Taking
<1>9. OnOut' = OnOut \cup {c} /\ c \notin OnOut
  <2>1. ASSUME NEW x \in Channel \ {c} PROVE OffOut(x)' <=> OffOut(x)
    BY <1>2, <1>4 DEF OffOut, Apiece, Leaves
  <2>2. OffOut(c)
    BY <1>2 DEF OffOut
  <2>3. ~ OffOut(c)'
    BY <1>2, <1>4, <1>8 DEF OffOut, Apiece, Leaves, Taking
  <2> QED BY <1>2, <1>3, <2>1, <2>2, <2>3 DEF OnOut
<1>10. /\ OutOf(s)' = OutOf(s) \cup {c} /\ c \notin OutOf(s) /\ OutOf(s) \in SUBSET Channel
       /\ \A a \in Atom \ {s} : OutOf(a)' = OutOf(a) /\ c \notin OutOf(a)
  BY <1>2, <1>3, <1>9 DEF OutOf, OnOut
<1>11. OutLists'
  <2> SUFFICES ASSUME NEW a \in Atom PROVE IsList(outHead[a], outNext, OutOf(a))'
    BY DEF OutLists
  <2>1. IsList(outHead[a], outNext, OutOf(a))
    BY <1>1 DEF OutLists
  <2>2. CASE a = s
    <3>1. IsList(c, [outNext EXCEPT ![c] = outHead[s]], OutOf(s) \cup {c})
      BY <1>1, <1>3, <1>10, <2>1, <2>2, PutFirst DEF FreeTypes
    <3>2. outHead'[s] = c
      BY <1>1, <1>2, <1>3 DEF FreeTypes
    <3> QED BY <1>2, <1>10, <2>2, <3>1, <3>2
  <2>3. CASE a # s
    <3>1. \A x \in OutOf(a) : outNext'[x] = outNext[x]
      BY <1>1, <1>2, <1>10, <2>3 DEF OutOf, OnOut, FreeTypes
    <3>2. outHead'[a] = outHead[a]
      BY <1>1, <1>2, <2>3 DEF FreeTypes
    <3>3. IsList(outHead[a], outNext', OutOf(a))
      BY <2>1, <3>1, SameList
    <3> QED BY <1>10, <2>3, <3>2, <3>3
  <2> QED BY <2>2, <2>3
<1> QED BY <1>5, <1>6, <1>7, <1>11 DEF FreeInv

\* An unlink finds it there and takes it off: nobody else can find it.
LEMMA FreeUnlinkOut ==
    ASSUME FreeInv, NEW t \in Thread, NEW s, NEW c, s = src[t], c = FirstTo(s, dst[t]),
           UnlinkOut(t)
    PROVE  FreeInv'
<1>1. /\ FreeTypes /\ HasEnds /\ FreeApart /\ OutLists /\ \A u \in Thread : FreeHolds(u)
  BY DEF FreeInv
<1>2. /\ UNCHANGED <<mem, cmem, ends, pruneList, gcList>> /\ pc[t] = "unlinkOut"
      /\ IF c = Nil
         THEN Return(t) /\ UNCHANGED <<outHead, outNext, outCount>>
         ELSE /\ outHead' = [outHead EXCEPT ![s] = SkipHead(@, c, outNext)]
              /\ outNext' = SkipNext(Outgoing(s), c, outNext)
              /\ outCount' = [outCount EXCEPT ![s] = @ - 1]
              /\ Goto(t, "unlinkIn") /\ Hold(t, s, dst[t], c)
  BY DEF UnlinkOut, At, atoms, channels
<1>3. CASE c = Nil
  <2>1. Return(t) /\ UNCHANGED <<outHead, outNext>>
    BY <1>2, <1>3
  <2> QED BY <1>2, <2>1, ReturnsElsewhere DEF Taking
<1>4. CASE c # Nil
  <2>1. s \in Atom
    BY <1>1, <1>2 DEF FreeHolds
  <2>2. /\ Outgoing(s) = OutOf(s) /\ OutOf(s) \in SUBSET Channel
        /\ IsList(outHead[s], outNext, OutOf(s)) /\ outNext \in [Channel -> Channel \cup {Nil}]
    BY <1>1, <2>1, OutgoingIs DEF OutLists, FreeTypes
  <2>3. c \in OutOf(s)
    BY <1>4, <2>2, FirstToIs
  <2>4. c \in Channel /\ cmem[c] = "live" /\ ends[c].src = s /\ ~ OffOut(c)
    BY <2>3 DEF OutOf, OnOut
  <2>5. Apiece(t) /\ pc'[t] = "unlinkIn" /\ src'[t] = s /\ ch'[t] = c
    BY <1>1, <1>2, <1>4, GoesAlone
  <2>6. /\ outHead' = [outHead EXCEPT ![s] = SkipHead(@, c, outNext)]
        /\ outNext' = SkipNext(OutOf(s), c, outNext)
    BY <1>2, <1>4, <2>2
  <2>7. FreeTypes'
    <3>1. SkipHead(outHead[s], c, outNext) \in Channel \cup {Nil}
      BY <1>1, <2>1, <2>4 DEF SkipHead, FreeTypes
    <3>2. outHead' \in [Atom -> Channel \cup {Nil}]
      BY <1>1, <2>6, <3>1 DEF FreeTypes
    <3>3. outNext' \in [Channel -> Channel \cup {Nil}]
      BY <2>2, <2>4, <2>6 DEF SkipNext
    <3> QED BY <1>1, <1>2, <2>5, <3>2, <3>3 DEF FreeTypes, Apiece
  <2>8. ASSUME NEW u \in Thread PROVE FreeHolds(u)'
    <3>1. FreeHolds(u)
      BY <1>1
    <3>2. CASE u = t
      BY <1>2, <2>4, <2>5, <3>1, <3>2 DEF FreeHolds, Taking
    <3>3. CASE u # t
      BY <1>2, <2>5, <3>1, <3>3 DEF FreeHolds, Apiece, Leaves, Taking
    <3> QED BY <3>2, <3>3
  <2>9. \A u \in Thread : pc[u] \in Taking => ch[u] # c
    BY <2>4 DEF OffOut, Taking
  <2>10. FreeApart' /\ HasEnds'
    BY <1>1, <1>2, <2>5, <2>9 DEF FreeApart, HasEnds, Apiece, Leaves
  <2>11. OnOut' = OnOut \ {c}
    <3>1. ASSUME NEW x \in Channel \ {c} PROVE OffOut(x)' <=> OffOut(x)
      BY <1>2, <2>5 DEF OffOut, Apiece, Leaves
    <3>2. OffOut(c)'
      BY <2>5 DEF OffOut
    <3> QED BY <1>2, <3>1, <3>2 DEF OnOut
  <2>12. OutOf(s)' = OutOf(s) \ {c} /\ \A a \in Atom \ {s} : OutOf(a)' = OutOf(a)
    BY <1>2, <2>4, <2>11 DEF OutOf
  <2>13. OutLists'
    <3> SUFFICES ASSUME NEW a \in Atom PROVE IsList(outHead[a], outNext, OutOf(a))'
      BY DEF OutLists
    <3>1. CASE a = s
      <4>1. IsList(SkipHead(outHead[s], c, outNext), SkipNext(OutOf(s), c, outNext),
                   OutOf(s) \ {c})
        BY <2>2, <2>3, TakeOut
      <4>2. outHead'[s] = SkipHead(outHead[s], c, outNext)
        BY <1>1, <2>1, <2>6 DEF FreeTypes
      <4> QED BY <2>6, <2>12, <3>1, <4>1, <4>2
    <3>2. CASE a # s
      <4>1. \A x \in OutOf(a) : x \in Channel /\ x \notin OutOf(s)
        BY <3>2 DEF OutOf, OnOut
      <4>2. \A x \in OutOf(a) : outNext'[x] = outNext[x]
        BY <2>6, <4>1 DEF SkipNext
      <4>3. IsList(outHead[a], outNext', OutOf(a))
        BY <1>1, <4>2, SameList DEF OutLists
      <4>4. outHead'[a] = outHead[a]
        BY <1>1, <2>6, <3>2 DEF FreeTypes
      <4> QED BY <2>12, <3>2, <4>3, <4>4
    <3> QED BY <3>1, <3>2
  <2> QED BY <2>7, <2>8, <2>10, <2>13 DEF FreeInv
<1> QED BY <1>3, <1>4

\* It goes on with the other list.
LEMMA FreeUnlinkIn ==
    ASSUME FreeInv, NEW t \in Thread, UnlinkIn(t) PROVE FreeInv'
<1>1. /\ FreeTypes /\ HasEnds /\ FreeApart /\ OutLists /\ \A u \in Thread : FreeHolds(u)
  BY DEF FreeInv
<1>2. /\ UNCHANGED <<mem, cmem, ends, outHead, outNext, src, dst, ch, pruneList, gcList>>
      /\ pc' = [pc EXCEPT ![t] = "unlinkFree"] /\ pc[t] = "unlinkIn"
  BY DEF UnlinkIn, At, Goto, atoms, channels
<1>3. Apiece(t) /\ pc'[t] = "unlinkFree"
  BY <1>1, <1>2 DEF FreeTypes, IsThreads, Apiece, Leaves
<1>4. FreeTypes'
  BY <1>1, <1>2, <1>3 DEF FreeTypes, Apiece
<1>5. ASSUME NEW u \in Thread PROVE FreeHolds(u)'
  BY <1>1, <1>2, <1>3 DEF FreeHolds, Apiece, Leaves, Taking
<1>6. FreeApart' /\ HasEnds'
  BY <1>1, <1>2, <1>3 DEF FreeApart, HasEnds, Apiece, Leaves, Taking
<1>7. OutLists'
  <2>1. ASSUME NEW x \in Channel PROVE OffOut(x)' <=> OffOut(x)
    BY <1>2, <1>3 DEF OffOut, Apiece, Leaves
  <2>2. \A a \in Atom : OutOf(a)' = OutOf(a)
    BY <1>2, <2>1 DEF OutOf, OnOut
  <2> QED BY <1>1, <1>2, <2>2 DEF OutLists
<1> QED BY <1>4, <1>5, <1>6, <1>7 DEF FreeInv

\* And frees it.
LEMMA FreeUnlinkFree ==
    ASSUME FreeInv, NEW t \in Thread, NEW c, c = ch[t], UnlinkFree(t) PROVE FreeInv'
<1>1. /\ FreeTypes /\ HasEnds /\ FreeApart /\ OutLists /\ \A u \in Thread : FreeHolds(u)
  BY DEF FreeInv
<1>2. /\ UNCHANGED <<mem, ends, outHead, outNext, pruneList, gcList>>
      /\ cmem' = [cmem EXCEPT ![c] = "freed"] /\ Return(t) /\ pc[t] = "unlinkFree"
  BY DEF UnlinkFree, At, atoms, lists
<1>3. c \in Channel /\ cmem[c] = "live"
  BY <1>1, <1>2 DEF FreeHolds, Taking
<1>4. Apiece(t) /\ pc'[t] = "idle"
  BY <1>1, <1>2, GoesAlone DEF Return
<1>5. cmem'[c] = "freed" /\ \A x \in Channel \ {c} : cmem'[x] = cmem[x]
  BY <1>1, <1>2, <1>3 DEF FreeTypes
<1>6. FreeTypes'
  BY <1>1, <1>2, <1>4 DEF FreeTypes, Apiece
<1>7. \A u \in Thread \ {t} : pc[u] \in Taking => ch[u] # c
  BY <1>1, <1>2 DEF FreeApart, Taking
<1>8. ASSUME NEW u \in Thread PROVE FreeHolds(u)'
  <2>1. FreeHolds(u)
    BY <1>1
  <2>2. CASE u = t
    BY <1>2, <1>4, <2>1, <2>2 DEF FreeHolds, Taking
  <2>3. CASE u # t
    BY <1>2, <1>4, <1>5, <1>7, <2>1, <2>3 DEF FreeHolds, Apiece, Leaves, Taking
  <2> QED BY <2>2, <2>3
<1>9. FreeApart' /\ HasEnds'
  BY <1>1, <1>2, <1>3, <1>4, <1>5 DEF FreeApart, HasEnds, FreeHolds, Apiece, Leaves, Taking
<1>10. OutLists'
  <2>1. ASSUME NEW x \in Channel \ {c} PROVE OffOut(x)' <=> OffOut(x)
    BY <1>2, <1>4 DEF OffOut, Apiece, Leaves
  <2>2. OffOut(c)
    BY <1>2 DEF OffOut
  <2>3. OnOut' = OnOut
    BY <1>5, <2>1, <2>2 DEF OnOut
  <2>4. \A a \in Atom : OutOf(a)' = OutOf(a)
    BY <1>2, <2>3 DEF OutOf
  <2> QED BY <1>1, <1>2, <2>4 DEF OutLists
<1> QED BY <1>6, <1>8, <1>9, <1>10 DEF FreeInv

\* Whoever finds an atom in the pool takes it out: nobody else can find it.
LEMMA FreeUnhash ==
    ASSUME FreeInv, NEW t \in Thread, NEW a \in Atom, Unhash(t, a), pc[t] \notin Taking,
           UNCHANGED <<cmem, ends, outHead, outNext, pruneList, gcList>>
    PROVE  FreeInv'
<1>1. /\ FreeTypes /\ HasEnds /\ FreeApart /\ OutLists /\ \A u \in Thread : FreeHolds(u)
  BY DEF FreeInv
<1>2. /\ mem' = [mem EXCEPT ![a] = "unhashed"] /\ mem[a] = "pooled"
      /\ Goto(t, "destroyFree") /\ Hold(t, a, Nil, Nil)
  BY DEF Unhash, Pooled
<1>3. Apiece(t) /\ pc'[t] = "destroyFree" /\ src'[t] = a
  BY <1>1, <1>2, GoesAlone
<1>4. mem'[a] = "unhashed" /\ \A b \in Atom : mem[b] = "unhashed" => mem'[b] = "unhashed"
  BY <1>1, <1>2 DEF FreeTypes
<1>5. FreeTypes'
  BY <1>1, <1>2, <1>3 DEF FreeTypes, Apiece
<1>6. ASSUME NEW u \in Thread PROVE FreeHolds(u)'
  <2>1. FreeHolds(u)
    BY <1>1
  <2>2. CASE u = t
    BY <1>3, <1>4, <2>1, <2>2 DEF FreeHolds, Taking
  <2>3. CASE u # t
    BY <1>3, <1>4, <2>1, <2>3 DEF FreeHolds, Apiece, Leaves
  <2> QED BY <2>2, <2>3
<1>7. \A u \in Thread : pc[u] = "destroyFree" => src[u] # a
  BY <1>1, <1>2 DEF FreeHolds
<1>8. FreeApart' /\ HasEnds'
  BY <1>1, <1>3, <1>7 DEF FreeApart, HasEnds, Apiece, Leaves, Taking
<1>9. OutLists'
  <2>1. ASSUME NEW x \in Channel PROVE OffOut(x)' <=> OffOut(x)
    BY <1>3 DEF OffOut, Apiece, Leaves, Taking
  <2>2. \A b \in Atom : OutOf(b)' = OutOf(b)
    BY <2>1 DEF OutOf, OnOut
  <2> QED BY <1>1, <2>2 DEF OutLists
<1> QED BY <1>5, <1>6, <1>8, <1>9 DEF FreeInv

\* The destructions: by a client, by the collector, and their end.
LEMMA FreeDestroys ==
    ASSUME FreeInv, NEW t \in Thread,
           (\E a \in Atom : DestroyCall(t, a)) \/ GcDestroy(t) \/ DestroyFree(t)
    PROVE  FreeInv'
<1>1. /\ FreeTypes /\ HasEnds /\ FreeApart /\ OutLists /\ \A u \in Thread : FreeHolds(u)
  BY DEF FreeInv
<1>2. UNCHANGED <<cmem, ends, outHead, outNext, pruneList, gcList>>
  BY DEF DestroyCall, GcDestroy, DestroyFree, lists, channels
<1>3. ASSUME NEW a \in Atom, DestroyCall(t, a) PROVE FreeInv'
  BY <1>2, <1>3, FreeUnhash DEF DestroyCall, Calls, Free, Taking
<1>4. CASE GcDestroy(t)
  <2>1. pc[t] = "gcWalk" /\ src[t] \in Atom
    BY <1>1, <1>4 DEF GcDestroy, At, FreeHolds
  <2>2. CASE Unhash(t, src[t])
    BY <1>2, <2>1, <2>2, FreeUnhash DEF Taking
  <2>3. CASE Return(t) /\ UNCHANGED mem
    BY <1>2, <2>1, <2>3, ReturnsElsewhere DEF Taking
  <2> QED BY <1>4, <2>2, <2>3 DEF GcDestroy
<1>5. CASE DestroyFree(t)
  <2>1. /\ pc[t] = "destroyFree" /\ mem' = [mem EXCEPT ![src[t]] = "freed"] /\ Return(t)
    BY <1>5 DEF DestroyFree, At
  <2>2. src[t] \in Atom
    BY <1>1, <2>1 DEF FreeHolds
  <2>3. Apiece(t) /\ pc'[t] = "idle"
    BY <1>1, <1>2, <2>1, GoesAlone DEF Return
  <2>4. FreeTypes'
    BY <1>1, <1>2, <2>1, <2>3 DEF FreeTypes, Apiece
  <2>5. ASSUME NEW u \in Thread PROVE FreeHolds(u)'
    <3>1. FreeHolds(u)
      BY <1>1
    <3>2. CASE u = t
      BY <1>2, <2>3, <3>1, <3>2 DEF FreeHolds, Taking
    <3>3. CASE u # t
      <4>1. pc[u] = "destroyFree" => src[u] # src[t]
        BY <1>1, <2>1, <3>3 DEF FreeApart
      <4>2. \A b \in Atom \ {src[t]} : mem'[b] = mem[b]
        BY <1>1, <2>1 DEF FreeTypes
      <4> QED BY <1>2, <2>3, <3>1, <3>3, <4>1, <4>2 DEF FreeHolds, Apiece, Leaves
    <3> QED BY <3>2, <3>3
  <2>6. FreeApart' /\ HasEnds'
    BY <1>1, <1>2, <2>3 DEF FreeApart, HasEnds, Apiece, Leaves, Taking
  <2>7. OutLists'
    <3>1. ASSUME NEW x \in Channel PROVE OffOut(x)' <=> OffOut(x)
      BY <2>1, <2>3 DEF OffOut, Apiece, Leaves, Taking
    <3>2. \A b \in Atom : OutOf(b)' = OutOf(b)
      BY <1>2, <3>1 DEF OutOf, OnOut
    <3> QED BY <1>1, <1>2, <3>2 DEF OutLists
  <2> QED BY <2>4, <2>5, <2>6, <2>7 DEF FreeInv
<1> QED BY <1>3, <1>4, <1>5

\* Every step keeps it.
LEMMA FreeStep ==
    ASSUME FreeInv, [Next]_vars PROVE FreeInv'
<1>1. CASE UNCHANGED vars
  <2>1. UNCHANGED <<mem, cmem, ends, outHead, outNext, pc, src, dst, ch, pruneList, gcList>>
    BY <1>1 DEF vars, atoms, lists, channels, locals
  <2>2. FreeTypes' /\ FreeApart' /\ HasEnds'
    BY <2>1 DEF FreeInv, FreeTypes, IsThreads, FreeApart, HasEnds
  <2>3. \A t \in Thread : FreeHolds(t)'
    BY <2>1 DEF FreeInv, FreeHolds
  <2>4. ASSUME NEW a \in Atom PROVE OutOf(a)' = OutOf(a)
    BY <2>1 DEF OutOf, OnOut, OffOut
  <2>5. OutLists'
    BY <2>1, <2>4 DEF FreeInv, OutLists
  <2> QED BY <2>2, <2>3, <2>5 DEF FreeInv
<1>2. ASSUME NEW t \in Thread, Links(t) PROVE FreeInv'
  BY <1>2, FreeLooks, FreeLinkFind, FreeLinkOut, FreeUnlinkOut, FreeUnlinkIn, FreeUnlinkFree
     DEF Links
<1>3. ASSUME NEW t \in Thread, Lifecycle(t) PROVE FreeInv'
  BY <1>3, FreeLooks, FreeMarks, FreeDestroys DEF Lifecycle
<1>4. ASSUME NEW t \in Thread, Signals(t) PROVE FreeInv'
  BY <1>4, FreeLooks DEF Signals
<1>5. ASSUME NEW t \in Thread, Weights(t) PROVE FreeInv'
  BY <1>5, FreeLooks, FreeMarks DEF Weights
<1> QED BY <1>1, <1>2, <1>3, <1>4, <1>5 DEF Next

-----------------------------------------------------------------------------
(* Theorems. *)

\* Whatever the threads do beside each other, and however many there are of them,
\* of the atoms and of the channels, what one of them frees is there, out of the
\* others' reach in the pool and on the outgoing lists, and freed by it alone
\* (cogdiod_destroy_atom, cogdiod_gc_sweep, cogdiod_unlink,
\* cogdiod_prune_weak_channels).
THEOREM EverythingIsFreedOnce == Spec => []FreedOnce
<1>1. Init => FreeInv
  BY FreeInit
<1>2. FreeInv /\ [Next]_vars => FreeInv'
  BY FreeStep
<1>3. FreeInv => FreedOnce
  BY InvFreedOnce
<1> QED BY <1>1, <1>2, <1>3, PTL DEF Spec

\* As long as threads share the operations as Disciplined says, whatever their
\* number and that of the atoms and channels, the two lists of every channel, their
\* counts and the types stay in order (cogdiod_link and cogdiod_unlink), with
\* cogdiod_link in several threads at once.
THEOREM ListsStayOK ==
    ASSUME \A o \in Sharings : Disciplined(o)
    PROVE  Spec => []ListsOK
<1>1. Init => TopologyInv
  BY TopologyInit
<1>2. TopologyInv /\ [Next]_vars => TopologyInv'
  BY TopologyStep
<1>3. TopologyInv => ListsOK
  BY InvLists
<1> QED BY <1>1, <1>2, <1>3, PTL DEF Spec
=============================================================================
