--------------------------- MODULE ServicesProofs ---------------------------
(***************************************************************************)
(* What the bridge, DisTyx, the table of language models and the pattern   *)
(* matcher promise, for any number of clients, threads, atoms and buckets, *)
(* rings of any size and every graph without a cycle.                      *)
(*                                                                         *)
(* The rings come first: both recall the last Slots values, whatever was   *)
(* recorded.  The services together and the theorems come last.            *)
(***************************************************************************)
EXTENDS MCServices, SequenceTheorems, FiniteSetTheorems,
        WellFoundedInduction, TLAPS

-----------------------------------------------------------------------------
(* Numbers. *)

\* A set of numbers has a least one: the sets of the numbers below them are
\* ordered by inclusion, and on finite sets that order is well founded.
LEMMA LeastNat ==
    ASSUME NEW T \in SUBSET Nat, T # {}
    PROVE  \E n \in T : \A m \in T : n <= m
<1> DEFINE U == {0 .. n - 1 : n \in T}
<1>1. U \subseteq FiniteSubsetsOf(Nat)
  <2>1. ASSUME NEW n \in T PROVE IsFiniteSet(0 .. n - 1) /\ 0 .. n - 1 \subseteq Nat
    <3>1. 0 \in Int /\ n - 1 \in Int
      OBVIOUS
    <3> QED BY <3>1, FS_Interval
  <2> QED BY <2>1 DEF FiniteSubsetsOf
<1>2. U # {}
  OBVIOUS
<1>3. PICK x \in U : \A y \in U : ~(<<y, x>> \in StrictSubsetOrdering(Nat))
  <2> HIDE DEF U
  <2> QED BY <1>1, <1>2, FS_StrictSubsetOrderingWellFounded, WFMin
<1>4. PICK n \in T : x = 0 .. n - 1
  OBVIOUS
<1>5. ASSUME NEW m \in T, m < n PROVE FALSE
  <2>1. 0 .. m - 1 \in U
    OBVIOUS
  <2>2. /\ 0 .. m - 1 \subseteq 0 .. n - 1 /\ 0 .. n - 1 \subseteq Nat
        /\ m \in 0 .. n - 1 /\ m \notin 0 .. m - 1
    BY <1>5
  <2>3. <<0 .. m - 1, x>> \in StrictSubsetOrdering(Nat)
    BY <2>2, <1>4 DEF StrictSubsetOrdering
  <2> QED BY <2>1, <2>3, <1>3
<1> QED BY <1>5, <1>4

\* What holds of nothing, and of the next number with a number, holds up to n.
LEMMA UpTo ==
    ASSUME NEW n \in Nat, NEW T, 0 \in T, \A k \in 0 .. n - 1 : k \in T => k + 1 \in T
    PROVE  n \in T
<1> DEFINE U == {k \in 0 .. n : k \notin T}
<1>1. ASSUME n \notin T PROVE FALSE
  <2>1. U # {} /\ U \in SUBSET Nat
    BY <1>1
  <2>2. PICK k \in U : \A m \in U : k <= m
    <3> HIDE DEF U
    <3> QED BY <2>1, LeastNat
  <2>3. k # 0 /\ k \in Nat /\ k <= n
    OBVIOUS
  <2>4. k - 1 \in 0 .. n - 1 /\ k - 1 \notin U
    BY <2>2, <2>3
  <2> QED BY <2>3, <2>4
<1> QED BY <1>1

-----------------------------------------------------------------------------
(* The rings. *)

\* Where the i-th recorded value is, as long as the ring still has it.
Keeps(ring, log) ==
    /\ ring \in [0 .. Slots - 1 -> Tv]
    /\ \A i \in 1 .. Len(log) : i > Len(log) - Slots => ring[(i - 1) % Slots] = log[i]

KernelHolds(h, log) ==
    /\ log \in Seq(Tv)
    /\ h.count = Len(log)
    /\ Keeps(h.ring, log)

BridgeHolds(h, log) ==
    /\ log \in Seq(Tv)
    /\ h.count = IF Len(log) < Slots THEN Len(log) ELSE Slots
    /\ h.head = Len(log) % Slots
    /\ Keeps(h.ring, log)

\* A remainder is smaller than the divisor, and two numbers less than the
\* divisor apart have different remainders.
LEMMA Remainder == \A n \in Int : n % Slots \in 0 .. Slots - 1
BY SlotsAssumption

LEMMA Apart ==
    ASSUME NEW d \in Nat \ {0}, NEW m \in Nat, NEW n \in Nat, m < n, n - m < d
    PROVE  m % d # n % d
<1> DEFINE p == m \div d
           q == n \div d
<1>1. m = d * p + (m % d) /\ n = d * q + (n % d) /\ p \in Nat /\ q \in Nat
  OBVIOUS
<1> SUFFICES ASSUME m % d = n % d PROVE FALSE
  OBVIOUS
<1>2. m % d \in Nat /\ n % d \in Nat
  BY <1>1
<1> HIDE DEF p, q
<1>3. n - m = d * q - d * p
  <2> DEFINE r == m % d
             x == d * p
             y == d * q
  <2>1. m = x + r /\ n = y + r /\ x \in Nat /\ y \in Nat /\ r \in Nat
    BY <1>1, <1>2
  <2> HIDE DEF r, x, y
  <2>2. n - m = y - x
    BY <2>1
  <2> QED
    BY <2>2 DEF x, y
<1>4. CASE q <= p
  <2>1. d * q <= d * p
    BY <1>4, <1>1
  <2> QED
    BY <2>1, <1>3, <1>1
<1>5. CASE q >= p + 1
  <2>1. d * q >= d * (p + 1)
    BY <1>5, <1>1
  <2>2. d * (p + 1) = d * p + d
    BY <1>1
  <2> QED
    BY <2>1, <2>2, <1>3, <1>1
<1> QED
  BY <1>1, <1>4, <1>5

\* A number is the remainder of what exceeds a multiple of the divisor by it.
LEMMA RemainderOfSum ==
    ASSUME NEW q \in Nat, NEW b \in 0 .. Slots - 1
    PROVE  (Slots * q + b) % Slots = b
<1> DEFINE a == Slots * q + b
           p == a \div Slots
           r == a % Slots
           x == Slots * q
           y == Slots * p
<1>1. a \in Nat /\ x \in Nat /\ b \in Nat
  BY SlotsAssumption
<1>2. p \in Nat /\ r \in 0 .. Slots - 1 /\ a = y + r /\ y \in Nat
  BY <1>1, SlotsAssumption
<1>3. x + b = y + r
  BY <1>2
<1> SUFFICES r = b
  OBVIOUS
<1> HIDE DEF a, p, r
<1>4. CASE p = q
  BY <1>1, <1>2, <1>3, <1>4, SlotsAssumption
<1>5. CASE p >= q + 1
  <2>1. Slots * p >= Slots * (q + 1) /\ Slots * (q + 1) = x + Slots
    BY <1>2, <1>5, SlotsAssumption
  <2>2. y >= x + Slots
    BY <2>1
  <2> HIDE DEF x, y
  <2> QED
    BY <2>2, <1>1, <1>2, <1>3, SlotsAssumption
<1>6. CASE q >= p + 1
  <2>1. Slots * q >= Slots * (p + 1) /\ Slots * (p + 1) = y + Slots
    BY <1>2, <1>6, SlotsAssumption
  <2>2. x >= y + Slots
    BY <2>1
  <2> HIDE DEF x, y
  <2> QED
    BY <2>2, <1>1, <1>2, <1>3, SlotsAssumption
<1> QED
  BY <1>2, <1>4, <1>5, <1>6

\* The place after a place, and that a whole turn more changes no place.
LEMMA NextPlace == \A n \in Nat : ((n % Slots) + 1) % Slots = (n + 1) % Slots
<1> SUFFICES ASSUME NEW n \in Nat PROVE ((n % Slots) + 1) % Slots = (n + 1) % Slots
  OBVIOUS
<1> DEFINE q == n \div Slots
           r == n % Slots
<1>1. q \in Nat /\ r \in 0 .. Slots - 1 /\ n = Slots * q + r
  BY SlotsAssumption
<1> HIDE DEF q, r
<1>2. CASE r + 1 < Slots
  <2>1. n + 1 = Slots * q + (r + 1) /\ r + 1 \in 0 .. Slots - 1
    BY <1>1, <1>2, SlotsAssumption
  <2>2. (n + 1) % Slots = r + 1
    BY <2>1, <1>1, RemainderOfSum
  <2>3. (Slots * 0 + (r + 1)) % Slots = r + 1
    BY <2>1, RemainderOfSum
  <2>4. Slots * 0 + (r + 1) = r + 1
    BY <1>1, SlotsAssumption
  <2> QED
    BY <2>2, <2>3, <2>4 DEF r
<1>3. CASE r + 1 = Slots
  <2>1. n + 1 = Slots * (q + 1) + 0 /\ r + 1 = Slots * 1 + 0
    BY <1>1, <1>3, SlotsAssumption
  <2>2. (n + 1) % Slots = 0 /\ (r + 1) % Slots = 0
    BY <2>1, <1>1, RemainderOfSum, SlotsAssumption
  <2> QED
    BY <2>2 DEF r
<1> QED
  BY <1>1, <1>2, <1>3, SlotsAssumption

\* Whole turns change no place.
LEMMA WholeTurns ==
    ASSUME NEW a \in Nat, NEW b \in Nat, NEW q \in Nat, a = b + Slots * q
    PROVE  a % Slots = b % Slots
<1> DEFINE p == b \div Slots
           r == b % Slots
<1>1. p \in Nat /\ r \in 0 .. Slots - 1 /\ b = Slots * p + r
  BY SlotsAssumption
<1> HIDE DEF p, r
<1>2. Slots * (p + q) = Slots * p + Slots * q
  BY <1>1, SlotsAssumption
<1>3. a = Slots * (p + q) + r /\ p + q \in Nat
  <2> DEFINE x == Slots * p
             y == Slots * q
             z == Slots * (p + q)
  <2>1. x \in Nat /\ y \in Nat /\ z = x + y /\ b = x + r /\ a = b + y /\ r \in Nat
    BY <1>1, <1>2, SlotsAssumption
  <2> HIDE DEF x, y, z
  <2>2. a = z + r
    BY <2>1
  <2> QED
    BY <2>2, <1>1 DEF z
<1>4. a % Slots = r
  BY <1>1, <1>3, RemainderOfSum
<1> QED
  BY <1>4 DEF r

\* The next place of the ring receives the next value and no other value loses
\* its place before its time.
LEMMA NextValue ==
    ASSUME NEW ring, NEW log \in Seq(Tv), NEW v \in Tv, Keeps(ring, log)
    PROVE  /\ Append(log, v) \in Seq(Tv)
           /\ Len(Append(log, v)) = Len(log) + 1
           /\ Keeps([ring EXCEPT ![Len(log) % Slots] = v], Append(log, v))
<1> DEFINE n == Len(log)
           new == Append(log, v)
           turned == [ring EXCEPT ![n % Slots] = v]
<1>1. /\ new \in Seq(Tv) /\ Len(new) = n + 1 /\ n \in Nat
      /\ new[n + 1] = v
      /\ \A i \in 1 .. n : new[i] = log[i]
  BY AppendProperties, LenProperties
<1>2. n % Slots \in 0 .. Slots - 1
  BY <1>1, Remainder
<1>3. turned \in [0 .. Slots - 1 -> Tv]
  BY DEF Keeps
<1>4. ASSUME NEW i \in 1 .. n + 1, i > n + 1 - Slots
      PROVE  turned[(i - 1) % Slots] = new[i]
  <2>1. CASE i = n + 1
    <3>1. i - 1 = n
      BY <2>1, <1>1
    <3> QED
      BY <3>1, <2>1, <1>1, <1>2 DEF Keeps
  <2>2. CASE i \in 1 .. n
    <3>1. i - 1 \in Nat /\ i - 1 < n /\ n - (i - 1) < Slots
      BY <2>2, <1>1, <1>4, SlotsAssumption
    <3>2. (i - 1) % Slots # n % Slots
      BY <3>1, <1>1, Apart, SlotsAssumption
    <3>3. (i - 1) % Slots \in 0 .. Slots - 1
      BY <3>1, Remainder
    <3>4. ring[(i - 1) % Slots] = log[i]
      BY <2>2, <1>1, <1>4, SlotsAssumption DEF Keeps
    <3> QED
      BY <3>2, <3>3, <3>4, <1>1, <2>2 DEF Keeps
  <2> QED
    BY <2>1, <2>2, <1>1
<1> HIDE DEF turned, new
<1>5. ASSUME NEW i \in 1 .. Len(new), i > Len(new) - Slots
      PROVE  turned[(i - 1) % Slots] = new[i]
  <2>1. i \in 1 .. n + 1 /\ i > n + 1 - Slots
    BY <1>1, <1>5, SlotsAssumption
  <2> QED
    BY <2>1, <1>4
<1>6. Keeps(turned, new)
  BY <1>3, <1>5 DEF Keeps
<1> QED
  BY <1>1, <1>6 DEF turned, new

\* What a version is, whichever way its place is found.
LEMMA VersionOf ==
    ASSUME NEW ring, NEW log \in Seq(Tv), Keeps(ring, log),
           NEW version \in 0 .. Slots - 1, version < Len(log)
    PROVE  LET first == IF Len(log) > Slots THEN Len(log) - Slots ELSE 0
           IN ring[(first + version) % Slots] = Recall(log, version)
<1> DEFINE first == IF Len(log) > Slots THEN Len(log) - Slots ELSE 0
           i == first + version + 1
<1>1. Len(log) \in Nat /\ first \in Nat /\ version \in Nat
  BY LenProperties, SlotsAssumption
<1>2. i \in 1 .. Len(log) /\ i > Len(log) - Slots /\ i - 1 = first + version
  BY <1>1, SlotsAssumption
<1>3. ring[(first + version) % Slots] = log[i]
  BY <1>2 DEF Keeps
<1>4. Recall(log, version) = log[i]
  BY DEF Recall
<1> QED
  BY <1>3, <1>4

\* A new ring of the kernel recalls nothing, and a value recorded in a ring
\* that holds a log makes it hold the log that ends with that value.
THEOREM KernelRingHolds ==
    /\ KernelHolds(KernelNew, <<>>)
    /\ \A h, log : \A v \in Tv :
        KernelHolds(h, log) => KernelHolds(KernelRecord(h, v), Append(log, v))
<1>1. KernelHolds(KernelNew, <<>>)
  BY AbsentAssumption, SlotsAssumption DEF KernelHolds, KernelNew, Keeps, EmptyRing
<1>2. ASSUME NEW h, NEW log, NEW v \in Tv, KernelHolds(h, log)
      PROVE  KernelHolds(KernelRecord(h, v), Append(log, v))
  <2>1. log \in Seq(Tv) /\ h.count = Len(log) /\ Keeps(h.ring, log)
    BY <1>2 DEF KernelHolds
  <2>2. /\ Append(log, v) \in Seq(Tv)
        /\ Len(Append(log, v)) = Len(log) + 1
        /\ Keeps([h.ring EXCEPT ![Len(log) % Slots] = v], Append(log, v))
    BY <2>1, NextValue
  <2> QED
    BY <2>1, <2>2 DEF KernelHolds, KernelRecord
<1> QED
  BY <1>1, <1>2

\* The same of the bridge's ring, whose head and count do not grow.
THEOREM BridgeRingHolds ==
    /\ BridgeHolds(BridgeNew, <<>>)
    /\ \A h, log : \A v \in Tv :
        BridgeHolds(h, log) => BridgeHolds(BridgeRecord(h, v), Append(log, v))
<1>1. BridgeHolds(BridgeNew, <<>>)
  <2>1. (Slots * 0 + 0) % Slots = 0
    BY RemainderOfSum, SlotsAssumption
  <2>2. 0 % Slots = 0
    BY <2>1, SlotsAssumption
  <2> QED
    BY <2>2, AbsentAssumption, SlotsAssumption DEF BridgeHolds, BridgeNew, Keeps, EmptyRing
<1>2. ASSUME NEW h, NEW log, NEW v \in Tv, BridgeHolds(h, log)
      PROVE  BridgeHolds(BridgeRecord(h, v), Append(log, v))
  <2>1. /\ log \in Seq(Tv) /\ Len(log) \in Nat /\ Keeps(h.ring, log)
        /\ h.count = (IF Len(log) < Slots THEN Len(log) ELSE Slots)
        /\ h.head = Len(log) % Slots
    BY <1>2, LenProperties DEF BridgeHolds
  <2>2. /\ Append(log, v) \in Seq(Tv)
        /\ Len(Append(log, v)) = Len(log) + 1
        /\ Keeps([h.ring EXCEPT ![Len(log) % Slots] = v], Append(log, v))
    BY <2>1, NextValue
  <2>3. ((Len(log) % Slots) + 1) % Slots = (Len(log) + 1) % Slots
    BY <2>1, NextPlace
  <2>4. BridgeRecord(h, v).count =
            IF Len(log) + 1 < Slots THEN Len(log) + 1 ELSE Slots
    BY <2>1, SlotsAssumption DEF BridgeRecord
  <2>5. BridgeRecord(h, v).head = (Len(log) + 1) % Slots
    BY <2>1, <2>3 DEF BridgeRecord
  <2>6. BridgeRecord(h, v).ring = [h.ring EXCEPT ![Len(log) % Slots] = v]
    BY <2>1 DEF BridgeRecord
  <2> QED
    BY <2>2, <2>4, <2>5, <2>6 DEF BridgeHolds
<1> QED
  BY <1>1, <1>2

\* cogdiod_get_tv_history answers with the version of the log that the ring
\* holds, and refuses exactly the versions that there are not.
THEOREM KernelRecalls ==
    \A h, log : \A version \in Int :
        KernelHolds(h, log) => KernelVersion(h, version) = Recall(log, version)
<1> SUFFICES ASSUME NEW h, NEW log, NEW version \in Int, KernelHolds(h, log)
             PROVE  KernelVersion(h, version) = Recall(log, version)
  OBVIOUS
<1>1. log \in Seq(Tv) /\ Len(log) \in Nat /\ h.count = Len(log) /\ Keeps(h.ring, log)
  BY LenProperties DEF KernelHolds
<1>2. CASE version \in 0 .. Slots - 1 /\ version < Len(log)
  <2>1. LET first == IF Len(log) > Slots THEN Len(log) - Slots ELSE 0
        IN h.ring[(first + version) % Slots] = Recall(log, version)
    BY <1>1, <1>2, VersionOf
  <2>2. ~ (version < 0 \/ version >= h.count \/ version >= Slots)
    BY <1>1, <1>2, SlotsAssumption
  <2> QED
    BY <2>1, <2>2, <1>1 DEF KernelVersion
<1>3. CASE ~ (version \in 0 .. Slots - 1 /\ version < Len(log))
  <2>1. version < 0 \/ version >= h.count \/ version >= Slots
    BY <1>1, <1>3, SlotsAssumption
  <2> QED
    BY <2>1, <1>3 DEF KernelVersion, Recall
<1> QED
  BY <1>2, <1>3

\* The "episodic" request of the bridge does the same, though it finds the
\* place from the head backwards.
THEOREM BridgeRecalls ==
    \A h, log : \A version \in Int :
        BridgeHolds(h, log) => BridgeVersion(h, version) = Recall(log, version)
<1> SUFFICES ASSUME NEW h, NEW log, NEW version \in Int, BridgeHolds(h, log)
             PROVE  BridgeVersion(h, version) = Recall(log, version)
  OBVIOUS
<1>1. /\ log \in Seq(Tv) /\ Len(log) \in Nat /\ Keeps(h.ring, log)
      /\ h.count = (IF Len(log) < Slots THEN Len(log) ELSE Slots)
      /\ h.head = Len(log) % Slots
  BY LenProperties DEF BridgeHolds
<1>2. CASE version \in 0 .. Slots - 1 /\ version < Len(log)
  <2> DEFINE n == Len(log)
             first == IF n > Slots THEN n - Slots ELSE 0
             there == h.head - h.count + version + Slots * 2
             turns == n \div Slots
             head == h.head
             count == h.count
  <2>1. h.ring[(first + version) % Slots] = Recall(log, version)
    BY <1>1, <1>2, VersionOf
  <2>2. n = Slots * turns + head /\ turns \in Nat /\ head \in 0 .. Slots - 1
    BY <1>1, SlotsAssumption
  <2>3. /\ first = n - count /\ first \in Nat /\ count \in Nat /\ count <= Slots
        /\ n \in Nat /\ version \in Nat
    <3>1. n \in Nat /\ version \in Nat /\ count = (IF n < Slots THEN n ELSE Slots)
      BY <1>1, <1>2, SlotsAssumption
    <3> HIDE DEF n, count
    <3>2. CASE n > Slots
      BY <3>1, <3>2, SlotsAssumption
    <3>3. CASE ~ n > Slots
      BY <3>1, <3>3, SlotsAssumption
    <3> QED
      BY <3>2, <3>3
  <2>4. there = head - count + version + Slots * 2
    OBVIOUS
  <2>5. there \in Nat
    <3> HIDE DEF n, first, there, turns, head, count
    <3> QED
      BY <2>2, <2>3, <2>4, SlotsAssumption
  <2>6. (first + version) + Slots * 2 = there + Slots * turns
    <3> DEFINE x == Slots * turns
               y == Slots * 2
    <3>1. x \in Nat /\ y \in Nat /\ n = x + head /\ there = head - count + version + y
      BY <2>2, <2>4, SlotsAssumption
    <3> HIDE DEF x, y, n, there, head, count, first
    <3>2. first + version + y = there + x
      BY <3>1, <2>2, <2>3, <1>2, SlotsAssumption
    <3> QED
      BY <3>2 DEF x, y
  <2>7. first + version \in Nat /\ (first + version) + Slots * 2 \in Nat
    <3> HIDE DEF n, first, there, turns, head, count
    <3> QED
      BY <2>3, SlotsAssumption
  <2> HIDE DEF first, there, turns, n, head, count
  <2>8. ((first + version) + Slots * 2) % Slots = (first + version) % Slots
    BY <2>7, WholeTurns
  <2>9. ((first + version) + Slots * 2) % Slots = there % Slots
    BY <2>2, <2>5, <2>6, <2>7, WholeTurns
  <2>10. h.ring[there % Slots] = Recall(log, version)
    BY <2>1, <2>8, <2>9
  <2> QED
    BY <2>10, <1>1, <1>2, SlotsAssumption DEF BridgeVersion, there
<1>3. CASE ~ (version \in 0 .. Slots - 1 /\ version < Len(log))
  <2>1. h.count = 0 \/ version < 0 \/ version >= h.count
    BY <1>1, <1>3, SlotsAssumption
  <2> QED
    BY <2>1, <1>3 DEF BridgeVersion, Recall
<1> QED
  BY <1>2, <1>3

-----------------------------------------------------------------------------

\* A sequence and one more element.
LEMMA Elements ==
    ASSUME NEW S, NEW s \in Seq(S)
    PROVE  /\ Len(s) \in Nat /\ DOMAIN s = 1 .. Len(s)
           /\ \A i \in DOMAIN s : s[i] \in S
BY LenProperties, ElementOfSeq

LEMMA Appended ==
    ASSUME NEW S, NEW s \in Seq(S), NEW x \in S
    PROVE  /\ Append(s, x) \in Seq(S)
           /\ Len(Append(s, x)) = Len(s) + 1
           /\ DOMAIN Append(s, x) = 1 .. Len(s) + 1
           /\ Append(s, x)[Len(s) + 1] = x
           /\ \A i \in 1 .. Len(s) : Append(s, x)[i] = s[i]
BY AppendProperties, Elements

LEMMA Changed ==
    ASSUME NEW S, NEW s \in Seq(S), NEW i \in DOMAIN s, NEW x \in S
    PROVE  /\ [s EXCEPT ![i] = x] \in Seq(S)
           /\ Len([s EXCEPT ![i] = x]) = Len(s)
           /\ DOMAIN [s EXCEPT ![i] = x] = DOMAIN s
           /\ \A j \in DOMAIN s : [s EXCEPT ![i] = x][j] = IF j = i THEN x ELSE s[j]
BY ExceptSeq, Elements

LEMMA Rebuilt ==
    ASSUME NEW S, NEW n \in Nat, NEW f \in [1 .. n -> S]
    PROVE  f \in Seq(S) /\ Len(f) = n
<1>1. f \in Seq(S)
  BY SeqDef
<1>2. Len(f) \in Nat /\ 1 .. Len(f) = 1 .. n
  BY <1>1, Elements
<1> QED
  BY <1>1, <1>2

-----------------------------------------------------------------------------
(* The line transport. *)

LineShape ==
    /\ asked \in [Client -> 0 .. MaxRequests]
    /\ received \in [Client -> 0 .. MaxRequests]
    /\ line \in [Client -> 0 .. MaxRequests]
    /\ answers \in [Client -> Seq(1 .. MaxRequests)]

\* What has been answered was received, before what is being handled, and was
\* answered in order.
LineOrder(c) ==
    /\ received[c] <= asked[c]
    /\ line[c] <= received[c]
    /\ \A i \in DOMAIN answers[c] :
        /\ answers[c][i] <= received[c]
        /\ line[c] # 0 => answers[c][i] < line[c]
    /\ \A i, j \in DOMAIN answers[c] : i < j => answers[c][i] < answers[c][j]

LineInv == LineShape /\ \A c \in Client : LineOrder(c)

LineStep(c) == Ask(c) \/ Receive(c) \/ PassOver(c) \/ \E said : Answer(c, said)

LEMMA LineInitInv == LineInit => LineInv
BY ClientsAssumption, EmptySeq DEF LineInit, LineInv, LineShape, LineOrder

LEMMA LineStepInv ==
    ASSUME LineInv, NEW c \in Client, LineStep(c)
    PROVE  LineInv'
<1>1. CASE Ask(c)
  BY <1>1, ClientsAssumption DEF LineInv, LineShape, LineOrder, Ask
<1>2. CASE Receive(c)
  <2>1. PICK upto \in received[c] + 1 .. asked[c] :
            received' = [received EXCEPT ![c] = upto]
    BY <1>2 DEF Receive
  <2>2. upto \in 0 .. MaxRequests /\ received[c] + 1 \in 0 .. MaxRequests
    BY <2>1, ClientsAssumption DEF LineInv, LineShape
  <2>3. LineShape'
    BY <1>2, <2>1, <2>2 DEF LineInv, LineShape, Receive
  <2>4. ASSUME NEW d \in Client PROVE LineOrder(d)'
    <3>1. CASE d = c
      <4>1. /\ answers'[d] = answers[d] /\ line'[d] = received[d] + 1
            /\ received'[d] = upto /\ asked'[d] = asked[d] /\ received[d] \in Nat
            /\ asked[d] \in Nat /\ answers[d] \in Seq(1 .. MaxRequests)
        BY <1>2, <2>1, <3>1 DEF Receive, LineInv, LineShape
      <4>2. \A i \in DOMAIN answers[d] : answers[d][i] \in Nat
        <5>1. \A i \in DOMAIN answers[d] : answers[d][i] \in 1 .. MaxRequests
          BY <4>1, Elements
        <5> QED
          BY <5>1, ClientsAssumption
      <4> QED
        BY <4>1, <4>2, <2>1, <2>2, <3>1 DEF LineInv, LineOrder
    <3>2. CASE d # c
      BY <1>2, <2>1, <3>2 DEF LineInv, LineShape, LineOrder, Receive
    <3> QED
      BY <3>1, <3>2
  <2> QED
    BY <2>3, <2>4 DEF LineInv
<1>3. CASE PassOver(c)
  BY <1>3, ClientsAssumption DEF LineInv, LineShape, LineOrder, PassOver
<1>4. ASSUME NEW said, Answer(c, said) PROVE LineInv'
  <2>1. line[c] \in 1 .. MaxRequests
    BY <1>4, ClientsAssumption DEF LineInv, LineShape, Answer
  <2>2. LineShape'
    BY <1>4, <2>1, AppendProperties, ClientsAssumption DEF LineInv, LineShape, Answer
  <2>3. ASSUME NEW d \in Client PROVE LineOrder(d)'
    <3>1. CASE d = c
      <4> DEFINE s == answers[c]
                 new == Append(s, line[c])
      <4>1. s \in Seq(1 .. MaxRequests) /\ Len(s) \in Nat /\ DOMAIN s = 1 .. Len(s)
        BY LenProperties DEF LineInv, LineShape
      <4>2. /\ DOMAIN new = 1 .. Len(s) + 1
            /\ new[Len(s) + 1] = line[c]
            /\ \A i \in 1 .. Len(s) : new[i] = s[i] /\ s[i] \in 1 .. MaxRequests
        <5>1. \A i \in 1 .. Len(s) : s[i] \in 1 .. MaxRequests
          BY <4>1, Elements
        <5> QED
          BY <4>1, <5>1, <2>1, Appended
      <4>3. /\ answers'[c] = new /\ line'[c] = 0 /\ received'[c] = received[c]
            /\ asked'[c] = asked[c] /\ received[c] \in Nat /\ asked[c] \in Nat
        BY <1>4 DEF Answer, LineInv, LineShape
      <4>4. /\ \A i \in 1 .. Len(s) : s[i] < line[c] /\ s[i] <= received[c]
            /\ line[c] <= received[c] /\ received[c] <= asked[c]
            /\ \A i, j \in 1 .. Len(s) : i < j => s[i] < s[j]
        BY <4>1, <2>1 DEF LineInv, LineOrder
      <4> HIDE DEF s, new
      <4>5. \A i \in DOMAIN new : new[i] <= received[c]
        BY <4>1, <4>2, <4>4
      <4>6. \A i, j \in DOMAIN new : i < j => new[i] < new[j]
        BY <4>1, <4>2, <4>4
      <4> QED
        BY <3>1, <4>3, <4>4, <4>5, <4>6 DEF LineOrder
    <3>2. CASE d # c
      BY <1>4, <3>2 DEF LineInv, LineShape, LineOrder, Answer
    <3> QED
      BY <3>1, <3>2
  <2> QED
    BY <2>2, <2>3 DEF LineInv
<1> QED
  BY <1>1, <1>2, <1>3, <1>4 DEF LineStep

LEMMA LineSame == ASSUME LineInv, UNCHANGED lineVars PROVE LineInv'
BY DEF LineInv, LineShape, LineOrder, lineVars

LEMMA LineInvOK == LineInv => LineTypeOK /\ AnswersInOrder
<1> SUFFICES ASSUME LineInv PROVE LineTypeOK /\ AnswersInOrder
  OBVIOUS
<1>1. LineTypeOK
  BY DEF LineInv, LineShape, LineTypeOK
<1>2. ASSUME NEW c \in Client, NEW i \in DOMAIN answers[c]
      PROVE  answers[c][i] \in 1 .. asked[c]
  <2>1. answers[c] \in Seq(1 .. MaxRequests) /\ asked[c] \in Nat /\ received[c] \in Nat
    BY DEF LineInv, LineShape
  <2>2. answers[c][i] \in 1 .. MaxRequests
    BY <2>1, <1>2, ElementOfSeq, LenProperties
  <2> QED
    BY <2>1, <2>2, ClientsAssumption DEF LineInv, LineOrder
<1> QED
  BY <1>1, <1>2 DEF LineInv, LineOrder, AnswersInOrder

-----------------------------------------------------------------------------
(* The bridge. *)

BridgeRing == [ring : [0 .. Slots - 1 -> Tv], head : 0 .. Slots - 1, count : Nat]

AtomShape ==
    [alive : BOOLEAN, type : AtomType, tv : Tv, sti : -MaxSti .. MaxSti,
     links : Seq(Uuids), hist : BridgeRing]

\* The ring of every atom holds what requests overwrote.
BridgeInv ==
    /\ atoms \in Seq(AtomShape) /\ Len(atoms) <= MaxAtoms
    /\ overwritten \in Seq(Seq(Tv)) /\ Len(overwritten) = Len(atoms)
    /\ \A u \in DOMAIN atoms :
        Len(atoms[u].links) <= MaxLinks /\ BridgeHolds(atoms[u].hist, overwritten[u])

LEMMA BridgeInitInv == BridgeInit => BridgeInv
<1> SUFFICES ASSUME BridgeInit PROVE BridgeInv
  OBVIOUS
<1>1. <<>> \in Seq(AtomShape) /\ <<>> \in Seq(Seq(Tv)) /\ Len(<<>>) = 0
  BY EmptySeq
<1>2. DOMAIN <<>> = {}
  BY <1>1, Elements
<1> QED
  BY <1>1, <1>2, BridgeAssumption DEF BridgeInit, BridgeInv

LEMMA BridgeInvOK == BridgeInv => BridgeTypeOK /\ EpisodicRecallsLast
<1> SUFFICES ASSUME BridgeInv PROVE BridgeTypeOK /\ EpisodicRecallsLast
  OBVIOUS
<1>1. DOMAIN overwritten = DOMAIN atoms
  BY Elements DEF BridgeInv
<1>2. ASSUME NEW u \in DOMAIN atoms
      PROVE  /\ atoms[u] \in AtomShape
             /\ \A i \in DOMAIN atoms[u].links : atoms[u].links[i] \in Uuids
  <2>1. atoms[u] \in AtomShape
    BY Elements DEF BridgeInv
  <2>2. atoms[u].links \in Seq(Uuids)
    BY <2>1 DEF AtomShape
  <2> QED
    BY <2>1, <2>2, Elements
<1>3. BridgeTypeOK
  BY <1>1, <1>2 DEF BridgeInv, BridgeTypeOK, AtomShape
<1>4. EpisodicRecallsLast
  BY BridgeRecalls, SlotsAssumption DEF EpisodicRecallsLast, BridgeInv
<1> QED
  BY <1>3, <1>4

LEMMA BridgeSame == ASSUME BridgeInv, UNCHANGED bridgeVars PROVE BridgeInv'
BY DEF BridgeInv, bridgeVars, BridgeHolds, Keeps

\* Saving a value keeps the shape of an atom.
LEMMA RingShape ==
    ASSUME NEW h \in BridgeRing, NEW tv \in Tv
    PROVE  BridgeRecord(h, tv) \in BridgeRing
<1>1. h.ring \in [0 .. Slots - 1 -> Tv] /\ h.head \in 0 .. Slots - 1 /\ h.count \in Nat
  BY DEF BridgeRing
<1>2. (h.head + 1) % Slots \in 0 .. Slots - 1
  <2>1. h.head + 1 \in Int
    BY <1>1
  <2> QED
    BY <2>1, Remainder, Zenon
<1>3. [h.ring EXCEPT ![h.head] = tv] \in [0 .. Slots - 1 -> Tv]
  BY <1>1
<1>4. (IF h.count < Slots THEN h.count + 1 ELSE Slots) \in Nat
  BY <1>1, SlotsAssumption
<1> QED
  BY <1>2, <1>3, <1>4 DEF BridgeRing, BridgeRecord

LEMMA WithHistoryShape ==
    ASSUME NEW a \in AtomShape
    PROVE  /\ WithHistory(a) \in AtomShape
           /\ WithHistory(a).hist = BridgeRecord(a.hist, a.tv)
           /\ WithHistory(a).links = a.links
<1>1. a.hist \in BridgeRing /\ a.tv \in Tv
  BY DEF AtomShape
<1>2. BridgeRecord(a.hist, a.tv) \in BridgeRing
  BY <1>1, RingShape
<1> QED
  BY <1>2 DEF AtomShape, WithHistory

\* A request that changes one atom, with its history or without.
LEMMA OneAtomChanges ==
    ASSUME BridgeInv, NEW u \in DOMAIN atoms, NEW new \in AtomShape,
           Len(new.links) <= MaxLinks,
           atoms' = [atoms EXCEPT ![u] = new],
           \/ UNCHANGED overwritten /\ new.hist = atoms[u].hist
           \/ Logged(u) /\ new.hist = BridgeRecord(atoms[u].hist, atoms[u].tv)
    PROVE  BridgeInv'
<1>1. /\ atoms' \in Seq(AtomShape) /\ Len(atoms') = Len(atoms)
      /\ DOMAIN atoms' = DOMAIN atoms
      /\ \A v \in DOMAIN atoms : atoms'[v] = IF v = u THEN new ELSE atoms[v]
  BY Changed DEF BridgeInv
<1>2. DOMAIN overwritten = DOMAIN atoms /\ atoms[u] \in AtomShape /\ overwritten[u] \in Seq(Tv)
  BY Elements DEF BridgeInv
<1>3. CASE UNCHANGED overwritten /\ new.hist = atoms[u].hist
  BY <1>1, <1>3 DEF BridgeInv, BridgeHolds, Keeps
<1>4. CASE Logged(u) /\ new.hist = BridgeRecord(atoms[u].hist, atoms[u].tv)
  <2> DEFINE log == Append(overwritten[u], atoms[u].tv)
  <2>1. atoms[u].tv \in Tv
    BY <1>2 DEF AtomShape
  <2>2. log \in Seq(Tv)
    BY <1>2, <2>1, Appended
  <2>3. BridgeHolds(new.hist, log)
    BY <1>4, <2>1, BridgeRingHolds DEF BridgeInv
  <2> HIDE DEF log
  <2>4. overwritten' = [overwritten EXCEPT ![u] = log]
    BY <1>4 DEF Logged, log
  <2>5. /\ overwritten' \in Seq(Seq(Tv)) /\ Len(overwritten') = Len(overwritten)
        /\ \A v \in DOMAIN atoms : overwritten'[v] = IF v = u THEN log ELSE overwritten[v]
    BY <1>2, <2>2, <2>4, Changed DEF BridgeInv
  <2>6. ASSUME NEW v \in DOMAIN atoms'
        PROVE  Len(atoms'[v].links) <= MaxLinks /\ BridgeHolds(atoms'[v].hist, overwritten'[v])
    BY <1>1, <2>3, <2>5 DEF BridgeInv
  <2> QED
    BY <1>1, <2>5, <2>6 DEF BridgeInv, BridgeHolds, Keeps
<1> QED
  BY <1>3, <1>4

LEMMA SpawnInv ==
    ASSUME BridgeInv, NEW c \in Client, NEW type \in AtomType, NEW tv \in Tv,
           BridgeSpawn(c, type, tv)
    PROVE  BridgeInv'
<1>1. CASE UNCHANGED bridgeVars
  BY <1>1, BridgeSame
<1>2. CASE /\ Len(atoms) < MaxAtoms
           /\ atoms' = Append(atoms, Spawned(type, tv))
           /\ overwritten' = Append(overwritten, <<tv>>)
  <2> DEFINE new == Spawned(type, tv)
             n == Len(atoms)
  <2>1. BridgeNew \in BridgeRing
    BY SlotsAssumption, AbsentAssumption DEF BridgeNew, BridgeRing, EmptyRing
  <2>2. BridgeRecord(BridgeNew, tv) \in BridgeRing
    BY <2>1, RingShape
  <2>3. <<>> \in Seq(Uuids) /\ Len(<<>>) = 0 /\ <<>> \in Seq(Tv)
    BY EmptySeq
  <2>4. 0 \in -MaxSti .. MaxSti
    BY BridgeAssumption
  <2>5. new \in AtomShape /\ Len(new.links) <= MaxLinks /\ new.hist = BridgeRecord(BridgeNew, tv)
    BY <2>2, <2>3, <2>4, BridgeAssumption DEF Spawned, AtomShape
  <2>6. <<tv>> = Append(<<>>, tv) /\ <<tv>> \in Seq(Tv)
    OBVIOUS
  <2>7. BridgeHolds(new.hist, <<tv>>)
    BY <2>5, <2>6, BridgeRingHolds
  <2> HIDE DEF new, n
  <2>8. /\ atoms \in Seq(AtomShape) /\ n \in Nat /\ DOMAIN atoms = 1 .. n
        /\ overwritten \in Seq(Seq(Tv)) /\ Len(overwritten) = n
    BY Elements DEF BridgeInv, n
  <2>9. /\ atoms' \in Seq(AtomShape) /\ Len(atoms') = n + 1
        /\ DOMAIN atoms' = 1 .. n + 1 /\ atoms'[n + 1] = new
        /\ \A u \in 1 .. n : atoms'[u] = atoms[u]
    BY <1>2, <2>5, <2>8, Appended DEF n, new
  <2>10. /\ overwritten' \in Seq(Seq(Tv)) /\ Len(overwritten') = n + 1
         /\ overwritten'[n + 1] = <<tv>>
         /\ \A u \in 1 .. n : overwritten'[u] = overwritten[u]
    BY <1>2, <2>6, <2>8, Appended
  <2>11. ASSUME NEW u \in 1 .. n + 1
         PROVE  Len(atoms'[u].links) <= MaxLinks /\ BridgeHolds(atoms'[u].hist, overwritten'[u])
    <3>1. CASE u = n + 1
      BY <3>1, <2>5, <2>7, <2>9, <2>10
    <3>2. CASE u \in 1 .. n
      BY <3>2, <2>8, <2>9, <2>10 DEF BridgeInv
    <3> QED
      BY <3>1, <3>2, <2>8
  <2>12. Len(atoms') <= MaxAtoms
    BY <1>2, <2>8, <2>9, BridgeAssumption DEF n
  <2> QED
    BY <2>9, <2>10, <2>11, <2>12 DEF BridgeInv, BridgeHolds, Keeps
<1> QED
  BY <1>1, <1>2 DEF BridgeSpawn, Error

LEMMA SetTvInv ==
    ASSUME BridgeInv, NEW c \in Client, NEW u, NEW tv \in Tv, BridgeSetTv(c, u, tv)
    PROVE  BridgeInv'
<1> DEFINE new == [WithHistory(atoms[u]) EXCEPT !.tv = tv]
<1>1. u \in DOMAIN atoms /\ Logged(u) /\ atoms' = [atoms EXCEPT ![u] = new]
  BY DEF BridgeSetTv, Found
<1>2. atoms[u] \in AtomShape /\ Len(atoms[u].links) <= MaxLinks
  BY <1>1, Elements DEF BridgeInv
<1>3. /\ new \in AtomShape /\ new.links = atoms[u].links
      /\ new.hist = BridgeRecord(atoms[u].hist, atoms[u].tv)
  BY <1>2, WithHistoryShape DEF AtomShape
<1> QED
  BY <1>1, <1>2, <1>3, OneAtomChanges

LEMMA LinkInv ==
    ASSUME BridgeInv, NEW c \in Client, NEW from, NEW to \in Uuids, BridgeLink(c, from, to)
    PROVE  BridgeInv'
<1> DEFINE links == Append(atoms[from].links, to)
           new == [atoms[from] EXCEPT !.links = links]
<1>1. CASE UNCHANGED bridgeVars
  BY <1>1, BridgeSame
<1>2. CASE /\ Found(from) /\ Len(atoms[from].links) < MaxLinks
           /\ atoms' = [atoms EXCEPT ![from] = new] /\ UNCHANGED overwritten
  <2>1. from \in DOMAIN atoms /\ atoms[from] \in AtomShape
    BY <1>2, Elements DEF BridgeInv, Found
  <2>2. atoms[from].links \in Seq(Uuids)
    BY <2>1 DEF AtomShape
  <2>3. links \in Seq(Uuids) /\ Len(links) <= MaxLinks
    BY <1>2, <2>2, Elements, Appended, BridgeAssumption
  <2> HIDE DEF links
  <2>4. new \in AtomShape /\ new.links = links /\ new.hist = atoms[from].hist
    BY <2>1, <2>3 DEF AtomShape
  <2> QED
    BY <1>2, <2>1, <2>3, <2>4, OneAtomChanges
<1> QED
  BY <1>1, <1>2 DEF BridgeLink, Error

LEMMA UnlinkInv ==
    ASSUME BridgeInv, NEW c \in Client, NEW from, NEW to, BridgeUnlink(c, from, to)
    PROVE  BridgeInv'
<1>1. CASE UNCHANGED bridgeVars
  BY <1>1, BridgeSame
<1>2. CASE ~ UNCHANGED bridgeVars
  <2> DEFINE links == atoms[from].links
             less(i) == SubSeq(links, 1, i - 1) \o SubSeq(links, i + 1, Len(links))
             new(i) == [atoms[from] EXCEPT !.links = less(i)]
  <2>1. PICK i \in DOMAIN links :
            atoms' = [atoms EXCEPT ![from] = new(i)] /\ UNCHANGED overwritten
    BY <1>2 DEF BridgeUnlink, Error
  <2>2. from \in DOMAIN atoms /\ atoms[from] \in AtomShape /\ Len(links) <= MaxLinks
    BY Elements DEF BridgeInv, BridgeUnlink, Found
  <2>3. links \in Seq(Uuids)
    BY <2>2 DEF AtomShape
  <2>4. Len(links) \in Nat /\ i \in 1 .. Len(links) /\ \A j \in 1 .. Len(links) : links[j] \in Uuids
    BY <2>1, <2>3, Elements
  <2>5. /\ SubSeq(links, 1, i - 1) \in Seq(Uuids) /\ Len(SubSeq(links, 1, i - 1)) = i - 1
        /\ SubSeq(links, i + 1, Len(links)) \in Seq(Uuids)
        /\ Len(SubSeq(links, i + 1, Len(links))) = Len(links) - i
    BY <2>4, SubSeqProperties
  <2>6. less(i) \in Seq(Uuids) /\ Len(less(i)) <= MaxLinks
    <3> DEFINE front == SubSeq(links, 1, i - 1)
               back == SubSeq(links, i + 1, Len(links))
               n == Len(links)
    <3>1. Len(front) = i - 1 /\ Len(back) = n - i /\ n \in Nat /\ i \in 1 .. n /\ n <= MaxLinks
      BY <2>2, <2>4, <2>5
    <3>2. Len(front \o back) = Len(front) + Len(back) /\ front \o back \in Seq(Uuids)
      <4> HIDE DEF front, back
      <4> QED
        BY <2>5, ConcatProperties DEF front, back
    <3> HIDE DEF front, back, n
    <3>3. Len(front \o back) <= MaxLinks
      BY <3>1, <3>2, BridgeAssumption
    <3> QED
      BY <3>2, <3>3 DEF front, back
  <2> HIDE DEF less
  <2>7. new(i) \in AtomShape /\ new(i).links = less(i) /\ new(i).hist = atoms[from].hist
    BY <2>2, <2>6 DEF AtomShape
  <2> QED
    BY <2>1, <2>2, <2>6, <2>7, OneAtomChanges
<1> QED
  BY <1>1, <1>2

LEMMA DestroyInv ==
    ASSUME BridgeInv, NEW c \in Client, NEW u, BridgeDestroy(c, u)
    PROVE  BridgeInv'
<1> DEFINE new == [atoms[u] EXCEPT !.alive = FALSE]
<1>1. u \in DOMAIN atoms /\ atoms' = [atoms EXCEPT ![u] = new] /\ UNCHANGED overwritten
  BY DEF BridgeDestroy, Found
<1>2. atoms[u] \in AtomShape /\ Len(atoms[u].links) <= MaxLinks
  BY <1>1, Elements DEF BridgeInv
<1>3. new \in AtomShape /\ new.links = atoms[u].links /\ new.hist = atoms[u].hist
  BY <1>2 DEF AtomShape
<1> QED
  BY <1>1, <1>2, <1>3, OneAtomChanges

LEMMA AttendInv ==
    ASSUME BridgeInv, NEW c \in Client, NEW u, NEW delta \in Int, BridgeAttend(c, u, delta)
    PROVE  BridgeInv'
<1> DEFINE new == [atoms[u] EXCEPT !.sti = @ + delta]
<1>1. /\ u \in DOMAIN atoms /\ atoms[u].sti + delta \in -MaxSti .. MaxSti
      /\ atoms' = [atoms EXCEPT ![u] = new] /\ UNCHANGED overwritten
  BY DEF BridgeAttend, Found
<1>2. atoms[u] \in AtomShape /\ Len(atoms[u].links) <= MaxLinks
  BY <1>1, Elements DEF BridgeInv
<1>3. new \in AtomShape /\ new.links = atoms[u].links /\ new.hist = atoms[u].hist
  BY <1>1, <1>2 DEF AtomShape
<1> QED
  BY <1>1, <1>2, <1>3, OneAtomChanges

LEMMA RewrittenTv ==
    ASSUME NEW tv \in Tv, NEW new \in Tv, NEW boost \in {0, 2}
    PROVE  (IF boost > 0 THEN Scaled(tv, boost) ELSE Replaced(tv, new)) \in Tv
<1>1. PICK a \in Level, b \in Level : tv = <<a, b>>
  BY BridgeAssumption
<1>2. PICK x \in Level, y \in Level : new = <<x, y>>
  BY BridgeAssumption
<1>3. Replaced(tv, new) \in Level \X Level
  BY <1>1, <1>2 DEF Replaced
<1>4. CASE boost = 2
  <2>1. (IF a * 2 < Top THEN a * 2 ELSE Top) \in Level
    BY <1>1, BridgeAssumption DEF Level
  <2>2. Scaled(tv, 2) = <<IF a * 2 < Top THEN a * 2 ELSE Top, b>>
    BY <1>1 DEF Scaled
  <2> QED
    BY <2>1, <2>2, <1>1, <1>4, BridgeAssumption
<1>5. CASE boost = 0
  BY <1>3, <1>5, BridgeAssumption
<1> QED
  BY <1>4, <1>5

\* A rule changes many atoms at once, each of them with its history.
LEMMA RewriteInv ==
    ASSUME BridgeInv, NEW c \in Client, NEW type \in AtomType, NEW new \in Tv,
           NEW boost \in {0, 2}, BridgeRewrite(c, type, new, boost)
    PROVE  BridgeInv'
<1> DEFINE n == Len(atoms)
           hit(u) == atoms[u].alive /\ atoms[u].type = type
           next(tv) == IF boost > 0 THEN Scaled(tv, boost) ELSE Replaced(tv, new)
           changed(u) == [WithHistory(atoms[u]) EXCEPT !.tv = next(@)]
           log(u) == Append(overwritten[u], atoms[u].tv)
<1>1. /\ n \in Nat /\ DOMAIN atoms = 1 .. n /\ n <= MaxAtoms
      /\ \A u \in 1 .. n :
          /\ atoms[u] \in AtomShape /\ overwritten[u] \in Seq(Tv)
          /\ Len(atoms[u].links) <= MaxLinks /\ BridgeHolds(atoms[u].hist, overwritten[u])
  BY Elements DEF BridgeInv
<1>2. /\ atoms' = [u \in 1 .. n |-> IF hit(u) THEN changed(u) ELSE atoms[u]]
      /\ overwritten' = [u \in 1 .. n |-> IF hit(u) THEN log(u) ELSE overwritten[u]]
  BY <1>1, Zenon DEF BridgeRewrite
<1>3. ASSUME NEW u \in 1 .. n
      PROVE  /\ changed(u) \in AtomShape /\ log(u) \in Seq(Tv)
             /\ Len(changed(u).links) <= MaxLinks
             /\ BridgeHolds(changed(u).hist, log(u))
  <2> DEFINE saved == WithHistory(atoms[u])
             tv == next(saved.tv)
  <2>1. atoms[u].tv \in Tv
    BY <1>1 DEF AtomShape
  <2>2. /\ saved \in AtomShape /\ saved.hist = BridgeRecord(atoms[u].hist, atoms[u].tv)
        /\ saved.links = atoms[u].links
    BY <1>1, WithHistoryShape
  <2>3. log(u) \in Seq(Tv) /\ BridgeHolds(saved.hist, log(u))
    BY <1>1, <2>1, <2>2, Appended, BridgeRingHolds
  <2>4. saved.tv \in Tv
    BY <2>2 DEF AtomShape
  <2>5. tv \in Tv
    BY <2>4, RewrittenTv
  <2>6. changed(u) = [saved EXCEPT !.tv = tv]
    OBVIOUS
  <2> HIDE DEF saved, tv, changed, log
  <2>7. /\ changed(u) \in AtomShape /\ changed(u).links = saved.links
        /\ changed(u).hist = saved.hist
    BY <2>2, <2>5, <2>6 DEF AtomShape
  <2> QED
    BY <1>1, <2>2, <2>3, <2>7
<1> HIDE DEF n, hit, changed, log
<1>4. /\ atoms' \in [1 .. n -> AtomShape] /\ overwritten' \in [1 .. n -> Seq(Tv)]
      /\ \A u \in 1 .. n :
          Len(atoms'[u].links) <= MaxLinks /\ BridgeHolds(atoms'[u].hist, overwritten'[u])
  BY <1>1, <1>2, <1>3
<1>5. /\ atoms' \in Seq(AtomShape) /\ Len(atoms') = n
      /\ overwritten' \in Seq(Seq(Tv)) /\ Len(overwritten') = n
  BY <1>1, <1>4, Rebuilt
<1> QED
  BY <1>1, <1>4, <1>5 DEF BridgeInv, BridgeHolds, Keeps

LEMMA BridgeStepInv ==
    ASSUME LineInv, BridgeInv, NEW c \in Client, BridgeConnection(c)
    PROVE  LineInv' /\ BridgeInv'
<1>1. LineStep(c)
  <2>1. ASSUME BridgeHandle(c) PROVE \E said : Answer(c, said)
    <3>1. ASSUME BridgeOverview(c) \/ (\E us : BridgeRead(c, us))
                   \/ (\E type, tv : BridgeSpawn(c, type, tv)) \/ (\E u : BridgeMissing(c, u))
          PROVE  \E said : Answer(c, said)
      BY <3>1 DEF BridgeOverview, BridgeRead, BridgeSpawn, BridgeMissing, Error
    <3>2. ASSUME \E u, v : BridgeSetTv(c, u, v) \/ BridgeDestroy(c, u) \/ BridgeAttend(c, u, v)
                             \/ BridgeEpisodic(c, u, v)
          PROVE  \E said : Answer(c, said)
      BY <3>2 DEF BridgeSetTv, BridgeDestroy, BridgeAttend, BridgeEpisodic
    <3>3. ASSUME \E u, v : BridgeLink(c, u, v) \/ BridgeUnlink(c, u, v)
          PROVE  \E said : Answer(c, said)
      BY <3>3 DEF BridgeLink, BridgeUnlink, Error
    <3>4. ASSUME BridgeGetLinks(c) \/ \E type, new, boost : BridgeRewrite(c, type, new, boost)
          PROVE  \E said : Answer(c, said)
      BY <3>4 DEF BridgeGetLinks, BridgeRewrite
    <3> QED
      BY <2>1, <3>1, <3>2, <3>3, <3>4 DEF BridgeHandle
  <2> QED
    BY <2>1 DEF BridgeConnection, LineStep
<1>2. BridgeInv'
  <2>1. CASE UNCHANGED bridgeVars
    BY <2>1, BridgeSame
  <2>2. CASE \E type \in AtomType, tv \in Tv : BridgeSpawn(c, type, tv)
    BY <2>2, SpawnInv
  <2>3. CASE \E u \in Uuids, tv \in Tv : BridgeSetTv(c, u, tv)
    BY <2>3, SetTvInv
  <2>4. CASE \E u, v \in Uuids : BridgeLink(c, u, v) \/ BridgeUnlink(c, u, v)
    BY <2>4, LinkInv, UnlinkInv
  <2>5. CASE \E u \in Uuids : BridgeDestroy(c, u) \/ BridgeAttend(c, u, 1)
    BY <2>5, DestroyInv, AttendInv
  <2>6. CASE \E type \in AtomType, new \in Tv, boost \in {0, 2} : BridgeRewrite(c, type, new, boost)
    BY <2>6, RewriteInv
  <2> QED
    BY <2>1, <2>2, <2>3, <2>4, <2>5, <2>6 DEF BridgeConnection, BridgeHandle, BridgeOverview,
       BridgeGetLinks, BridgeRead, BridgeMissing, BridgeEpisodic, Error
<1> QED
  BY <1>1, <1>2, LineStepInv

-----------------------------------------------------------------------------
(* DisTyx. *)

KernelRing == [ring : [0 .. Slots - 1 -> Tv], count : Nat]

\* An atom of the kernel while uuids below upto have been given out.
KernelAtom(a, upto) ==
    /\ a \in [tv : Tv, hist : KernelRing, out : Seq(1 .. upto - 1)]
    /\ Len(a.out) <= MaxOut

\* The ring of an atom holds what set_tv was given.
Remembers(a, log) == KernelHolds(a.hist, log)

DisTyxInv ==
    /\ nextUuid \in 1 .. MaxUuid + 1 /\ calls \in 0 .. MaxCalls
    /\ There \subseteq 1 .. nextUuid - 1 /\ DOMAIN recorded = There
    /\ \A u \in There : KernelAtom(kernel[u], nextUuid) /\ Remembers(kernel[u], recorded[u])

LEMMA DisTyxInitInv == DisTyxInit => DisTyxInv
<1> SUFFICES ASSUME DisTyxInit PROVE DisTyxInv
  OBVIOUS
<1>1. DOMAIN <<>> = {}
  OBVIOUS
<1> QED
  BY <1>1, DisTyxAssumption DEF DisTyxInit, DisTyxInv, There

LEMMA DisTyxInvOK == DisTyxInv => DisTyxTypeOK /\ HistoryRecallsLast
<1> SUFFICES ASSUME DisTyxInv PROVE DisTyxTypeOK /\ HistoryRecallsLast
  OBVIOUS
<1>1. DisTyxTypeOK
  <2>1. ASSUME NEW u \in There, NEW i \in DOMAIN kernel[u].out
        PROVE  kernel[u].out[i] \in 1 .. nextUuid - 1
    BY Elements DEF DisTyxInv, KernelAtom
  <2> QED
    BY <2>1 DEF DisTyxInv, DisTyxTypeOK, KernelAtom
<1>2. ASSUME NEW u \in There, NEW version \in Int
      PROVE  KernelVersion(kernel[u].hist, version) = Recall(recorded[u], version)
  BY KernelRecalls DEF DisTyxInv, Remembers
<1> QED
  BY <1>1, <1>2, SlotsAssumption DEF HistoryRecallsLast

\* What is written of a list so far, with one uuid more.
Started == [pos |-> 1, uuids |-> <<>>, cut |-> FALSE]
PutIn(s, u) ==
    LET next == s.pos + (IF s.uuids = <<>> THEN 0 ELSE 1) + Width(u)
    IN IF s.cut \/ next >= Room
       THEN [s EXCEPT !.cut = TRUE]
       ELSE [s EXCEPT !.pos = next, !.uuids = Append(@, u)]

\* FoldLeft of the library goes by the sets of positions: g[s] is what is written
\* of the elements at the positions in s.
Folded(us, g, S) ==
    g = [s \in SUBSET S |-> IF s = {} THEN Started ELSE PutIn(g[s \ {Max(s)}], us[Max(s)])]

LEMMA LargestOf ==
    ASSUME NEW k \in Nat, NEW s \in SUBSET (1 .. k + 1), s # {}
    PROVE  /\ k + 1 \in s => Max(s) = k + 1
           /\ k + 1 \notin s => s \subseteq 1 .. k
<1>1. ASSUME k + 1 \in s PROVE Max(s) = k + 1
  <2>1. \A y \in s : y \in Int /\ k + 1 >= y
    OBVIOUS
  <2>2. \A x \in s : (\A y \in s : x >= y) => x = k + 1
    BY <1>1, <2>1
  <2> QED BY <1>1, <2>1, <2>2 DEF Max
<1>2. ASSUME k + 1 \notin s PROVE s \subseteq 1 .. k
  BY <1>2
<1> QED BY <1>1, <1>2

\* There is such a function, whatever the list.
LEMMA FoldExists ==
    ASSUME NEW us, NEW n \in Nat PROVE \E g : Folded(us, g, 1 .. n)
<1> DEFINE T == {k \in 0 .. n : \E g : Folded(us, g, 1 .. k)}
<1>1. 0 \in T
  <2> DEFINE g == [s \in SUBSET (1 .. 0) |-> Started]
  <2>1. \A s \in SUBSET (1 .. 0) : s = {}
    OBVIOUS
  <2>2. Folded(us, g, 1 .. 0)
    <3>1. \A s \in SUBSET (1 .. 0) :
             g[s] = IF s = {} THEN Started ELSE PutIn(g[s \ {Max(s)}], us[Max(s)])
      BY <2>1
    <3> QED BY <3>1 DEF Folded
  <2> QED BY <2>2
<1>2. ASSUME NEW k \in 0 .. n - 1, k \in T PROVE k + 1 \in T
  <2>1. PICK g : Folded(us, g, 1 .. k)
    BY <1>2
  <2> DEFINE h == [s \in SUBSET (1 .. k + 1) |->
                     IF k + 1 \in s THEN PutIn(g[s \ {k + 1}], us[k + 1]) ELSE g[s]]
  <2>2. \A s \in SUBSET (1 .. k) : h[s] = g[s]
    <3> SUFFICES ASSUME NEW s \in SUBSET (1 .. k) PROVE h[s] = g[s]
      OBVIOUS
    <3>1. s \in SUBSET (1 .. k + 1) /\ k + 1 \notin s
      OBVIOUS
    <3> QED BY <3>1
  <2>3. ASSUME NEW s \in SUBSET (1 .. k + 1)
        PROVE  h[s] = IF s = {} THEN Started ELSE PutIn(h[s \ {Max(s)}], us[Max(s)])
    <3>1. CASE k + 1 \in s
      <4>1. Max(s) = k + 1 /\ s # {}
        BY <3>1, LargestOf
      <4>2. s \ {k + 1} \in SUBSET (1 .. k)
        OBVIOUS
      <4>3. h[s \ {k + 1}] = g[s \ {k + 1}]
        BY <2>2, <4>2
      <4>4. h[s] = PutIn(g[s \ {k + 1}], us[k + 1])
        BY <3>1
      <4> HIDE DEF h
      <4> QED BY <4>1, <4>3, <4>4
    <3>2. CASE k + 1 \notin s
      <4>1. s \in SUBSET (1 .. k)
        BY <3>2, LargestOf
      <4>2. s \ {Max(s)} \in SUBSET (1 .. k)
        BY <4>1
      <4>3. h[s] = g[s] /\ h[s \ {Max(s)}] = g[s \ {Max(s)}]
        BY <2>2, <4>1, <4>2
      <4>4. g[s] = IF s = {} THEN Started ELSE PutIn(g[s \ {Max(s)}], us[Max(s)])
        BY <2>1, <4>1 DEF Folded
      <4> HIDE DEF h
      <4> QED BY <4>3, <4>4
    <3> QED BY <3>1, <3>2
  <2>4. h = [s \in SUBSET (1 .. k + 1) |-> h[s]]
    OBVIOUS
  <2> HIDE DEF h
  <2>5. Folded(us, h, 1 .. k + 1)
    BY <2>3, <2>4 DEF Folded
  <2> QED BY <2>5
<1> HIDE DEF T
<1>3. n \in T
  BY <1>1, <1>2, UpTo
<1> QED BY <1>3 DEF T

\* So what Written answers is the last value of such a function.
LEMMA WrittenIs ==
    ASSUME NEW us, NEW n \in Nat, DOMAIN us = 1 .. n
    PROVE  \E g : Folded(us, g, 1 .. n) /\ Written(us) = g[1 .. n]
<1>1. Written(us) = (CHOOSE g : Folded(us, g, DOMAIN us))[DOMAIN us]
  BY DEF Written, FoldLeft, MapThenFoldSet, Folded, PutIn, Started
<1>2. \E g : Folded(us, g, DOMAIN us)
  BY FoldExists
<1>3. Folded(us, CHOOSE g : Folded(us, g, DOMAIN us), DOMAIN us)
  BY <1>2
<1> QED BY <1>1, <1>3

\* What FoldLeft hands on has the three fields, and a list that was not cut was
\* written to its end.
HasFields(s) ==
    \E pos, uuids : \E cut \in BOOLEAN : s = [pos |-> pos, uuids |-> uuids, cut |-> cut]

LEMMA OneMore ==
    ASSUME NEW s, NEW u, HasFields(s)
    PROVE  /\ HasFields(PutIn(s, u))
           /\ ~ PutIn(s, u).cut => ~ s.cut /\ PutIn(s, u).uuids = Append(s.uuids, u)
<1>1. PICK pos, uuids : \E cut \in BOOLEAN : s = [pos |-> pos, uuids |-> uuids, cut |-> cut]
  BY DEF HasFields
<1>2. PICK cut \in BOOLEAN : s = [pos |-> pos, uuids |-> uuids, cut |-> cut]
  BY <1>1
<1> DEFINE next == pos + (IF uuids = <<>> THEN 0 ELSE 1) + Width(u)
<1>3. CASE cut \/ next >= Room
  <2>1. PutIn(s, u) = [pos |-> pos, uuids |-> uuids, cut |-> TRUE]
    BY <1>2, <1>3 DEF PutIn
  <2>2. TRUE \in BOOLEAN
    OBVIOUS
  <2>3. HasFields(PutIn(s, u))
    BY <2>1, <2>2 DEF HasFields
  <2> QED BY <2>1, <2>3
<1>4. CASE ~(cut \/ next >= Room)
  <2>1. PutIn(s, u) = [pos |-> next, uuids |-> Append(uuids, u), cut |-> cut]
    BY <1>2, <1>4 DEF PutIn
  <2>2. HasFields(PutIn(s, u))
    <3> HIDE DEF next
    <3> QED BY <2>1 DEF HasFields
  <2> QED BY <1>2, <1>4, <2>1, <2>2
<1> QED BY <1>3, <1>4

LEMMA NotCutIsWhole ==
    ASSUME NEW S, NEW us \in Seq(S), ~ Written(us).cut
    PROVE  Written(us).uuids = us
<1> DEFINE n == Len(us)
           Upto(k) == [i \in 1 .. k |-> us[i]]
<1>1. n \in Nat /\ DOMAIN us = 1 .. n
  OBVIOUS
<1>2. PICK g : Folded(us, g, 1 .. n) /\ Written(us) = g[1 .. n]
  <2> HIDE DEF n
  <2> QED BY <1>1, WrittenIs
<1> DEFINE Sofar(k) == HasFields(g[1 .. k]) /\ (~ g[1 .. k].cut => g[1 .. k].uuids = Upto(k))
           T == {k \in 0 .. n : Sofar(k)}
<1>3. 0 \in T
  <2>1. g[1 .. 0] = Started
    <3>1. 1 .. 0 = {} /\ 1 .. 0 \in SUBSET (1 .. n)
      OBVIOUS
    <3> HIDE DEF n
    <3> QED BY <1>2, <3>1 DEF Folded
  <2>2. Upto(0) = <<>>
    OBVIOUS
  <2> HIDE DEF Upto
  <2>3. HasFields(Started)
    <3>1. FALSE \in BOOLEAN
      OBVIOUS
    <3> QED BY <3>1 DEF HasFields, Started
  <2>4. Sofar(0)
    BY <2>1, <2>2, <2>3 DEF Started
  <2> HIDE DEF Sofar, n
  <2> QED BY <1>1, <2>4
<1>4. ASSUME NEW k \in 0 .. n - 1, k \in T PROVE k + 1 \in T
  <2> DEFINE u == us[k + 1]
  <2>1. Sofar(k) /\ k \in Nat /\ k + 1 <= n /\ k + 1 \in 0 .. n
    BY <1>1, <1>4
  <2>2. g[1 .. k + 1] = PutIn(g[1 .. k], u)
    <3> HIDE DEF n
    <3>1. 1 .. k + 1 \in SUBSET (1 .. n)
      BY <1>1, <2>1
    <3>2. k + 1 \in 1 .. k + 1 /\ (1 .. k + 1) \ {k + 1} = 1 .. k
      BY <2>1
    <3>3. Max(1 .. k + 1) = k + 1
      <4>1. 1 .. k + 1 \in SUBSET (1 .. k + 1) /\ 1 .. k + 1 # {}
        BY <3>2
      <4> QED BY <2>1, <3>2, <4>1, LargestOf
    <3>4. g[1 .. k + 1] = PutIn(g[(1 .. k + 1) \ {Max(1 .. k + 1)}], us[Max(1 .. k + 1)])
      BY <1>2, <3>1, <3>2 DEF Folded
    <3> QED BY <3>2, <3>3, <3>4
  <2>3. Append(Upto(k), us[k + 1]) = Upto(k + 1)
    BY <1>1
  <2>4. Sofar(k + 1)
    <3> HIDE DEF Upto
    <3>1. ~ PutIn(g[1 .. k], u).cut => PutIn(g[1 .. k], u).uuids = Append(g[1 .. k].uuids, u)
      BY <2>1, OneMore
    <3> HIDE DEF u
    <3>2. HasFields(PutIn(g[1 .. k], u)) /\ (~ PutIn(g[1 .. k], u).cut => ~ g[1 .. k].cut)
      BY <2>1, OneMore
    <3> QED BY <2>1, <2>2, <2>3, <3>1, <3>2 DEF u
  <2> HIDE DEF Sofar, n
  <2> QED BY <2>1, <2>4
<1> HIDE DEF Sofar, T
<1>5. n \in T
  <2> HIDE DEF n
  <2> QED BY <1>1, <1>3, <1>4, UpTo
<1>6. Upto(n) = us
  BY <1>1
<1>7. Sofar(n)
  BY <1>5 DEF T
<1> HIDE DEF Upto, n
<1> QED BY <1>2, <1>6, <1>7 DEF Sofar

\* So no list that is sent as text is a part of the list.
LEMMA ListsWhole == DisTyxInv => ListsAreWhole
<1> SUFFICES ASSUME DisTyxInv PROVE ListsAreWhole
  OBVIOUS
<1>1. ASSUME NEW S, NEW us \in Seq(S), ListReply(us) = Text PROVE Written(us).uuids = us
  <2>1. ~ Written(us).cut
    BY <1>1 DEF ListReply, Closed, Text, Bytes
  <2> QED
    BY <2>1, NotCutIsWhole
<1>2. ASSUME NEW order \in SetToSeqs(There) PROVE order \in Seq(There)
  <2>1. IsFiniteSet(There)
    <3>1. IsFiniteSet(1 .. nextUuid - 1)
      BY FS_Interval DEF DisTyxInv
    <3> QED
      BY <3>1, FS_Subset DEF DisTyxInv
  <2>2. Cardinality(There) \in Nat
    BY <2>1, FS_CardinalityType
  <2>3. order \in [1 .. Cardinality(There) -> There]
    BY DEF SetToSeqs
  <2> QED
    BY <2>2, <2>3
<1>3. ASSUME NEW u \in There PROVE kernel[u].out \in Seq(1 .. nextUuid - 1)
  BY DEF DisTyxInv, KernelAtom
<1> QED
  BY <1>1, <1>2, <1>3 DEF ListsAreWhole

LEMMA DisTyxSame == ASSUME DisTyxInv, UNCHANGED distyxVars PROVE DisTyxInv'
BY DEF DisTyxInv, distyxVars, There, KernelAtom, Remembers, KernelHolds, Keeps

LEMMA KernelRingShape ==
    ASSUME NEW h \in KernelRing, NEW tv \in Tv
    PROVE  KernelRecord(h, tv) \in KernelRing
<1>1. h.ring \in [0 .. Slots - 1 -> Tv] /\ h.count \in Nat
  BY DEF KernelRing
<1>2. [h.ring EXCEPT ![h.count % Slots] = tv] \in [0 .. Slots - 1 -> Tv]
  BY <1>1
<1> QED
  BY <1>1, <1>2 DEF KernelRing, KernelRecord

\* The count of the calls of the host stays within its bound.
LEMMA ReplyCalls ==
    ASSUME DisTyxInv, NEW who, NEW said, Reply(who, said)
    PROVE  calls' \in 0 .. MaxCalls
BY DisTyxAssumption DEF Reply, DisTyxInv

LEMMA CreateAtomInv ==
    ASSUME DisTyxInv, NEW who, NEW op, NEW p, CreateAtom(who, op, p)
    PROVE  DisTyxInv'
<1>1. CASE UNCHANGED distyxVars
  BY <1>1, DisTyxSame
<1>2. CASE ~ UNCHANGED distyxVars
  <2> DEFINE new == [tv |-> NewTv, hist |-> KernelNew, out |-> <<>>]
  <2>1. /\ nextUuid <= MaxUuid /\ nextUuid' = nextUuid + 1 /\ Reply(who, Bytes)
        /\ kernel' = [u \in There \cup {nextUuid} |-> IF u = nextUuid THEN new ELSE kernel[u]]
        /\ recorded' = [u \in There \cup {nextUuid} |-> IF u = nextUuid THEN <<>> ELSE recorded[u]]
    BY <1>2 DEF CreateAtom, Replies
  <2>2. nextUuid' \in 1 .. MaxUuid + 1 /\ calls' \in 0 .. MaxCalls /\ nextUuid \in 1 .. MaxUuid
    BY <2>1, ReplyCalls, DisTyxAssumption DEF DisTyxInv
  <2>3. There' = There \cup {nextUuid} /\ DOMAIN recorded' = There'
    BY <2>1 DEF There
  <2>4. There' \subseteq 1 .. nextUuid' - 1
    <3>1. 1 .. nextUuid' - 1 = 1 .. nextUuid /\ There \subseteq 1 .. nextUuid - 1
      BY <2>1, <2>2 DEF DisTyxInv
    <3>2. nextUuid - 1 \in Nat /\ nextUuid \in 1 .. nextUuid
      BY <2>2, DisTyxAssumption
    <3>3. 1 .. nextUuid - 1 \subseteq 1 .. nextUuid
      BY <2>2, DisTyxAssumption
    <3> QED
      BY <3>1, <3>2, <3>3, <2>3
  <2>5. KernelAtom(new, nextUuid') /\ Remembers(new, <<>>)
    <3>1. <<>> \in Seq(1 .. nextUuid' - 1) /\ Len(<<>>) = 0
      BY EmptySeq
    <3>2. KernelHolds(KernelNew, <<>>)
      BY KernelRingHolds
    <3>3. KernelNew \in KernelRing
      BY AbsentAssumption DEF KernelNew, KernelRing, EmptyRing
    <3> QED
      BY <3>1, <3>2, <3>3, DisTyxAssumption DEF KernelAtom, Remembers
  <2> HIDE DEF new
  <2>6. ASSUME NEW u \in There'
        PROVE  KernelAtom(kernel'[u], nextUuid') /\ Remembers(kernel'[u], recorded'[u])
    <3>1. CASE u = nextUuid
      BY <2>1, <2>3, <2>5, <3>1
    <3>2. CASE u # nextUuid
      <4>1. u \in There /\ kernel'[u] = kernel[u] /\ recorded'[u] = recorded[u]
        BY <2>1, <2>3, <3>2
      <4>2. kernel[u].out \in Seq(1 .. nextUuid' - 1)
        <5>1. 1 .. nextUuid - 1 \subseteq 1 .. nextUuid' - 1
          BY <2>1, <2>2
        <5>2. kernel[u].out \in Seq(1 .. nextUuid - 1)
          BY <4>1 DEF DisTyxInv, KernelAtom
        <5> QED
          BY <5>1, <5>2, SeqMonotonic
      <4>3. kernel[u] \in [tv : Tv, hist : KernelRing, out : Seq(1 .. nextUuid - 1)]
        BY <4>1 DEF DisTyxInv, KernelAtom
      <4>4. kernel[u] \in [tv : Tv, hist : KernelRing, out : Seq(1 .. nextUuid' - 1)]
        BY <4>2, <4>3
      <4> QED
        BY <4>1, <4>4 DEF DisTyxInv, KernelAtom
    <3> QED
      BY <3>1, <3>2
  <2> QED
    BY <2>2, <2>3, <2>4, <2>6 DEF DisTyxInv, KernelAtom, Remembers, KernelHolds, Keeps
<1> QED
  BY <1>1, <1>2

LEMMA WriteTvInv ==
    ASSUME DisTyxInv, NEW who, NEW op, NEW p, WriteTv(who, op, p)
    PROVE  DisTyxInv'
<1>1. CASE UNCHANGED distyxVars
  BY <1>1, DisTyxSame
<1>2. CASE ~ UNCHANGED distyxVars
  <2> DEFINE u == UuidOf(p.third)
  <2>1. PICK tv \in Tv :
          /\ u \in There /\ UNCHANGED nextUuid /\ Reply(who, Bytes)
          /\ kernel' = [kernel EXCEPT ![u].tv = tv, ![u].hist = KernelRecord(@, tv)]
          /\ recorded' = [recorded EXCEPT ![u] = Append(@, tv)]
    BY <1>2 DEF WriteTv, Replies
  <2> HIDE DEF u
  <2> DEFINE new == [kernel[u] EXCEPT !.tv = tv, !.hist = KernelRecord(@, tv)]
             log == Append(recorded[u], tv)
  <2>2. calls' \in 0 .. MaxCalls
    BY <2>1, ReplyCalls
  <2>3. There' = There /\ DOMAIN recorded' = There /\ DOMAIN recorded = There
    BY <2>1 DEF There, DisTyxInv
  <2>4. /\ \A v \in There : kernel'[v] = IF v = u THEN new ELSE kernel[v]
        /\ \A v \in There : recorded'[v] = IF v = u THEN log ELSE recorded[v]
    BY <2>1, <2>3 DEF There
  <2>5. /\ recorded[u] \in Seq(Tv) /\ KernelHolds(kernel[u].hist, recorded[u])
        /\ kernel[u] \in [tv : Tv, hist : KernelRing, out : Seq(1 .. nextUuid - 1)]
        /\ Len(kernel[u].out) <= MaxOut
    BY <2>1 DEF DisTyxInv, KernelAtom, Remembers, KernelHolds
  <2>6. KernelHolds(KernelRecord(kernel[u].hist, tv), log) /\ log[Len(log)] = tv
    BY <2>5, KernelRingHolds, Appended
  <2>7. KernelRecord(kernel[u].hist, tv) \in KernelRing
    BY <2>5, KernelRingShape
  <2> HIDE DEF log
  <2>8. KernelAtom(new, nextUuid) /\ Remembers(new, log)
    BY <2>5, <2>6, <2>7 DEF KernelAtom, Remembers
  <2> HIDE DEF new
  <2>9. ASSUME NEW v \in There'
        PROVE  KernelAtom(kernel'[v], nextUuid') /\ Remembers(kernel'[v], recorded'[v])
    BY <2>1, <2>3, <2>4, <2>8 DEF DisTyxInv
  <2>10. nextUuid' = nextUuid
    BY <2>1
  <2> QED
    BY <2>2, <2>3, <2>9, <2>10 DEF DisTyxInv, KernelAtom, Remembers, KernelHolds, Keeps
<1> QED
  BY <1>1, <1>2

LEMMA LinkAtomsInv ==
    ASSUME DisTyxInv, NEW who, NEW op, NEW p, LinkAtoms(who, op, p)
    PROVE  DisTyxInv'
<1>1. CASE UNCHANGED distyxVars
  BY <1>1, DisTyxSame
<1>2. CASE ~ UNCHANGED distyxVars
  <2> DEFINE u == p.third
             links == <<p.to>> \o kernel[u].out
             new == [kernel[u] EXCEPT !.out = links]
  <2>1. /\ u \in There /\ p.to \in There /\ Len(kernel[u].out) < MaxOut
        /\ kernel' = [kernel EXCEPT ![u].out = links]
        /\ UNCHANGED <<nextUuid, recorded>> /\ Reply(who, Bytes)
    BY <1>2 DEF LinkAtoms, Replies
  <2> HIDE DEF u
  <2>2. calls' \in 0 .. MaxCalls
    BY <2>1, ReplyCalls
  <2>3. There' = There /\ DOMAIN recorded' = There
    BY <2>1 DEF There, DisTyxInv
  <2>4. \A v \in There : kernel'[v] = IF v = u THEN new ELSE kernel[v]
    BY <2>1 DEF There
  <2>5. /\ kernel[u] \in [tv : Tv, hist : KernelRing, out : Seq(1 .. nextUuid - 1)]
        /\ Remembers(kernel[u], recorded[u]) /\ p.to \in 1 .. nextUuid - 1
    BY <2>1 DEF DisTyxInv, KernelAtom
  <2>6. links \in Seq(1 .. nextUuid - 1) /\ Len(links) = 1 + Len(kernel[u].out)
    <3>1. <<p.to>> \in Seq(1 .. nextUuid - 1) /\ Len(<<p.to>>) = 1
      BY <2>5
    <3>2. kernel[u].out \in Seq(1 .. nextUuid - 1)
      BY <2>5
    <3> QED
      BY <3>1, <3>2, ConcatProperties
  <2>7. Len(links) <= MaxOut
    <3>1. Len(kernel[u].out) \in Nat
      BY <2>5, Elements
    <3> QED
      BY <3>1, <2>1, <2>6, DisTyxAssumption
  <2> HIDE DEF links
  <2>8. KernelAtom(new, nextUuid) /\ Remembers(new, recorded[u])
    BY <2>5, <2>6, <2>7 DEF KernelAtom, Remembers
  <2> HIDE DEF new
  <2>9. ASSUME NEW v \in There'
        PROVE  KernelAtom(kernel'[v], nextUuid') /\ Remembers(kernel'[v], recorded'[v])
    BY <2>1, <2>3, <2>4, <2>8 DEF DisTyxInv
  <2>10. nextUuid' = nextUuid
    BY <2>1
  <2> QED
    BY <2>2, <2>3, <2>9, <2>10 DEF DisTyxInv, KernelAtom, Remembers, KernelHolds, Keeps
<1> QED
  BY <1>1, <1>2

LEMMA RemoveAtomInv ==
    ASSUME DisTyxInv, NEW who, NEW op, NEW p, RemoveAtom(who, op, p)
    PROVE  DisTyxInv'
<1>1. CASE UNCHANGED distyxVars
  BY <1>1, DisTyxSame
<1>2. CASE ~ UNCHANGED distyxVars
  <2> DEFINE u == UuidOf(p.third)
  <2>1. /\ kernel' = [v \in There \ {u} |-> kernel[v]]
        /\ recorded' = [v \in There \ {u} |-> recorded[v]]
        /\ UNCHANGED nextUuid /\ Reply(who, Bytes)
    BY <1>2 DEF RemoveAtom, Replies
  <2> HIDE DEF u
  <2>2. calls' \in 0 .. MaxCalls
    BY <2>1, ReplyCalls
  <2>3. There' = There \ {u} /\ DOMAIN recorded' = There'
    BY <2>1 DEF There
  <2>4. ASSUME NEW v \in There'
        PROVE  KernelAtom(kernel'[v], nextUuid') /\ Remembers(kernel'[v], recorded'[v])
    BY <2>1, <2>3 DEF DisTyxInv
  <2>5. nextUuid' = nextUuid
    BY <2>1
  <2> QED
    BY <2>2, <2>3, <2>4, <2>5 DEF DisTyxInv, KernelAtom, Remembers, KernelHolds, Keeps
<1> QED
  BY <1>1, <1>2

\* The requests that change nothing in the kernel.
LEMMA DispatchInv ==
    ASSUME DisTyxInv, NEW who, NEW op, NEW p, Dispatch(who, op, p)
    PROVE  DisTyxInv'
<1>1. CASE UNCHANGED distyxVars
  BY <1>1, DisTyxSame
<1> QED
  BY <1>1, CreateAtomInv, WriteTvInv, LinkAtomsInv, RemoveAtomInv
     DEF Dispatch, Stats, ListAtoms, StatAtom, ReadTv, ReadLtiOrType, ReadLinks, WriteStiOrCtl,
         Query, UnknownPath, Replies

\* A connection is answered once, whatever it asked for; the host is not.
LEMMA DispatchAnswers ==
    ASSUME NEW who, NEW op, NEW p, Dispatch(who, op, p)
    PROVE  IF who = Host THEN UNCHANGED lineVars ELSE \E said : Answer(who, said)
BY DEF Dispatch, Stats, ListAtoms, CreateAtom, StatAtom, ReadTv, ReadLtiOrType, ReadLinks,
       WriteTv, WriteStiOrCtl, LinkAtoms, RemoveAtom, Query, UnknownPath, Reply, Replies

LEMMA DisTyxStepInv ==
    ASSUME LineInv, DisTyxInv, NEW c \in Client, DisTyxConnection(c)
    PROVE  LineInv' /\ DisTyxInv'
<1>1. c # Host
  BY DisTyxAssumption
<1>2. LineStep(c)
  BY <1>1, DispatchAnswers DEF DisTyxConnection, DisTyxHandle, LineStep
<1>3. DisTyxInv'
  BY DisTyxSame, DispatchInv DEF DisTyxConnection, DisTyxHandle
<1> QED
  BY <1>2, <1>3, LineStepInv

LEMMA HostCallInv ==
    ASSUME LineInv, DisTyxInv, HostCall
    PROVE  LineInv' /\ DisTyxInv'
<1>1. PICK r \in HostRequests : Dispatch(Host, r[1], r[2])
  BY DEF HostCall
<1> QED
  BY <1>1, DispatchAnswers, DispatchInv, LineSame

-----------------------------------------------------------------------------
(* The table of language models. *)

Entry == [atom : LlmAtom, child : 1 .. started]
Work == [call : {"attach", "infer", "detach"}, atom : LlmAtom, child : 1 .. started]
Slot == 0 .. Buckets - 1

LlmShape ==
    /\ started \in 0 .. MaxChildren
    /\ table \in [Slot -> {Empty} \cup Entry]
    /\ running \subseteq 1 .. started /\ replaced \subseteq 1 .. started
    /\ displaced \subseteq LlmAtom /\ latest \in [LlmAtom -> 0 .. started]
    /\ doing \in [Caller -> {Idle} \cup Work]

\* The thread that attaches or detaches a child has it, the one that infers uses
\* one that something else has.
Has(t, child) == doing[t].call \in {"attach", "detach"} /\ doing[t].child = child

Accounted == \A child \in running :
    (\E i \in Slot : table[i].child = child) \/ (\E t \in Caller : Has(t, child)) \/ child \in replaced

\* A child that a thread has or that is in the table runs, no two threads have
\* the same, no child is in the table twice, nor in the table and with a thread.
Separate ==
    /\ \A t \in Caller : InHand(t) => doing[t].child \in running
    /\ \A i \in Slot : table[i] # Empty => table[i].child \in running
    /\ \A t, u \in Caller : t # u /\ InHand(t) /\ InHand(u) => doing[t].child # doing[u].child
    /\ \A i, j \in Slot : table[i] # Empty /\ table[i].child = table[j].child => i = j
    /\ \A t \in Caller, i \in Slot : InHand(t) => doing[t].child # table[i].child

\* The probe of an atom that has a child and was not displaced: the bucket at p
\* is the atom's, with that child, and those before it are others'.
Others(a, p) == \A q \in 0 .. p - 1 : table[Bucket(a, q)] # Empty /\ table[Bucket(a, q)].atom # a
Reaches(a, p) ==
    /\ table[Bucket(a, p)] # Empty
    /\ table[Bucket(a, p)] = [atom |-> a, child |-> latest[a]]
    /\ Others(a, p)
Reached(a) == \E p \in Slot : Reaches(a, p)

LlmInv ==
    /\ LlmShape /\ Accounted /\ Separate
    /\ \A a \in LlmAtom : latest[a] # 0 /\ a \notin displaced => Reached(a)

LEMMA LlmInitInv == LlmInit => LlmInv
BY LlmAssumption DEF LlmInit, LlmInv, LlmShape, Accounted, Separate, Slot, InHand, Idle

LEMMA LlmSame == ASSUME LlmInv, UNCHANGED llmVars PROVE LlmInv'
<1>1. LlmShape' /\ Accounted'
  BY DEF LlmInv, LlmShape, Accounted, llmVars, Entry, Work, Slot, Has
<1>2. Separate'
  BY DEF LlmInv, Separate, llmVars, Slot, InHand
<1>3. \A a \in LlmAtom : latest'[a] # 0 /\ a \notin displaced' => Reached(a)'
  BY DEF LlmInv, llmVars, Slot, Reached, Reaches, Others, Bucket
<1> QED
  BY <1>1, <1>2, <1>3 DEF LlmInv

\* A thread in a call is in one on an atom with a child, a bucket that is not
\* empty has one.
LEMMA InCall ==
    ASSUME LlmShape
    PROVE  /\ \A t \in Caller : doing[t] # Idle => doing[t] \in Work
           /\ \A t \in Caller : doing[t].call # "idle" => doing[t] # Idle
           /\ \A i \in Slot : table[i] # Empty => table[i] \in Entry
           /\ \A i \in Slot : table[i].child # 0 => table[i] # Empty
BY DEF LlmShape, Idle, Empty

LEMMA BucketIsSlot ==
    ASSUME NEW a \in LlmAtom, NEW probe \in Nat
    PROVE  Bucket(a, probe) \in Slot
<1>1. Home(a) + probe \in Nat
  BY LlmAssumption
<1> QED
  BY <1>1, LlmAssumption DEF Bucket, Slot

\* Where probing ends is a bucket that is empty or has the atom.
LEMMA ProbeEndHas ==
    ASSUME NEW a \in LlmAtom, NEW i \in ProbeEnd(a)
    PROVE  i \in Slot /\ (table[i] = Empty \/ table[i].atom = a)
BY BucketIsSlot, LlmAssumption DEF ProbeEnd, Slot

\* Two probes of an atom that are not the same look at two buckets.
LEMMA BucketsApart ==
    ASSUME NEW a \in LlmAtom, NEW p \in Slot, NEW q \in Slot, p # q
    PROVE  Bucket(a, p) # Bucket(a, q)
<1>1. Home(a) \in Nat /\ p \in Nat /\ q \in Nat
  BY LlmAssumption DEF Slot
<1>2. CASE p < q
  <2>1. /\ Home(a) + p \in Nat /\ Home(a) + q \in Nat
        /\ Home(a) + p < Home(a) + q /\ (Home(a) + q) - (Home(a) + p) < Buckets
    BY <1>1, <1>2, LlmAssumption DEF Slot
  <2> QED
    BY <2>1, Apart, LlmAssumption DEF Bucket
<1>3. CASE q < p
  <2>1. /\ Home(a) + p \in Nat /\ Home(a) + q \in Nat
        /\ Home(a) + q < Home(a) + p /\ (Home(a) + p) - (Home(a) + q) < Buckets
    BY <1>1, <1>3, LlmAssumption DEF Slot
  <2> QED
    BY <2>1, Apart, LlmAssumption DEF Bucket
<1> QED
  BY <1>1, <1>2, <1>3

LEMMA BucketOfBucket ==
    ASSUME NEW a \in LlmAtom, NEW p \in Slot
    PROVE  BucketOf(a, Bucket(a, p)) = p
<1>1. \E probe \in Slot : Bucket(a, probe) = Bucket(a, p)
  OBVIOUS
<1>2. BucketOf(a, Bucket(a, p)) \in Slot /\ Bucket(a, BucketOf(a, Bucket(a, p))) = Bucket(a, p)
  BY <1>1 DEF BucketOf, Slot
<1> QED
  BY <1>2, BucketsApart

\* The bucket that a probe reaches is where probing ends.
LEMMA ReachedIsEntry ==
    ASSUME NEW a \in LlmAtom, NEW p \in Slot, Reaches(a, p)
    PROVE  Bucket(a, p) \in EntryOf(a)
BY DEF Reaches, Others, EntryOf, ProbeEnd, Slot

LEMMA StillReached ==
    ASSUME UNCHANGED <<table, latest>>
    PROVE  \A a \in LlmAtom : Reached(a) <=> Reached(a)'
BY DEF Reached, Reaches, Others, Bucket, Slot

\* A child that is started is none of those before.
LEMMA StartChildInv ==
    ASSUME LlmInv, NEW t \in Caller, NEW a \in LlmAtom, StartChild(t, a)
    PROVE  LlmInv'
<1> DEFINE child == started + 1
           work == [call |-> "attach", atom |-> a, child |-> child]
<1>1. /\ started' = child /\ running' = running \cup {child} /\ doing[t] = Idle
      /\ doing' = [doing EXCEPT ![t] = work]
      /\ UNCHANGED <<table, latest, displaced, replaced>> /\ started < MaxChildren
  BY DEF StartChild, Enter
<1>2. /\ started \in Nat /\ child \in 1 .. started' /\ started' \in 0 .. MaxChildren
      /\ 1 .. started \subseteq 1 .. started' /\ child \notin 1 .. started /\ child # 0
  BY <1>1, LlmAssumption DEF LlmInv, LlmShape
<1> HIDE DEF child
<1>3. Entry \subseteq Entry' /\ Work \subseteq Work' /\ work \in Work'
  BY <1>2 DEF Entry, Work
<1> HIDE DEF work
<1>4. /\ doing'[t] = work
      /\ \A u \in Caller : u # t => doing'[u] = doing[u]
  BY <1>1 DEF LlmInv, LlmShape
<1>5. LlmShape'
  BY <1>1, <1>2, <1>3 DEF LlmInv, LlmShape, Slot
<1>6. work.call = "attach" /\ work.atom = a /\ work.child = child
  BY DEF work
<1>7. Accounted'
  <2>1. ASSUME NEW u \in Caller, NEW c, Has(u, c) PROVE doing'[u] = doing[u]
    BY <1>1, <1>4, <2>1 DEF Has, Idle
  <2>2. doing'[t].call = "attach" /\ doing'[t].child = child
    BY <1>4, <1>6
  <2> SUFFICES ASSUME NEW c \in running'
               PROVE  \/ \E i \in Slot : table'[i].child = c
                      \/ \E u \in Caller : Has(u, c)'
                      \/ c \in replaced'
    BY DEF Accounted, Slot
  <2>3. CASE c = child
    BY <2>2, <2>3 DEF Has
  <2>4. CASE c \in running
    BY <1>1, <2>1, <2>4 DEF LlmInv, Accounted, Has
  <2> QED
    BY <1>1, <2>3, <2>4
<1>8. Separate'
  <2>1. Separate /\ LlmShape
    BY DEF LlmInv
  <2>2. /\ \A u \in Caller : InHand(u) => doing[u].child \in 1 .. started
        /\ \A i \in Slot : table[i].child # child
    <3>1. \A i \in Slot : table[i] # Empty => table[i].child \in 1 .. started
      BY <2>1, InCall DEF Entry
    <3>2. \A i \in Slot : table[i] = Empty => table[i].child # child
      BY <1>2 DEF Empty
    <3>3. \A u \in Caller : InHand(u) => doing[u] # Idle
      BY DEF InHand, Idle
    <3> QED
      BY <2>1, <3>1, <3>2, <3>3, <1>2, InCall DEF Work
  <2> QED
    BY <1>1, <1>2, <1>4, <1>6, <2>1, <2>2 DEF Separate, InHand, Slot
<1> QED
  BY <1>1, <1>5, <1>7, <1>8, StillReached DEF LlmInv

\* The thread that has a child leaves it: to the table, or ended.
LEMMA LeaveInv ==
    ASSUME LlmShape, NEW t \in Caller, Leave(t)
    PROVE  /\ doing' \in [Caller -> {Idle} \cup Work]
           /\ doing'[t] = Idle
           /\ \A u \in Caller : u # t => doing'[u] = doing[u]
BY DEF LlmShape, Leave

LEMMA PutInv ==
    ASSUME LlmInv, NEW t \in Caller, Put(t)
    PROVE  LlmInv'
<1> DEFINE a == doing[t].atom
           child == doing[t].child
           new == [atom |-> a, child |-> child]
<1>1. PICK i \in RoomFor(a) :
          /\ table' = [table EXCEPT ![i] = new]
          /\ replaced' = IF table[i] = Empty THEN replaced ELSE replaced \cup {table[i].child}
  BY DEF Put
<1>2. /\ doing[t].call = "attach" /\ displaced' = displaced \ {a} /\ Leave(t)
      /\ latest' = [latest EXCEPT ![a] = child]
      /\ UNCHANGED <<started, running>>
  BY DEF Put
<1>3. LlmShape /\ doing[t] \in Work
  BY <1>2, InCall DEF LlmInv
<1>4. a \in LlmAtom /\ child \in 1 .. started /\ new \in Entry
  BY <1>3 DEF Work, Entry
<1>5. i \in Slot /\ (table[i] = Empty \/ (table[i] \in Entry /\ table[i].atom = a))
  BY <1>1, <1>3, <1>4, ProbeEndHas, InCall DEF RoomFor
<1>6. /\ table' \in [Slot -> {Empty} \cup Entry] /\ table'[i] = new
      /\ \A j \in Slot : j # i => table'[j] = table[j]
  BY <1>1, <1>3, <1>4, <1>5 DEF LlmShape
<1>7. new.atom = a /\ new.child = child /\ new # Empty
  BY <1>4 DEF Empty
<1>8. Entry' = Entry /\ Work' = Work
  BY <1>2 DEF Entry, Work
<1>9. /\ replaced' \subseteq 1 .. started
      /\ latest' \in [LlmAtom -> 0 .. started] /\ latest'[a] = child
      /\ \A b \in LlmAtom : b # a => latest'[b] = latest[b]
  <2>1. table[i] # Empty => table[i].child \in 1 .. started
    BY <1>5 DEF Entry
  <2>2. replaced' \subseteq 1 .. started
    BY <1>1, <1>3, <2>1 DEF LlmShape
  <2>3. latest \in [LlmAtom -> 0 .. started] /\ child \in 0 .. started
    BY <1>3, <1>4 DEF LlmShape
  <2> HIDE DEF a, child
  <2> QED
    BY <1>2, <1>4, <2>2, <2>3
<1> HIDE DEF a, child, new
<1>10. /\ doing' \in [Caller -> {Idle} \cup Work] /\ doing'[t] = Idle
       /\ \A u \in Caller : u # t => doing'[u] = doing[u]
  BY <1>2, <1>3, LeaveInv
<1>11. LlmShape'
  BY <1>2, <1>3, <1>6, <1>8, <1>9, <1>10 DEF LlmShape, Slot
<1>12. Accounted'
  <2> SUFFICES ASSUME NEW c \in running
               PROVE  \/ \E j \in Slot : table'[j].child = c
                      \/ \E u \in Caller : Has(u, c)'
                      \/ c \in replaced'
    BY <1>2 DEF Accounted, Slot
  <2>1. CASE c \in replaced
    BY <2>1, <1>1
  <2>2. CASE \E j \in Slot : table[j].child = c
    <3>1. PICK j \in Slot : table[j].child = c
      BY <2>2
    <3>2. CASE j # i
      BY <3>1, <3>2, <1>6
    <3>3. CASE j = i
      <4>1. c # 0
        BY <1>3 DEF LlmShape
      <4>2. table[i] # Empty
        BY <3>1, <3>3, <4>1 DEF Empty
      <4> QED
        BY <3>1, <3>3, <4>2, <1>1
    <3> QED
      BY <3>2, <3>3
  <2>3. CASE \E u \in Caller : Has(u, c)
    <3>1. PICK u \in Caller : Has(u, c)
      BY <2>3
    <3>2. CASE u = t
      BY <3>1, <3>2, <1>5, <1>6, <1>7 DEF Has, child
    <3>3. CASE u # t
      BY <3>1, <3>3, <1>10 DEF Has
    <3> QED
      BY <3>2, <3>3
  <2> QED
    BY <2>1, <2>2, <2>3 DEF LlmInv, Accounted
<1>13. Separate'
  <2>1. Separate /\ InHand(t)
    BY <1>2 DEF LlmInv, InHand
  <2>2. \A j \in Slot : table[j].child # child
    BY <2>1 DEF Separate, child
  <2>3. child \in running /\ \A u \in Caller : u # t /\ InHand(u) => doing[u].child # child
    BY <2>1 DEF Separate, child
  <2>4. \A u \in Caller : InHand(u)' => u # t /\ InHand(u) /\ doing'[u] = doing[u]
    BY <1>10 DEF InHand, Idle
  <2> QED
    BY <1>2, <1>6, <1>7, <2>1, <2>2, <2>3, <2>4 DEF Separate, Slot
\* The bucket that is filled was nobody else's and in nobody's way.
<1>14. ASSUME NEW b \in LlmAtom, latest'[b] # 0, b \notin displaced' PROVE Reached(b)'
  <2>1. CASE b = a
    <3>1. PICK p \in Slot :
              /\ i = Bucket(a, p)
              /\ \A q \in 0 .. p - 1 : table[Bucket(a, q)] # Empty /\ table[Bucket(a, q)].atom # a
      BY <1>1 DEF RoomFor, ProbeEnd, Slot
    <3>2. ASSUME NEW q \in 0 .. p - 1
          PROVE  table'[Bucket(a, q)] # Empty /\ table'[Bucket(a, q)].atom # a
      <4>1. Bucket(a, q) \in Slot /\ Bucket(a, q) # i
        BY <3>1, <1>4, <1>5, BucketIsSlot
      <4> QED
        BY <4>1, <3>1, <1>6
    <3> QED
      BY <2>1, <3>1, <3>2, <1>6, <1>7, <1>9 DEF Reached, Reaches, Others, Bucket, Slot, new
  <2>2. CASE b # a
    <3>1. PICK p \in Slot : Reaches(b, p)
      BY <2>2, <1>2, <1>9, <1>14 DEF LlmInv, Reached
    <3>2. /\ Bucket(b, p) \in Slot
          /\ table[Bucket(b, p)] # Empty /\ table[Bucket(b, p)].atom = b
          /\ table[Bucket(b, p)] = [atom |-> b, child |-> latest[b]]
      BY <3>1, BucketIsSlot DEF Reaches, Slot
    <3>3. Bucket(b, p) # i
      BY <3>2, <1>5, <2>2
    <3>4. ASSUME NEW q \in 0 .. p - 1
          PROVE  table'[Bucket(b, q)] # Empty /\ table'[Bucket(b, q)].atom # b
      <4>1. /\ Bucket(b, q) \in Slot
            /\ table[Bucket(b, q)] # Empty /\ table[Bucket(b, q)].atom # b
        BY <3>1, BucketIsSlot DEF Reaches, Others
      <4> QED
        BY <4>1, <1>6, <1>7, <2>2
    <3> QED
      BY <3>2, <3>3, <3>4, <1>6, <1>9, <2>2 DEF Reached, Reaches, Others, Bucket, Slot
  <2> QED
    BY <2>1, <2>2
<1> QED
  BY <1>11, <1>12, <1>13, <1>14 DEF LlmInv

\* A thread that ends the child it has.
LEMMA EndedInv ==
    ASSUME LlmInv, NEW t \in Caller, doing[t].call \in {"attach", "detach"},
           running' = running \ {doing[t].child}, Leave(t),
           UNCHANGED <<table, started, latest, displaced, replaced>>
    PROVE  LlmInv'
<1> DEFINE child == doing[t].child
<1>1. LlmShape /\ doing[t] # Idle
  BY DEF LlmInv, Idle
<1>2. /\ doing' \in [Caller -> {Idle} \cup Work] /\ doing'[t] = Idle
      /\ \A u \in Caller : u # t => doing'[u] = doing[u]
  BY <1>1, LeaveInv
<1>3. LlmShape'
  BY <1>1, <1>2 DEF LlmShape, Slot, Entry, Work
<1>4. Accounted'
  BY <1>2 DEF LlmInv, Accounted, Has, Slot
<1>5. Separate'
  <2>1. Separate /\ InHand(t)
    BY DEF LlmInv, InHand
  <2>2. \A i \in Slot : table[i].child # child
    BY <2>1 DEF Separate
  <2>3. \A u \in Caller : InHand(u)' =>
            u # t /\ InHand(u) /\ doing'[u] = doing[u] /\ doing[u].child # child
    BY <1>2, <2>1 DEF Separate, InHand, Idle
  <2> QED
    BY <2>1, <2>2, <2>3 DEF Separate, Slot
<1> QED
  BY <1>3, <1>4, <1>5, StillReached DEF LlmInv

LEMMA PromptInv ==
    ASSUME LlmInv, NEW t \in Caller, Prompt(t)
    PROVE  LlmInv'
<1>1. /\ LlmShape /\ doing[t].call = "infer" /\ Leave(t)
      /\ UNCHANGED <<table, started, running, latest, displaced, replaced>>
  BY DEF LlmInv, Prompt
<1>2. /\ doing' \in [Caller -> {Idle} \cup Work] /\ doing'[t] = Idle
      /\ \A u \in Caller : u # t => doing'[u] = doing[u]
  BY <1>1, LeaveInv
<1>3. LlmShape'
  BY <1>1, <1>2 DEF LlmShape, Slot, Entry, Work
<1>4. Accounted'
  BY <1>1, <1>2 DEF LlmInv, Accounted, Has, Slot
<1>5. Separate'
  <2>1. \A u \in Caller : InHand(u)' => InHand(u) /\ doing'[u] = doing[u]
    BY <1>2 DEF InHand, Idle
  <2> QED
    BY <1>1, <2>1 DEF LlmInv, Separate, Slot
<1> QED
  BY <1>3, <1>4, <1>5, StillReached, <1>1 DEF LlmInv

\* The bucket where a thread finds an atom has a child for it.
LEMMA Given ==
    ASSUME LlmInv, NEW a \in LlmAtom, NEW i \in EntryOf(a)
    PROVE  i \in Slot /\ table[i] \in Entry /\ table[i] # Empty /\ table[i].atom = a
<1>1. i \in Slot /\ table[i] # Empty /\ table[i].atom = a
  BY ProbeEndHas DEF EntryOf
<1> QED
  BY <1>1, InCall DEF LlmInv

LEMMA LookupInv ==
    ASSUME LlmInv, NEW t \in Caller, NEW a \in LlmAtom, Lookup(t, a)
    PROVE  LlmInv'
<1>1. PICK i \in EntryOf(a) : Enter(t, "infer", a, table[i].child)
  BY DEF Lookup
<1> DEFINE work == [call |-> "infer", atom |-> a, child |-> table[i].child]
<1>2. /\ doing[t] = Idle /\ doing' = [doing EXCEPT ![t] = work]
      /\ UNCHANGED <<table, started, running, latest, displaced, replaced>>
  BY <1>1 DEF Lookup, Enter
<1>3. i \in Slot /\ table[i] \in Entry /\ table[i] # Empty /\ table[i].atom = a
  BY Given
<1>4. work \in Work /\ work.call = "infer" /\ work.atom = a /\ work.child = table[i].child
  BY <1>3 DEF Work, Entry
<1> HIDE DEF work
<1>5. doing'[t] = work /\ \A u \in Caller : u # t => doing'[u] = doing[u]
  BY <1>2 DEF LlmInv, LlmShape
<1>6. LlmShape'
  BY <1>2, <1>4 DEF LlmInv, LlmShape, Slot, Entry, Work
<1>7. Accounted'
  <2>1. \A u \in Caller : \A c : Has(u, c) => doing'[u] = doing[u]
    BY <1>2, <1>5 DEF Has, Idle
  <2> QED
    BY <1>2, <2>1 DEF LlmInv, Accounted, Has, Slot
<1>8. Separate'
  <2>1. \A u \in Caller : InHand(u)' => InHand(u) /\ doing'[u] = doing[u]
    BY <1>4, <1>5 DEF InHand
  <2> QED
    BY <1>2, <2>1 DEF LlmInv, Separate, Slot
<1> QED
  BY <1>6, <1>7, <1>8, StillReached, <1>2 DEF LlmInv

LEMMA TakeOutInv ==
    ASSUME LlmInv, NEW t \in Caller, NEW a \in LlmAtom, TakeOut(t, a)
    PROVE  LlmInv'
<1>1. PICK i \in EntryOf(a) :
          /\ Enter(t, "detach", a, table[i].child)
          /\ table' = [table EXCEPT ![i] = Empty]
          /\ displaced' = displaced \cup
                {b \in LlmAtom : \E j \in EntryOf(b) : BucketOf(b, i) < BucketOf(b, j)}
  BY DEF TakeOut
<1> DEFINE work == [call |-> "detach", atom |-> a, child |-> table[i].child]
<1>2. /\ doing[t] = Idle /\ doing' = [doing EXCEPT ![t] = work]
      /\ UNCHANGED <<started, running, replaced>> /\ latest' = [latest EXCEPT ![a] = 0]
  BY <1>1 DEF TakeOut, Enter
<1>3. i \in Slot /\ table[i] \in Entry /\ table[i] # Empty /\ table[i].atom = a
  BY Given
<1>4. work \in Work /\ work.call = "detach" /\ work.atom = a /\ work.child = table[i].child
  BY <1>3 DEF Work, Entry
<1> HIDE DEF work
<1>5. doing'[t] = work /\ \A u \in Caller : u # t => doing'[u] = doing[u]
  BY <1>2 DEF LlmInv, LlmShape
<1>6. table'[i] = Empty /\ \A j \in Slot : j # i => table'[j] = table[j]
  BY <1>1, <1>3 DEF LlmInv, LlmShape
<1>7. LlmShape'
  <2>1. displaced' \subseteq LlmAtom /\ latest' \in [LlmAtom -> 0 .. started]
    BY <1>1, <1>2 DEF LlmInv, LlmShape
  <2>2. Entry' = Entry /\ Work' = Work
    BY <1>2 DEF Entry, Work
  <2> QED
    BY <1>1, <1>2, <1>4, <2>1, <2>2 DEF LlmInv, LlmShape, Slot
<1>8. Accounted'
  <2>1. \A u \in Caller : \A c : Has(u, c) => doing'[u] = doing[u]
    BY <1>2, <1>5 DEF Has, Idle
  <2>2. doing'[t].call = "detach" /\ doing'[t].child = table[i].child
    BY <1>4, <1>5
  <2> SUFFICES ASSUME NEW c \in running
               PROVE  \/ \E j \in Slot : table'[j].child = c
                      \/ \E u \in Caller : Has(u, c)'
                      \/ c \in replaced
    BY <1>2 DEF Accounted, Slot
  <2>3. CASE c = table[i].child
    BY <2>2, <2>3 DEF Has
  <2>4. CASE c # table[i].child
    BY <1>6, <2>1, <2>4 DEF LlmInv, Accounted, Has
  <2> QED
    BY <2>3, <2>4
<1>9. Separate'
  <2>1. Separate
    BY DEF LlmInv
  <2>2. table[i].child \in running /\ table[i].child # 0
    BY <2>1, <1>3 DEF Separate, Entry
  <2>3. \A j \in Slot : table'[j].child # table[i].child
    BY <2>1, <2>2, <1>3, <1>6 DEF Separate, Empty
  <2>4. 0 \notin running /\ table'[i].child = 0
    BY <1>6 DEF LlmInv, LlmShape, Empty
  <2>5. \A u \in Caller : InHand(u) => doing[u].child # table[i].child /\ doing[u].child # 0
    BY <2>1, <2>4, <1>3 DEF Separate
  <2>6. \A u \in Caller : u # t /\ InHand(u)' => InHand(u) /\ doing'[u] = doing[u]
    BY <1>5 DEF InHand
  <2> QED
    BY <1>2, <1>3, <1>4, <1>5, <1>6, <2>1, <2>2, <2>3, <2>4, <2>5, <2>6 DEF Separate, Slot
\* Where the bucket that is emptied was before an atom's own, the atom is displaced.
<1>10. ASSUME NEW b \in LlmAtom, latest'[b] # 0, b \notin displaced' PROVE Reached(b)'
  <2>1. b # a /\ latest'[b] = latest[b] /\ b \notin displaced
    BY <1>1, <1>2, <1>10 DEF LlmInv, LlmShape
  <2>2. PICK p \in Slot : Reaches(b, p)
    BY <2>1, <1>10 DEF LlmInv, Reached
  <2>3. /\ Bucket(b, p) \in Slot /\ Bucket(b, p) \in EntryOf(b)
        /\ table[Bucket(b, p)] # Empty /\ table[Bucket(b, p)].atom = b
        /\ table[Bucket(b, p)] = [atom |-> b, child |-> latest[b]]
    BY <2>2, BucketIsSlot, ReachedIsEntry DEF Reaches, Slot
  <2>4. Bucket(b, p) # i
    BY <2>1, <2>3, <1>3
  <2>5. ASSUME NEW q \in 0 .. p - 1
        PROVE  table'[Bucket(b, q)] # Empty /\ table'[Bucket(b, q)].atom # b
    <3>1. q \in Slot /\ q < p
      BY LlmAssumption DEF Slot
    <3>2. /\ Bucket(b, q) \in Slot
          /\ table[Bucket(b, q)] # Empty /\ table[Bucket(b, q)].atom # b
      BY <2>2, <3>1, BucketIsSlot DEF Reaches, Others, Slot
    <3>3. Bucket(b, q) # i
      <4>1. BucketOf(b, Bucket(b, q)) = q /\ BucketOf(b, Bucket(b, p)) = p
        BY <3>1, BucketOfBucket
      <4> QED
        BY <4>1, <3>1, <2>3, <1>1, <1>10
    <3> QED
      BY <3>2, <3>3, <1>6
  <2> QED
    BY <2>1, <2>3, <2>4, <2>5, <1>6 DEF Reached, Reaches, Others, Bucket, Slot
<1> QED
  BY <1>7, <1>8, <1>9, <1>10 DEF LlmInv

LEMMA LlmStepInv ==
    ASSUME LlmInv, NEW t \in Caller, LlmCall(t)
    PROVE  LlmInv'
<1>1. CASE PutFails(t)
  BY <1>1, EndedInv DEF PutFails
<1>2. CASE EndChild(t)
  BY <1>2, EndedInv DEF EndChild
<1> QED
  BY <1>1, <1>2, StartChildInv, LookupInv, TakeOutInv, PutInv, PromptInv DEF LlmCall

LEMMA LlmInvOK == LlmInv => LlmTypeOK /\ ChildrenEndOnce /\ ChildrenAreAccountedFor /\ LatestIsFound
<1> SUFFICES ASSUME LlmInv PROVE LlmTypeOK /\ ChildrenEndOnce /\ ChildrenAreAccountedFor /\ LatestIsFound
  OBVIOUS
<1>1. LlmTypeOK
  <2>1. \A i \in Slot : table[i] = Empty \/ table[i].atom \in LlmAtom
    BY DEF LlmInv, LlmShape, Entry
  <2>2. ASSUME NEW t \in Caller, doing[t] # Idle
        PROVE  doing[t].call \in {"attach", "infer", "detach"} /\ doing[t].child \in 1 .. started
    BY <2>2, InCall DEF LlmInv, Work
  <2> QED
    BY <2>1, <2>2 DEF LlmInv, LlmShape, LlmTypeOK, Slot
<1>2. ChildrenEndOnce
  BY DEF LlmInv, Separate, ChildrenEndOnce, Slot
<1>3. ChildrenAreAccountedFor
  BY DEF LlmInv, Accounted, Has, ChildrenAreAccountedFor, Slot
<1>4. ASSUME NEW a \in LlmAtom, latest[a] # 0, a \notin displaced
      PROVE  \E i \in EntryOf(a) : table[i].child = latest[a]
  <2>1. PICK p \in Slot : Reaches(a, p)
    BY <1>4 DEF LlmInv, Reached
  <2> QED
    BY <2>1, ReachedIsEntry DEF Reaches
<1> QED
  BY <1>1, <1>2, <1>3, <1>4 DEF LatestIsFound

-----------------------------------------------------------------------------
(* The pattern matcher. *)

LEMMA AtomsAreNumbers == IsFiniteSet(Atom) /\ \A a \in Atom : a \in Nat /\ a > 0
BY MatchAssumption

\* The numbers of the atoms have a bound.
LEMMA AtomsBounded == \E n \in Nat : \A a \in Atom : a < n
<1> DEFINE U == {S \in SUBSET Atom : ~ \E n \in Nat : \A a \in S : a < n}
<1>1. ASSUME Atom \in U PROVE FALSE
  <2>1. U \subseteq FiniteSubsetsOf(Atom)
    <3>1. \A S \in SUBSET Atom : IsFiniteSet(S)
      BY AtomsAreNumbers, FS_Subset
    <3> QED BY <3>1 DEF FiniteSubsetsOf
  <2>2. PICK S \in U : \A Q \in U : ~(<<Q, S>> \in StrictSubsetOrdering(Atom))
    <3> HIDE DEF U
    <3> QED BY <1>1, <2>1, FS_StrictSubsetOrderingWellFounded, WFMin
  <2>3. S # {}
    BY <2>2
  <2>4. PICK e \in S : TRUE
    BY <2>3
  <2>5. S \ {e} \in SUBSET Atom /\ <<S \ {e}, S>> \in StrictSubsetOrdering(Atom)
    BY <2>2, <2>4 DEF StrictSubsetOrdering
  <2>6. PICK n \in Nat : \A a \in S \ {e} : a < n
    BY <2>2, <2>5
  <2>7. e \in Nat /\ \A a \in S : a \in Nat
    BY <2>2, <2>4, AtomsAreNumbers
  <2> DEFINE m == n + e + 1
  <2>8. m \in Nat /\ \A a \in S : a < m
    BY <2>6, <2>7
  <2> HIDE DEF m
  <2> QED BY <2>2, <2>8
<1> QED BY <1>1

Below(k) == {a \in Atom : a < k}

\* The graph while cogdiod_match walks over it: links lead to smaller atoms.
Graph ==
    /\ out \in [Atom -> Seq(Atom)] /\ pool \subseteq Atom
    /\ \A a \in Atom : \A i \in DOMAIN out[a] : out[a][i] \in Below(a)

\* What the definition of Like says of a pair, given those of h for pairs
\* of smaller atoms, and a function that says it of every pair.
Verdict(h, x) ==
    LET p == x[1]  g == x[2] IN
    /\ {p, g} \subseteq pool
    /\ \/ Kind(p) = VariableNode
       \/ /\ Kind(p) = Kind(g)
          /\ Len(out[p]) = Len(out[g])
          /\ out[p] = <<>> => Name(p) = Name(g) \/ Anonymous \in {Name(p), Name(g)}
          /\ \A i \in DOMAIN out[p] : h[<<out[p][i], out[g][i]>>]
Verdicts(h, P) == h = [x \in P \X Atom |-> Verdict(h, x)]

\* The same of Demands.
Demand(h, x) ==
    LET p == x[1]  g == x[2] IN
    IF Kind(p) = VariableNode THEN {x}
    ELSE UNION {h[<<out[p][i], out[g][i]>>] : i \in DOMAIN out[p] \cap DOMAIN out[g]}
DemandsOf(h, P) == h = [x \in P \X Atom |-> Demand(h, x)]

\* Both depend on smaller atoms only.
LEMMA VerdictLocal ==
    ASSUME Graph, NEW x \in Atom \X Atom, NEW g, NEW h,
           \A y \in Below(x[1]) \X Atom : g[y] = h[y]
    PROVE  Verdict(g, x) = Verdict(h, x)
<1>1. CASE Len(out[x[1]]) = Len(out[x[2]])
  <2>1. \A i \in DOMAIN out[x[1]] : <<out[x[1]][i], out[x[2]][i]>> \in Below(x[1]) \X Atom
    BY <1>1 DEF Graph, Below
  <2> QED BY <2>1 DEF Verdict
<1>2. CASE Len(out[x[1]]) # Len(out[x[2]])
  BY <1>2 DEF Verdict
<1> QED BY <1>1, <1>2

LEMMA DemandLocal ==
    ASSUME Graph, NEW x \in Atom \X Atom, NEW g, NEW h,
           \A y \in Below(x[1]) \X Atom : g[y] = h[y]
    PROVE  Demand(g, x) = Demand(h, x)
<1>1. \A i \in DOMAIN out[x[1]] \cap DOMAIN out[x[2]] :
         <<out[x[1]][i], out[x[2]][i]>> \in Below(x[1]) \X Atom
  BY DEF Graph, Below
<1> DEFINE I == DOMAIN out[x[1]] \cap DOMAIN out[x[2]]
           G(i) == g[<<out[x[1]][i], out[x[2]][i]>>]
           H(i) == h[<<out[x[1]][i], out[x[2]][i]>>]
<1>2. \A i \in I : G(i) = H(i)
  BY <1>1
<1> HIDE DEF I, G, H
<1>3. {G(i) : i \in I} = {H(i) : i \in I}
  BY <1>2
<1> QED BY <1>3 DEF Demand, I, G, H

LEMMA VerdictsExist ==
    ASSUME Graph
    PROVE  \E h : Verdicts(h, Atom)
<1>1. PICK n \in Nat : \A a \in Atom : a < n
  BY AtomsBounded
<1> DEFINE T == {k \in 0 .. n : \E h : Verdicts(h, Below(k))}
<1>2. 0 \in T
  <2> DEFINE h == [x \in Below(0) \X Atom |-> 0]
  <2>1. Below(0) \X Atom = {}
    <3>1. Below(0) = {}
      BY AtomsAreNumbers DEF Below
    <3> QED BY <3>1
  <2>2. h = [x \in Below(0) \X Atom |-> Verdict(h, x)]
    BY <2>1
  <2> HIDE DEF h
  <2>3. Verdicts(h, Below(0))
    BY <2>2 DEF Verdicts
  <2> QED BY <2>3
<1>3. ASSUME NEW k \in 0 .. n - 1, k \in T PROVE k + 1 \in T
  <2> DEFINE P == Below(k)
             Q == Below(k + 1)
  <2>1. PICK g : Verdicts(g, P)
    BY <1>3
  <2> DEFINE h == [x \in Q \X Atom |-> Verdict(g, x)]
  <2>2. P \subseteq Q /\ \A p \in Q : p \in Atom /\ Below(p) \subseteq P
    BY AtomsAreNumbers DEF Below
  <2> HIDE DEF P, Q
  <2>3. ASSUME NEW y \in P \X Atom PROVE g[y] = h[y]
    <3>1. g[y] = Verdict(g, y)
      BY <2>1, <2>3 DEF Verdicts
    <3>2. y \in Q \X Atom
      BY <2>2
    <3> QED BY <3>1, <3>2
  <2> HIDE DEF h
  <2>4. ASSUME NEW x \in Q \X Atom PROVE Verdict(g, x) = Verdict(h, x)
    <3>1. x \in Atom \X Atom /\ Below(x[1]) \subseteq P
      BY <2>2
    <3>2. \A y \in Below(x[1]) \X Atom : g[y] = h[y]
      BY <2>3, <3>1
    <3> QED BY <3>1, <3>2, VerdictLocal
  <2>5. h = [x \in Q \X Atom |-> Verdict(h, x)]
    <3> DEFINE v(x) == Verdict(g, x)
               w(x) == Verdict(h, x)
    <3>1. \A x \in Q \X Atom : v(x) = w(x)
      BY <2>4
    <3>2. h = [x \in Q \X Atom |-> v(x)]
      BY DEF h
    <3> SUFFICES [x \in Q \X Atom |-> v(x)] = [x \in Q \X Atom |-> w(x)]
      BY <3>2
    <3> HIDE DEF v, w
    <3> QED BY <3>1
  <2>6. Verdicts(h, Q)
    BY <2>5 DEF Verdicts
  <2>7. k + 1 \in 0 .. n
    OBVIOUS
  <2> QED BY <2>6, <2>7 DEF Q
<1> HIDE DEF T
<1>4. n \in T
  BY <1>2, <1>3, UpTo
<1>5. Below(n) = Atom
  BY <1>1 DEF Below
<1> QED BY <1>4, <1>5 DEF T

LEMMA DemandsExist ==
    ASSUME Graph
    PROVE  \E h : DemandsOf(h, Atom)
<1>1. PICK n \in Nat : \A a \in Atom : a < n
  BY AtomsBounded
<1> DEFINE T == {k \in 0 .. n : \E h : DemandsOf(h, Below(k))}
<1>2. 0 \in T
  <2> DEFINE h == [x \in Below(0) \X Atom |-> 0]
  <2>1. Below(0) \X Atom = {}
    <3>1. Below(0) = {}
      BY AtomsAreNumbers DEF Below
    <3> QED BY <3>1
  <2>2. h = [x \in Below(0) \X Atom |-> Demand(h, x)]
    BY <2>1
  <2> HIDE DEF h
  <2>3. DemandsOf(h, Below(0))
    BY <2>2 DEF DemandsOf
  <2> QED BY <2>3
<1>3. ASSUME NEW k \in 0 .. n - 1, k \in T PROVE k + 1 \in T
  <2> DEFINE P == Below(k)
             Q == Below(k + 1)
  <2>1. PICK g : DemandsOf(g, P)
    BY <1>3
  <2> DEFINE h == [x \in Q \X Atom |-> Demand(g, x)]
  <2>2. P \subseteq Q /\ \A p \in Q : p \in Atom /\ Below(p) \subseteq P
    BY AtomsAreNumbers DEF Below
  <2> HIDE DEF P, Q
  <2>3. ASSUME NEW y \in P \X Atom PROVE g[y] = h[y]
    <3>1. g[y] = Demand(g, y)
      BY <2>1, <2>3 DEF DemandsOf
    <3>2. y \in Q \X Atom
      BY <2>2
    <3> QED BY <3>1, <3>2
  <2> HIDE DEF h
  <2>4. ASSUME NEW x \in Q \X Atom PROVE Demand(g, x) = Demand(h, x)
    <3>1. x \in Atom \X Atom /\ Below(x[1]) \subseteq P
      BY <2>2
    <3>2. \A y \in Below(x[1]) \X Atom : g[y] = h[y]
      BY <2>3, <3>1
    <3> QED BY <3>1, <3>2, DemandLocal
  <2>5. h = [x \in Q \X Atom |-> Demand(h, x)]
    <3> DEFINE v(x) == Demand(g, x)
               w(x) == Demand(h, x)
    <3>1. \A x \in Q \X Atom : v(x) = w(x)
      BY <2>4
    <3>2. h = [x \in Q \X Atom |-> v(x)]
      BY DEF h
    <3> SUFFICES [x \in Q \X Atom |-> v(x)] = [x \in Q \X Atom |-> w(x)]
      BY <3>2
    <3> HIDE DEF v, w
    <3> QED BY <3>1
  <2>6. DemandsOf(h, Q)
    BY <2>5 DEF DemandsOf
  <2>7. k + 1 \in 0 .. n
    OBVIOUS
  <2> QED BY <2>6, <2>7 DEF Q
<1> HIDE DEF T
<1>4. n \in T
  BY <1>2, <1>3, UpTo
<1>5. Below(n) = Atom
  BY <1>1 DEF Below
<1> QED BY <1>4, <1>5 DEF T

\* Like and Demands satisfy the equations they are defined by.
LEMMA LikeIs ==
    ASSUME Graph, NEW x \in Atom \X Atom PROVE Like[x] = Verdict(Like, x)
<1>1. Like = CHOOSE h : Verdicts(h, Atom)
  BY DEF Like, Verdicts, Verdict
<1>2. Verdicts(Like, Atom)
  BY <1>1, VerdictsExist
<1> QED BY <1>2 DEF Verdicts

LEMMA DemandsAre ==
    ASSUME Graph, NEW x \in Atom \X Atom PROVE Demands[x] = Demand(Demands, x)
<1>1. Demands = CHOOSE h : DemandsOf(h, Atom)
  BY DEF Demands, DemandsOf, Demand
<1>2. DemandsOf(Demands, Atom)
  BY <1>1, DemandsExist
<1> QED BY <1>2 DEF DemandsOf


\* Demands are pairs of atoms.
LEMMA DemandsOfAtoms ==
    ASSUME Graph PROVE \A x \in Atom \X Atom : Demands[x] \subseteq Atom \X Atom
<1> DEFINE T == {p \in Atom : \E g \in Atom : ~(Demands[<<p, g>>] \subseteq Atom \X Atom)}
<1>1. ASSUME T # {} PROVE FALSE
  <2>1. T \in SUBSET Nat
    BY AtomsAreNumbers
  <2>2. PICK p \in T : \A q \in T : p <= q
    <3> HIDE DEF T
    <3> QED BY <1>1, <2>1, LeastNat
  <2>3. PICK g \in Atom : ~(Demands[<<p, g>>] \subseteq Atom \X Atom)
    OBVIOUS
  <2>4. p \in Atom
    OBVIOUS
  <2>5. Demands[<<p, g>>] = Demand(Demands, <<p, g>>)
    BY <2>4, DemandsAre
  <2>6. \A i \in DOMAIN out[p] \cap DOMAIN out[g] :
           /\ out[p][i] \in Atom /\ out[p][i] < p /\ out[g][i] \in Atom
    BY <2>4 DEF Graph, Below
  <2>7. \A i \in DOMAIN out[p] \cap DOMAIN out[g] :
           Demands[<<out[p][i], out[g][i]>>] \subseteq Atom \X Atom
    <3> SUFFICES ASSUME NEW i \in DOMAIN out[p] \cap DOMAIN out[g]
                 PROVE  out[p][i] \notin T
      BY <2>6
    <3>1. out[p][i] \in Nat /\ p \in Nat /\ out[p][i] < p
      BY <2>4, <2>6, AtomsAreNumbers
    <3> HIDE DEF T
    <3> QED BY <2>2, <3>1
  <2>8. Demands[<<p, g>>] = IF Kind(p) = VariableNode THEN {<<p, g>>}
             ELSE UNION {Demands[<<out[p][i], out[g][i]>>] : i \in DOMAIN out[p] \cap DOMAIN out[g]}
    BY <2>5 DEF Demand
  <2>9. <<p, g>> \in Atom \X Atom
    BY <2>4
  <2> DEFINE I == DOMAIN out[p] \cap DOMAIN out[g]
             D(i) == Demands[<<out[p][i], out[g][i]>>]
  <2>10. UNION {D(i) : i \in I} \subseteq Atom \X Atom
    <3>1. \A i \in I : D(i) \subseteq Atom \X Atom
      BY <2>7
    <3> HIDE DEF I, D
    <3> QED BY <3>1
  <2>11. Demands[<<p, g>>] \subseteq Atom \X Atom
    BY <2>8, <2>9, <2>10
  <2> HIDE DEF T, I, D
  <2> QED BY <2>3, <2>11
<1>2. ASSUME NEW x \in Atom \X Atom PROVE Demands[x] \subseteq Atom \X Atom
  <2>1. x = <<x[1], x[2]>> /\ x[1] \in Atom /\ x[2] \in Atom
    OBVIOUS
  <2> QED BY <1>1, <2>1
<1> QED BY <1>2

\* The bindings as pairs.
AsPairs(b) == {<<v, b[v]>> : v \in DOMAIN b}

\* What a trial has found out and what is still to be compared, of a body.
OnTrial(body) ==
    /\ Like[<<body, trial>>] <=> \A x \in Range(pairs) : Like[x]
    /\ Demands[<<body, trial>>] = AsPairs(bound) \cup UNION {Demands[x] : x \in Range(pairs)}

MatchInv ==
    /\ out \in Graphs /\ pool \in Pools
    /\ MatchTypeOK
    /\ wasAlive \subseteq alive
    /\ trial # 0 => \A body \in Bodies : OnTrial(body)
    /\ ReportsAreMatches
    /\ MatchesAreReported

LEMMA GraphIs == ASSUME out \in Graphs, pool \in Pools PROVE Graph
<1>1. out \in [Atom -> Seq(Atom)] /\ pool \subseteq Atom
  BY MatchAssumption
<1>2. \A a \in Atom : \A i \in DOMAIN out[a] : out[a][i] < a
  BY MatchAssumption
<1>3. \A a \in Atom : \A i \in DOMAIN out[a] : out[a][i] \in Atom
  BY <1>1
<1> QED BY <1>1, <1>2, <1>3 DEF Graph, Below

\* There is one body at most, and it is an atom.
LEMMA OneBody ==
    ASSUME Graph
    PROVE  \A body \in Bodies : body \in Atom /\ Bodies = {body}
BY DEF Bodies, Graph

\* The elements of a sequence that is put together or taken apart.
LEMMA RangeOfJoined ==
    ASSUME NEW S, NEW s \in Seq(S), NEW t \in Seq(S)
    PROVE  Range(s \o t) = Range(s) \cup Range(t)
<1>1. Range(s \o t) \subseteq Range(s) \cup Range(t)
  BY DEF Range
<1>2. ASSUME NEW i \in DOMAIN s PROVE s[i] \in Range(s \o t)
  <2>1. i \in DOMAIN (s \o t) /\ (s \o t)[i] = s[i]
    OBVIOUS
  <2> QED BY <2>1 DEF Range
<1>3. ASSUME NEW i \in DOMAIN t PROVE t[i] \in Range(s \o t)
  <2>1. Len(s) + i \in DOMAIN (s \o t) /\ (s \o t)[Len(s) + i] = t[i]
    OBVIOUS
  <2> QED BY <2>1 DEF Range
<1> QED BY <1>1, <1>2, <1>3 DEF Range

LEMMA RangeOfTail ==
    ASSUME NEW S, NEW s \in Seq(S), s # <<>>
    PROVE  Head(s) \in S /\ Tail(s) \in Seq(S) /\ Range(s) = {Head(s)} \cup Range(Tail(s))
<1>1. Head(s) \in S /\ Tail(s) \in Seq(S) /\ Head(s) = s[1] /\ Len(s) > 0
  OBVIOUS
<1>2. \A i \in 1 .. Len(s) : i = 1 \/ (i - 1 \in DOMAIN Tail(s) /\ Tail(s)[i - 1] = s[i])
  OBVIOUS
<1>3. \A i \in DOMAIN Tail(s) : i + 1 \in DOMAIN s /\ s[i + 1] = Tail(s)[i]
  OBVIOUS
<1>4. 1 \in DOMAIN s /\ DOMAIN s = 1 .. Len(s)
  BY <1>1
<1>5. Range(s) \subseteq {Head(s)} \cup Range(Tail(s))
  <2> SUFFICES ASSUME NEW i \in 1 .. Len(s) PROVE s[i] \in {Head(s)} \cup Range(Tail(s))
    BY <1>4 DEF Range
  <2> QED BY <1>1, <1>2 DEF Range
<1>6. {Head(s)} \cup Range(Tail(s)) \subseteq Range(s)
  <2>1. ASSUME NEW i \in DOMAIN Tail(s) PROVE Tail(s)[i] \in Range(s)
    BY <1>3 DEF Range
  <2> QED BY <1>1, <1>4, <2>1 DEF Range
<1> QED BY <1>1, <1>5, <1>6

\* What is compared next of a pair that unifies.
Deeper(p, g) == IF Kind(p) = VariableNode THEN <<>> ELSE Zip(out[p], out[g])

\* A pair that unifies: its parts are as alike as it is, and demand what it does.
LEMMA UnifiedParts ==
    ASSUME Graph, NEW p \in Atom, NEW g \in Atom, Unifies(p, g)
    PROVE  /\ Deeper(p, g) \in Seq(Atom \X Atom)
           /\ Like[<<p, g>>] <=> \A x \in Range(Deeper(p, g)) : Like[x]
           /\ Demands[<<p, g>>] = (IF Kind(p) = VariableNode THEN {<<p, g>>} ELSE {})
                 \cup UNION {Demands[x] : x \in Range(Deeper(p, g))}
<1>1. Like[<<p, g>>] = Verdict(Like, <<p, g>>) /\ Demands[<<p, g>>] = Demand(Demands, <<p, g>>)
  BY LikeIs, DemandsAre
<1>2. {p, g} \subseteq pool
  BY DEF Unifies
<1>3. CASE Kind(p) = VariableNode
  <2>1. Deeper(p, g) = <<>> /\ Range(Deeper(p, g)) = {}
    BY <1>3 DEF Deeper, Range
  <2>2. Deeper(p, g) \in Seq(Atom \X Atom)
    BY <2>1
  <2>3. Like[<<p, g>>]
    BY <1>1, <1>2, <1>3 DEF Verdict
  <2>4. Demands[<<p, g>>] = {<<p, g>>}
    BY <1>1, <1>3 DEF Demand
  <2> QED BY <1>3, <2>1, <2>2, <2>3, <2>4
<1>4. CASE Kind(p) # VariableNode
  <2> DEFINE n == Len(out[p])
             P == [i \in 1 .. n |-> <<out[p][i], out[g][i]>>]
  <2>1. out[p] \in Seq(Atom) /\ out[g] \in Seq(Atom)
    BY DEF Graph
  <2>2. Kind(p) = Kind(g) /\ (SameNode(p, g) \/ SameShape(p, g))
    BY <1>4 DEF Unifies
  <2>3. n = Len(out[g]) /\ n \in Nat /\ DOMAIN out[p] = 1 .. n /\ DOMAIN out[g] = 1 .. n
    BY <2>1, <2>2 DEF SameNode, SameShape
  <2>4. Deeper(p, g) = P
    BY <1>4, <2>3 DEF Deeper, Zip
  <2>5. P \in Seq(Atom \X Atom) /\ Range(P) = {<<out[p][i], out[g][i]>> : i \in 1 .. n}
    <3>1. \A i \in 1 .. n : out[p][i] \in Atom /\ out[g][i] \in Atom
      BY <2>1, <2>3
    <3>2. P \in [1 .. n -> Atom \X Atom]
      BY <3>1
    <3>3. P \in Seq(Atom \X Atom)
      BY <2>3, <3>2
    <3>4. DOMAIN P = 1 .. n /\ \A i \in 1 .. n : P[i] = <<out[p][i], out[g][i]>>
      OBVIOUS
    <3> HIDE DEF P
    <3> QED BY <3>3, <3>4 DEF Range
  <2>6. out[p] = <<>> => Name(p) = Name(g) \/ Anonymous \in {Name(p), Name(g)}
    BY <2>2 DEF SameNode, SameShape
  <2>7. Like[<<p, g>>] <=> \A i \in 1 .. n : Like[<<out[p][i], out[g][i]>>]
    BY <1>1, <1>2, <1>4, <2>2, <2>3, <2>6 DEF Verdict
  <2>8. Demands[<<p, g>>] = UNION {Demands[<<out[p][i], out[g][i]>>] : i \in 1 .. n}
    BY <1>1, <1>4, <2>3 DEF Demand
  <2> HIDE DEF P, n
  <2>9. Like[<<p, g>>] <=> \A x \in Range(P) : Like[x]
    BY <2>5, <2>7
  <2>10. Demands[<<p, g>>] = UNION {Demands[x] : x \in Range(P)}
    BY <2>5, <2>8
  <2> QED BY <1>4, <2>4, <2>5, <2>9, <2>10
<1> QED BY <1>3, <1>4

\* A pair that does not unify, although the atoms are alike: a variable that
\* stands for another atom already, or for which there is no room.
LEMMA NotUnified ==
    ASSUME Graph, NEW p \in Atom, NEW g \in Atom, ~Unifies(p, g), Like[<<p, g>>]
    PROVE  /\ Kind(p) = VariableNode /\ ~Binds(p, g)
           /\ Demands[<<p, g>>] = {<<p, g>>}
<1>1. Like[<<p, g>>] = Verdict(Like, <<p, g>>) /\ Demands[<<p, g>>] = Demand(Demands, <<p, g>>)
  BY LikeIs, DemandsAre
<1>2. {p, g} \subseteq pool
  BY <1>1 DEF Verdict
<1>3. ASSUME Kind(p) # VariableNode PROVE FALSE
  <2>1. /\ Kind(p) = Kind(g) /\ Len(out[p]) = Len(out[g])
        /\ out[p] = <<>> => Name(p) = Name(g) \/ Anonymous \in {Name(p), Name(g)}
    BY <1>1, <1>3 DEF Verdict
  <2>2. ~SameNode(p, g) /\ ~SameShape(p, g)
    BY <1>2, <1>3, <2>1 DEF Unifies
  <2>3. out[p] \in Seq(Atom) /\ out[g] \in Seq(Atom)
    BY DEF Graph
  <2>4. out[p] = <<>>
    BY <2>1, <2>2 DEF SameShape
  <2>5. out[g] = <<>>
    BY <2>1, <2>3, <2>4
  <2> QED BY <2>1, <2>2, <2>4, <2>5 DEF SameNode
<1>4. ~Binds(p, g)
  BY <1>2, <1>3 DEF Unifies
<1>5. Demands[<<p, g>>] = {<<p, g>>}
  BY <1>1, <1>3 DEF Demand
<1> QED BY <1>3, <1>4, <1>5


\* Before the walk nothing was reported, and nobody was passed by.
LEMMA MatchInitially == MatchInit => MatchInv
<1> SUFFICES ASSUME MatchInit PROVE MatchInv
  OBVIOUS
<1>1. /\ out \in Graphs /\ pool \in Pools /\ wasAlive = alive /\ trial = 0
      /\ bound = Unbound /\ reported = Unbound /\ pairs = <<>>
      /\ alive \subseteq pool /\ left \subseteq pool
      /\ Bodies # {} => left = pool
  BY DEF MatchInit
<1>2. DOMAIN Unbound = {}
  BY DEF Unbound
<1>3. MatchTypeOK
  <2>1. pairs \in Seq(Atom \X Atom)
    BY <1>1
  <2> QED BY <1>1, <1>2, <2>1 DEF MatchTypeOK
<1>4. ReportsAreMatches
  BY <1>1, <1>2 DEF ReportsAreMatches
<1>5. MatchesAreReported
  BY <1>1 DEF MatchesAreReported
<1> QED BY <1>1, <1>3, <1>4, <1>5 DEF MatchInv

\* The graph stays, and with it what the properties compare the reports to.
LEMMA SameGraph ==
    ASSUME out' = out, pool' = pool
    PROVE  Like' = Like /\ Demands' = Demands /\ Bodies' = Bodies
BY DEF Like, Demands, Bodies

\* And as long as no report comes, they are as right as they were.
LEMMA SameReports ==
    ASSUME out' = out, pool' = pool, reported' = reported, ReportsAreMatches
    PROVE  ReportsAreMatches'
<1> DEFINE Right(body, a) == Like[<<body, a>>] /\ AsPairs(reported[a]) = Demands[<<body, a>>]
<1>1. Like' = Like /\ Demands' = Demands /\ Bodies' = Bodies
  BY SameGraph
<1>2. ReportsAreMatches <=> \A body \in Bodies : \A a \in DOMAIN reported : Right(body, a)
  BY DEF ReportsAreMatches, AsPairs
<1>3. ASSUME NEW body, NEW a PROVE Right(body, a)' <=> Right(body, a)
  BY <1>1
<1>4. ReportsAreMatches' <=> \A body \in Bodies' : \A a \in (DOMAIN reported)' : Right(body, a)'
  BY DEF ReportsAreMatches, AsPairs
<1> HIDE DEF Right
<1> QED BY <1>1, <1>2, <1>3, <1>4

\* The walk comes to the next atom.
LEMMA TryStep ==
    ASSUME MatchInv, NEW a \in Atom, Try(a) PROVE MatchInv'
<1>1. Graph /\ MatchTypeOK
  BY GraphIs DEF MatchInv
<1>2. /\ out' = out /\ pool' = pool /\ alive' = alive /\ wasAlive' = wasAlive
      /\ reported' = reported /\ left' = left \ {a} /\ trial = 0
      /\ a = Min(left) /\ left # {}
  BY DEF Try, graph
<1>3. Like' = Like /\ Demands' = Demands /\ Bodies' = Bodies
  BY <1>2, SameGraph
<1>4. a \in left
  <2>1. left \subseteq Nat
    BY <1>1, AtomsAreNumbers DEF MatchTypeOK, Graph
  <2>2. \E x \in left : \A y \in left : x <= y
    BY <1>2, <2>1, LeastNat
  <2> QED BY <1>2, <2>2 DEF Min
<1>5. CASE a # BindLink /\ a \in alive
  <2>1. PICK body \in Bodies : trial' = a /\ pairs' = <<<<body, a>>>> /\ bound' = Unbound
    BY <1>5 DEF Try, graph
  <2>2. body \in Atom /\ Bodies = {body}
    BY <1>1, OneBody
  <2>3. pairs' \in Seq(Atom \X Atom) /\ Range(pairs') = {<<body, a>>}
    <3>1. <<body, a>> \in Atom \X Atom
      BY <2>2
    <3>2. Range(<<<<body, a>>>>) = {<<body, a>>}
      BY DEF Range
    <3> QED BY <2>1, <3>1, <3>2
  <2>4. DOMAIN bound' = {} /\ AsPairs(bound') = {}
    BY <2>1 DEF Unbound, AsPairs
  <2>5. MatchTypeOK'
    BY <1>1, <1>2, <1>4, <2>1, <2>3, <2>4, AtomsAreNumbers DEF MatchTypeOK
  <2>6. \A b \in Bodies' : OnTrial(b)'
    <3>1. OnTrial(body)'
      BY <1>3, <2>1, <2>3, <2>4 DEF OnTrial, AsPairs
    <3> QED BY <1>3, <2>2, <3>1
  <2>7. MatchesAreReported'
    <3>1. left \cup {trial, BindLink} \subseteq left' \cup {trial', BindLink} \cup {0}
      BY <1>2, <2>1
    <3>2. 0 \notin wasAlive
      BY <1>1, AtomsAreNumbers DEF MatchTypeOK, Graph
    <3> QED BY <1>2, <1>3, <3>1, <3>2 DEF MatchInv, MatchesAreReported
  <2>8. ReportsAreMatches'
    BY <1>2, SameReports DEF MatchInv
  <2> QED BY <1>2, <2>5, <2>6, <2>7, <2>8 DEF MatchInv
<1>6. CASE ~(a # BindLink /\ a \in alive)
  <2>1. trial' = trial /\ pairs' = pairs /\ bound' = bound
    BY <1>6 DEF Try, graph
  <2>2. MatchTypeOK'
    BY <1>1, <1>2, <2>1 DEF MatchTypeOK
  <2>3. MatchesAreReported'
    <3>1. a = BindLink \/ a \notin wasAlive
      BY <1>6 DEF MatchInv
    <3> QED BY <1>2, <1>3, <2>1, <3>1 DEF MatchInv, MatchesAreReported
  <2>4. ReportsAreMatches'
    BY <1>2, SameReports DEF MatchInv
  <2> QED BY <1>2, <2>1, <2>2, <2>3, <2>4 DEF MatchInv
<1> QED BY <1>5, <1>6

\* A pair is unified: its parts take its place.
LEMMA UnifyStep ==
    ASSUME MatchInv, Unify PROVE MatchInv'
<1> DEFINE x == Head(pairs)
           p == x[1]
           g == x[2]
           new == Deeper(p, g)
           rest == Tail(pairs)
<1>1. Graph /\ MatchTypeOK
  BY GraphIs DEF MatchInv
<1>2. /\ out' = out /\ pool' = pool /\ alive' = alive /\ wasAlive' = wasAlive
      /\ reported' = reported /\ left' = left /\ trial' = trial /\ pairs # <<>>
      /\ Unifies(p, g) /\ pairs' = new \o rest
      /\ bound' = IF Kind(p) = VariableNode
                  THEN [v \in DOMAIN bound \cup {p} |-> IF v = p THEN g ELSE bound[v]]
                  ELSE bound
  BY DEF Unify, Deeper, graph
<1>3. Like' = Like /\ Demands' = Demands /\ Bodies' = Bodies
  BY <1>2, SameGraph
<1>4. /\ x \in Atom \X Atom /\ rest \in Seq(Atom \X Atom)
      /\ Range(pairs) = {x} \cup Range(rest)
  BY <1>1, <1>2, RangeOfTail DEF MatchTypeOK
<1>5. x = <<p, g>> /\ p \in Atom /\ g \in Atom
  BY <1>4
<1> HIDE DEF x, p, g, rest
<1>6. /\ new \in Seq(Atom \X Atom)
      /\ Like[x] <=> \A y \in Range(new) : Like[y]
      /\ Demands[x] = (IF Kind(p) = VariableNode THEN {x} ELSE {})
             \cup UNION {Demands[y] : y \in Range(new)}
  BY <1>1, <1>2, <1>5, UnifiedParts
<1> HIDE DEF new
<1>7. pairs' \in Seq(Atom \X Atom) /\ Range(pairs') = Range(new) \cup Range(rest)
  BY <1>2, <1>4, <1>6, RangeOfJoined
<1>8. AsPairs(bound') = AsPairs(bound) \cup (IF Kind(p) = VariableNode THEN {x} ELSE {})
  <2>1. CASE Kind(p) = VariableNode
    <3>1. p \in DOMAIN bound => bound[p] = g
      BY <1>2, <2>1 DEF Unifies, Binds
    <3>2. /\ DOMAIN bound' = DOMAIN bound \cup {p} /\ bound'[p] = g
          /\ \A v \in DOMAIN bound : bound'[v] = bound[v]
      BY <1>2, <2>1, <3>1
    <3> QED BY <1>5, <2>1, <3>2 DEF AsPairs
  <2>2. CASE Kind(p) # VariableNode
    BY <1>2, <2>2 DEF AsPairs
  <2> QED BY <2>1, <2>2
<1>9. MatchTypeOK'
  <2>1. \A v \in DOMAIN bound' : Kind(v) = VariableNode /\ bound'[v] \in pool
    <3>1. \A v \in DOMAIN bound : Kind(v) = VariableNode /\ bound[v] \in pool
      BY <1>1 DEF MatchTypeOK
    <3>2. g \in pool
      BY <1>2 DEF Unifies
    <3> QED BY <1>2, <3>1, <3>2
  <2>2. trial # 0
    BY <1>1, <1>2 DEF MatchTypeOK
  <2> QED BY <1>1, <1>2, <1>7, <2>1, <2>2 DEF MatchTypeOK
<1>10. ASSUME NEW body \in Bodies PROVE OnTrial(body)'
  <2>1. trial # 0
    BY <1>1, <1>2 DEF MatchTypeOK
  <2>2. /\ Like[<<body, trial>>] <=> \A y \in {x} \cup Range(rest) : Like[y]
        /\ Demands[<<body, trial>>]
             = AsPairs(bound) \cup UNION {Demands[y] : y \in {x} \cup Range(rest)}
    BY <1>4, <2>1 DEF MatchInv, OnTrial
  <2>3. Like[<<body, trial>>] <=> \A y \in Range(new) \cup Range(rest) : Like[y]
    BY <1>6, <2>2
  <2>4. Demands[<<body, trial>>]
             = AsPairs(bound') \cup UNION {Demands[y] : y \in Range(new) \cup Range(rest)}
    <3>1. UNION {Demands[y] : y \in {x} \cup Range(rest)}
             = Demands[x] \cup (UNION {Demands[y] : y \in Range(rest)})
      OBVIOUS
    <3>2. UNION {Demands[y] : y \in Range(new) \cup Range(rest)}
             = (UNION {Demands[y] : y \in Range(new)}) \cup (UNION {Demands[y] : y \in Range(rest)})
      OBVIOUS
    <3> QED BY <1>6, <1>8, <2>2, <3>1, <3>2
  <2> QED BY <1>2, <1>3, <1>7, <2>3, <2>4 DEF OnTrial, AsPairs
<1>11. MatchesAreReported' /\ ReportsAreMatches'
  BY <1>2, <1>3, SameReports DEF MatchInv, MatchesAreReported
<1> QED BY <1>2, <1>3, <1>9, <1>10, <1>11 DEF MatchInv

\* More bindings than there is room for.
LEMMA TooMany ==
    ASSUME NEW b, NEW D, IsFiniteSet(D), AsPairs(b) \subseteq D,
           NEW x \in D, x \notin AsPairs(b), ~(Cardinality(DOMAIN b) < MaxBindings)
    PROVE  Cardinality(D) > MaxBindings
<1> DEFINE G == AsPairs(b)
<1>1. IsFiniteSet(G)
  BY FS_Subset
<1>2. /\ IsFiniteSet(DOMAIN b) /\ Cardinality(DOMAIN b) <= Cardinality(G)
      /\ Cardinality(DOMAIN b) \in Nat /\ Cardinality(G) \in Nat
  <2> DEFINE f == [y \in G |-> y[1]]
  <2>1. f \in Surjection(G, DOMAIN b)
    <3>1. f \in [G -> DOMAIN b]
      BY DEF AsPairs
    <3>2. ASSUME NEW v \in DOMAIN b PROVE \E y \in G : f[y] = v
      <4>1. <<v, b[v]>> \in G /\ f[<<v, b[v]>>] = v
        BY DEF AsPairs
      <4> QED BY <4>1
    <3> HIDE DEF f, G
    <3> QED BY <3>1, <3>2 DEF Surjection
  <2> HIDE DEF f, G
  <2>2. IsFiniteSet(DOMAIN b) /\ Cardinality(DOMAIN b) <= Cardinality(G)
    BY <1>1, <2>1, FS_Surjection
  <2> QED BY <1>1, <2>2, FS_CardinalityType
<1>3. IsFiniteSet(G \cup {x}) /\ Cardinality(G \cup {x}) = Cardinality(G) + 1
  BY <1>1, FS_AddElement
<1>4. Cardinality(G \cup {x}) <= Cardinality(D) /\ Cardinality(D) \in Nat
  <2>1. G \cup {x} \subseteq D
    OBVIOUS
  <2> QED BY <2>1, FS_Subset, FS_CardinalityType
<1>5. MaxBindings \in Nat
  BY MatchAssumption
<1> HIDE DEF G
<1> QED BY <1>2, <1>3, <1>4, <1>5

\* A pair does not unify: the atom at trial is not like the pattern, or it asks
\* for two atoms for one variable or for too many variables.
LEMMA FailStep ==
    ASSUME MatchInv, Fail PROVE MatchInv'
<1> DEFINE x == Head(pairs)
           p == x[1]
           g == x[2]
<1>1. Graph /\ MatchTypeOK
  BY GraphIs DEF MatchInv
<1>2. /\ out' = out /\ pool' = pool /\ alive' = alive /\ wasAlive' = wasAlive
      /\ reported' = reported /\ left' = left /\ bound' = bound
      /\ trial' = 0 /\ pairs' = <<>> /\ pairs # <<>> /\ ~Unifies(p, g)
  BY DEF Fail, graph
<1>3. Like' = Like /\ Demands' = Demands /\ Bodies' = Bodies
  BY <1>2, SameGraph
<1>4. x \in Atom \X Atom /\ x \in Range(pairs)
  BY <1>1, <1>2, RangeOfTail DEF MatchTypeOK
<1>5. x = <<p, g>> /\ p \in Atom /\ g \in Atom
  BY <1>4
<1>6. trial \in pool /\ trial \in Atom /\ trial # 0
  BY <1>1, <1>2 DEF MatchTypeOK, Graph
<1> HIDE DEF x, p, g
<1>7. ASSUME NEW body \in Bodies, Like[<<body, trial>>]
      PROVE  \/ ~OneEach(Demands[<<body, trial>>])
             \/ Cardinality(Demands[<<body, trial>>]) > MaxBindings
  <2> DEFINE D == Demands[<<body, trial>>]
  <2>1. /\ Like[x]
        /\ AsPairs(bound) \subseteq D /\ Demands[x] \subseteq D
    <3>1. OnTrial(body)
      BY <1>6 DEF MatchInv
    <3> QED BY <1>4, <1>7, <3>1 DEF OnTrial
  <2>2. ~Binds(p, g) /\ x \in D
    <3>1. ~Binds(p, g) /\ Demands[<<p, g>>] = {<<p, g>>}
      BY <1>1, <1>2, <1>5, <2>1, NotUnified
    <3> QED BY <1>5, <2>1, <3>1
  <2>3. IsFiniteSet(D)
    <3>1. body \in Atom
      BY <1>1, OneBody
    <3>2. D \subseteq Atom \X Atom
      BY <1>1, <1>6, <3>1, DemandsOfAtoms
    <3>3. IsFiniteSet(Atom \X Atom)
      BY AtomsAreNumbers, FS_Product
    <3> QED BY <3>2, <3>3, FS_Subset
  <2> HIDE DEF D
  <2>4. CASE p \in DOMAIN bound
    <3>1. bound[p] # g /\ <<p, bound[p]>> \in D
      BY <2>1, <2>2, <2>4 DEF Binds, AsPairs
    <3> QED BY <1>5, <2>2, <3>1 DEF OneEach, D
  <2>5. CASE p \notin DOMAIN bound
    <3>1. ~(Cardinality(DOMAIN bound) < MaxBindings)
      BY <2>2, <2>5 DEF Binds
    <3>2. x \notin AsPairs(bound)
      BY <1>5, <2>5 DEF AsPairs
    <3>3. Cardinality(D) > MaxBindings
      BY <2>1, <2>2, <2>3, <3>1, <3>2, TooMany
    <3> QED BY <3>3 DEF D
  <2> QED BY <2>4, <2>5
<1>8. MatchesAreReported'
  <2> SUFFICES ASSUME NEW body \in Bodies, NEW a \in wasAlive \ (left \cup {0, BindLink}),
                      Like[<<body, a>>]
               PROVE  \/ a \in DOMAIN reported
                      \/ ~OneEach(Demands[<<body, a>>])
                      \/ Cardinality(Demands[<<body, a>>]) > MaxBindings
    BY <1>2, <1>3 DEF MatchesAreReported, OneEach
  <2>1. CASE a = trial
    BY <1>7, <2>1
  <2>2. CASE a # trial
    BY <2>2 DEF MatchInv, MatchesAreReported
  <2> QED BY <2>1, <2>2
<1>9. MatchTypeOK'
  <2>1. <<>> \in Seq(Atom \X Atom)
    OBVIOUS
  <2> QED BY <1>1, <1>2, <2>1 DEF MatchTypeOK
<1>10. ReportsAreMatches'
  BY <1>2, SameReports DEF MatchInv
<1> QED BY <1>2, <1>8, <1>9, <1>10 DEF MatchInv

\* Every pair was unified.
LEMMA ReportStep ==
    ASSUME MatchInv, Report PROVE MatchInv'
<1>1. Graph /\ MatchTypeOK
  BY GraphIs DEF MatchInv
<1>2. /\ out' = out /\ pool' = pool /\ alive' = alive /\ wasAlive' = wasAlive
      /\ left' = left /\ bound' = bound /\ trial' = 0 /\ pairs' = pairs
      /\ trial # 0 /\ pairs = <<>>
      /\ reported' = [a \in DOMAIN reported \cup {trial} |->
                         IF a = trial THEN bound ELSE reported[a]]
  BY DEF Report, graph
<1>3. Like' = Like /\ Demands' = Demands /\ Bodies' = Bodies
  BY <1>2, SameGraph
<1>4. /\ DOMAIN reported' = DOMAIN reported \cup {trial} /\ reported'[trial] = bound
      /\ \A a \in DOMAIN reported \ {trial} : reported'[a] = reported[a]
  BY <1>2
<1>5. ReportsAreMatches'
  <2> SUFFICES ASSUME NEW body \in Bodies, NEW a \in DOMAIN reported \cup {trial}
               PROVE  /\ Like[<<body, a>>]
                      /\ AsPairs(reported'[a]) = Demands[<<body, a>>]
    BY <1>3, <1>4 DEF ReportsAreMatches, AsPairs
  <2>1. CASE a = trial
    <3>1. Range(pairs) = {}
      BY <1>2 DEF Range
    <3>2. Like[<<body, trial>>] /\ Demands[<<body, trial>>] = AsPairs(bound)
      BY <1>2, <3>1 DEF MatchInv, OnTrial
    <3> QED BY <1>4, <2>1, <3>2
  <2>2. CASE a # trial
    <3>1. a \in DOMAIN reported /\ reported'[a] = reported[a]
      BY <1>4, <2>2
    <3> QED BY <3>1 DEF MatchInv, ReportsAreMatches, AsPairs
  <2> QED BY <2>1, <2>2
<1>6. MatchesAreReported'
  BY <1>2, <1>3, <1>4 DEF MatchInv, MatchesAreReported
<1>7. MatchTypeOK'
  <2>1. \A b \in {bound'} \cup {reported'[a] : a \in DOMAIN reported'} :
           b = bound \/ b \in {reported[a] : a \in DOMAIN reported}
    BY <1>2, <1>4
  <2> QED BY <1>1, <1>2, <1>4, <2>1 DEF MatchTypeOK
<1> QED BY <1>2, <1>5, <1>6, <1>7 DEF MatchInv

LEMMA MatchStep == MatchInv /\ [MatchNext]_matchVars => MatchInv'
<1> SUFFICES ASSUME MatchInv, MatchNext \/ UNCHANGED matchVars PROVE MatchInv'
  OBVIOUS
<1>1. ASSUME NEW a \in Atom, Wake(a) PROVE MatchInv'
  <2>1. /\ out' = out /\ pool' = pool /\ wasAlive' = wasAlive /\ left' = left
        /\ trial' = trial /\ pairs' = pairs /\ bound' = bound /\ reported' = reported
        /\ alive' = alive \cup {a} /\ a \in pool
    BY <1>1 DEF Wake, graph
  <2>2. Like' = Like /\ Demands' = Demands /\ Bodies' = Bodies
    BY <2>1, SameGraph
  <2>3. MatchTypeOK' /\ MatchesAreReported' /\ ReportsAreMatches'
    BY <2>1, <2>2, SameReports DEF MatchInv, MatchTypeOK, MatchesAreReported
  <2>4. \A body \in Bodies : OnTrial(body)' <=> OnTrial(body)
    BY <2>1, <2>2 DEF OnTrial, AsPairs
  <2> QED BY <2>1, <2>2, <2>3, <2>4 DEF MatchInv
<1>2. CASE UNCHANGED matchVars
  <2>1. /\ out' = out /\ pool' = pool /\ wasAlive' = wasAlive /\ left' = left
        /\ trial' = trial /\ pairs' = pairs /\ bound' = bound /\ reported' = reported
        /\ alive' = alive
    BY <1>2 DEF matchVars
  <2>2. Like' = Like /\ Demands' = Demands /\ Bodies' = Bodies
    BY <2>1, SameGraph
  <2>3. MatchTypeOK' /\ MatchesAreReported' /\ ReportsAreMatches'
    BY <2>1, <2>2, SameReports DEF MatchInv, MatchTypeOK, MatchesAreReported
  <2>4. \A body \in Bodies : OnTrial(body)' <=> OnTrial(body)
    BY <2>1, <2>2 DEF OnTrial, AsPairs
  <2> QED BY <2>1, <2>2, <2>3, <2>4 DEF MatchInv
<1> QED BY <1>1, <1>2, TryStep, UnifyStep, FailStep, ReportStep DEF MatchNext

-----------------------------------------------------------------------------
(* The services together. *)

ServicesInv == LineInv /\ BridgeInv /\ DisTyxInv /\ LlmInv /\ MatchInv

LEMMA ServicesInvHolds == Spec => []ServicesInv
<1>1. Init => ServicesInv
  BY LineInitInv, BridgeInitInv, DisTyxInitInv, LlmInitInv, MatchInitially
     DEF Init, ServicesInv
<1>2. ServicesInv /\ [Next]_services => ServicesInv'
  <2> SUFFICES ASSUME ServicesInv, [Next]_services PROVE ServicesInv'
    OBVIOUS
  <2> USE DEF ServicesInv
  <2>1. ASSUME NEW c \in Client, AtBridge(c) PROVE ServicesInv'
    BY <2>1, BridgeStepInv, DisTyxSame, LlmSame, MatchStep DEF AtBridge
  <2>2. ASSUME NEW c \in Client, AtDisTyx(c) PROVE ServicesInv'
    BY <2>2, DisTyxStepInv, BridgeSame, LlmSame, MatchStep DEF AtDisTyx
  <2>3. CASE AtHost
    BY <2>3, HostCallInv, BridgeSame, LlmSame, MatchStep DEF AtHost
  <2>4. ASSUME NEW t \in Caller, AtLlm(t) PROVE ServicesInv'
    BY <2>4, LlmStepInv, LineSame, BridgeSame, DisTyxSame, MatchStep DEF AtLlm
  <2>5. CASE AtMatcher
    BY <2>5, LineSame, BridgeSame, DisTyxSame, LlmSame, MatchStep DEF AtMatcher
  <2>6. CASE UNCHANGED services
    BY <2>6, LineSame, BridgeSame, DisTyxSame, LlmSame, MatchStep DEF services
  <2> QED
    BY <2>1, <2>2, <2>3, <2>4, <2>5, <2>6 DEF Next
<1> QED
  BY <1>1, <1>2, PTL DEF Spec

\* No array of the bridge outgrows its room, no buffer or count its bound, and
\* every connection is answered in order, at most once to a request and only to
\* requests it made, whatever clients send at once.
THEOREM ServersStayOK == Spec => []ServersOK
<1>1. ServicesInv => ServersOK
  BY LineInvOK, BridgeInvOK, DisTyxInvOK, LlmInvOK DEF ServicesInv, ServersOK, TypeOK
<1> QED
  BY <1>1, ServicesInvHolds, PTL

\* "episodic" answers with the last values that requests overwrote, for rings of
\* every size, any number of atoms and any sequence of requests.
THEOREM EpisodicAlwaysRecallsLast == Spec => []EpisodicRecallsLast
<1>1. ServicesInv => EpisodicRecallsLast
  BY BridgeInvOK DEF ServicesInv
<1> QED
  BY <1>1, ServicesInvHolds, PTL

\* cogdiod_get_tv_history answers with the last values that set_tv was
\* given, for rings of every size, whatever atoms come, go and are linked.
THEOREM HistoryAlwaysRecallsLast == Spec => []HistoryRecallsLast
<1>1. ServicesInv => HistoryRecallsLast
  BY DisTyxInvOK DEF ServicesInv
<1> QED
  BY <1>1, ServicesInvHolds, PTL

\* No child is ended twice, none is entered in the table or taken from it that does
\* not run, for every size of the table and every number of threads, however calls
\* on one atom overlap.
THEOREM ChildrenAlwaysEndOnce == Spec => []ChildrenEndOnce
<1>1. ServicesInv => ChildrenEndOnce
  BY LlmInvOK DEF ServicesInv
<1> QED
  BY <1>1, ServicesInvHolds, PTL

\* No call leaves a child running that neither the table nor a thread has, unless
\* a later attach took its place, whether calls on one atom overlap or not.
THEOREM ChildrenStayAccountedFor == Spec => []ChildrenAreAccountedFor
<1>1. ServicesInv => ChildrenAreAccountedFor
  BY LlmInvOK DEF ServicesInv
<1> QED
  BY <1>1, ServicesInvHolds, PTL

\* An atom's latest model is found whatever other atoms were put in its way,
\* unless an entry before its own was taken out, for every size of the table,
\* every hash and every number of threads, whether calls overlap or not.
THEOREM LatestStaysFound == Spec => []LatestIsFound
<1>1. ServicesInv => LatestIsFound
  BY LlmInvOK DEF ServicesInv
<1> QED
  BY <1>1, ServicesInvHolds, PTL

\* A list DisTyx sends as text, /ai/atoms or the links of an atom, is the whole
\* list, for any width of the uuids and any room in the reply: the client is never
\* sent a part of it that reads like the whole.
THEOREM ListsStayWhole == Spec => []ListsAreWhole
<1>1. ServicesInv => ListsAreWhole
  BY ListsWhole DEF ServicesInv
<1> QED
  BY <1>1, ServicesInvHolds, PTL

\* Whoever the callback of cogdiod_match hears of is like the pattern, with the
\* bindings the pattern demands and no other, for every graph without a cycle.
THEOREM ReportsStayOK == Spec => []ReportsOK
<1>1. ServicesInv => ReportsOK
  BY DEF ServicesInv, MatchInv, ReportsOK
<1> QED
  BY <1>1, ServicesInvHolds, PTL

\* And it hears of every atom that was alive when the call began, is like the
\* pattern and asks for one atom for every variable, with room for all of them.
THEOREM NoMatchIsMissed == Spec => []MatchesAreReported
<1>1. ServicesInv => MatchesAreReported
  BY DEF ServicesInv, MatchInv
<1> QED
  BY <1>1, ServicesInvHolds, PTL
=============================================================================
