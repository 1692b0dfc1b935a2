--------------------------- MODULE RunQueueProofs ---------------------------
(***************************************************************************)
(* Proofs about RunQueue for every number of workers and atoms, and every  *)
(* capacity.                                                               *)
(*                                                                         *)
(* First the wakeup protocol of cogdiod_enqueue, worker_thread and         *)
(* cogdiod_stop, which depends on how many entries the heap has, not on    *)
(* which.  Then the array: what rq_sift_up and rq_sift_down return, by     *)
(* induction on the index (a least counterexample in place of an           *)
(* induction rule), and from it the refinement of PriorityBag.             *)
(***************************************************************************)
EXTENDS RunQueue, FiniteSetTheorems, WellFoundedInduction, TLAPS

\* The variables the protocol reads have these types.
ControlType ==
    /\ running \in BOOLEAN
    /\ rq_tail \in Nat
    /\ wpc \in [Workers -> WorkerControl]
    /\ mpc \in {"idle", "allocate", "launch", "broadcast", "join"}

\* A start that has begun has set `running' and a stop that has begun has cleared
\* it; before the threads are launched, and after a stop has returned, no worker
\* is under way.
StopOrder ==
    /\ mpc \in {"allocate", "launch"} => running
    /\ mpc \in {"broadcast", "join"} => ~running
    /\ mpc \in {"allocate", "launch"} \/ (mpc = "idle" /\ ~running)
          => \A w \in Workers : wpc[w] \in {"none", "exited"}

WakeupInv == ControlType /\ StopOrder /\ NoSleeperBesideWork /\ NoSleeperAfterStop

\* The workers that have been woken are finitely many.
LEMMA WokenFinite == IsFiniteSet(Woken) /\ Cardinality(Woken) \in Nat
<1>1. IsFiniteSet(Woken)
  BY WorkersAssumption, FS_Subset DEF Woken
<1>2. QED
  BY <1>1, FS_CardinalityType

\* A worker that goes from waiting to woken.
LEMMA WakeOneWorker ==
    ASSUME wpc \in [Workers -> WorkerControl],
           NEW w \in Waiting, wpc' = [wpc EXCEPT ![w] = "woken"]
    PROVE  Cardinality(Woken') = Cardinality(Woken) + 1
<1>1. Woken' = Woken \cup {w} /\ w \notin Woken
  BY DEF Woken, Waiting
<1>2. QED
  BY <1>1, WokenFinite, FS_AddElement

\* A worker that leaves the lock section for a control state c.
LEMMA LeaveSection ==
    ASSUME wpc \in [Workers -> WorkerControl],
           NEW w \in Workers, NEW c \in WorkerControl \ {"woken"},
           wpc' = [wpc EXCEPT ![w] = c]
    PROVE  /\ Cardinality(Woken') \in Nat
           /\ Cardinality(Woken') >= Cardinality(Woken) - 1
           /\ wpc[w] # "woken" => Woken' = Woken
<1>1. Woken' = Woken \ {w}
  BY DEF Woken
<1>2. Cardinality(Woken \ {w})
         = IF w \in Woken THEN Cardinality(Woken) - 1 ELSE Cardinality(Woken)
  BY WokenFinite, FS_RemoveElement
<1>3. Cardinality(Woken \ {w}) \in Nat
  BY WokenFinite, FS_RemoveElement, FS_CardinalityType
<1>4. wpc[w] # "woken" => Woken' = Woken
  BY <1>1 DEF Woken
<1>5. QED
  BY <1>1, <1>2, <1>3, <1>4, WokenFinite

\* While the workers are started or joined each of them is new or gone: a step of
\* one that is neither is taken at another time.
LEMMA StopOrderKept ==
    ASSUME ControlType, StopOrder, running' = running, mpc' = mpc,
           NEW w \in Workers, wpc[w] \notin {"none", "exited"},
           NEW c, wpc' = [wpc EXCEPT ![w] = c]
    PROVE  StopOrder'
<1>1. ~(mpc \in {"allocate", "launch"} \/ (mpc = "idle" /\ ~running))
  BY DEF StopOrder
<1> QED BY <1>1 DEF StopOrder

LEMMA WakeupInit == Init => WakeupInv
<1> SUFFICES ASSUME Init PROVE WakeupInv
  OBVIOUS
<1>1. running = FALSE /\ rq_tail = 0 /\ mpc = "idle"
      /\ wpc = [w \in Workers |-> "none"]
  BY DEF Init
<1>2. ControlType
  BY <1>1 DEF ControlType, WorkerControl
<1>3. Waiting = {}
  BY <1>1 DEF Waiting
<1>4. QED
  BY <1>1, <1>2, <1>3 DEF WakeupInv, StopOrder, NoSleeperBesideWork,
                          NoSleeperAfterStop

\* One step of the scheduler, one case per action.
LEMMA WakeupStep == WakeupInv /\ [Next]_vars => WakeupInv'
<1> SUFFICES ASSUME WakeupInv, [Next]_vars PROVE WakeupInv'
  OBVIOUS
<1> USE DEF WakeupInv, ControlType
<1>1. ASSUME NEW a \in Atom, Enqueue(a) PROVE WakeupInv'
  <2>1. /\ rq_tail' = rq_tail + 1
        /\ running' = running /\ mpc' = mpc
        /\ \/ Waiting = {} /\ wpc' = wpc
           \/ \E w \in Waiting : wpc' = [wpc EXCEPT ![w] = "woken"]
    BY <1>1 DEF Enqueue, Insert
  <2>2. CASE Waiting = {} /\ wpc' = wpc
    BY <2>1, <2>2 DEF StopOrder, NoSleeperBesideWork, NoSleeperAfterStop, Waiting
  <2>3. ASSUME NEW w \in Waiting, wpc' = [wpc EXCEPT ![w] = "woken"]
        PROVE  WakeupInv'
    <3>1. Cardinality(Woken') = Cardinality(Woken) + 1
      BY <2>3, WakeOneWorker
    <3>2. Waiting' \subseteq Waiting
      BY <2>3 DEF Waiting
    <3>3. NoSleeperBesideWork'
      BY <2>1, <2>3, <3>1, WokenFinite DEF NoSleeperBesideWork
    <3>4. ControlType'
      BY <2>1, <2>3 DEF WorkerControl, Waiting
    <3>5. StopOrder'
      BY <2>1, <2>3, StopOrderKept DEF Waiting
    <3>6. QED
      BY <2>1, <3>2, <3>3, <3>4, <3>5 DEF NoSleeperAfterStop
  <2>4. QED
    BY <2>1, <2>2, <2>3
<1>2. ASSUME NEW w \in Workers, Acquire(w) PROVE WakeupInv'
  <2>1. CASE rq_tail = 0 /\ running /\ wpc' = [wpc EXCEPT ![w] = "waiting"]
             /\ rq_tail' = rq_tail
    <3>1. Cardinality(Woken') \in Nat
      BY <2>1, LeaveSection DEF WorkerControl
    <3>2. ControlType' /\ running' /\ mpc' = mpc /\ mpc = "idle"
      BY <1>2, <2>1 DEF Acquire, WorkerControl, StopOrder
    <3>3. QED
      BY <2>1, <3>1, <3>2 DEF StopOrder, NoSleeperBesideWork, NoSleeperAfterStop
  <2>2. CASE ~running /\ wpc' = [wpc EXCEPT ![w] = "exited"] /\ rq_tail' = rq_tail
    BY <1>2, <2>2 DEF Acquire, WorkerControl, StopOrder, NoSleeperBesideWork,
                      NoSleeperAfterStop, Waiting
  <2>3. CASE running /\ rq_tail > 0 /\ rq_tail' = rq_tail - 1
             /\ wpc' = [wpc EXCEPT ![w] = "popped"]
    <3>1. Cardinality(Woken') \in Nat
          /\ Cardinality(Woken') >= Cardinality(Woken) - 1
      BY <2>3, LeaveSection DEF WorkerControl
    <3>2. ControlType' /\ running' /\ mpc' = mpc /\ mpc = "idle"
      BY <1>2, <2>3 DEF Acquire, WorkerControl, StopOrder
    <3>3. Waiting' # {} => Waiting # {}
      BY <2>3 DEF Waiting
    <3>4. NoSleeperBesideWork'
      BY <2>3, <3>1, <3>3, WokenFinite DEF NoSleeperBesideWork
    <3>5. QED
      BY <3>2, <3>4 DEF StopOrder, NoSleeperAfterStop
  <2>4. QED
    BY <1>2, <2>1, <2>2, <2>3 DEF Acquire, Pop
<1>3. ASSUME NEW w \in Workers, Check(w) \/ Examine(w) \/ Finish(w)
      PROVE  WakeupInv'
  <2>1. PICK c \in WorkerControl \ {"woken", "waiting"} :
           wpc' = [wpc EXCEPT ![w] = c]
    BY <1>3 DEF Check, Examine, Finish, WorkerControl
  <2>2. Woken' = Woken
    BY <1>3, <2>1, LeaveSection DEF Check, Examine, Finish
  <2>3. Waiting' \subseteq Waiting
    BY <2>1 DEF Waiting
  <2>4. running' = running /\ rq_tail' = rq_tail /\ mpc' = mpc
    BY <1>3 DEF Check, Examine, Finish
  <2>5. StopOrder'
    <3>1. wpc[w] \in {"top", "popped", "busy"}
      BY <1>3 DEF Check, Examine, Finish
    <3> QED BY <2>1, <2>4, <3>1, StopOrderKept
  <2>6. ControlType'
    BY <2>1, <2>4
  <2>7. QED
    BY <2>2, <2>3, <2>4, <2>5, <2>6 DEF NoSleeperBesideWork, NoSleeperAfterStop
<1>4. ASSUME NEW w \in Workers, SpuriousWakeup(w) PROVE WakeupInv'
  <2>1. w \in Waiting /\ wpc' = [wpc EXCEPT ![w] = "woken"]
    BY <1>4 DEF SpuriousWakeup, Waiting
  <2>2. Cardinality(Woken') = Cardinality(Woken) + 1
    BY <2>1, WakeOneWorker
  <2>3. Waiting' \subseteq Waiting
    BY <2>1 DEF Waiting
  <2>4. running' = running /\ rq_tail' = rq_tail /\ mpc' = mpc
    BY <1>4 DEF SpuriousWakeup
  <2>5. ControlType' /\ NoSleeperAfterStop'
    BY <2>1, <2>3, <2>4 DEF NoSleeperAfterStop, WorkerControl
  <2>6. StopOrder'
    BY <2>1, <2>4, StopOrderKept DEF Waiting
  <2>7. NoSleeperBesideWork'
    BY <2>1, <2>2, <2>4, WokenFinite DEF NoSleeperBesideWork
  <2>8. QED
    BY <2>5, <2>6, <2>7
<1>5. CASE Start
  <2>1. Waiting = {} /\ Waiting' = {}
    BY <1>5 DEF Start, StartRunning, StartAllocate, StartLaunch, StopOrder, Waiting
  <2>2. ControlType' /\ StopOrder'
    <3>1. CASE StartRunning
      BY <3>1 DEF StartRunning, StopOrder
    <3>2. CASE StartAllocate
      BY <3>2 DEF StartAllocate, StopOrder
    <3>3. CASE StartLaunch
      BY <3>3 DEF StartLaunch, StopOrder, WorkerControl
    <3> QED BY <1>5, <3>1, <3>2, <3>3 DEF Start
  <2> QED
    BY <2>1, <2>2 DEF NoSleeperBesideWork, NoSleeperAfterStop
<1>6. CASE StopClear
  BY <1>6 DEF StopClear, StopOrder, NoSleeperBesideWork, NoSleeperAfterStop
<1>7. CASE StopBroadcast
  <2>1. Waiting' = {}
    BY <1>7 DEF StopBroadcast, Waiting
  <2>2. QED
    BY <1>7, <2>1 DEF StopBroadcast, StopOrder, NoSleeperBesideWork,
                      NoSleeperAfterStop, WorkerControl
<1>8. CASE StopJoin
  BY <1>8 DEF StopJoin, StopOrder, NoSleeperBesideWork, NoSleeperAfterStop, Waiting
<1>9. CASE EcanStep \/ (\E a \in Atom : Wake(a) \/ Attend(a)) \/ UNCHANGED vars
  <2>1. UNCHANGED <<running, rq_tail, wpc, mpc>>
    BY <1>9 DEF EcanStep, Wake, Attend, vars
  <2>2. QED
    BY <2>1 DEF StopOrder, NoSleeperBesideWork, NoSleeperAfterStop, Waiting, Woken
<1>10. QED
  BY <1>1, <1>2, <1>3, <1>4, <1>5, <1>6, <1>7, <1>8, <1>9
     DEF Next, FixedStiNext, WorkerStep, Stop

\* For any number of workers: a worker asleep beside scheduled atoms is always
\* outnumbered by workers woken for them, and none sleeps through a stop.
THEOREM NoWorkerOverslept == Spec => [](NoSleeperBesideWork /\ NoSleeperAfterStop)
<1>1. WakeupInv => NoSleeperBesideWork /\ NoSleeperAfterStop
  BY DEF WakeupInv
<1>2. QED
  BY <1>1, WakeupInit, WakeupStep, PTL DEF Spec

-----------------------------------------------------------------------------
(* The heap. *)

\* A set of numbers has a least one: the sets of the numbers below them are
\* ordered by inclusion, and on finite sets that order is well founded.
LEMMA LeastNat ==
    ASSUME NEW T \in SUBSET Nat, T # {}
    PROVE  \E n \in T : \A m \in T : n <= m
<1> DEFINE U == {0 .. n - 1 : n \in T}
<1>1. U \subseteq FiniteSubsetsOf(Nat)
  <2>1. ASSUME NEW n \in T PROVE IsFiniteSet(0 .. n - 1) /\ 0 .. n - 1 \subseteq Nat
    <3>1. 0 \in Int /\ n - 1 \in Int
      OBVIOUS
    <3> QED BY <3>1, FS_Interval
  <2> QED BY <2>1 DEF FiniteSubsetsOf
<1>2. U # {}
  OBVIOUS
<1>3. PICK x \in U : \A y \in U : ~(<<y, x>> \in StrictSubsetOrdering(Nat))
  <2> HIDE DEF U
  <2> QED BY <1>1, <1>2, FS_StrictSubsetOrderingWellFounded, WFMin
<1>4. PICK n \in T : x = 0 .. n - 1
  OBVIOUS
<1>5. ASSUME NEW m \in T, m < n PROVE FALSE
  <2>1. 0 .. m - 1 \in U
    OBVIOUS
  <2>2. /\ 0 .. m - 1 \subseteq 0 .. n - 1 /\ 0 .. n - 1 \subseteq Nat
        /\ m \in 0 .. n - 1 /\ m \notin 0 .. m - 1
    BY <1>5
  <2>3. <<0 .. m - 1, x>> \in StrictSubsetOrdering(Nat)
    BY <2>2, <1>4 DEF StrictSubsetOrdering
  <2> QED BY <2>1, <2>3, <1>3
<1> QED BY <1>5, <1>4

\* What holds of nothing, and of the next number with a number, holds up to n.
LEMMA UpTo ==
    ASSUME NEW n \in Nat, NEW T, 0 \in T, \A k \in 0 .. n - 1 : k \in T => k + 1 \in T
    PROVE  n \in T
<1> DEFINE U == {k \in 0 .. n : k \notin T}
<1>1. ASSUME n \notin T PROVE FALSE
  <2>1. U # {} /\ U \in SUBSET Nat
    BY <1>1
  <2>2. PICK k \in U : \A m \in U : k <= m
    <3> HIDE DEF U
    <3> QED BY <2>1, LeastNat
  <2>3. k # 0 /\ k \in Nat /\ k <= n
    OBVIOUS
  <2>4. k - 1 \in 0 .. n - 1 /\ k - 1 \notin U
    BY <2>2, <2>3
  <2> QED BY <2>3, <2>4
<1> QED BY <1>1

Slot == Atom \cup {NoAtom}
Arrays(n) == [0 .. n - 1 -> Slot]

\* Where the parent and the children of an entry are.
LEMMA ParentBelow == \A i \in Nat : i > 0 => Parent(i) \in Nat /\ Parent(i) < i
BY DEF Parent

LEMMA ChildrenOf ==
    \A i, j \in Nat : j > 0 => (Parent(j) = i <=> j = 2 * i + 1 \/ j = 2 * i + 2)
BY DEF Parent

\* Two entries change places.
LEMMA Swapped ==
    ASSUME NEW n \in Nat, NEW arr \in Arrays(n), NEW i \in 0 .. n - 1, NEW j \in 0 .. n - 1
    PROVE  /\ Swap(arr, i, j) \in Arrays(n)
           /\ Swap(arr, i, j)[i] = arr[j] /\ Swap(arr, i, j)[j] = arr[i]
           /\ \A k \in 0 .. n - 1 : k # i /\ k # j => Swap(arr, i, j)[k] = arr[k]
BY DEF Swap, Arrays

\* One round of rq_sift_up, and a function that is computed by such rounds.
Rise(g, arr, i) ==
    IF i > 0 /\ Before(arr[i], arr[Parent(i)])
    THEN g[<<Swap(arr, i, Parent(i)), Parent(i)>>] ELSE arr
Rises(g, S, I) == g = [p \in S \X I |-> Rise(g, p[1], p[2])]

LEMMA RiseExists ==
    ASSUME NEW n \in Nat
    PROVE  \E g : Rises(g, Arrays(n), 0 .. n - 1)
<1> DEFINE T == {k \in 0 .. n : \E g : Rises(g, Arrays(n), 0 .. k - 1)}
<1>1. 0 \in T
  <2> DEFINE g == [p \in Arrays(n) \X (0 .. 0 - 1) |-> p[1]]
  <2>1. Arrays(n) \X (0 .. 0 - 1) = {}
    OBVIOUS
  <2>2. g = [p \in Arrays(n) \X (0 .. 0 - 1) |-> Rise(g, p[1], p[2])]
    BY <2>1
  <2> HIDE DEF g
  <2>3. Rises(g, Arrays(n), 0 .. 0 - 1)
    BY <2>2 DEF Rises
  <2> QED BY <2>3
<1>2. ASSUME NEW k \in 0 .. n - 1, k \in T PROVE k + 1 \in T
  <2> DEFINE I == 0 .. k - 1
             J == 0 .. (k + 1) - 1
  <2>1. PICK g : Rises(g, Arrays(n), I)
    BY <1>2
  <2> DEFINE h == [p \in Arrays(n) \X J |-> Rise(g, p[1], p[2])]
  <2>2. ASSUME NEW arr \in Arrays(n), NEW i \in J
        PROVE  Rise(g, arr, i) = Rise(h, arr, i)
    <3>1. SUFFICES ASSUME i > 0
                   PROVE  g[<<Swap(arr, i, Parent(i)), Parent(i)>>] = h[<<Swap(arr, i, Parent(i)), Parent(i)>>]
      BY DEF Rise
    <3> DEFINE s == Swap(arr, i, Parent(i))
               j == Parent(i)
    <3>2. j \in I /\ j \in J /\ i \in 0 .. n - 1 /\ j \in 0 .. n - 1
      BY <3>1, ParentBelow
    <3>3. s \in Arrays(n)
      BY <3>2, Swapped
    <3> HIDE DEF s, j
    <3>4. g[<<s, j>>] = Rise(g, s, j)
      <4>1. <<s, j>> \in Arrays(n) \X I
        BY <3>2, <3>3
      <4> HIDE DEF I
      <4> QED BY <2>1, <4>1 DEF Rises
    <3>5. h[<<s, j>>] = Rise(g, s, j)
      <4>1. <<s, j>> \in Arrays(n) \X J
        BY <3>2, <3>3
      <4> HIDE DEF J
      <4> QED BY <4>1
    <3> QED BY <3>4, <3>5 DEF s, j
  <2>3. h = [p \in Arrays(n) \X J |-> Rise(h, p[1], p[2])]
    <3> DEFINE v(p) == Rise(g, p[1], p[2])
               w(p) == Rise(h, p[1], p[2])
    <3>1. \A p \in Arrays(n) \X J : v(p) = w(p)
      <4> HIDE DEF h, J
      <4> QED BY <2>2
    <3>2. h = [p \in Arrays(n) \X J |-> v(p)]
      OBVIOUS
    <3> SUFFICES [p \in Arrays(n) \X J |-> v(p)] = [p \in Arrays(n) \X J |-> w(p)]
      BY <3>2
    <3> HIDE DEF v, w, J
    <3> QED BY <3>1
  <2>4. Rises(h, Arrays(n), J)
    <3> HIDE DEF h, J
    <3> QED BY <2>3 DEF Rises
  <2>5. k + 1 \in 0 .. n
    OBVIOUS
  <2> HIDE DEF h
  <2> QED BY <2>4, <2>5
<1> HIDE DEF T
<1>3. n \in T
  BY <1>1, <1>2, UpTo
<1> QED BY <1>3 DEF T

\* rq_sift_up is what its rounds make of it.
LEMMA SiftUpRound ==
    ASSUME NEW n \in Nat, NEW arr \in Arrays(n), NEW i \in 0 .. n - 1
    PROVE  SiftUp(arr, i) = IF i > 0 /\ Before(arr[i], arr[Parent(i)])
                            THEN SiftUp(Swap(arr, i, Parent(i)), Parent(i)) ELSE arr
<1> DEFINE g == CHOOSE g : Rises(g, Arrays(n), 0 .. n - 1)
<1>1. Rises(g, Arrays(n), 0 .. n - 1)
  BY RiseExists
<1>2. \A a \in Arrays(n) : \A j \in 0 .. n - 1 : SiftUp(a, j) = g[<<a, j>>]
  BY DEF SiftUp, Rises, Rise, Arrays, Slot
<1> HIDE DEF g
<1>3. g[<<arr, i>>] = Rise(g, arr, i)
  BY <1>1 DEF Rises
<1>4. CASE i > 0
  <2>1. Parent(i) \in 0 .. n - 1
    BY <1>4, ParentBelow
  <2>2. Swap(arr, i, Parent(i)) \in Arrays(n)
    BY <2>1, Swapped
  <2> QED BY <1>2, <1>3, <2>1, <2>2 DEF Rise
<1>5. CASE ~(i > 0)
  BY <1>2, <1>3, <1>5 DEF Rise
<1> QED BY <1>4, <1>5

\* Where b is, and how often, among the first m entries of an array.
Places(arr, m, b) == {j \in 0 .. m - 1 : arr[j] = b}
Count(arr, m, b) == Cardinality(Places(arr, m, b))

LEMMA CountFinite ==
    ASSUME NEW m \in Nat, NEW arr, NEW b
    PROVE  /\ IsFiniteSet(Places(arr, m, b))
           /\ Count(arr, m, b) \in Nat
<1>1. IsFiniteSet(0 .. m - 1)
  <2>1. 0 \in Int /\ m - 1 \in Int
    OBVIOUS
  <2> QED BY <2>1, FS_Interval
<1>2. IsFiniteSet(Places(arr, m, b))
  BY <1>1, FS_Subset DEF Places
<1> QED BY <1>2, FS_CardinalityType DEF Count

\* Arrays that agree on their first m entries have the same counts.
LEMMA CountSame ==
    ASSUME NEW m \in Nat, NEW f, NEW g, NEW b, \A j \in 0 .. m - 1 : f[j] = g[j]
    PROVE  Count(f, m, b) = Count(g, m, b)
<1>1. Places(f, m, b) = Places(g, m, b)
  BY DEF Places
<1> QED BY <1>1 DEF Count

\* One entry more.
LEMMA CountLast ==
    ASSUME NEW m \in Nat, NEW arr, NEW b
    PROVE  Count(arr, m + 1, b) = Count(arr, m, b) + (IF arr[m] = b THEN 1 ELSE 0)
<1> DEFINE S == Places(arr, m, b)
           U == Places(arr, m + 1, b)
<1>1. IsFiniteSet(S) /\ Cardinality(S) \in Nat /\ m \notin S
  <2>1. IsFiniteSet(S) /\ Cardinality(S) \in Nat
    BY CountFinite, FS_CardinalityType
  <2> QED BY <2>1 DEF Places
<1>2. CASE arr[m] = b
  <2>1. U = S \cup {m}
    BY <1>2 DEF Places
  <2>2. Cardinality(S \cup {m}) = Cardinality(S) + 1
    <3> HIDE DEF S
    <3> QED BY <1>1, FS_AddElement
  <2> QED BY <1>2, <2>1, <2>2 DEF Count
<1>3. CASE arr[m] # b
  <2>1. U = S
    BY <1>3 DEF Places
  <2> QED BY <1>1, <1>3, <2>1 DEF Count
<1> QED BY <1>2, <1>3

\* A finite set without two of its possible elements.
LEMMA WithoutTwo ==
    ASSUME NEW S, NEW i, NEW j, IsFiniteSet(S), i # j
    PROVE  /\ Cardinality((S \ {i}) \ {j}) \in Nat
           /\ Cardinality(S) = Cardinality((S \ {i}) \ {j})
                 + (IF i \in S THEN 1 ELSE 0) + (IF j \in S THEN 1 ELSE 0)
<1>1. /\ IsFiniteSet(S \ {i})
      /\ Cardinality(S \ {i}) = IF i \in S THEN Cardinality(S) - 1 ELSE Cardinality(S)
  BY FS_RemoveElement
<1>2. /\ IsFiniteSet((S \ {i}) \ {j})
      /\ Cardinality((S \ {i}) \ {j})
            = IF j \in S \ {i} THEN Cardinality(S \ {i}) - 1 ELSE Cardinality(S \ {i})
  BY <1>1, FS_RemoveElement
<1>3. /\ Cardinality(S) \in Nat /\ Cardinality(S \ {i}) \in Nat
      /\ Cardinality((S \ {i}) \ {j}) \in Nat
  BY <1>1, <1>2, FS_CardinalityType
<1>4. j \in S \ {i} <=> j \in S
  OBVIOUS
<1> QED BY <1>1, <1>2, <1>3, <1>4

\* Two entries that change places are counted as before.
LEMMA CountSwapped ==
    ASSUME NEW n \in Nat, NEW arr \in Arrays(n), NEW m \in 0 .. n,
           NEW i \in 0 .. m - 1, NEW j \in 0 .. m - 1, NEW b
    PROVE  Count(Swap(arr, i, j), m, b) = Count(arr, m, b)
<1> DEFINE s == Swap(arr, i, j)
           S == Places(arr, m, b)
           U == Places(s, m, b)
<1>1. /\ s[i] = arr[j] /\ s[j] = arr[i]
      /\ \A k \in 0 .. n - 1 : k # i /\ k # j => s[k] = arr[k]
  BY Swapped
<1>2. CASE i = j
  <2>1. \A k \in 0 .. m - 1 : s[k] = arr[k]
    <3> HIDE DEF s
    <3> QED BY <1>1, <1>2
  <2> HIDE DEF s
  <2> QED BY <2>1, CountSame DEF s
<1>3. CASE i # j
  <2>1. (U \ {i}) \ {j} = (S \ {i}) \ {j} /\ (i \in U <=> j \in S) /\ (j \in U <=> i \in S)
    <3> HIDE DEF s
    <3> QED BY <1>1 DEF Places
  <2>2. IsFiniteSet(S) /\ IsFiniteSet(U)
    BY CountFinite
  <2> HIDE DEF S, U
  <2>3. /\ Cardinality((S \ {i}) \ {j}) \in Nat
        /\ Cardinality(S) = Cardinality((S \ {i}) \ {j})
              + (IF i \in S THEN 1 ELSE 0) + (IF j \in S THEN 1 ELSE 0)
    BY <1>3, <2>2, WithoutTwo
  <2>4. Cardinality(U) = Cardinality((U \ {i}) \ {j})
              + (IF i \in U THEN 1 ELSE 0) + (IF j \in U THEN 1 ELSE 0)
    BY <1>3, <2>2, WithoutTwo
  <2>5. Cardinality(U) = Cardinality(S)
    BY <2>1, <2>3, <2>4
  <2> QED BY <2>5 DEF Count, S, U
<1> QED BY <1>2, <1>3

\* The types of the STI values, of uuids.
Values == sti \in [Atom -> Nat]

\* rq_compare is a strict weak order on atoms.
LEMMA BeforeOrder ==
    ASSUME Values, NEW a \in Atom, NEW b \in Atom, NEW c \in Atom
    PROVE  /\ ~Before(a, a)
           /\ Before(a, b) => ~Before(b, a)
           /\ ~Before(a, b) /\ ~Before(b, c) => ~Before(a, c)
           /\ Before(a, b) /\ ~Before(c, b) => ~Before(c, a)
<1>1. /\ sti[a] \in Nat /\ sti[b] \in Nat /\ sti[c] \in Nat
      /\ a \in Nat /\ b \in Nat /\ c \in Nat
  BY AtomAssumption DEF Values
<1> QED BY <1>1 DEF Before

\* The first m entries are atoms, and none goes before its parent.
Filled(arr, m) == \A j \in 0 .. m - 1 : arr[j] \in Atom
Heap(arr, m) == \A j \in 1 .. m - 1 : ~Before(arr[j], arr[Parent(j)])

\* A heap but for the entry at i, which may go before its parent.
HeapButUp(arr, i, m) ==
    /\ \A j \in 1 .. m - 1 : j # i => ~Before(arr[j], arr[Parent(j)])
    /\ \A j \in 1 .. m - 1 : i > 0 /\ Parent(j) = i => ~Before(arr[j], arr[Parent(i)])

\* A heap but for the entry at i, which may go after its children.
HeapButDown(arr, i, m) ==
    /\ \A j \in 1 .. m - 1 : Parent(j) # i => ~Before(arr[j], arr[Parent(j)])
    /\ \A j \in 1 .. m - 1 : i > 0 /\ Parent(j) = i => ~Before(arr[j], arr[Parent(i)])

\* r holds the entries of arr in another order.
Reordered(n, m, arr, r) ==
    /\ r \in Arrays(n)
    /\ \A b \in Atom : Count(r, m, b) = Count(arr, m, b)
    /\ Filled(arr, m) => Filled(r, m)

LEMMA SwapReorders ==
    ASSUME NEW n \in Nat, NEW arr \in Arrays(n), NEW m \in 0 .. n,
           NEW i \in 0 .. m - 1, NEW j \in 0 .. m - 1
    PROVE  Reordered(n, m, arr, Swap(arr, i, j))
<1> DEFINE s == Swap(arr, i, j)
<1>1. /\ s \in Arrays(n) /\ s[i] = arr[j] /\ s[j] = arr[i]
      /\ \A k \in 0 .. n - 1 : k # i /\ k # j => s[k] = arr[k]
  BY Swapped
<1>2. \A b \in Atom : Count(s, m, b) = Count(arr, m, b)
  BY CountSwapped
<1>3. ASSUME Filled(arr, m) PROVE Filled(s, m)
  <2> HIDE DEF s
  <2> QED BY <1>1, <1>3 DEF Filled
<1> HIDE DEF s
<1>4. Reordered(n, m, arr, s)
  BY <1>1, <1>2, <1>3 DEF Reordered
<1> QED BY <1>4 DEF s

\* The entry at i has changed places with its parent: it may now go before the
\* next parent, everything else is in order.
LEMMA RiseKeepsHeap ==
    ASSUME Values, NEW n \in Nat, NEW arr \in Arrays(n), NEW m \in 0 .. n,
           NEW i \in 0 .. m - 1, i > 0, Filled(arr, m), HeapButUp(arr, i, m),
           Before(arr[i], arr[Parent(i)])
    PROVE  HeapButUp(Swap(arr, i, Parent(i)), Parent(i), m)
<1> DEFINE p == Parent(i)
           s == Swap(arr, i, p)
<1>1. p \in 0 .. m - 1 /\ p < i
  BY ParentBelow
<1>2. /\ s[i] = arr[p] /\ s[p] = arr[i]
      /\ \A k \in 0 .. n - 1 : k # i /\ k # p => s[k] = arr[k]
  <2>1. p \in 0 .. n - 1 /\ i \in 0 .. n - 1
    BY <1>1
  <2> HIDE DEF p
  <2> QED BY <2>1, Swapped
<1>3. Before(arr[i], arr[p])
  OBVIOUS
<1>4. \A j \in 1 .. m - 1 : Parent(j) \in 0 .. m - 1 /\ Parent(j) < j
  BY ParentBelow
<1>5. /\ \A j \in 1 .. m - 1 : j # i => ~Before(arr[j], arr[Parent(j)])
      /\ \A j \in 1 .. m - 1 : Parent(j) = i => ~Before(arr[j], arr[p])
  BY DEF HeapButUp
<1>6. Parent(i) = p
  OBVIOUS
<1>7. \A k \in 0 .. m - 1 : arr[k] \in Atom
  BY DEF Filled
<1> HIDE DEF p, s
<1>8. ASSUME NEW j \in 1 .. m - 1, j # p PROVE ~Before(s[j], s[Parent(j)])
  <2>1. CASE j = i
    <3>1. s[j] = arr[p] /\ s[Parent(j)] = arr[i]
      BY <1>2, <1>6, <2>1
    <3> QED BY <1>1, <1>3, <1>7, <3>1, BeforeOrder
  <2>2. CASE j # i /\ Parent(j) = i
    <3>1. s[j] = arr[j] /\ s[Parent(j)] = arr[p]
      BY <1>2, <1>8, <2>2
    <3> QED BY <1>5, <2>2, <3>1
  <2>3. CASE j # i /\ Parent(j) = p
    <3>1. s[j] = arr[j] /\ s[Parent(j)] = arr[i] /\ ~Before(arr[j], arr[p])
      BY <1>2, <1>5, <1>8, <2>3
    <3>2. arr[j] \in Atom /\ arr[i] \in Atom /\ arr[p] \in Atom
      BY <1>1, <1>7
    <3> QED BY <1>3, <3>1, <3>2, BeforeOrder
  <2>4. CASE j # i /\ Parent(j) # i /\ Parent(j) # p
    <3>1. s[j] = arr[j] /\ s[Parent(j)] = arr[Parent(j)]
      BY <1>2, <1>4, <1>8, <2>4
    <3> QED BY <1>5, <2>4, <3>1
  <2> QED BY <2>1, <2>2, <2>3, <2>4
<1>9. ASSUME NEW j \in 1 .. m - 1, p > 0, Parent(j) = p PROVE ~Before(s[j], s[Parent(p)])
  <2> DEFINE q == Parent(p)
  <2>1. q \in 0 .. m - 1 /\ q # p /\ q # i /\ s[q] = arr[q]
    BY <1>1, <1>2, <1>4, <1>9
  <2>2. ~Before(arr[p], arr[q])
    BY <1>1, <1>5, <1>9
  <2>3. CASE j = i
    BY <1>2, <2>1, <2>2, <2>3
  <2>4. CASE j # i
    <3>1. s[j] = arr[j] /\ ~Before(arr[j], arr[p]) /\ j # p
      BY <1>2, <1>4, <1>5, <1>9, <2>4
    <3>2. arr[j] \in Atom /\ arr[p] \in Atom /\ arr[q] \in Atom
      BY <1>1, <1>7, <2>1
    <3>3. ~Before(arr[j], arr[q])
      BY <2>2, <3>1, <3>2, BeforeOrder
    <3> QED BY <2>1, <3>1, <3>3
  <2> QED BY <2>3, <2>4
<1>10. HeapButUp(s, p, m)
  BY <1>8, <1>9 DEF HeapButUp
<1> QED BY <1>10 DEF s, p

\* rq_sift_up keeps the entries, and restores the heap.
Lifts(n, m, arr, i) ==
    /\ Reordered(n, m, arr, SiftUp(arr, i))
    /\ Filled(arr, m) /\ HeapButUp(arr, i, m) => Heap(SiftUp(arr, i), m)

LEMMA SiftUpLifts ==
    ASSUME Values, NEW n \in Nat
    PROVE  \A m \in 0 .. n : \A arr \in Arrays(n) : \A i \in 0 .. m - 1 : Lifts(n, m, arr, i)
<1> SUFFICES ASSUME NEW m \in 0 .. n
             PROVE  \A arr \in Arrays(n) : \A i \in 0 .. m - 1 : Lifts(n, m, arr, i)
  OBVIOUS
<1> DEFINE T == {i \in 0 .. m - 1 : \E arr \in Arrays(n) : ~Lifts(n, m, arr, i)}
<1>1. ASSUME T # {} PROVE FALSE
  <2>1. T \in SUBSET Nat
    OBVIOUS
  <2>2. PICK i \in T : \A j \in T : i <= j
    <3> HIDE DEF T
    <3> QED BY <1>1, <2>1, LeastNat
  <2>3. PICK arr \in Arrays(n) : ~Lifts(n, m, arr, i)
    OBVIOUS
  <2>4. i \in 0 .. m - 1 /\ i \in 0 .. n - 1
    OBVIOUS
  <2>5. CASE i > 0 /\ Before(arr[i], arr[Parent(i)])
    <3> DEFINE p == Parent(i)
               s == Swap(arr, i, p)
    <3>1. p \in 0 .. m - 1 /\ p < i
      BY <2>4, <2>5, ParentBelow
    <3>2. SiftUp(arr, i) = SiftUp(s, p)
      BY <2>4, <2>5, SiftUpRound
    <3>3. Reordered(n, m, arr, s)
      BY <2>4, <3>1, SwapReorders
    <3>4. Filled(arr, m) /\ HeapButUp(arr, i, m) => HeapButUp(s, p, m)
      BY <2>4, <2>5, RiseKeepsHeap
    <3> HIDE DEF p, s
    <3>5. s \in Arrays(n)
      BY <3>3 DEF Reordered
    <3>6. Lifts(n, m, s, p)
      BY <2>2, <3>1, <3>5
    <3> HIDE DEF T
    <3>7. Lifts(n, m, arr, i)
      BY <3>2, <3>3, <3>4, <3>6 DEF Lifts, Reordered
    <3> QED BY <2>3, <3>7
  <2>6. CASE ~(i > 0 /\ Before(arr[i], arr[Parent(i)]))
    <3>1. SiftUp(arr, i) = arr
      BY <2>4, <2>6, SiftUpRound
    <3>2. Reordered(n, m, arr, arr)
      BY DEF Reordered
    <3>3. HeapButUp(arr, i, m) => Heap(arr, m)
      BY <2>6 DEF HeapButUp, Heap
    <3> HIDE DEF T
    <3> QED BY <2>3, <3>1, <3>2, <3>3 DEF Lifts
  <2> QED BY <2>5, <2>6
<1> QED BY <1>1

\* A child found better is below the parent, inside the heap.
LEMMA BestPlace ==
    ASSUME NEW m \in Nat, NEW arr, NEW i \in Nat, Best(arr, m, i) # i
    PROVE  Best(arr, m, i) \in i + 1 .. m - 1 /\ Parent(Best(arr, m, i)) = i
<1> DEFINE b == Best(arr, m, i)
<1>1. b \in {2 * i + 1, 2 * i + 2} /\ b < m
  BY DEF Best, Better
<1> HIDE DEF b
<1>2. b \in i + 1 .. m - 1 /\ Parent(b) = i
  BY <1>1, ChildrenOf
<1> QED BY <1>2 DEF b

\* The best of an entry and its children is at least as good as each.
LEMMA BestFirst ==
    ASSUME Values, NEW m \in Nat, NEW arr, Filled(arr, m), NEW i \in 0 .. m - 1
    PROVE  /\ Best(arr, m, i) # i => Before(arr[Best(arr, m, i)], arr[i])
           /\ \A j \in 1 .. m - 1 : Parent(j) = i => ~Before(arr[j], arr[Best(arr, m, i)])
<1> DEFINE l == 2 * i + 1
           r == 2 * i + 2
           c == Better(arr, m, i, l)
           b == Better(arr, m, c, r)
<1>1. b = Best(arr, m, i)
  BY DEF Best
<1>2. c = (IF l < m /\ Before(arr[l], arr[i]) THEN l ELSE i)
  BY DEF Better
<1>3. b = (IF r < m /\ Before(arr[r], arr[c]) THEN r ELSE c)
  BY DEF Better
<1>4. l \in Nat /\ r \in Nat
  OBVIOUS
<1>5. \A j \in 1 .. m - 1 : Parent(j) = i => j = l \/ j = r
  BY ChildrenOf
<1>6. \A j \in 0 .. m - 1 : arr[j] \in Atom
  BY DEF Filled
<1> HIDE DEF l, r, c, b
<1>7. c \in 0 .. m - 1 /\ b \in 0 .. m - 1
  BY <1>2, <1>3, <1>4
<1>8. /\ c # i => Before(arr[c], arr[i])
      /\ l < m => ~Before(arr[l], arr[c])
  <2>1. CASE l < m
    <3>1. l \in 0 .. m - 1
      BY <1>4, <2>1
    <3> QED BY <1>2, <1>6, <3>1, BeforeOrder
  <2>2. CASE ~(l < m)
    BY <1>2, <2>2
  <2> QED BY <2>1, <2>2
<1>9. /\ b # i => Before(arr[b], arr[i])
      /\ l < m => ~Before(arr[l], arr[b])
      /\ r < m => ~Before(arr[r], arr[b])
  <2>1. CASE b = c
    BY <1>3, <1>4, <1>6, <1>7, <1>8, <2>1, BeforeOrder
  <2>2. CASE b # c
    <3>1. r \in 0 .. m - 1 /\ b = r /\ Before(arr[r], arr[c])
      BY <1>3, <1>4, <2>2
    <3>2. arr[r] \in Atom /\ arr[c] \in Atom /\ arr[i] \in Atom /\ (l < m => arr[l] \in Atom)
      BY <1>4, <1>6, <1>7, <3>1
    <3>3. Before(arr[r], arr[i])
      <4>1. CASE c = i
        BY <3>1, <4>1
      <4>2. CASE c # i
        <5>1. ~Before(arr[i], arr[c])
          BY <1>8, <3>2, <4>2, BeforeOrder
        <5>2. ASSUME ~Before(arr[r], arr[i]) PROVE FALSE
          BY <3>1, <3>2, <5>1, <5>2, BeforeOrder
        <5> QED BY <5>2
      <4> QED BY <4>1, <4>2
    <3>4. l < m => ~Before(arr[l], arr[r])
      BY <1>8, <3>1, <3>2, BeforeOrder
    <3>5. ~Before(arr[r], arr[r])
      BY <3>2, BeforeOrder
    <3> QED BY <3>1, <3>3, <3>4, <3>5
  <2> QED BY <2>1, <2>2
<1>10. /\ b # i => Before(arr[b], arr[i])
       /\ \A j \in 1 .. m - 1 : Parent(j) = i => ~Before(arr[j], arr[b])
  BY <1>5, <1>9
<1> QED BY <1>1, <1>10

\* One round of rq_sift_down, and a function that is computed by such rounds.
Sink(g, arr, m, i) ==
    IF Best(arr, m, i) # i
    THEN g[<<Swap(arr, i, Best(arr, m, i)), Best(arr, m, i)>>] ELSE arr
Sinks(g, S, I, m) == g = [p \in S \X I |-> Sink(g, p[1], m, p[2])]

LEMMA SinkExists ==
    ASSUME NEW n \in Nat, NEW m \in 0 .. n
    PROVE  \E g : Sinks(g, Arrays(n), 0 .. n - 1, m)
<1> DEFINE T == {k \in 0 .. m : \E g : Sinks(g, Arrays(n), (m - k) .. n - 1, m)}
<1>1. 0 \in T
  <2> DEFINE I == (m - 0) .. n - 1
             g == [p \in Arrays(n) \X I |-> p[1]]
  <2>1. ASSUME NEW arr \in Arrays(n), NEW i \in I PROVE Sink(g, arr, m, i) = arr
    <3>1. i \in Nat /\ i >= m
      OBVIOUS
    <3>2. Best(arr, m, i) = i
      BY <3>1, BestPlace
    <3> QED BY <3>2 DEF Sink
  <2>2. g = [p \in Arrays(n) \X I |-> Sink(g, p[1], m, p[2])]
    <3> DEFINE w(p) == Sink(g, p[1], m, p[2])
    <3>1. \A p \in Arrays(n) \X I : w(p) = p[1]
      <4> HIDE DEF g, I
      <4> QED BY <2>1
    <3> SUFFICES [p \in Arrays(n) \X I |-> p[1]] = [p \in Arrays(n) \X I |-> w(p)]
      OBVIOUS
    <3> HIDE DEF w, I
    <3> QED BY <3>1
  <2> HIDE DEF g
  <2>3. Sinks(g, Arrays(n), (m - 0) .. n - 1, m)
    BY <2>2 DEF Sinks
  <2> QED BY <2>3
<1>2. ASSUME NEW k \in 0 .. m - 1, k \in T PROVE k + 1 \in T
  <2> DEFINE I == (m - k) .. n - 1
             J == (m - (k + 1)) .. n - 1
  <2>1. PICK g : Sinks(g, Arrays(n), I, m)
    BY <1>2
  <2> DEFINE h == [p \in Arrays(n) \X J |-> Sink(g, p[1], m, p[2])]
  <2>2. ASSUME NEW arr \in Arrays(n), NEW i \in J
        PROVE  Sink(g, arr, m, i) = Sink(h, arr, m, i)
    <3> DEFINE b == Best(arr, m, i)
               s == Swap(arr, i, b)
    <3>1. SUFFICES ASSUME b # i PROVE g[<<s, b>>] = h[<<s, b>>]
      BY DEF Sink
    <3>2. i \in Nat /\ i \in 0 .. n - 1 /\ i >= m - (k + 1)
      OBVIOUS
    <3>3. b \in i + 1 .. m - 1
      BY <3>1, <3>2, BestPlace
    <3> HIDE DEF b
    <3>4. b \in I /\ b \in J /\ i \in 0 .. n - 1 /\ b \in 0 .. n - 1
      BY <3>2, <3>3
    <3>5. s \in Arrays(n)
      BY <3>4, Swapped
    <3> HIDE DEF s
    <3>6. g[<<s, b>>] = Sink(g, s, m, b)
      <4>1. <<s, b>> \in Arrays(n) \X I
        BY <3>4, <3>5
      <4> HIDE DEF I
      <4> QED BY <2>1, <4>1 DEF Sinks
    <3>7. h[<<s, b>>] = Sink(g, s, m, b)
      <4>1. <<s, b>> \in Arrays(n) \X J
        BY <3>4, <3>5
      <4> HIDE DEF J
      <4> QED BY <4>1
    <3> QED BY <3>6, <3>7
  <2>3. h = [p \in Arrays(n) \X J |-> Sink(h, p[1], m, p[2])]
    <3> DEFINE v(p) == Sink(g, p[1], m, p[2])
               w(p) == Sink(h, p[1], m, p[2])
    <3>1. \A p \in Arrays(n) \X J : v(p) = w(p)
      <4> HIDE DEF h, J
      <4> QED BY <2>2
    <3>2. h = [p \in Arrays(n) \X J |-> v(p)]
      OBVIOUS
    <3> SUFFICES [p \in Arrays(n) \X J |-> v(p)] = [p \in Arrays(n) \X J |-> w(p)]
      BY <3>2
    <3> HIDE DEF v, w, J
    <3> QED BY <3>1
  <2>4. Sinks(h, Arrays(n), J, m)
    <3> HIDE DEF h, J
    <3> QED BY <2>3 DEF Sinks
  <2>5. k + 1 \in 0 .. m
    OBVIOUS
  <2> HIDE DEF h
  <2> QED BY <2>4, <2>5
<1> HIDE DEF T
<1>3. m \in T
  BY <1>1, <1>2, UpTo
<1>4. m - m = 0
  OBVIOUS
<1> QED BY <1>3, <1>4 DEF T

\* rq_sift_down is what its rounds make of it.
LEMMA SiftDownRound ==
    ASSUME NEW n \in Nat, NEW m \in 0 .. n, NEW arr \in Arrays(n), NEW i \in 0 .. m - 1
    PROVE  SiftDown(arr, m, i)
             = IF Best(arr, m, i) # i
               THEN SiftDown(Swap(arr, i, Best(arr, m, i)), m, Best(arr, m, i)) ELSE arr
<1> DEFINE g == CHOOSE g : Sinks(g, Arrays(n), 0 .. n - 1, m)
           b == Best(arr, m, i)
           s == Swap(arr, i, b)
<1>1. Sinks(g, Arrays(n), 0 .. n - 1, m)
  BY SinkExists
<1>2. \A a \in Arrays(n) : \A j \in 0 .. n - 1 : SiftDown(a, m, j) = g[<<a, j>>]
  BY DEF SiftDown, Sinks, Sink, Arrays, Slot
<1> HIDE DEF g
<1>3. g[<<arr, i>>] = Sink(g, arr, m, i)
  BY <1>1 DEF Sinks
<1>4. CASE b # i
  <2>1. b \in 0 .. n - 1 /\ i \in 0 .. n - 1
    <3>1. b \in i + 1 .. m - 1
      BY <1>4, BestPlace
    <3> HIDE DEF b
    <3> QED BY <3>1
  <2>2. s \in Arrays(n)
    <3> HIDE DEF b
    <3> QED BY <2>1, Swapped
  <2> QED BY <1>2, <1>3, <1>4, <2>1, <2>2 DEF Sink
<1>5. CASE b = i
  BY <1>2, <1>3, <1>5 DEF Sink
<1> QED BY <1>4, <1>5

\* The entry at i has changed places with the better of its children: it may
\* now go after its next children, everything else is in order.
LEMMA SinkKeepsHeap ==
    ASSUME Values, NEW n \in Nat, NEW arr \in Arrays(n), NEW m \in 0 .. n,
           NEW i \in 0 .. m - 1, Filled(arr, m), HeapButDown(arr, i, m),
           Best(arr, m, i) # i
    PROVE  HeapButDown(Swap(arr, i, Best(arr, m, i)), Best(arr, m, i), m)
<1> DEFINE b == Best(arr, m, i)
           s == Swap(arr, i, b)
<1>1. b \in i + 1 .. m - 1 /\ Parent(b) = i
  BY BestPlace
<1>2. /\ s[i] = arr[b] /\ s[b] = arr[i]
      /\ \A k \in 0 .. n - 1 : k # i /\ k # b => s[k] = arr[k]
  <2>1. b \in 0 .. n - 1 /\ i \in 0 .. n - 1
    BY <1>1
  <2> HIDE DEF b
  <2> QED BY <2>1, Swapped
<1>3. /\ Before(arr[b], arr[i])
      /\ \A j \in 1 .. m - 1 : Parent(j) = i => ~Before(arr[j], arr[b])
  BY BestFirst
<1>4. \A j \in 1 .. m - 1 : Parent(j) \in 0 .. m - 1 /\ Parent(j) < j
  BY ParentBelow
<1>5. /\ \A j \in 1 .. m - 1 : Parent(j) # i => ~Before(arr[j], arr[Parent(j)])
      /\ \A j \in 1 .. m - 1 : i > 0 /\ Parent(j) = i => ~Before(arr[j], arr[Parent(i)])
  BY DEF HeapButDown
<1>6. \A k \in 0 .. m - 1 : arr[k] \in Atom
  BY DEF Filled
<1> HIDE DEF b, s
<1>7. ASSUME NEW j \in 1 .. m - 1, Parent(j) # b PROVE ~Before(s[j], s[Parent(j)])
  <2>1. CASE j = b
    <3>1. s[j] = arr[i] /\ s[Parent(j)] = arr[b] /\ arr[i] \in Atom /\ arr[b] \in Atom
      BY <1>1, <1>2, <1>6, <2>1
    <3> QED BY <1>3, <3>1, BeforeOrder
  <2>2. CASE j # b /\ Parent(j) = i
    <3>1. s[j] = arr[j] /\ s[Parent(j)] = arr[b]
      BY <1>2, <1>4, <2>2
    <3> QED BY <1>3, <2>2, <3>1
  <2>3. CASE j = i
    <3>1. s[j] = arr[b] /\ s[Parent(j)] = arr[Parent(i)]
      BY <1>1, <1>2, <1>4, <2>3
    <3> QED BY <1>1, <1>5, <2>3, <3>1
  <2>4. CASE j # b /\ j # i /\ Parent(j) # i
    <3>1. s[j] = arr[j] /\ s[Parent(j)] = arr[Parent(j)]
      BY <1>2, <1>4, <1>7, <2>4
    <3> QED BY <1>5, <2>4, <3>1
  <2> QED BY <2>1, <2>2, <2>3, <2>4
<1>8. ASSUME NEW j \in 1 .. m - 1, Parent(j) = b PROVE ~Before(s[j], s[Parent(b)])
  <2>1. s[j] = arr[j] /\ s[Parent(b)] = arr[b] /\ Parent(j) # i
    BY <1>1, <1>2, <1>4, <1>8
  <2> QED BY <1>5, <1>8, <2>1
<1>9. HeapButDown(s, b, m)
  BY <1>7, <1>8 DEF HeapButDown
<1> QED BY <1>9 DEF s, b

\* rq_sift_down keeps the entries, and restores the heap.
Lowers(n, m, arr, i) ==
    /\ Reordered(n, m, arr, SiftDown(arr, m, i))
    /\ Filled(arr, m) /\ HeapButDown(arr, i, m) => Heap(SiftDown(arr, m, i), m)

LEMMA SiftDownLowers ==
    ASSUME Values, NEW n \in Nat, NEW m \in 0 .. n
    PROVE  \A arr \in Arrays(n) : \A i \in 0 .. m - 1 : Lowers(n, m, arr, i)
<1> DEFINE T == {k \in 0 .. m - 1 : \E arr \in Arrays(n) : ~Lowers(n, m, arr, (m - 1) - k)}
<1>1. ASSUME T # {} PROVE FALSE
  <2>1. T \in SUBSET Nat
    OBVIOUS
  <2>2. PICK k \in T : \A j \in T : k <= j
    <3> HIDE DEF T
    <3> QED BY <1>1, <2>1, LeastNat
  <2> DEFINE i == (m - 1) - k
  <2>3. PICK arr \in Arrays(n) : ~Lowers(n, m, arr, i)
    OBVIOUS
  <2> DEFINE b == Best(arr, m, i)
             s == Swap(arr, i, b)
  <2>4. i \in 0 .. m - 1 /\ i \in Nat /\ k = (m - 1) - i
    OBVIOUS
  <2> HIDE DEF i
  <2>5. SiftDown(arr, m, i) = IF b # i THEN SiftDown(s, m, b) ELSE arr
    BY <2>4, SiftDownRound
  <2>6. CASE b # i
    <3>1. b \in i + 1 .. m - 1
      BY <2>4, <2>6, BestPlace
    <3>2. Filled(arr, m) /\ HeapButDown(arr, i, m) => HeapButDown(s, b, m)
      BY <2>4, <2>6, SinkKeepsHeap
    <3> HIDE DEF b
    <3>3. Reordered(n, m, arr, s)
      <4>1. b \in 0 .. m - 1
        BY <2>4, <3>1
      <4> QED BY <2>4, <4>1, SwapReorders
    <3> HIDE DEF s
    <3>4. s \in Arrays(n)
      BY <3>3 DEF Reordered
    <3>5. (m - 1) - b \in 0 .. m - 1 /\ (m - 1) - b < k /\ (m - 1) - ((m - 1) - b) = b
      BY <2>4, <3>1
    <3>6. Lowers(n, m, s, b)
      BY <2>2, <3>4, <3>5
    <3> HIDE DEF T
    <3>7. Lowers(n, m, arr, i)
      BY <2>5, <2>6, <3>2, <3>3, <3>6 DEF Lowers, Reordered
    <3> QED BY <2>3, <3>7
  <2>7. CASE b = i
    <3>1. SiftDown(arr, m, i) = arr
      BY <2>5, <2>7
    <3>2. Reordered(n, m, arr, arr)
      BY DEF Reordered
    <3>3. Filled(arr, m) /\ HeapButDown(arr, i, m) => Heap(arr, m)
      <4>1. Filled(arr, m) => \A j \in 1 .. m - 1 : Parent(j) = i => ~Before(arr[j], arr[i])
        BY <2>4, <2>7, BestFirst
      <4> QED BY <4>1 DEF HeapButDown, Heap
    <3> HIDE DEF T, b, s
    <3> QED BY <2>3, <3>1, <3>2, <3>3 DEF Lowers
  <2> QED BY <2>6, <2>7
<1>2. ASSUME NEW arr \in Arrays(n), NEW i \in 0 .. m - 1 PROVE Lowers(n, m, arr, i)
  <2>1. (m - 1) - i \in 0 .. m - 1 /\ (m - 1) - ((m - 1) - i) = i
    OBVIOUS
  <2>2. (m - 1) - i \notin T
    BY <1>1
  <2> QED BY <2>1, <2>2
<1> QED BY <1>2

\* No entry of a heap goes before the root.
LEMMA RootFirst ==
    ASSUME Values, NEW m \in Nat, NEW arr, Filled(arr, m), Heap(arr, m)
    PROVE  \A j \in 0 .. m - 1 : ~Before(arr[j], arr[0])
<1> DEFINE T == {j \in 0 .. m - 1 : Before(arr[j], arr[0])}
<1>1. ASSUME T # {} PROVE FALSE
  <2>1. T \in SUBSET Nat
    OBVIOUS
  <2>2. PICK j \in T : \A k \in T : j <= k
    <3> HIDE DEF T
    <3> QED BY <1>1, <2>1, LeastNat
  <2>3. /\ j \in 0 .. m - 1 /\ Before(arr[j], arr[0])
        /\ \A k \in 0 .. m - 1 : k < j => ~Before(arr[k], arr[0])
    BY <2>2
  <2>4. j > 0
    <3>1. ~Before(arr[0], arr[0])
      BY <2>3, BeforeOrder DEF Filled
    <3> QED BY <2>3, <3>1
  <2>5. Parent(j) \in 0 .. m - 1 /\ Parent(j) < j /\ j \in 1 .. m - 1 /\ 0 \in 0 .. m - 1
    BY <2>3, <2>4, ParentBelow
  <2>6. ~Before(arr[j], arr[Parent(j)]) /\ ~Before(arr[Parent(j)], arr[0])
    BY <2>3, <2>5 DEF Heap
  <2>7. arr[j] \in Atom /\ arr[Parent(j)] \in Atom /\ arr[0] \in Atom
    BY <2>3, <2>5 DEF Filled
  <2> QED BY <2>3, <2>6, <2>7, BeforeOrder
<1> QED BY <1>1

-----------------------------------------------------------------------------
(* The queue. *)

\* A worker holds an atom only between popping and finishing it, and the worker
\* threads run only between a start and a stop.
Order ==
    /\ \A w \in Workers : wpc[w] \notin {"popped", "busy"} => cur[w] = NoAtom
    /\ StopOrder

\* Nobody makes an array while cogdiod_start is about to, nobody allocates beside it.
FirstArray == StartAlone /\ mpc = "allocate" => rq_cap = 0

QueueInv == TypeOK /\ Filled(rq, rq_tail) /\ Order /\ FirstArray

\* What an insertion makes of the array.
LEMMA InsertKeeps ==
    ASSUME QueueInv, NEW a \in Atom, Insert(a)
    PROVE  /\ rq_cap' \in 0 .. MaxCap /\ rq' \in Arrays(rq_cap') /\ rq_tail' \in 0 .. rq_cap'
           /\ Filled(rq', rq_tail')
           /\ \A b \in Atom : Count(rq', rq_tail', b)
                                = Count(rq, rq_tail, b) + (IF b = a THEN 1 ELSE 0)
           /\ Heap(rq, rq_tail) => Heap(rq', rq_tail')
<1> DEFINE n == NewCap
           t == rq_tail
           e == [Grown(n) EXCEPT ![t] = a]
<1>1. /\ rq_cap \in 0 .. MaxCap /\ rq \in Arrays(rq_cap) /\ t \in 0 .. rq_cap /\ Values
      /\ \A j \in 0 .. t - 1 : rq[j] \in Atom
  BY CapAssumption DEF QueueInv, TypeOK, Arrays, Slot, Values, Filled
<1>2. n \in 0 .. MaxCap /\ t \in 0 .. n - 1 /\ rq_cap <= n
  BY <1>1, CapAssumption DEF NewCap, Insert
<1>3. rq' = SiftUp(e, t) /\ rq_tail' = t + 1 /\ rq_cap' = n
  BY DEF Insert
<1>4. e \in Arrays(n) /\ e[t] = a /\ \A j \in 0 .. t - 1 : e[j] = rq[j]
  <2> HIDE DEF n
  <2> QED BY <1>1, <1>2 DEF Grown, Arrays, Slot
<1> HIDE DEF n, t, e
<1>5. n \in Nat /\ t \in Nat /\ t + 1 \in 0 .. n /\ t \in 0 .. (t + 1) - 1 /\ t + 1 \in 0 .. n
  BY <1>2
<1>6. Lifts(n, t + 1, e, t)
  BY <1>1, <1>4, <1>5, SiftUpLifts
<1>7. Filled(e, t + 1)
  BY <1>1, <1>4, <1>5 DEF Filled
<1>8. ASSUME NEW b \in Atom
      PROVE  Count(e, t + 1, b) = Count(rq, t, b) + (IF b = a THEN 1 ELSE 0)
  <2>1. Count(e, t + 1, b) = Count(e, t, b) + (IF e[t] = b THEN 1 ELSE 0)
    BY <1>5, CountLast
  <2>2. Count(e, t, b) = Count(rq, t, b)
    BY <1>4, <1>5, CountSame
  <2> QED BY <1>4, <2>1, <2>2
<1>9. ASSUME Heap(rq, t) PROVE HeapButUp(e, t, t + 1)
  <2>1. ASSUME NEW j \in 1 .. (t + 1) - 1, j # t PROVE ~Before(e[j], e[Parent(j)])
    <3>1. j \in 1 .. t - 1 /\ j \in 0 .. t - 1 /\ Parent(j) \in 0 .. t - 1
      BY <1>5, <2>1, ParentBelow
    <3> QED BY <1>4, <1>9, <3>1 DEF Heap
  <2>2. ASSUME NEW j \in 1 .. (t + 1) - 1 PROVE Parent(j) # t
    BY <1>5, ParentBelow
  <2> QED BY <2>1, <2>2 DEF HeapButUp
<1>10. rq_tail = t
  BY DEF t
<1> QED BY <1>2, <1>3, <1>5, <1>6, <1>7, <1>8, <1>9, <1>10 DEF Lifts, Reordered

\* What rq_pop makes of the array; the entry it returns.
LEMMA PopKeeps ==
    ASSUME QueueInv, Pop
    PROVE  /\ rq' \in Arrays(rq_cap) /\ rq_tail' \in 0 .. rq_cap
           /\ Filled(rq', rq_tail')
           /\ rq[0] \in Atom /\ Count(rq, rq_tail, rq[0]) > 0
           /\ \A b \in Atom : Count(rq', rq_tail', b)
                                = Count(rq, rq_tail, b) - (IF b = rq[0] THEN 1 ELSE 0)
           /\ Heap(rq, rq_tail) => Heap(rq', rq_tail')
<1> DEFINE n == rq_cap
           t == rq_tail
           l == rq_tail - 1
           e == [rq EXCEPT ![0] = rq[l]]
           s == Swap(rq, 0, l)
<1>1. /\ n \in Nat /\ rq \in Arrays(n) /\ t \in 1 .. n /\ Values
      /\ \A j \in 0 .. t - 1 : rq[j] \in Atom
  BY CapAssumption DEF QueueInv, TypeOK, Arrays, Slot, Values, Filled, Pop
<1>2. l \in Nat /\ t = l + 1 /\ l \in 0 .. n /\ t \in 0 .. n /\ l \in 0 .. t - 1 /\ 0 \in 0 .. t - 1
      /\ 0 \in 0 .. n - 1 /\ l \in 0 .. n - 1
  BY <1>1
<1>3. rq_tail' = l /\ rq' = IF l = 0 THEN rq ELSE SiftDown(e, l, 0)
  BY <1>1, <1>2 DEF Pop
<1>4. e \in Arrays(n) /\ e[0] = rq[l] /\ \A j \in 1 .. n - 1 : e[j] = rq[j]
  BY <1>1, <1>2 DEF Arrays
<1>5. s \in Arrays(n) /\ s[0] = rq[l] /\ s[l] = rq[0] /\ \A j \in 1 .. l - 1 : s[j] = rq[j]
  <2>1. /\ s \in Arrays(n) /\ s[0] = rq[l] /\ s[l] = rq[0]
        /\ \A k \in 0 .. n - 1 : k # 0 /\ k # l => s[k] = rq[k]
    <3> HIDE DEF l
    <3> QED BY <1>1, <1>2, Swapped
  <2>2. \A j \in 1 .. l - 1 : j \in 0 .. n - 1 /\ j # 0 /\ j # l
    BY <1>1
  <2> HIDE DEF s, l
  <2> QED BY <2>1, <2>2
<1>6. rq_cap = n /\ rq_tail = t
  OBVIOUS
<1> HIDE DEF n, t, l, e
<1>7. ASSUME NEW b \in Atom
      PROVE  Count(e, l, b) = Count(rq, t, b) - (IF b = rq[0] THEN 1 ELSE 0)
  <2>1. Count(s, t, b) = Count(rq, t, b)
    BY <1>1, <1>2, CountSwapped
  <2> HIDE DEF s
  <2>2. Count(s, t, b) = Count(s, l, b) + (IF s[l] = b THEN 1 ELSE 0)
    BY <1>2, CountLast
  <2>3. \A j \in 0 .. l - 1 : s[j] = e[j]
    <3>1. \A j \in 0 .. l - 1 : j = 0 \/ j \in 1 .. l - 1
      BY <1>2
    <3>2. \A j \in 1 .. l - 1 : j \in 1 .. n - 1
      BY <1>1, <1>2
    <3> QED BY <1>4, <1>5, <3>1, <3>2
  <2>4. Count(s, l, b) = Count(e, l, b)
    BY <1>2, <2>3, CountSame
  <2>5. Count(s, l, b) \in Nat /\ Count(rq, t, b) \in Nat
    BY <1>1, <1>2, CountFinite
  <2> QED BY <1>5, <2>1, <2>2, <2>4, <2>5
<1> HIDE DEF s
<1>8. Filled(e, l)
  <2>1. \A j \in 0 .. l - 1 : j = 0 \/ (j \in 1 .. n - 1 /\ j \in 0 .. t - 1)
    BY <1>1, <1>2
  <2> QED BY <1>1, <1>2, <1>4, <2>1 DEF Filled
<1>9. ASSUME Heap(rq, t) PROVE HeapButDown(e, 0, l)
  <2>1. ASSUME NEW j \in 1 .. l - 1, Parent(j) # 0 PROVE ~Before(e[j], e[Parent(j)])
    <3>1. j \in 1 .. n - 1 /\ j \in 1 .. t - 1 /\ Parent(j) \in 1 .. n - 1
      BY <1>1, <1>2, <2>1, ParentBelow
    <3> QED BY <1>4, <1>9, <3>1 DEF Heap
  <2> QED BY <2>1 DEF HeapButDown
<1>10. /\ rq' \in Arrays(n)
       /\ Filled(rq', l)
       /\ \A b \in Atom : Count(rq', l, b) = Count(e, l, b)
       /\ HeapButDown(e, 0, l) => Heap(rq', l)
  <2>1. CASE l = 0
    <3>1. rq' = rq
      BY <1>3, <2>1
    <3>2. Filled(rq, l) /\ Heap(rq, l)
      BY <2>1 DEF Filled, Heap
    <3>3. \A b \in Atom : Count(rq, l, b) = Count(e, l, b)
      <4>1. \A j \in 0 .. l - 1 : rq[j] = e[j]
        BY <2>1
      <4> QED BY <1>2, <4>1, CountSame
    <3> QED BY <1>1, <3>1, <3>2, <3>3
  <2>2. CASE l # 0
    <3>1. rq' = SiftDown(e, l, 0) /\ 0 \in 0 .. l - 1
      BY <1>2, <1>3, <2>2
    <3>2. Lowers(n, l, e, 0)
      BY <1>1, <1>2, <1>4, <3>1, SiftDownLowers
    <3> QED BY <1>8, <3>1, <3>2 DEF Lowers, Reordered
  <2> QED BY <2>1, <2>2
<1>11. rq[0] \in Atom
  BY <1>1, <1>2
<1>12. Count(rq, t, rq[0]) > 0
  <2>1. Count(rq, t, rq[0]) \in Nat /\ Count(e, l, rq[0]) \in Nat
    BY <1>1, <1>2, CountFinite
  <2>2. Count(e, l, rq[0]) = Count(rq, t, rq[0]) - 1
    BY <1>7, <1>11
  <2> QED BY <2>1, <2>2
<1> QED BY <1>2, <1>3, <1>6, <1>7, <1>9, <1>10, <1>11, <1>12

LEMMA QueueInit == Init => QueueInv /\ Heap(rq, rq_tail)
<1> SUFFICES ASSUME Init PROVE QueueInv /\ Heap(rq, rq_tail)
  OBVIOUS
<1>1. TypeOK
  <2>1. rq \in [0 .. rq_cap - 1 -> Atom \cup {NoAtom}]
    BY DEF Init
  <2>2. rq_cap \in 0 .. MaxCap /\ rq_tail \in 0 .. rq_cap
    BY CapAssumption DEF Init
  <2>3. /\ wpc \in [Workers -> WorkerControl] /\ cur \in [Workers -> Atom \cup {NoAtom}]
        /\ state \in [Atom -> {"ALIVE", "SLEEPING"}] /\ sti \in [Atom -> 0 .. MaxSti]
    BY DEF Init, WorkerControl
  <2>4. /\ running \in BOOLEAN /\ epc \in {"none", "top", "sleep", "diffuse", "exited"}
        /\ mpc \in {"idle", "allocate", "launch", "broadcast", "join"}
    BY DEF Init
  <2> QED BY <2>1, <2>2, <2>3, <2>4 DEF TypeOK
<1>2. Filled(rq, rq_tail) /\ Heap(rq, rq_tail)
  BY DEF Init, Filled, Heap
<1>3. Order /\ FirstArray
  BY DEF Init, Order, StopOrder, FirstArray
<1> QED BY <1>1, <1>2, <1>3 DEF QueueInv

\* Every step keeps the types, the entries atoms, and the order of a worker's
\* and of the starting and stopping thread's steps.
LEMMA QueueStep == QueueInv /\ [Next]_vars => QueueInv'
<1> SUFFICES ASSUME QueueInv, [Next]_vars PROVE QueueInv'
  OBVIOUS
<1> USE DEF QueueInv
<1>1. ASSUME NEW a \in Atom, Enqueue(a) PROVE QueueInv'
  <2>1. Insert(a)
    BY <1>1 DEF Enqueue
  <2>2. /\ rq_cap' \in 0 .. MaxCap /\ rq' \in Arrays(rq_cap') /\ rq_tail' \in 0 .. rq_cap'
        /\ Filled(rq', rq_tail')
    BY <2>1, InsertKeeps
  <2>3. /\ running' = running /\ sti' = sti /\ state' = state /\ cur' = cur
        /\ epc' = epc /\ mpc' = mpc
        /\ \/ wpc' = wpc
           \/ \E w \in Waiting : wpc' = [wpc EXCEPT ![w] = "woken"]
    BY <2>1 DEF Insert
  <2>4. TypeOK'
    BY <2>2, <2>3 DEF TypeOK, Arrays, Slot, WorkerControl, Waiting
  <2>5. Order'
    BY <2>3 DEF Order, StopOrder, Waiting, TypeOK
  <2>6. Filled(rq, rq_tail)'
    BY <2>2 DEF Filled
  <2>7. FirstArray'
    BY <1>1, <2>3 DEF Enqueue, FirstArray
  <2> QED BY <2>4, <2>5, <2>6, <2>7
<1>2. ASSUME NEW w \in Workers, Acquire(w) PROVE QueueInv'
  <2>1. CASE rq' = rq /\ rq_tail' = rq_tail /\ cur' = cur
    <3>1. wpc' = [wpc EXCEPT ![w] = "waiting"] \/ wpc' = [wpc EXCEPT ![w] = "exited"]
          \/ cur' = [cur EXCEPT ![w] = rq[0]]
      BY <1>2 DEF Acquire
    <3>2. rq_tail' # rq_tail - 1
      BY <2>1 DEF TypeOK
    <3>3. \E c \in {"waiting", "exited"} : wpc' = [wpc EXCEPT ![w] = c] /\ (running => c = "waiting")
      BY <1>2, <3>2 DEF Acquire, Pop
    <3>4. TypeOK'
      BY <1>2, <2>1, <3>3 DEF Acquire, TypeOK, WorkerControl
    <3>5. Order'
      BY <1>2, <2>1, <3>3 DEF Acquire, Order, StopOrder, TypeOK
    <3>6. Filled(rq, rq_tail)' /\ FirstArray'
      BY <1>2, <2>1 DEF Acquire, Filled, FirstArray
    <3> QED BY <3>4, <3>5, <3>6
  <2>2. CASE running /\ Pop /\ cur' = [cur EXCEPT ![w] = rq[0]]
             /\ wpc' = [wpc EXCEPT ![w] = "popped"]
    <3>1. /\ rq' \in Arrays(rq_cap) /\ rq_tail' \in 0 .. rq_cap
          /\ Filled(rq', rq_tail') /\ rq[0] \in Atom
      BY <2>2, PopKeeps
    <3>2. /\ running' = running /\ rq_cap' = rq_cap /\ sti' = sti /\ state' = state
          /\ epc' = epc /\ mpc' = mpc
      BY <1>2 DEF Acquire
    <3>3. TypeOK'
      BY <2>2, <3>1, <3>2 DEF TypeOK, Arrays, Slot, WorkerControl
    <3>4. Order'
      BY <1>2, <2>2, <3>1, <3>2 DEF Acquire, Order, StopOrder, TypeOK
    <3>5. Filled(rq, rq_tail)' /\ FirstArray'
      BY <3>1, <3>2 DEF Filled, FirstArray
    <3> QED BY <3>3, <3>4, <3>5
  <2> QED BY <1>2, <2>1, <2>2 DEF Acquire
<1>3. ASSUME NEW w \in Workers, Check(w) \/ Examine(w) \/ Finish(w) \/ SpuriousWakeup(w)
      PROVE  QueueInv'
  <2>1. TypeOK'
    BY <1>3 DEF Check, Examine, Finish, SpuriousWakeup, TypeOK, WorkerControl
  <2>2. Order'
    BY <1>3 DEF Check, Examine, Finish, SpuriousWakeup, Order, StopOrder, TypeOK
  <2>3. Filled(rq, rq_tail)' /\ FirstArray'
    BY <1>3 DEF Check, Examine, Finish, SpuriousWakeup, Filled, FirstArray
  <2> QED BY <2>1, <2>2, <2>3
<1>4. CASE Start
  <2>1. /\ rq_cap' \in 0 .. MaxCap /\ rq' \in Arrays(rq_cap') /\ rq_tail' \in 0 .. rq_cap'
        /\ Filled(rq', rq_tail')
    <3>1. CASE StartAllocate
      <4>1. rq_cap' = InitialCap /\ rq' \in Arrays(InitialCap) /\ rq_tail' = 0
        BY <3>1 DEF StartAllocate, Arrays, Slot
      <4>2. InitialCap \in 0 .. MaxCap /\ 0 \in 0 .. InitialCap
        BY CapAssumption
      <4>3. Filled(rq', 0)
        BY DEF Filled
      <4> QED BY <4>1, <4>2, <4>3
    <3>2. CASE StartRunning \/ StartLaunch
      <4>1. rq' = rq /\ rq_tail' = rq_tail /\ rq_cap' = rq_cap
        BY <3>2 DEF StartRunning, StartLaunch
      <4> QED BY <4>1 DEF TypeOK, Arrays, Slot
    <3> QED BY <1>4, <3>1, <3>2 DEF Start
  <2>2. /\ sti' = sti /\ state' = state /\ cur' = cur
        /\ running' \in BOOLEAN /\ wpc' \in [Workers -> WorkerControl]
        /\ epc' \in {"none", "top", "sleep", "diffuse", "exited"}
        /\ mpc' \in {"idle", "allocate", "launch", "broadcast", "join"}
    BY <1>4 DEF Start, StartRunning, StartAllocate, StartLaunch, TypeOK, WorkerControl
  <2>3. TypeOK'
    BY <2>1, <2>2 DEF TypeOK, Arrays, Slot
  <2>4. Order'
    BY <1>4 DEF Start, StartRunning, StartAllocate, StartLaunch, TypeOK, Order, StopOrder
  <2>5. Filled(rq, rq_tail)'
    BY <2>1 DEF Filled
  <2>6. FirstArray'
    BY <1>4 DEF Start, StartRunning, StartAllocate, StartLaunch, FirstArray
  <2> QED BY <2>3, <2>4, <2>5, <2>6
<1>5. CASE Stop
  <2>1. TypeOK'
    BY <1>5 DEF Stop, StopClear, StopBroadcast, StopJoin, TypeOK, WorkerControl
  <2>2. Order'
    <3>1. CASE StopClear
      BY <3>1 DEF StopClear, Order, StopOrder
    <3>2. CASE StopBroadcast
      BY <3>2 DEF StopBroadcast, TypeOK, Order, StopOrder
    <3>3. CASE StopJoin
      BY <3>3 DEF StopJoin, Order, StopOrder
    <3> QED BY <1>5, <3>1, <3>2, <3>3 DEF Stop
  <2>3. Filled(rq, rq_tail)' /\ FirstArray'
    BY <1>5 DEF Stop, StopClear, StopBroadcast, StopJoin, Filled, FirstArray
  <2> QED BY <2>1, <2>2, <2>3
<1>6. CASE EcanStep \/ (\E a \in Atom : Wake(a) \/ Attend(a)) \/ UNCHANGED vars
  <2>1. /\ UNCHANGED <<running, rq, rq_tail, rq_cap, wpc, cur, mpc>>
        /\ sti' \in [Atom -> 0 .. MaxSti] /\ state' \in [Atom -> {"ALIVE", "SLEEPING"}]
        /\ epc' \in {"none", "top", "sleep", "diffuse", "exited"}
    <3>1. CASE EcanStep
      BY <3>1 DEF EcanStep, TypeOK
    <3>2. ASSUME NEW a \in Atom, Wake(a) PROVE <2>1
      BY <3>2 DEF Wake, TypeOK
    <3>3. ASSUME NEW a \in Atom, Attend(a) PROVE <2>1
      BY <3>3 DEF Attend, TypeOK
    <3>4. CASE UNCHANGED vars
      BY <3>4 DEF vars, TypeOK
    <3> QED BY <1>6, <3>1, <3>2, <3>3, <3>4
  <2>2. TypeOK'
    BY <2>1 DEF TypeOK
  <2>3. Order' /\ Filled(rq, rq_tail)' /\ FirstArray'
    BY <2>1 DEF Order, StopOrder, Filled, FirstArray
  <2> QED BY <2>2, <2>3
<1> QED
  BY <1>1, <1>2, <1>3, <1>4, <1>5, <1>6 DEF Next, FixedStiNext, WorkerStep

\* Every variable keeps its type, for every number of atoms and workers and
\* every capacity: the heap never holds more entries than the array has room for.
THEOREM TypesKept == Spec => []TypeOK
<1>1. QueueInv => TypeOK
  BY DEF QueueInv
<1> QED BY <1>1, QueueInit, QueueStep, PTL DEF Spec

-----------------------------------------------------------------------------
(* The bag. *)

\* Counts of the queue are counts of the abstract bag.
LEMMA EntriesAre ==
    /\ \A a : Entries(a) = Count(rq, rq_tail, a)
    /\ \A a : Entries(a)' = Count(rq', rq_tail', a)
BY DEF Entries, Count, Places

LEMMA BagInit == Init => Bag!Init
<1> SUFFICES ASSUME Init PROVE Bag!Init
  OBVIOUS
<1>1. \A a : Entries(a) = 0
  <2>1. {i \in 0 .. rq_tail - 1 : TRUE} = {}
    BY DEF Init
  <2>2. \A a : {i \in 0 .. rq_tail - 1 : rq[i] = a} = {}
    BY <2>1
  <2> QED BY <2>2, FS_EmptySet DEF Entries
<1>2. sti \in [Atom -> Nat]
  BY CapAssumption DEF Init
<1>3. cur = [w \in Workers |-> NoAtom]
  BY DEF Init
<1> QED BY <1>1, <1>2, <1>3 DEF Bag!Init

\* The entry a heap gives up has the highest STI.
LEMMA PopHighest ==
    ASSUME QueueInv, Pop, Heap(rq, rq_tail), NEW b \in Atom, Entries(b) > 0
    PROVE  ~Before(b, rq[0])
<1>1. rq_tail \in Nat /\ Values /\ Filled(rq, rq_tail)
  BY CapAssumption DEF QueueInv, TypeOK, Values
<1>2. Places(rq, rq_tail, b) # {}
  BY FS_EmptySet, EntriesAre DEF Count
<1>3. PICK j \in 0 .. rq_tail - 1 : rq[j] = b
  BY <1>2 DEF Places
<1> QED BY <1>1, <1>3, RootFirst

\* Every step of the scheduler is a step of the bag, or none of its.
LEMMA BagStep ==
    ASSUME StartAlone, QueueInv, Next \/ UNCHANGED vars
    PROVE  /\ [Bag!Next]_(Bag!vars)
           /\ FixedStiNext /\ Heap(rq, rq_tail)
                 => [Bag!PriorityNext]_(Bag!vars) /\ Heap(rq', rq_tail')
<1>0. cur \in [Workers -> Slot] /\ sti \in [Atom -> Nat] /\ \A a \in Atom : Entries(a) \in Nat
  <2>1. cur \in [Workers -> Slot] /\ sti \in [Atom -> Nat]
    BY CapAssumption DEF QueueInv, TypeOK, Slot
  <2>2. rq_tail \in Nat
    BY CapAssumption DEF QueueInv, TypeOK
  <2> QED BY <2>1, <2>2, EntriesAre, CountFinite
<1>1. ASSUME NEW a \in Atom, Enqueue(a)
      PROVE  Bag!Put(a) /\ (Heap(rq, rq_tail) => Heap(rq', rq_tail'))
  <2>1. Insert(a) /\ sti' = sti /\ cur' = cur
    BY <1>1 DEF Enqueue, Insert
  <2>2. /\ \A b \in Atom : Entries(b)' = Entries(b) + (IF b = a THEN 1 ELSE 0)
        /\ Heap(rq, rq_tail) => Heap(rq', rq_tail')
    BY <2>1, InsertKeeps, EntriesAre
  <2>3. [b \in Atom |-> Entries(b)'] = [b \in Atom |-> IF b = a THEN Entries(b) + 1 ELSE Entries(b)]
    BY <1>0, <2>2
  <2>4. Bag!Put(a)
    BY <2>1, <2>3 DEF Bag!Put
  <2> QED BY <2>2, <2>4
<1>2. ASSUME NEW w \in Workers, Acquire(w), Pop, cur' = [cur EXCEPT ![w] = rq[0]]
      PROVE  /\ rq[0] \in Atom /\ Bag!Take(w, rq[0])
             /\ Heap(rq, rq_tail) => Bag!TakeHighest(w, rq[0]) /\ Heap(rq', rq_tail')
  <2>1. cur[w] = NoAtom /\ sti' = sti
    BY <1>2 DEF Acquire, QueueInv, Order
  <2>2. /\ \A b \in Atom : Entries(b)' = Entries(b) - (IF b = rq[0] THEN 1 ELSE 0)
        /\ rq[0] \in Atom /\ Entries(rq[0]) > 0
        /\ Heap(rq, rq_tail) => Heap(rq', rq_tail')
    BY <1>2, PopKeeps, EntriesAre
  <2>3. Bag!Take(w, rq[0])
    BY <1>0, <1>2, <2>1, <2>2 DEF Bag!Take
  <2>4. ASSUME Heap(rq, rq_tail) PROVE Bag!TakeHighest(w, rq[0])
    <3>1. \A b \in Atom : Entries(b) > 0 => ~Before(b, rq[0])
      BY <1>2, <2>4, PopHighest
    <3> QED BY <2>3, <3>1 DEF Bag!TakeHighest, Bag!Precedes, Before
  <2> QED BY <2>2, <2>3, <2>4
<1>3. ASSUME NEW w \in Workers, rq' = rq, rq_tail' = rq_tail, sti' = sti,
             cur' = cur \/ cur' = [cur EXCEPT ![w] = NoAtom]
      PROVE  Bag!Release(w) \/ UNCHANGED (Bag!vars)
  <2>1. \A b \in Atom : Entries(b)' = Entries(b)
    BY <1>3, EntriesAre
  <2> QED BY <1>3, <2>1 DEF Bag!Release, Bag!vars
<1>4. ASSUME NEW w \in Workers, WorkerStep(w) \/ SpuriousWakeup(w)
      PROVE  \/ Acquire(w) /\ Pop /\ cur' = [cur EXCEPT ![w] = rq[0]]
             \/ /\ rq' = rq /\ rq_tail' = rq_tail /\ sti' = sti
                /\ cur' = cur \/ cur' = [cur EXCEPT ![w] = NoAtom]
  BY <1>4 DEF WorkerStep, Check, Acquire, Examine, Finish, SpuriousWakeup
<1>5. ASSUME \/ EcanStep \/ Start \/ Stop \/ (\E a \in Atom : Wake(a))
             \/ UNCHANGED vars
      PROVE  UNCHANGED (Bag!vars) /\ (Heap(rq, rq_tail) => Heap(rq', rq_tail'))
  <2>3. mpc = "allocate" => rq_tail = 0
    BY DEF QueueInv, TypeOK, FirstArray
  <2>1. rq_tail' = rq_tail /\ sti' = sti /\ cur' = cur
    BY <1>5, <2>3 DEF EcanStep, Start, StartRunning, StartAllocate, StartLaunch, Stop, StopClear,
                      StopBroadcast, StopJoin, Wake, vars
  <2>2. rq' = rq \/ rq_tail = 0
    BY <1>5, <2>3 DEF EcanStep, Start, StartRunning, StartAllocate, StartLaunch, Stop, StopClear,
                      StopBroadcast, StopJoin, Wake, vars
  <2>4. \A j \in 0 .. rq_tail - 1 : rq'[j] = rq[j]
    BY <2>2
  <2>5. \A b \in Atom : Entries(b)' = Entries(b)
    <3>1. rq_tail \in Nat
      BY CapAssumption DEF QueueInv, TypeOK
    <3> QED BY <2>1, <2>4, <3>1, CountSame, EntriesAre
  <2>6. Heap(rq, rq_tail) => Heap(rq', rq_tail')
    BY <2>1, <2>2 DEF Heap
  <2> QED BY <2>1, <2>5, <2>6 DEF Bag!vars
<1>6. ASSUME NEW a \in Atom, Attend(a) PROVE Bag!Attend(a)
  <2>1. rq' = rq /\ rq_tail' = rq_tail /\ cur' = cur
    BY <1>6 DEF Attend
  <2>2. \A b \in Atom : Entries(b)' = Entries(b)
    BY <2>1, EntriesAre
  <2>3. sti' \in [Atom -> Nat] /\ \A b \in Atom \ {a} : sti'[b] = sti[b]
    BY <1>0, <1>6, CapAssumption DEF Attend
  <2> QED BY <2>1, <2>2, <2>3 DEF Bag!Attend
<1>7. [Bag!Next]_(Bag!vars)
  BY <1>1, <1>2, <1>3, <1>4, <1>5, <1>6 DEF Next, FixedStiNext, Bag!Next
<1>8. ASSUME FixedStiNext, Heap(rq, rq_tail)
      PROVE  [Bag!PriorityNext]_(Bag!vars) /\ Heap(rq', rq_tail')
  BY <1>1, <1>2, <1>3, <1>4, <1>5, <1>8 DEF FixedStiNext, Bag!PriorityNext
<1> QED BY <1>7, <1>8

\* The queue is a bag, whatever happens to the STI values of queued atoms: no
\* scheduled atom is lost or taken twice when the array grows, when entries
\* rise and sink, and however many workers pop.  Nobody may schedule while
\* cogdiod_start makes the first array, outside the lock (StartAlone).
THEOREM QueueIsABag ==
    ASSUME StartAlone
    PROVE  Spec => ImplementsBag
<1>1. QueueInv /\ [Next]_vars => [Bag!Next]_(Bag!vars)
  BY BagStep
<1> QED
  BY <1>1, QueueInit, QueueStep, BagInit, PTL DEF Spec, ImplementsBag, Bag!Spec

\* While STI values stay what they are it is a priority queue: a worker takes
\* an atom that no scheduled atom precedes.
THEOREM QueueIsAPriorityQueue ==
    ASSUME StartAlone
    PROVE  FixedStiSpec => ImplementsPriorityBag
<1> DEFINE Inv == QueueInv /\ Heap(rq, rq_tail)
<1>1. Inv /\ [FixedStiNext]_vars => Inv' /\ [Bag!PriorityNext]_(Bag!vars)
  <2> SUFFICES ASSUME Inv, [FixedStiNext]_vars
               PROVE  Inv' /\ [Bag!PriorityNext]_(Bag!vars)
    OBVIOUS
  <2>1. [Next]_vars
    BY DEF Next
  <2>2. QueueInv'
    BY <2>1, QueueStep
  <2>3. CASE FixedStiNext
    <3>1. [Bag!PriorityNext]_(Bag!vars) /\ Heap(rq', rq_tail')
      BY <2>3, BagStep DEF Next
    <3>2. sti' = sti
      BY <2>3 DEF FixedStiNext, WorkerStep, Stop, Enqueue, Insert, Wake, Check, Acquire,
                  Examine, Finish, SpuriousWakeup, EcanStep, Start, StartRunning,
                  StartAllocate, StartLaunch, StopClear, StopBroadcast, StopJoin
    <3>3. Heap(rq, rq_tail)'
      BY <3>1, <3>2 DEF Heap, Before
    <3> QED BY <2>2, <3>1, <3>3
  <2>4. CASE UNCHANGED vars
    <3>1. UNCHANGED (Bag!vars)
      BY <2>4 DEF Bag!vars, vars, Entries
    <3>2. Heap(rq, rq_tail)'
      BY <2>4 DEF Heap, Before, vars
    <3> QED BY <2>2, <3>1, <3>2
  <2> QED BY <2>3, <2>4
<1> HIDE DEF Inv
<1>2. Init => Inv
  BY QueueInit DEF Inv
<1> QED BY <1>1, <1>2, BagInit, PTL DEF FixedStiSpec, ImplementsPriorityBag, Bag!PrioritySpec
=============================================================================
