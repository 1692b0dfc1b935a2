------------------------------ MODULE RunQueue ------------------------------
(***************************************************************************)
(* The scheduler of src/kernel/cogdiod_kernel.c: the run queue (a binary   *)
(* max-heap in an array, ordered by STI), cogdiod_enqueue, the worker      *)
(* threads, the ECAN thread, cogdiod_start and cogdiod_stop.               *)
(*                                                                         *)
(* run_queue_lock is held over the whole of an enqueue and over a worker's *)
(* wait-and-pop, so each of these sections is one action.  `running' is    *)
(* written without the lock: that write is a step of its own, and so is    *)
(* each test of `running' outside the lock.  So is the allocation of the   *)
(* first array by cogdiod_start, which takes no lock either: an enqueue    *)
(* beside it is lost (StartAlone).  Between the two assignments of that    *)
(* allocation rq_cap is 1024 while run_queue is still null; the model has  *)
(* them in one step.                                                       *)
(*                                                                         *)
(* STI values are small integers (the code compares floats, only their     *)
(* order matters here).  What a worker does with an atom is left to        *)
(* Propagation; here it holds the atom for a while.                        *)
(*                                                                         *)
(* A definition named like another with a suffix (SiftUpOnce,              *)
(* InsertUnsignalled...) is a faulty variant of it that no action uses:    *)
(* the properties are shown to tell the two apart.                         *)
(***************************************************************************)
EXTENDS Integers, FiniteSets

CONSTANTS
    Atom,           \* uuids of the atoms
    NoAtom,         \* an array slot never written, a worker without an atom
    Workers,        \* the worker threads
    InitialCap,     \* rq_cap at the first allocation, 1024 in the code
    MaxCap,         \* bound on the capacity
    MaxSti,         \* bound on STI
    EcanEnabled,    \* k->ecan_enabled
    StartAlone      \* nobody schedules an atom while cogdiod_start allocates:
                    \* its callers (tests/) start no threads of their own before

ASSUME AtomAssumption == Atom \subseteq Nat /\ NoAtom \notin Nat
ASSUME WorkersAssumption == IsFiniteSet(Workers)
ASSUME CapAssumption ==
    /\ InitialCap \in Nat /\ InitialCap > 0
    /\ MaxCap \in Nat /\ MaxSti \in Nat /\ InitialCap <= MaxCap
ASSUME EcanAssumption == EcanEnabled \in BOOLEAN /\ StartAlone \in BOOLEAN

VARIABLES
    running,    \* k->running
    rq,         \* k->run_queue, a function on 0 .. rq_cap - 1
    rq_tail,    \* number of entries in the heap
    rq_cap,     \* capacity of the array, 0 before the first allocation
    sti,        \* a->av.sti
    state,      \* a->state
    wpc,        \* control of each worker thread
    cur,        \* the atom each worker has popped
    epc,        \* control of the ECAN thread
    mpc         \* control of the thread that starts and stops the kernel

vars == <<running, rq, rq_tail, rq_cap, sti, state, wpc, cur, epc, mpc>>

WorkerControl ==
    {"none", "top", "lock", "waiting", "woken", "popped", "busy", "exited"}

TypeOK ==
    /\ running \in BOOLEAN
    /\ rq_cap \in 0 .. MaxCap
    /\ rq \in [0 .. rq_cap - 1 -> Atom \cup {NoAtom}]
    /\ rq_tail \in 0 .. rq_cap
    /\ sti \in [Atom -> 0 .. MaxSti]
    /\ state \in [Atom -> {"ALIVE", "SLEEPING"}]
    /\ wpc \in [Workers -> WorkerControl]
    /\ cur \in [Workers -> Atom \cup {NoAtom}]
    /\ epc \in {"none", "top", "sleep", "diffuse", "exited"}
    /\ mpc \in {"idle", "allocate", "launch", "broadcast", "join"}

Init ==
    /\ running = FALSE
    /\ rq = [i \in {} |-> NoAtom]
    /\ rq_tail = 0
    /\ rq_cap = 0
    /\ sti \in [Atom -> 0 .. MaxSti]
    /\ state = [a \in Atom |-> "SLEEPING"]
    /\ wpc = [w \in Workers |-> "none"]
    /\ cur = [w \in Workers |-> NoAtom]
    /\ epc = "none"
    /\ mpc = "idle"

-----------------------------------------------------------------------------
(* The heap. *)

Parent(i) == (i - 1) \div 2

\* rq_compare(a, b) < 0
Before(a, b) == sti[a] > sti[b] \/ (sti[a] = sti[b] /\ a < b)

Swap(arr, i, j) == [arr EXCEPT ![i] = arr[j], ![j] = arr[i]]

SiftUpOnce(arr, i) ==
    IF i > 0 /\ Before(arr[i], arr[Parent(i)]) THEN Swap(arr, i, Parent(i)) ELSE arr

\* rq_sift_up: the entry at i rises while it goes before its parent.
SiftUp(arr, i) ==
    LET up[p \in [DOMAIN arr -> Atom \cup {NoAtom}] \X DOMAIN arr] ==
          IF p[2] > 0 /\ Before(p[1][p[2]], p[1][Parent(p[2])])
          THEN up[<<Swap(p[1], p[2], Parent(p[2])), Parent(p[2])>>]
          ELSE p[1]
    IN up[<<arr, i>>]

\* The index of the two whose entry goes before the other's, i among equals.
Better(arr, count, i, j) ==
    IF j < count /\ Before(arr[j], arr[i]) THEN j ELSE i

BestLeftOnly(arr, count, i) == Better(arr, count, i, 2 * i + 1)

Best(arr, count, i) ==
    Better(arr, count, Better(arr, count, i, 2 * i + 1), 2 * i + 2)

\* rq_sift_down: the entry at i sinks below the better of its children.
SiftDown(arr, count, i) ==
    LET down[p \in [DOMAIN arr -> Atom \cup {NoAtom}] \X DOMAIN arr] ==
          LET b == Best(p[1], count, p[2])
          IN IF b # p[2] THEN down[<<Swap(p[1], p[2], b), b>>] ELSE p[1]
    IN down[<<arr, i>>]

-----------------------------------------------------------------------------
(* cogdiod_enqueue. *)

Waiting == {w \in Workers : wpc[w] = "waiting"}
Woken == {w \in Workers : wpc[w] = "woken"}

\* The array an entry is stored in: allocated lazily, doubled when full.
NewCap ==
    IF rq_cap = 0 THEN InitialCap
    ELSE IF rq_tail >= rq_cap THEN rq_cap * 2 ELSE rq_cap

Grown(cap) == [i \in 0 .. cap - 1 |-> IF i < rq_cap THEN rq[i] ELSE NoAtom]

InsertUnsignalled(a) ==
    /\ NewCap <= MaxCap
    /\ rq' = SiftUp([Grown(NewCap) EXCEPT ![rq_tail] = a], rq_tail)
    /\ rq_tail' = rq_tail + 1
    /\ rq_cap' = NewCap
    /\ UNCHANGED <<running, sti, state, wpc, cur, epc, mpc>>

Insert(a) ==
    /\ NewCap <= MaxCap
    /\ rq' = SiftUp([Grown(NewCap) EXCEPT ![rq_tail] = a], rq_tail)
    /\ rq_tail' = rq_tail + 1
    /\ rq_cap' = NewCap
    /\ \/ Waiting = {} /\ UNCHANGED wpc
       \/ \E w \in Waiting : wpc' = [wpc EXCEPT ![w] = "woken"]
    /\ UNCHANGED <<running, sti, state, cur, epc, mpc>>

\* Only an ATOM_ALIVE atom is scheduled.
Enqueue(a) ==
    /\ state[a] = "ALIVE"
    /\ StartAlone => mpc # "allocate"
    /\ Insert(a)

-----------------------------------------------------------------------------
(* worker_thread. *)

\* while (k->running), outside the lock.
Check(w) ==
    /\ wpc[w] = "top"
    /\ wpc' = [wpc EXCEPT ![w] = IF running THEN "lock" ELSE "exited"]
    /\ UNCHANGED <<running, rq, rq_tail, rq_cap, sti, state, cur, epc, mpc>>

PopKeepsTop ==
    /\ rq_tail > 0
    /\ rq_tail' = rq_tail - 1
    /\ rq' = rq

\* rq_pop: the root goes, the last entry takes its place and sinks.
Pop ==
    /\ rq_tail > 0
    /\ rq_tail' = rq_tail - 1
    /\ rq' = IF rq_tail = 1 THEN rq
             ELSE SiftDown([rq EXCEPT ![0] = rq[rq_tail - 1]], rq_tail - 1, 0)

\* Under run_queue_lock, at entry or back from pthread_cond_wait.
Acquire(w) ==
    /\ wpc[w] \in {"lock", "woken"}
    /\ \/ /\ rq_tail = 0 /\ running
          /\ wpc' = [wpc EXCEPT ![w] = "waiting"]
          /\ UNCHANGED <<rq, rq_tail, cur>>
       \/ /\ ~running
          /\ wpc' = [wpc EXCEPT ![w] = "exited"]
          /\ UNCHANGED <<rq, rq_tail, cur>>
       \/ /\ running /\ Pop
          /\ cur' = [cur EXCEPT ![w] = rq[0]]
          /\ wpc' = [wpc EXCEPT ![w] = "popped"]
    /\ UNCHANGED <<running, rq_cap, sti, state, epc, mpc>>

\* An atom that is not ATOM_ALIVE is dropped, another is processed.
Examine(w) ==
    /\ wpc[w] = "popped"
    /\ IF state[cur[w]] = "ALIVE"
       THEN /\ wpc' = [wpc EXCEPT ![w] = "busy"]
            /\ UNCHANGED cur
       ELSE /\ wpc' = [wpc EXCEPT ![w] = "top"]
            /\ cur' = [cur EXCEPT ![w] = NoAtom]
    /\ UNCHANGED <<running, rq, rq_tail, rq_cap, sti, state, epc, mpc>>

\* worker_process_atom returns.
Finish(w) ==
    /\ wpc[w] = "busy"
    /\ wpc' = [wpc EXCEPT ![w] = "top"]
    /\ cur' = [cur EXCEPT ![w] = NoAtom]
    /\ UNCHANGED <<running, rq, rq_tail, rq_cap, sti, state, epc, mpc>>

SpuriousWakeup(w) ==
    /\ wpc[w] = "waiting"
    /\ wpc' = [wpc EXCEPT ![w] = "woken"]
    /\ UNCHANGED <<running, rq, rq_tail, rq_cap, sti, state, cur, epc, mpc>>

-----------------------------------------------------------------------------
(* ecan_thread_fn: sleep, diffuse if still running, test again. *)

EcanStep ==
    /\ \/ epc = "top" /\ epc' = IF running THEN "sleep" ELSE "exited"
       \/ epc = "sleep" /\ epc' = IF running THEN "diffuse" ELSE "top"
       \/ epc = "diffuse" /\ epc' = "top"
    /\ UNCHANGED <<running, rq, rq_tail, rq_cap, sti, state, wpc, cur, mpc>>

-----------------------------------------------------------------------------
(* cogdiod_start and cogdiod_stop. *)

StartRunning ==
    /\ mpc = "idle" /\ ~running
    /\ running' = TRUE
    /\ mpc' = IF rq_cap = 0 THEN "allocate" ELSE "launch"
    /\ UNCHANGED <<rq, rq_tail, rq_cap, sti, state, wpc, cur, epc>>

\* No run_queue was there: a new one, and no entries in it.
StartAllocate ==
    /\ mpc = "allocate"
    /\ rq_cap' = InitialCap
    /\ rq' = [i \in 0 .. InitialCap - 1 |-> NoAtom]
    /\ rq_tail' = 0
    /\ mpc' = "launch"
    /\ UNCHANGED <<running, sti, state, wpc, cur, epc>>

StartLaunch ==
    /\ mpc = "launch"
    /\ wpc' = [w \in Workers |-> "top"]
    /\ epc' = IF EcanEnabled THEN "top" ELSE "none"
    /\ mpc' = "idle"
    /\ UNCHANGED <<running, rq, rq_tail, rq_cap, sti, state, cur>>

StopClear ==
    /\ mpc = "idle" /\ running
    /\ running' = FALSE
    /\ mpc' = "broadcast"
    /\ UNCHANGED <<rq, rq_tail, rq_cap, sti, state, wpc, cur, epc>>

StopSignalsOne ==
    /\ mpc = "broadcast"
    /\ \/ Waiting = {} /\ UNCHANGED wpc
       \/ \E w \in Waiting : wpc' = [wpc EXCEPT ![w] = "woken"]
    /\ mpc' = "join"
    /\ UNCHANGED <<running, rq, rq_tail, rq_cap, sti, state, cur, epc>>

StopBroadcast ==
    /\ mpc = "broadcast"
    /\ wpc' = [w \in Workers |-> IF wpc[w] = "waiting" THEN "woken" ELSE wpc[w]]
    /\ mpc' = "join"
    /\ UNCHANGED <<running, rq, rq_tail, rq_cap, sti, state, cur, epc>>

StopJoin ==
    /\ mpc = "join"
    /\ \A w \in Workers : wpc[w] = "exited"
    /\ epc \in {"none", "exited"}
    /\ mpc' = "idle"
    /\ UNCHANGED <<running, rq, rq_tail, rq_cap, sti, state, wpc, cur, epc>>

-----------------------------------------------------------------------------
(* What other threads do to an atom while it is, or is not, in the queue. *)

\* cogdiod_set_tv wakes the target of a channel.
Wake(a) ==
    /\ state' = [state EXCEPT ![a] = "ALIVE"]
    /\ UNCHANGED <<running, rq, rq_tail, rq_cap, sti, wpc, cur, epc, mpc>>

\* cogdiod_attend, collect_rent and diffusion change a->av.sti; a positive
\* value wakes the atom.
Attend(a) ==
    /\ \E n \in 0 .. MaxSti :
          /\ sti' = [sti EXCEPT ![a] = n]
          /\ state' = [state EXCEPT ![a] = IF n > 0 THEN "ALIVE" ELSE @]
    /\ UNCHANGED <<running, rq, rq_tail, rq_cap, wpc, cur, epc, mpc>>

-----------------------------------------------------------------------------
WorkerStep(w) == Check(w) \/ Acquire(w) \/ Examine(w) \/ Finish(w)

Start == StartRunning \/ StartAllocate \/ StartLaunch
Stop == StopClear \/ StopBroadcast \/ StopJoin

\* Everything but a change of STI.
FixedStiNext ==
    \/ \E a \in Atom : Enqueue(a) \/ Wake(a)
    \/ \E w \in Workers : WorkerStep(w) \/ SpuriousWakeup(w)
    \/ EcanStep
    \/ Start \/ Stop

Next == FixedStiNext \/ \E a \in Atom : Attend(a)

\* A worker that can run does, also inside worker_process_atom; a start or stop
\* that has begun goes on.  Nobody has to enqueue, start or stop.
Fairness ==
    /\ \A w \in Workers : WF_vars(WorkerStep(w))
    /\ WF_vars(EcanStep)
    /\ WF_vars(StartAllocate \/ StartLaunch \/ StopBroadcast \/ StopJoin)

Spec == Init /\ [][Next]_vars /\ Fairness
FixedStiSpec == Init /\ [][FixedStiNext]_vars /\ Fairness

-----------------------------------------------------------------------------

\* No worker sleeps in pthread_cond_wait while there are more scheduled atoms
\* than workers already woken for them: one pthread_cond_signal per enqueue is
\* enough although workers that never slept take entries too.
NoSleeperBesideWork ==
    running /\ Waiting # {} => rq_tail <= Cardinality(Woken)

\* After the broadcast of cogdiod_stop no worker is or goes back to sleep,
\* although `running' is cleared without the lock: pthread_join cannot hang on
\* a worker that missed the news.
NoSleeperAfterStop == mpc = "join" => Waiting = {}

\* A scheduled atom of a running kernel leads to a worker picking one up.
WorkIsTaken ==
    running /\ rq_tail > 0 ~> ~running \/ \E w \in Workers : wpc[w] = "popped"

\* cogdiod_start and cogdiod_stop return, if processing an atom always ends.
StopReturns == mpc # "idle" ~> mpc = "idle"

\* The queue is a bag: every enqueue is popped at most once and by one worker,
\* nothing is lost when the array grows or entries are swapped, whatever
\* happens to the STI values meanwhile.
Entries(a) == Cardinality({i \in 0 .. rq_tail - 1 : rq[i] = a})

Bag == INSTANCE PriorityBag WITH
           bag <- [a \in Atom |-> Entries(a)], held <- cur

ImplementsBag == Bag!Spec

\* While STI values stay what they are it is a priority queue.
ImplementsPriorityBag == Bag!PrioritySpec

\* "Higher STI atoms are scheduled first" (cogdiod_kernel.c:55).
HigherStiFirst ==
    [][\A w \in Workers :
          cur[w] = NoAtom /\ cur'[w] # NoAtom
             => \A i \in 0 .. rq_tail - 1 : sti[rq[i]] <= sti[cur'[w]]]_vars
=============================================================================
