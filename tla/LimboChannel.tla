---------------------------- MODULE LimboChannel ----------------------------
(***************************************************************************)
(* One LimboChannel (include/cogdiod.h) and the code that touches its ring *)
(* buffer: cogdiod_send, cogdiod_recv, the drain of worker_process_atom    *)
(* and the non-blocking MSG_DESTROY of cogdiod_gc_sweep.                   *)
(*                                                                         *)
(* ch->lock is held over the whole of each operation and released only by  *)
(* pthread_cond_wait, so what a thread does between acquiring the lock and *)
(* releasing it (or waiting) is one action.  A condition variable is the   *)
(* set of threads whose control is "waiting"; pthread_cond_signal moves    *)
(* one of them to "woken", and a woken thread takes the lock again before  *)
(* it re-evaluates the while condition.                                    *)
(*                                                                         *)
(* cogdiod_send computes its local `next' before the wait and does not     *)
(* compute it again after: it is a variable here.                          *)
(*                                                                         *)
(* A definition named like another with a suffix (AdvanceNoWrap,           *)
(* StoreUnsignalled...) is a faulty variant of it that no action uses: the *)
(* properties are shown to tell the two apart.                             *)
(***************************************************************************)
EXTENDS Integers, Sequences, FiniteSets

CONSTANTS
    Message,    \* the messages (CogMessage)
    NoMessage,  \* not a message
    BufMax,     \* CHANNEL_BUF_MAX, 64 in the code
    Senders,    \* threads that call cogdiod_send on this channel
    Collectors, \* those of them that also run cogdiod_gc_sweep
    Receivers,  \* threads that call cogdiod_recv on this channel
    Workers     \* worker threads that drain it without blocking

ASSUME BufMaxAssumption == BufMax \in Nat /\ BufMax >= 2
ASSUME MessageAssumption == NoMessage \notin Message
ASSUME ThreadAssumption ==
    /\ Collectors \subseteq Senders
    /\ Receivers \cap Workers = {}
    /\ IsFiniteSet(Receivers)

VARIABLES
    buf,    \* the array of CHANNEL_BUF_MAX slots
    head,   \* index of the oldest message
    tail,   \* index of the slot the next message goes to
    spc,    \* control of each sender
    next,   \* each sender's local `next'
    msg,    \* the message of each sender's call, NoMessage between calls
    rpc,    \* control of each receiver
    got     \* the last message each receiver and worker took

vars == <<buf, head, tail, spc, next, msg, rpc, got>>

Slots == 0 .. BufMax - 1
Takers == Receivers \cup Workers
Control == {"idle", "enter", "waiting", "woken"}

AdvanceNoWrap(i) == i + 1

Advance(i) == (i + 1) % BufMax

Empty == head = tail
Full == Advance(tail) = head
Count == IF head <= tail THEN tail - head ELSE tail - head + BufMax

\* The messages in the channel, oldest first.
Contents == [i \in 1 .. Count |-> buf[(head + i - 1) % BufMax]]

TypeOK ==
    /\ buf \in [Slots -> Message \cup {NoMessage}]
    /\ head \in Slots
    /\ tail \in Slots
    /\ spc \in [Senders -> Control]
    /\ next \in [Senders -> Slots]
    /\ msg \in [Senders -> Message \cup {NoMessage}]
    /\ rpc \in [Receivers -> Control]
    /\ got \in [Takers -> Message \cup {NoMessage}]

\* cogdiod_link: calloc, head = tail = 0, the condition variables initialised.
Init ==
    /\ buf = [i \in Slots |-> NoMessage]
    /\ head = 0
    /\ tail = 0
    /\ spc = [s \in Senders |-> "idle"]
    /\ next = [s \in Senders |-> 0]
    /\ msg = [s \in Senders |-> NoMessage]
    /\ rpc = [r \in Receivers |-> "idle"]
    /\ got = [t \in Takers |-> NoMessage]

-----------------------------------------------------------------------------
\* pthread_cond_signal: one waiting thread, if there is one, is woken.
Waiting(pc) == {t \in DOMAIN pc : pc[t] = "waiting"}

Signal(pc) ==
    IF Waiting(pc) = {} THEN {pc}
    ELSE {[pc EXCEPT ![t] = "woken"] : t \in Waiting(pc)}

StoreUnsignalled(s, nxt) ==
    /\ buf' = [buf EXCEPT ![tail] = msg[s]]
    /\ tail' = nxt
    /\ spc' = [spc EXCEPT ![s] = "idle"]
    /\ msg' = [msg EXCEPT ![s] = NoMessage]
    /\ UNCHANGED <<head, got, rpc>>

\* The rest of cogdiod_send after its while loop: store, advance tail to the
\* local next, signal not_empty, unlock, return 0.
Store(s, nxt) ==
    /\ buf' = [buf EXCEPT ![tail] = msg[s]]
    /\ tail' = nxt
    /\ rpc' \in Signal(rpc)
    /\ spc' = [spc EXCEPT ![s] = "idle"]
    /\ msg' = [msg EXCEPT ![s] = NoMessage]
    /\ UNCHANGED <<head, got>>

SendCall(s, m) ==
    /\ spc[s] = "idle"
    /\ spc' = [spc EXCEPT ![s] = "enter"]
    /\ msg' = [msg EXCEPT ![s] = m]
    /\ UNCHANGED <<buf, head, tail, next, rpc, got>>

\* lock; next = tail + 1 modulo CHANNEL_BUF_MAX; wait when next = head.
SendEnter(s) ==
    /\ spc[s] = "enter"
    /\ next' = [next EXCEPT ![s] = Advance(tail)]
    /\ \/ Full
          /\ spc' = [spc EXCEPT ![s] = "waiting"]
          /\ UNCHANGED <<buf, head, tail, msg, rpc, got>>
       \/ ~Full /\ Store(s, Advance(tail))

SendResumeIf(s) ==
    /\ spc[s] = "woken"
    /\ UNCHANGED next
    /\ Store(s, next[s])

\* Back from pthread_cond_wait with the lock: the loop tests the old next.
SendResume(s) ==
    /\ spc[s] = "woken"
    /\ UNCHANGED next
    /\ \/ next[s] = head
          /\ spc' = [spc EXCEPT ![s] = "waiting"]
          /\ UNCHANGED <<buf, head, tail, msg, rpc, got>>
       \/ next[s] # head /\ Store(s, next[s])

GcOfferFromAnotherThread(g, m) ==
    /\ ~Full
    /\ buf' = [buf EXCEPT ![tail] = m]
    /\ tail' = Advance(tail)
    /\ rpc' \in Signal(rpc)
    /\ UNCHANGED <<head, spc, next, msg, got>>

\* cogdiod_gc_sweep's send of MSG_DESTROY: dropped when the channel is full.
GcOffer(g, m) ==
    /\ spc[g] = "idle"
    /\ ~Full
    /\ buf' = [buf EXCEPT ![tail] = m]
    /\ tail' = Advance(tail)
    /\ rpc' \in Signal(rpc)
    /\ UNCHANGED <<head, spc, next, msg, got>>

RemoveUnsignalled(t) ==
    /\ got' = [got EXCEPT ![t] = buf[head]]
    /\ head' = Advance(head)
    /\ UNCHANGED <<buf, tail, spc, next, msg>>

\* Take the oldest message and signal not_full.
Remove(t) ==
    /\ got' = [got EXCEPT ![t] = buf[head]]
    /\ head' = Advance(head)
    /\ spc' \in Signal(spc)
    /\ UNCHANGED <<buf, tail, next, msg>>

RecvCall(r) ==
    /\ rpc[r] = "idle"
    /\ rpc' = [rpc EXCEPT ![r] = "enter"]
    /\ UNCHANGED <<buf, head, tail, spc, next, msg, got>>

\* lock (at entry or back from the wait); wait while the channel is empty.
RecvStep(r) ==
    /\ rpc[r] \in {"enter", "woken"}
    /\ \/ Empty
          /\ rpc' = [rpc EXCEPT ![r] = "waiting"]
          /\ UNCHANGED <<buf, head, tail, spc, next, msg, got>>
       \/ ~Empty
          /\ rpc' = [rpc EXCEPT ![r] = "idle"]
          /\ Remove(r)

\* One channel of worker_process_atom: at most one message, never a wait.
Drain(w) ==
    /\ ~Empty
    /\ Remove(w)
    /\ UNCHANGED rpc

\* POSIX lets pthread_cond_wait return without a signal.
SpuriousWakeup ==
    \/ \E s \in Waiting(spc) :
          /\ spc' = [spc EXCEPT ![s] = "woken"]
          /\ UNCHANGED <<buf, head, tail, next, msg, rpc, got>>
    \/ \E r \in Waiting(rpc) :
          /\ rpc' = [rpc EXCEPT ![r] = "woken"]
          /\ UNCHANGED <<buf, head, tail, spc, next, msg, got>>

Next ==
    \/ \E s \in Senders : \/ \E m \in Message : SendCall(s, m)
                          \/ SendEnter(s)
                          \/ SendResume(s)
    \/ \E g \in Collectors, m \in Message : GcOffer(g, m)
    \/ \E r \in Receivers : RecvCall(r) \/ RecvStep(r)
    \/ \E w \in Workers : Drain(w)
    \/ SpuriousWakeup

Spec == Init /\ [][Next]_vars

\* A thread that is ready to take the lock gets it (the sections are short and
\* never block inside); receivers call again when they have returned.
Fairness ==
    /\ \A s \in Senders : WF_vars(SendEnter(s)) /\ WF_vars(SendResume(s))
    /\ \A r \in Receivers : WF_vars(RecvCall(r)) /\ WF_vars(RecvStep(r))

FairSpec == Spec /\ Fairness

-----------------------------------------------------------------------------
\* The `next' a sender computed before it waited (cogdiod_kernel.c:586) is
\* still the slot after tail when it comes back from pthread_cond_wait.  The
\* code relies on it and does nothing to ensure it: it holds when the channel
\* has one producer thread, and fails with two.
FreshNext ==
    \A s \in Senders : spc[s] \in {"waiting", "woken"} => next[s] = Advance(tail)

\* No receiver sleeps in pthread_cond_wait(not_empty) while the channel holds
\* more messages than there are woken receivers on their way to take them: the
\* single pthread_cond_signal per message (cogdiod_send, cogdiod_gc_sweep) is
\* enough, also when workers steal messages and waits end spuriously.
Woken(pc) == {t \in DOMAIN pc : pc[t] = "woken"}

NoLostWakeup ==
    Waiting(rpc) # {} => Count <= Cardinality(Woken(rpc))

\* A sender asleep in pthread_cond_wait(not_full) has a full channel in front
\* of it: every path that makes room (recv, worker, OP_RECV) signals not_full.
SleepsOnlyWhenFull ==
    Waiting(spc) # {} => Full

\* Every call of cogdiod_send that has been made returns, when somebody keeps
\* calling cogdiod_recv.
SendReturns ==
    \A s \in Senders : msg[s] # NoMessage ~> msg[s] = NoMessage

\* The channel is a bounded first-in first-out queue of CHANNEL_BUF_MAX - 1
\* messages: nothing is lost, duplicated, reordered or overwritten, a send
\* returns only once its message is in, and both ends make progress.
Fifo == INSTANCE BoundedFifo WITH
            queue <- Contents, pending <- msg, Capacity <- BufMax - 1

ImplementsFifo == Fifo!Spec
ImplementsFairFifo == Fifo!FairSpec

\* "Node A sends a message down its outgoing channel"
\* (docs/CogDiod_Formal_Specification.md:112): a cogdiod_send that returns has
\* appended its message behind the ones already there.
SendDelivers ==
    [][\A s \in Senders :
          msg[s] # NoMessage /\ msg'[s] = NoMessage
             => Contents' = Append(Contents, msg[s])]_vars

\* With one producer thread nobody moves tail while a sender waits.
OneProducer == \A p, q \in Senders : p = q
=============================================================================
