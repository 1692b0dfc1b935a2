------------------------- MODULE LimboChannelProofs -------------------------
(***************************************************************************)
(* Proofs about LimboChannel for every capacity, every set of messages and *)
(* every finite set of threads.  What depends on there being one producer  *)
(* thread says so with the hypothesis OneProducer; the run of              *)
(* LimboChannelTwoSenders.cfg shows that it cannot be dropped.             *)
(***************************************************************************)
EXTENDS LimboChannel, FiniteSetTheorems, SequenceTheorems, TLAPS

-----------------------------------------------------------------------------
(* Index arithmetic. *)

\* A sum of two slot indices, reduced modulo the size of the buffer.
LEMMA ModSum ==
    ASSUME NEW i \in Nat, i < 2 * BufMax
    PROVE  i % BufMax = IF i < BufMax THEN i ELSE i - BufMax
<1>1. BufMax \in Nat /\ BufMax > 0
  BY BufMaxAssumption
<1>2. CASE i < BufMax
  BY <1>1, <1>2, SMT
<1>3. CASE i >= BufMax
  BY <1>1, <1>3, SMT
<1>4. QED
  BY <1>1, <1>2, <1>3

\* Advancing an index stays in the buffer and wraps around at its end.
LEMMA AdvanceSlot ==
    ASSUME NEW i \in Slots
    PROVE  /\ Advance(i) \in Slots
           /\ Advance(i) = IF i + 1 = BufMax THEN 0 ELSE i + 1
<1>1. i + 1 \in Nat /\ i + 1 < 2 * BufMax /\ i \in 0 .. BufMax - 1
  BY BufMaxAssumption DEF Slots
<1>2. (i + 1) % BufMax = IF i + 1 < BufMax THEN i + 1 ELSE i + 1 - BufMax
  BY <1>1, BufMaxAssumption, ModSum, SMT
<1>3. QED
  BY <1>1, <1>2, BufMaxAssumption DEF Advance, Slots

-----------------------------------------------------------------------------
(* The ring as a sequence. *)

\* The ring holds between 0 and BufMax - 1 messages, and the two tests of the
\* code (head = tail, next = head) recognise the two ends of that range.
LEMMA CountRange ==
    ASSUME TypeOK
    PROVE  /\ Count \in 0 .. BufMax - 1
           /\ Empty <=> Count = 0
           /\ Full <=> Count = BufMax - 1
<1>1. head \in 0 .. BufMax - 1 /\ tail \in 0 .. BufMax - 1
  BY DEF TypeOK, Slots
<1>2. Advance(tail) = IF tail + 1 = BufMax THEN 0 ELSE tail + 1
  BY AdvanceSlot DEF TypeOK
<1>3. QED
  BY <1>1, <1>2, BufMaxAssumption DEF Count, Empty, Full

\* The slot of the i-th oldest message.
LEMMA SlotOf ==
    ASSUME TypeOK, NEW i \in 1 .. BufMax
    PROVE  /\ (head + i - 1) % BufMax
                 = IF head + i - 1 < BufMax THEN head + i - 1
                                            ELSE head + i - 1 - BufMax
           /\ (head + i - 1) % BufMax \in Slots
<1>1. head \in 0 .. BufMax - 1
  BY DEF TypeOK, Slots
<1> DEFINE k == head + i - 1
<1>2. k \in Nat /\ k < 2 * BufMax
  BY <1>1, BufMaxAssumption
<1> HIDE DEF k
<1>3. k % BufMax = IF k < BufMax THEN k ELSE k - BufMax
  BY <1>2, ModSum
<1> USE DEF k
<1>4. QED
  BY <1>1, <1>3, BufMaxAssumption DEF Slots

\* Contents is a sequence of length Count.
LEMMA ContentsSeq ==
    ASSUME TypeOK
    PROVE  /\ Contents \in Seq(Message \cup {NoMessage})
           /\ Len(Contents) = Count
           /\ DOMAIN Contents = 1 .. Count
<1>1. Count \in Nat
  BY CountRange, BufMaxAssumption
<1>2. ASSUME NEW i \in 1 .. Count
      PROVE  buf[(head + i - 1) % BufMax] \in Message \cup {NoMessage}
  <2>1. i \in 1 .. BufMax
    BY CountRange, BufMaxAssumption
  <2>2. (head + i - 1) % BufMax \in Slots
    BY <2>1, SlotOf
  <2>3. QED
    BY <2>2 DEF TypeOK
<1>3. QED
  BY <1>1, <1>2 DEF Contents

\* Storing a message in the slot tail points to, and advancing tail, appends it.
LEMMA StoreAppends ==
    ASSUME TypeOK, TypeOK', ~Full, NEW m \in Message,
           buf' = [buf EXCEPT ![tail] = m],
           tail' = Advance(tail), head' = head
    PROVE  Count' = Count + 1 /\ Contents' = Append(Contents, m)
<1>1. head \in 0 .. BufMax - 1 /\ tail \in 0 .. BufMax - 1
  BY DEF TypeOK, Slots
<1>2. tail' = IF tail + 1 = BufMax THEN 0 ELSE tail + 1
  BY AdvanceSlot DEF TypeOK
<1>3. Count' = Count + 1 /\ Count \in 0 .. BufMax - 2
  BY <1>1, <1>2, CountRange, BufMaxAssumption DEF Count, Full
<1>4. (head + Count) % BufMax = tail
  <2>1. Count + 1 \in 1 .. BufMax
    BY <1>3, BufMaxAssumption
  <2>2. (head + (Count + 1) - 1) % BufMax
           = IF head + (Count + 1) - 1 < BufMax
             THEN head + (Count + 1) - 1 ELSE head + (Count + 1) - 1 - BufMax
    BY <2>1, SlotOf
  <2>3. head + (Count + 1) - 1 = head + Count
    BY <1>1, <1>3, BufMaxAssumption
  <2>4. QED
    BY <1>1, <1>3, <2>2, <2>3, BufMaxAssumption DEF Count
<1>5. ASSUME NEW i \in 1 .. Count
      PROVE  buf'[(head + i - 1) % BufMax] = buf[(head + i - 1) % BufMax]
  <2>1. i \in 1 .. BufMax
    BY <1>3, BufMaxAssumption
  <2>2. /\ (head + i - 1) % BufMax
                = IF head + i - 1 < BufMax THEN head + i - 1
                                           ELSE head + i - 1 - BufMax
        /\ (head + i - 1) % BufMax \in Slots
    BY <2>1, SlotOf
  <2>3. (head + i - 1) % BufMax # tail
    BY <1>1, <1>3, <2>2, BufMaxAssumption DEF Count
  <2>4. QED
    BY <2>2, <2>3 DEF TypeOK
<1>6. buf'[tail] = m
  BY DEF TypeOK
<1>7. Contents' = [i \in 1 .. Count + 1 |-> buf'[(head + i - 1) % BufMax]]
  BY <1>3 DEF Contents
<1>8. \A i \in 1 .. Count + 1 :
         Contents'[i] = IF i = Count + 1 THEN m ELSE Contents[i]
  <2>1. TAKE i \in 1 .. Count + 1
  <2>2. CASE i = Count + 1
    <3>1. head + i - 1 = head + Count
      BY <1>1, <1>3, <2>2, BufMaxAssumption
    <3>2. QED
      BY <1>4, <1>6, <1>7, <2>2, <3>1
  <2>3. CASE i # Count + 1
    <3>1. i \in 1 .. Count
      BY <1>3, <2>3, BufMaxAssumption
    <3>2. QED
      BY <1>5, <1>7, <2>3, <3>1 DEF Contents
  <2>4. QED
    BY <2>2, <2>3
<1> DEFINE S == Message \cup {NoMessage}
<1>9. /\ Append(Contents, m) \in Seq(S)
      /\ Len(Append(Contents, m)) = Count + 1
      /\ \A i \in 1 .. Count + 1 :
            Append(Contents, m)[i] = IF i = Count + 1 THEN m ELSE Contents[i]
  <2>1. Contents \in Seq(S) /\ Len(Contents) = Count
    BY ContentsSeq
  <2>2. QED
    BY <2>1, <1>3, AppendProperties, BufMaxAssumption
<1>10. Contents' \in Seq(S) /\ Len(Contents') = Count + 1
  <2>1. \A i \in 1 .. Count + 1 : Contents'[i] \in S
    BY <1>8, <1>3, ContentsSeq, ElementOfSeq, BufMaxAssumption
  <2>2. QED
    BY <1>3, <1>7, <2>1, BufMaxAssumption
<1>11. QED
  BY <1>3, <1>8, <1>9, <1>10, SeqEqual

\* Reading the slot head points to, and advancing head, takes the oldest message.
LEMMA RemoveTakes ==
    ASSUME TypeOK, TypeOK', ~Empty,
           buf' = buf, tail' = tail, head' = Advance(head)
    PROVE  /\ Count' = Count - 1
           /\ Contents # <<>>
           /\ Head(Contents) = buf[head]
           /\ Contents' = Tail(Contents)
<1>1. head \in 0 .. BufMax - 1 /\ tail \in 0 .. BufMax - 1
  BY DEF TypeOK, Slots
<1>2. head' = IF head + 1 = BufMax THEN 0 ELSE head + 1
  BY AdvanceSlot DEF TypeOK
<1>3. Count' = Count - 1 /\ Count \in 1 .. BufMax - 1
  BY <1>1, <1>2, CountRange, BufMaxAssumption DEF Count, Empty
<1>4. Len(Contents) = Count /\ Contents \in Seq(Message \cup {NoMessage})
  BY ContentsSeq
<1>5. Contents # <<>>
  BY <1>3, <1>4, BufMaxAssumption
<1>6. Contents[1] = buf[head]
  <2>1. 1 \in 1 .. BufMax /\ 1 \in 1 .. Count
    BY <1>3, BufMaxAssumption
  <2>2. (head + 1 - 1) % BufMax = head
    BY <1>1, <2>1, SlotOf, BufMaxAssumption
  <2>3. QED
    BY <2>1, <2>2 DEF Contents
<1>7. ASSUME NEW i \in 1 .. Count - 1
      PROVE  (head' + i - 1) % BufMax = (head + (i + 1) - 1) % BufMax
  <2>1. i \in 1 .. BufMax /\ i + 1 \in 1 .. BufMax
    BY <1>3, BufMaxAssumption
  <2>2. (head + (i + 1) - 1) % BufMax
           = IF head + (i + 1) - 1 < BufMax THEN head + (i + 1) - 1
                                            ELSE head + (i + 1) - 1 - BufMax
    BY <2>1, SlotOf
  <2> DEFINE k == head' + i - 1
  <2>3. k \in Nat /\ k < 2 * BufMax
    BY <1>1, <1>2, <2>1, BufMaxAssumption
  <2> HIDE DEF k
  <2>4. k % BufMax = IF k < BufMax THEN k ELSE k - BufMax
    BY <2>3, ModSum
  <2> USE DEF k
  <2>5. QED
    BY <1>1, <1>2, <2>1, <2>2, <2>4, BufMaxAssumption
<1>8. Contents' = [i \in 1 .. Count - 1 |-> buf[(head' + i - 1) % BufMax]]
  BY <1>3 DEF Contents
<1>9. \A i \in 1 .. Count - 1 : Contents'[i] = Contents[i + 1]
  <2>1. TAKE i \in 1 .. Count - 1
  <2>2. i + 1 \in 1 .. Count
    BY <1>3, BufMaxAssumption
  <2>3. Contents[i + 1] = buf[(head + (i + 1) - 1) % BufMax]
    BY <2>2 DEF Contents
  <2>4. QED
    BY <1>7, <1>8, <2>3
<1> DEFINE S == Message \cup {NoMessage}
<1>10. /\ Tail(Contents) \in Seq(S)
       /\ Len(Tail(Contents)) = Count - 1
       /\ \A i \in 1 .. Count - 1 : Tail(Contents)[i] = Contents[i + 1]
  BY <1>3, <1>4, <1>5, HeadTailProperties, BufMaxAssumption
<1>11. Contents' = Tail(Contents)
  <2>1. \A i \in 1 .. Count - 1 : Contents'[i] \in S
    BY <1>3, <1>4, <1>9, ElementOfSeq, BufMaxAssumption
  <2>2. Contents' \in Seq(S) /\ Len(Contents') = Count - 1
    BY <1>3, <1>8, <2>1, BufMaxAssumption
  <2>3. QED
    BY <1>3, <1>9, <1>10, <2>2, SeqEqual
<1>12. QED
  BY <1>3, <1>4, <1>5, <1>6, <1>11

-----------------------------------------------------------------------------
(* The condition variables. *)

\* pthread_cond_signal changes the control of at most one thread, a waiting
\* one, and of one if there is one.
LEMMA SignalEffect ==
    ASSUME NEW T, NEW pc \in [T -> Control], NEW pc2 \in Signal(pc)
    PROVE  /\ pc2 \in [T -> Control]
           /\ Waiting(pc) = {} => pc2 = pc
           /\ Waiting(pc) # {} =>
                 \E t \in T : pc[t] = "waiting" /\ pc2 = [pc EXCEPT ![t] = "woken"]
<1>1. CASE Waiting(pc) = {}
  BY <1>1 DEF Signal
<1>2. CASE Waiting(pc) # {}
  <2>1. PICK t \in Waiting(pc) : pc2 = [pc EXCEPT ![t] = "woken"]
    BY <1>2 DEF Signal
  <2>2. t \in T /\ pc[t] = "waiting"
    BY DEF Waiting
  <2>3. QED
    BY <1>2, <2>1, <2>2 DEF Control
<1>3. QED
  BY <1>1, <1>2

\* Waking a waiting receiver adds one to the woken ones.
LEMMA WakeOne ==
    ASSUME NEW pc \in [Receivers -> Control],
           NEW t \in Receivers, pc[t] = "waiting",
           NEW pc2, pc2 = [pc EXCEPT ![t] = "woken"]
    PROVE  /\ Cardinality(Woken(pc)) \in Nat
           /\ Cardinality(Woken(pc2)) = Cardinality(Woken(pc)) + 1
<1>1. IsFiniteSet(Woken(pc))
  BY ThreadAssumption, FS_Subset DEF Woken
<1>2. Woken(pc2) = Woken(pc) \cup {t} /\ t \notin Woken(pc)
  BY DEF Woken
<1>3. QED
  BY <1>1, <1>2, FS_AddElement, FS_CardinalityType

-----------------------------------------------------------------------------
(* Type correctness, for any number of threads. *)

LEMMA TypeInit == Init => TypeOK
<1>1. 0 \in Slots
  BY BufMaxAssumption DEF Slots
<1>2. QED
  BY <1>1 DEF Init, TypeOK, Control

LEMMA TypeStep == TypeOK /\ [Next]_vars => TypeOK'
<1> SUFFICES ASSUME TypeOK, [Next]_vars PROVE TypeOK'
  OBVIOUS
<1> USE DEF TypeOK
<1>a. Advance(tail) \in Slots /\ Advance(head) \in Slots
  BY AdvanceSlot
<1>b. \A rpc2 \in Signal(rpc) : rpc2 \in [Receivers -> Control]
  BY SignalEffect
<1>c. \A spc2 \in Signal(spc) : spc2 \in [Senders -> Control]
  BY SignalEffect
<1>d. ASSUME NEW s \in Senders, NEW n \in Slots, Store(s, n), next' \in [Senders -> Slots]
      PROVE  TypeOK'
  BY <1>b, <1>d DEF Store, Control
<1>e. ASSUME NEW t \in Takers, Remove(t), rpc' \in [Receivers -> Control]
      PROVE  TypeOK'
  BY <1>a, <1>c, <1>e DEF Remove
<1>1. ASSUME NEW s \in Senders, NEW m \in Message, SendCall(s, m) PROVE TypeOK'
  BY <1>1 DEF SendCall, Control
<1>2. ASSUME NEW s \in Senders, SendEnter(s) PROVE TypeOK'
  <2>1. next' \in [Senders -> Slots]
    BY <1>2, <1>a DEF SendEnter
  <2>2. CASE Full
    BY <1>2, <2>1, <2>2 DEF SendEnter, Control
  <2>3. CASE ~Full
    BY <1>2, <1>a, <1>d, <2>1, <2>3 DEF SendEnter
  <2>4. QED
    BY <2>2, <2>3
<1>3. ASSUME NEW s \in Senders, SendResume(s) PROVE TypeOK'
  <2>1. CASE next[s] = head
    BY <1>3, <2>1 DEF SendResume, Control
  <2>2. CASE next[s] # head
    BY <1>3, <1>d, <2>2 DEF SendResume
  <2>3. QED
    BY <2>1, <2>2
<1>4. ASSUME NEW g \in Collectors, NEW m \in Message, GcOffer(g, m) PROVE TypeOK'
  BY <1>4, <1>a, <1>b DEF GcOffer
<1>5. ASSUME NEW r \in Receivers, RecvCall(r) PROVE TypeOK'
  BY <1>5 DEF RecvCall, Control
<1>6. ASSUME NEW r \in Receivers, RecvStep(r) PROVE TypeOK'
  <2>1. CASE Empty
    BY <1>6, <2>1 DEF RecvStep, Control
  <2>2. CASE ~Empty
    BY <1>6, <1>e, <2>2 DEF RecvStep, Control, Takers
  <2>3. QED
    BY <2>1, <2>2
<1>7. ASSUME NEW w \in Workers, Drain(w) PROVE TypeOK'
  BY <1>7, <1>e DEF Drain, Takers
<1>8. CASE SpuriousWakeup
  BY <1>8 DEF SpuriousWakeup, Waiting, Control
<1>9. CASE UNCHANGED vars
  BY <1>9 DEF vars
<1>10. QED
  BY <1>1, <1>2, <1>3, <1>4, <1>5, <1>6, <1>7, <1>8, <1>9 DEF Next

\* Whatever threads use the channel, head, tail and every `next' stay inside
\* the array: no store or read of cogdiod_send, cogdiod_recv, the worker or
\* the collector is outside ch->buf.
THEOREM TypeCorrect == Spec => []TypeOK
<1>1. Init => TypeOK
  BY TypeInit
<1>2. TypeOK /\ [Next]_vars => TypeOK'
  BY TypeStep
<1>3. QED
  BY <1>1, <1>2, PTL DEF Spec

-----------------------------------------------------------------------------
(* One producer thread. *)

\* A sender has a message to send exactly while it is inside cogdiod_send.
CallsCarryMessages ==
    \A s \in Senders : spc[s] = "idle" <=> msg[s] = NoMessage

\* FreshNext is what makes the others inductive: with it a store behind a wait
\* advances tail by one, without it tail may stay or move back.
IInv == TypeOK /\ CallsCarryMessages /\ FreshNext /\ SleepsOnlyWhenFull
        /\ NoLostWakeup

\* What a store does, given that the slot after tail is free.
LEMMA StoreCount ==
    ASSUME TypeOK, TypeOK', ~Full, NEW m \in Message,
           buf' = [buf EXCEPT ![tail] = m], tail' = Advance(tail), head' = head,
           rpc' \in Signal(rpc), NoLostWakeup
    PROVE  NoLostWakeup'
<1>1. Count' = Count + 1
  BY StoreAppends
<1>2. rpc \in [Receivers -> Control]
  BY DEF TypeOK
<1>3. Count \in Nat
  BY CountRange, BufMaxAssumption
<1>4. CASE Waiting(rpc) = {}
  <2>1. rpc' = rpc
    BY <1>2, <1>4, SignalEffect
  <2>2. QED
    BY <1>4, <2>1 DEF NoLostWakeup, Waiting
<1>5. CASE Waiting(rpc) # {}
  <2>1. PICK t \in Receivers :
           rpc[t] = "waiting" /\ rpc' = [rpc EXCEPT ![t] = "woken"]
    BY <1>2, <1>5, SignalEffect
  <2>2. /\ Cardinality(Woken(rpc)) \in Nat
        /\ Cardinality(Woken(rpc')) = Cardinality(Woken(rpc)) + 1
    BY <1>2, <2>1, WakeOne
  <2>3. Woken(rpc)' = Woken(rpc')
    BY DEF Woken
  <2>4. QED
    BY <1>1, <1>3, <1>5, <2>2, <2>3 DEF NoLostWakeup
<1>6. QED
  BY <1>4, <1>5

\* A message leaves; of the woken receivers at most r, if anyone, goes with it.
LEMMA RemoveCount ==
    ASSUME TypeOK, TypeOK', ~Empty, NEW t \in Takers, Remove(t), NoLostWakeup,
           \/ rpc' = rpc
           \/ \E r \in Receivers : /\ rpc[r] \in {"enter", "woken"}
                                   /\ rpc' = [rpc EXCEPT ![r] = "idle"]
    PROVE  NoLostWakeup'
<1>1. Count' = Count - 1 /\ Count \in Nat
  BY RemoveTakes, CountRange, BufMaxAssumption DEF Remove
<1>2. rpc \in [Receivers -> Control] /\ IsFiniteSet(Woken(rpc))
  BY ThreadAssumption, FS_Subset DEF TypeOK, Woken
<1>3. Cardinality(Woken(rpc)) \in Nat
  BY <1>2, FS_CardinalityType
<1>4. CASE rpc' = rpc
  BY <1>1, <1>3, <1>4 DEF NoLostWakeup, Waiting, Woken
<1>5. ASSUME NEW r \in Receivers, rpc[r] \in {"enter", "woken"},
             rpc' = [rpc EXCEPT ![r] = "idle"]
      PROVE  NoLostWakeup'
  <2>1. Waiting(rpc)' = Waiting(rpc)
    BY <1>2, <1>5 DEF Waiting
  <2>2. Woken(rpc)' = Woken(rpc) \ {r}
    BY <1>2, <1>5 DEF Woken
  <2>3. Cardinality(Woken(rpc)') \in Nat
        /\ Cardinality(Woken(rpc)') >= Cardinality(Woken(rpc)) - 1
    <3>1. Cardinality(Woken(rpc) \ {r})
             = IF r \in Woken(rpc) THEN Cardinality(Woken(rpc)) - 1
                                   ELSE Cardinality(Woken(rpc))
      BY <1>2, FS_RemoveElement
    <3>2. Cardinality(Woken(rpc) \ {r}) \in Nat
      BY <1>2, FS_RemoveElement, FS_CardinalityType
    <3>3. QED
      BY <1>3, <2>2, <3>1, <3>2
  <2>4. QED
    BY <1>1, <1>3, <2>1, <2>3 DEF NoLostWakeup
<1>6. QED
  BY <1>4, <1>5

LEMMA InvInit == Init => IInv
<1> SUFFICES ASSUME Init PROVE IInv
  OBVIOUS
<1>1. TypeOK
  BY TypeInit
<1>2. CallsCarryMessages /\ FreshNext /\ SleepsOnlyWhenFull /\ NoLostWakeup
  BY DEF Init, CallsCarryMessages, FreshNext, SleepsOnlyWhenFull, NoLostWakeup,
         Waiting
<1>3. QED
  BY <1>1, <1>2 DEF IInv

\* One step of the channel, one case per action.
LEMMA InvStep ==
    ASSUME OneProducer, IInv, [Next]_vars
    PROVE  IInv'
<1>1. TypeOK /\ TypeOK'
  BY TypeStep DEF IInv
<1> USE DEF TypeOK
<1>2. \A p, q \in Senders : p = q
  BY DEF OneProducer
\* After a store of the only sender nobody waits for not_full.
<1>a. ASSUME NEW s \in Senders, Store(s, Advance(tail)), ~Full, spc[s] # "idle"
      PROVE  IInv'
  <2>1. msg[s] \in Message
    BY <1>1, <1>a DEF IInv, CallsCarryMessages
  <2>2. CallsCarryMessages' /\ FreshNext' /\ SleepsOnlyWhenFull'
    BY <1>1, <1>2, <1>a DEF IInv, Store, CallsCarryMessages, FreshNext,
                            SleepsOnlyWhenFull, Waiting
  <2>3. NoLostWakeup'
    BY <1>1, <1>a, <2>1, StoreCount DEF IInv, Store
  <2>4. QED
    BY <1>1, <2>2, <2>3 DEF IInv
\* A removal wakes the only sender if it waits.
<1>b. ASSUME NEW t \in Takers, Remove(t)
      PROVE  CallsCarryMessages' /\ FreshNext' /\ SleepsOnlyWhenFull'
  <2>1. CASE Waiting(spc) = {}
    <3>1. spc' = spc
      BY <1>1, <1>b, <2>1, SignalEffect DEF Remove
    <3>2. QED
      BY <1>b, <2>1, <3>1 DEF IInv, Remove, CallsCarryMessages, FreshNext,
                              SleepsOnlyWhenFull, Waiting
  <2>2. CASE Waiting(spc) # {}
    <3>1. PICK s \in Senders :
             spc[s] = "waiting" /\ spc' = [spc EXCEPT ![s] = "woken"]
      BY <1>1, <1>b, <2>2, SignalEffect DEF Remove
    <3>2. CallsCarryMessages'
      BY <1>1, <1>b, <3>1 DEF IInv, Remove, CallsCarryMessages
    <3>3. FreshNext'
      BY <1>1, <1>b, <3>1 DEF IInv, Remove, FreshNext
    <3>4. SleepsOnlyWhenFull'
      BY <1>1, <1>2, <3>1 DEF SleepsOnlyWhenFull, Waiting
    <3>5. QED
      BY <3>2, <3>3, <3>4
  <2>3. QED
    BY <2>1, <2>2
<1>3. ASSUME NEW s \in Senders, NEW m \in Message, SendCall(s, m)
      PROVE  IInv'
  <2>1. CallsCarryMessages'
    BY <1>1, <1>3, MessageAssumption DEF IInv, SendCall, CallsCarryMessages
  <2>2. FreshNext' /\ SleepsOnlyWhenFull' /\ NoLostWakeup'
    BY <1>1, <1>3 DEF IInv, SendCall, FreshNext, SleepsOnlyWhenFull,
                      NoLostWakeup, Waiting, Full, Count
  <2>3. QED
    BY <1>1, <2>1, <2>2 DEF IInv
<1>4. ASSUME NEW s \in Senders, SendEnter(s)
      PROVE  IInv'
  <2>1. CASE Full
    <3>1. CallsCarryMessages' /\ NoLostWakeup'
      BY <1>1, <1>4, <2>1 DEF IInv, SendEnter, CallsCarryMessages, NoLostWakeup,
                              Count
    <3>2. FreshNext' /\ SleepsOnlyWhenFull'
      BY <1>1, <1>2, <1>4, <2>1, AdvanceSlot
         DEF IInv, SendEnter, FreshNext, SleepsOnlyWhenFull, Full
    <3>3. QED
      BY <1>1, <3>1, <3>2 DEF IInv
  <2>2. CASE ~Full
    BY <1>4, <1>a, <2>2 DEF SendEnter
  <2>3. QED
    BY <2>1, <2>2
<1>5. ASSUME NEW s \in Senders, SendResume(s)
      PROVE  IInv'
  <2>1. next[s] = Advance(tail)
    BY <1>5 DEF IInv, FreshNext, SendResume
  <2>2. CASE next[s] = head
    <3>1. CallsCarryMessages' /\ NoLostWakeup'
      BY <1>1, <1>5, <2>2 DEF IInv, SendResume, CallsCarryMessages, NoLostWakeup,
                              Count
    <3>2. FreshNext' /\ SleepsOnlyWhenFull'
      BY <1>1, <1>5, <2>1, <2>2
         DEF IInv, SendResume, FreshNext, SleepsOnlyWhenFull, Full
    <3>3. QED
      BY <1>1, <3>1, <3>2 DEF IInv
  <2>3. CASE next[s] # head
    BY <1>5, <1>a, <2>1, <2>3 DEF SendResume, Full
  <2>4. QED
    BY <2>2, <2>3
<1>6. ASSUME NEW g \in Collectors, NEW m \in Message, GcOffer(g, m)
      PROVE  IInv'
  <2>1. g \in Senders
    BY ThreadAssumption
  <2>2. CallsCarryMessages' /\ FreshNext' /\ SleepsOnlyWhenFull'
    BY <1>1, <1>2, <1>6, <2>1 DEF IInv, GcOffer, CallsCarryMessages, FreshNext,
                                  SleepsOnlyWhenFull, Waiting
  <2>3. NoLostWakeup'
    BY <1>1, <1>6, StoreCount DEF IInv, GcOffer
  <2>4. QED
    BY <1>1, <2>2, <2>3 DEF IInv
<1>7. ASSUME NEW r \in Receivers, RecvCall(r)
      PROVE  IInv'
  <2>1. CallsCarryMessages' /\ FreshNext' /\ SleepsOnlyWhenFull'
    BY <1>1, <1>7 DEF IInv, RecvCall, CallsCarryMessages, FreshNext,
                      SleepsOnlyWhenFull, Waiting, Full
  <2>2. Waiting(rpc)' = Waiting(rpc) /\ Woken(rpc)' = Woken(rpc) /\ Count' = Count
    BY <1>1, <1>7 DEF RecvCall, Waiting, Woken, Count
  <2>3. QED
    BY <1>1, <2>1, <2>2 DEF IInv, NoLostWakeup
<1>8. ASSUME NEW r \in Receivers, RecvStep(r)
      PROVE  IInv'
  <2>1. CASE Empty
    <3>1. CallsCarryMessages' /\ FreshNext' /\ SleepsOnlyWhenFull'
      BY <1>1, <1>8, <2>1 DEF IInv, RecvStep, CallsCarryMessages, FreshNext,
                              SleepsOnlyWhenFull, Waiting, Full
    <3>2. Count' = 0
      BY <1>8, <1>1, <2>1, CountRange DEF RecvStep, Count
    <3>3. Cardinality(Woken(rpc)') \in Nat
      BY <1>1, ThreadAssumption, FS_Subset, FS_CardinalityType DEF Woken
    <3>4. QED
      BY <1>1, <3>1, <3>2, <3>3 DEF IInv, NoLostWakeup
  <2>2. CASE ~Empty
    <3>1. Remove(r) /\ rpc' = [rpc EXCEPT ![r] = "idle"] /\ r \in Takers
      BY <1>8, <2>2 DEF RecvStep, Takers
    <3>2. NoLostWakeup'
      BY <1>1, <1>8, <2>2, <3>1, RemoveCount DEF IInv, RecvStep
    <3>3. QED
      BY <1>1, <1>b, <3>1, <3>2 DEF IInv
  <2>3. QED
    BY <2>1, <2>2
<1>9. ASSUME NEW w \in Workers, Drain(w)
      PROVE  IInv'
  <2>1. w \in Takers /\ Remove(w) /\ ~Empty /\ rpc' = rpc
    BY <1>9 DEF Drain, Takers
  <2>2. NoLostWakeup'
    BY <1>1, <2>1, RemoveCount DEF IInv
  <2>3. QED
    BY <1>1, <1>b, <2>1, <2>2 DEF IInv
<1>10. ASSUME NEW s \in Senders, spc[s] = "waiting",
              spc' = [spc EXCEPT ![s] = "woken"],
              UNCHANGED <<buf, head, tail, next, msg, rpc, got>>
       PROVE  IInv'
  <2>1. CallsCarryMessages' /\ FreshNext' /\ SleepsOnlyWhenFull'
    BY <1>1, <1>10 DEF IInv, CallsCarryMessages, FreshNext, SleepsOnlyWhenFull,
                       Waiting, Full
  <2>2. NoLostWakeup'
    BY <1>10 DEF IInv, NoLostWakeup, Count
  <2>3. QED
    BY <1>1, <2>1, <2>2 DEF IInv
<1>11. ASSUME NEW r \in Receivers, rpc[r] = "waiting",
              rpc' = [rpc EXCEPT ![r] = "woken"],
              UNCHANGED <<buf, head, tail, spc, next, msg, got>>
       PROVE  IInv'
  <2>1. CallsCarryMessages' /\ FreshNext' /\ SleepsOnlyWhenFull'
    BY <1>11 DEF IInv, CallsCarryMessages, FreshNext, SleepsOnlyWhenFull, Full
  <2>2. /\ Cardinality(Woken(rpc)) \in Nat
        /\ Cardinality(Woken(rpc')) = Cardinality(Woken(rpc)) + 1
    BY <1>1, <1>11, WakeOne
  <2>3. Woken(rpc)' = Woken(rpc') /\ Count' = Count /\ Count \in Nat
    BY <1>1, <1>11, CountRange, BufMaxAssumption DEF Woken, Count
  <2>4. r \in Waiting(rpc)
    BY <1>1, <1>11 DEF Waiting
  <2>5. NoLostWakeup'
    BY <2>2, <2>3, <2>4 DEF IInv, NoLostWakeup
  <2>6. QED
    BY <1>1, <2>1, <2>5 DEF IInv
<1>12. CASE SpuriousWakeup
  BY <1>1, <1>10, <1>11, <1>12 DEF SpuriousWakeup, Waiting
<1>13. CASE UNCHANGED vars
  BY <1>1, <1>13 DEF IInv, vars, CallsCarryMessages, FreshNext,
                     SleepsOnlyWhenFull, NoLostWakeup, Full, Count
<1>14. QED
  BY <1>3, <1>4, <1>5, <1>6, <1>7, <1>8, <1>9, <1>12, <1>13 DEF Next

\* With one producer thread a sender that comes back from its wait stores
\* behind the last message and nowhere else.
THEOREM NextStaysFresh == OneProducer => (Spec => []FreshNext)
<1>1. Init => IInv
  BY InvInit
<1>2. OneProducer /\ IInv /\ [Next]_vars => IInv'
  BY InvStep
<1>3. IInv => FreshNext
  BY DEF IInv
<1>4. SUFFICES ASSUME OneProducer PROVE Spec => []FreshNext
  OBVIOUS
<1>5. IInv /\ [Next]_vars => IInv'
  BY <1>2, <1>4
<1>6. QED
  BY <1>1, <1>3, <1>5, PTL DEF Spec

\* With one producer thread the single signal per message is enough: no
\* receiver sleeps through a message, no sender sleeps beside a free slot.
THEOREM NoWakeupLost ==
    OneProducer => (Spec => [](NoLostWakeup /\ SleepsOnlyWhenFull))
<1>1. Init => IInv
  BY InvInit
<1>2. SUFFICES ASSUME OneProducer
               PROVE  Spec => [](NoLostWakeup /\ SleepsOnlyWhenFull)
  OBVIOUS
<1>3. IInv /\ [Next]_vars => IInv'
  BY <1>2, InvStep
<1>4. IInv => NoLostWakeup /\ SleepsOnlyWhenFull
  BY DEF IInv
<1>5. QED
  BY <1>1, <1>3, <1>4, PTL DEF Spec

-----------------------------------------------------------------------------
(* The channel implements the bounded queue. *)

LEMMA FifoInit == Init => Fifo!Init
<1> SUFFICES ASSUME Init PROVE Fifo!Init
  OBVIOUS
<1>1. TypeOK /\ Count = 0
  BY TypeInit DEF Init, Count
<1>2. Contents = <<>>
  BY <1>1 DEF Contents
<1>3. QED
  BY <1>2 DEF Init, Fifo!Init, Takers

\* One step of the channel is one step of the queue, or none.
LEMMA FifoStep ==
    ASSUME OneProducer, IInv, [Next]_vars
    PROVE  [Fifo!Next]_(Fifo!vars)
<1>1. TypeOK /\ TypeOK'
  BY TypeStep DEF IInv
<1>2. head \in Slots /\ tail \in Slots
  BY <1>1 DEF TypeOK
<1>3. Len(Contents) = Count /\ Count \in 0 .. BufMax - 1
      /\ (Full <=> Count = BufMax - 1)
  BY <1>1, ContentsSeq, CountRange
<1>s. ASSUME buf' = buf, head' = head, tail' = tail
      PROVE  Contents' = Contents
  BY <1>s DEF Contents, Count
<1>a. ASSUME NEW s \in Senders, Store(s, Advance(tail)), ~Full, spc[s] # "idle"
      PROVE  Fifo!Put(s)
  <2>1. msg[s] \in Message /\ msg[s] # NoMessage
    BY <1>1, <1>a DEF TypeOK, IInv, CallsCarryMessages
  <2>2. Contents' = Append(Contents, msg[s])
    BY <1>1, <1>a, <2>1, StoreAppends DEF Store
  <2>3. Len(Contents) < BufMax - 1
    BY <1>3, <1>a, BufMaxAssumption
  <2>4. QED
    BY <1>a, <2>1, <2>2, <2>3 DEF Store, Fifo!Put
<1>b. ASSUME NEW t \in Takers, Remove(t), ~Empty
      PROVE  Fifo!Take(t)
  <2>1. Contents # <<>> /\ Head(Contents) = buf[head] /\ Contents' = Tail(Contents)
    BY <1>1, <1>b, RemoveTakes DEF Remove
  <2>2. QED
    BY <1>b, <2>1 DEF Remove, Fifo!Take
<1>4. ASSUME NEW s \in Senders, NEW m \in Message, SendCall(s, m)
      PROVE  Fifo!Call(s, m)
  BY <1>4, <1>s DEF SendCall, Fifo!Call, IInv, CallsCarryMessages
<1>5. ASSUME NEW s \in Senders, SendEnter(s)
      PROVE  Fifo!Put(s) \/ UNCHANGED Fifo!vars
  <2>1. CASE Full
    BY <1>5, <1>s, <2>1 DEF SendEnter, Fifo!vars
  <2>2. CASE ~Full
    BY <1>5, <1>a, <2>2 DEF SendEnter
  <2>3. QED
    BY <2>1, <2>2
<1>6. ASSUME NEW s \in Senders, SendResume(s)
      PROVE  Fifo!Put(s) \/ UNCHANGED Fifo!vars
  <2>1. next[s] = Advance(tail)
    BY <1>6 DEF IInv, FreshNext, SendResume
  <2>2. CASE next[s] = head
    BY <1>6, <1>s, <2>2 DEF SendResume, Fifo!vars
  <2>3. CASE next[s] # head
    BY <1>6, <1>a, <2>1, <2>3 DEF SendResume, Full
  <2>4. QED
    BY <2>2, <2>3
<1>7. ASSUME NEW g \in Collectors, NEW m \in Message, GcOffer(g, m)
      PROVE  Fifo!Offer(m)
  <2>1. Contents' = Append(Contents, m)
    BY <1>1, <1>7, StoreAppends DEF GcOffer
  <2>2. Len(Contents) < BufMax - 1
    BY <1>3, <1>7, BufMaxAssumption DEF GcOffer
  <2>3. QED
    BY <1>7, <2>1, <2>2 DEF GcOffer, Fifo!Offer
<1>8. ASSUME NEW r \in Receivers, RecvCall(r) \/ RecvStep(r)
      PROVE  Fifo!Take(r) \/ UNCHANGED Fifo!vars
  <2>1. CASE RecvStep(r) /\ ~Empty
    BY <1>b, <2>1 DEF RecvStep, Takers
  <2>2. CASE RecvCall(r) \/ (RecvStep(r) /\ Empty)
    BY <1>s, <2>2 DEF RecvCall, RecvStep, Fifo!vars
  <2>3. QED
    BY <1>8, <2>1, <2>2
<1>9. ASSUME NEW w \in Workers, Drain(w)
      PROVE  Fifo!Take(w)
  BY <1>9, <1>b DEF Drain, Takers
<1>10. CASE SpuriousWakeup \/ UNCHANGED vars
  BY <1>10, <1>s DEF SpuriousWakeup, vars, Fifo!vars
<1>11. QED
  BY <1>4, <1>5, <1>6, <1>7, <1>8, <1>9, <1>10 DEF Next, Fifo!Next, Takers

\* With one producer thread the ring buffer is a bounded first-in first-out
\* queue: no message is lost, duplicated, reordered or overwritten, and a send
\* returns only when its message is in.
THEOREM ChannelIsFifo == OneProducer => (Spec => ImplementsFifo)
<1>1. SUFFICES ASSUME OneProducer PROVE Spec => ImplementsFifo
  OBVIOUS
<1>2. Init => IInv /\ Fifo!Init
  BY InvInit, FifoInit
<1>3. IInv /\ [Next]_vars => IInv'
  BY <1>1, InvStep
<1>4. IInv /\ [Next]_vars => [Fifo!Next]_(Fifo!vars)
  BY <1>1, FifoStep
<1>5. QED
  BY <1>2, <1>3, <1>4, PTL DEF Spec, ImplementsFifo, Fifo!Spec
=============================================================================
