------------------------- MODULE PropagationProofs -------------------------
(***************************************************************************)
(* Proofs about Propagation for every graph, every number of clients and   *)
(* workers and every program: no message of cogdiod_set_tv is stranded;    *)
(* and, where one thread speaks for an atom and one worker listens, what   *)
(* is heard last is what was said last.                                    *)
(***************************************************************************)
EXTENDS Propagation, FiniteSetTheorems, WellFoundedInduction, TLAPS

\* A walk that has something left comes to something that is left.
LEMMA FirstIsLeft ==
    ASSUME NEW S \in SUBSET Nat, S # {}
    PROVE  First(S) \in S
<1>1. PICK x \in S : \A y \in S : ~ <<y, x>> \in OpToRel(<, Nat)
  BY NatLessThanWellFounded, WFMin
<1>2. \A y \in S : x <= y
  <2>1. SUFFICES ASSUME NEW y \in S, y < x PROVE FALSE
    BY S \subseteq Nat
  <2>2. <<y, x>> \in OpToRel(<, Nat)
    BY <2>1 DEF OpToRel
  <2>3. QED
    BY <1>1, <2>2
<1>3. QED
  BY <1>2 DEF First

\* The controls of the three kinds of threads; what is left of a walk is not
\* empty while the walk goes on.
WalkInv ==
    /\ \A t \in Clients : pc[t] \in {"idle", "send", "wake", "enqueue", "broadcast"}
    /\ \A e \in Ecan : pc[e] \in {"idle", "visit", "spread"}
    /\ \A w \in Workers : pc[w] \in {"idle", "drain", "exec", "vm", "vmSpread"}
    /\ \A t \in Thread :
          pc[t] \in {"send", "wake", "enqueue", "broadcast", "spread", "vmSpread"}
              => sends[t] # {}
    /\ \A e \in Ecan : pc[e] = "visit" => visits[e] # {}
    /\ \A w \in Workers : pc[w] = "drain" => drains[w] # {}
    /\ \A w \in Workers : pc[w] = "idle" => drains[w] = {}

TypeInv == TypeOK /\ WalkInv

\* The channel a walk comes to, and the atom the diffusion comes to.
LEMMA FirstChannel ==
    ASSUME NEW S \in SUBSET Channel, S # {}
    PROVE  First(S) \in S /\ First(S) \in Channel
BY FirstIsLeft, GraphAssumption

LEMMA FirstAtom ==
    ASSUME NEW S \in SUBSET Atom, S # {}
    PROVE  First(S) \in S /\ First(S) \in Atom
BY FirstIsLeft, GraphAssumption

\* The type of the channels, which only Put and Drain change.
QueueType ==
    /\ queue \in [Channel -> Seq(Message)]
    /\ \A c \in Channel : Len(queue[c]) <= Capacity

LEMMA PutType ==
    ASSUME QueueType, NEW c \in Channel, NEW m \in Message, Put(c, m)
    PROVE  /\ QueueType'
           /\ Len(queue'[c]) = Len(queue[c]) + 1
           /\ \A d \in Channel \ {c} : queue'[d] = queue[d]
<1>1. queue[c] \in Seq(Message) /\ Len(queue[c]) < Capacity
  BY DEF QueueType, Put
<1>2. Append(queue[c], m) \in Seq(Message) /\ Len(Append(queue[c], m)) = Len(queue[c]) + 1
  BY <1>1
<1>3. queue' = [queue EXCEPT ![c] = Append(queue[c], m)]
  BY DEF Put
<1>4. Len(queue[c]) + 1 <= Capacity
  BY <1>1, CapacityAssumption
<1>5. queue' \in [Channel -> Seq(Message)]
  BY <1>2, <1>3 DEF QueueType
<1>6. queue'[c] = Append(queue[c], m) /\ \A d \in Channel \ {c} : queue'[d] = queue[d]
  BY <1>3 DEF QueueType
<1>7. QED
  BY <1>2, <1>4, <1>5, <1>6 DEF QueueType

\* A send without a ticket.
LEMMA PutUnscheduledType ==
    ASSUME TypeOK, NEW t \in Thread, sends[t] # {}, PutUnscheduled(t)
    PROVE  /\ QueueType'
           /\ owed' \in [Channel -> Nat]
           /\ sends' \in [Thread -> SUBSET Channel]
           /\ \A c \in Channel : Len(queue'[c]) - owed'[c] = Len(queue[c]) - owed[c]
<1> DEFINE ch == First(sends[t])
<1>1. ch \in Channel
  BY FirstChannel DEF TypeOK
<1>2. msg[t] \in Message /\ Put(ch, msg[t])
  BY DEF TypeOK, PutUnscheduled
<1>3. QueueType
  BY DEF TypeOK, QueueType
<1>4. QueueType' /\ Len(queue'[ch]) = Len(queue[ch]) + 1
                /\ \A d \in Channel \ {ch} : queue'[d] = queue[d]
  BY <1>1, <1>2, <1>3, PutType
<1>5. owed' = [owed EXCEPT ![ch] = @ + 1] /\ owed \in [Channel -> Nat]
  BY DEF TypeOK, PutUnscheduled
<1>6. sends' = [sends EXCEPT ![t] = sends[t] \ {ch}] /\ sends \in [Thread -> SUBSET Channel]
  BY DEF TypeOK, PutUnscheduled
<1>7. \A d \in Channel : Len(queue[d]) \in Nat
  BY <1>3 DEF QueueType
<1>8. \A d \in Channel : Len(queue'[d]) - owed'[d] = Len(queue[d]) - owed[d]
  BY <1>1, <1>4, <1>5, <1>7
<1>9. owed' \in [Channel -> Nat] /\ sends' \in [Thread -> SUBSET Channel]
  BY <1>1, <1>5, <1>6
<1>10. QED
  BY <1>4, <1>8, <1>9, Zenon

\* A thread's next message, walk and call.
LEMMA NewType ==
    ASSUME TypeOK
    PROVE  /\ Call => calls' \in 0 .. MaxCalls
           /\ \A a \in Atom : Outgoing(a) \in SUBSET Channel /\ Incoming(a) \in SUBSET Channel
           /\ \A ty \in {"SOURCE_CHANGED", "INFER", "ATTEND", "UPDATE_TV"}, v \in Tv \cup {NoTv} :
                 [type |-> ty, tv |-> v] \in Message
BY CapacityAssumption DEF TypeOK, Call, Outgoing, Incoming, Message

LEMMA InitType == Init => TypeInv
BY GraphAssumption, CapacityAssumption
   DEF Init, TypeInv, TypeOK, WalkInv, Message, NoMessage, Controls, Thread

\* The types are preserved by every step.
LEMMA StepTypeOK == TypeInv /\ [Next]_vars => TypeOK'
<1> SUFFICES ASSUME TypeInv, [Next]_vars PROVE TypeOK'
  OBVIOUS
<1> USE GraphAssumption, CapacityAssumption, ThreadAssumption, ProgramAssumption
<1>1. ASSUME NEW t \in Clients, NEW a \in Atom, NEW v \in Tv, SetTv(t, a, v) PROVE TypeOK'
  <2>0. t \in Thread /\ a \in Atom
    BY <1>1, FirstAtom DEF TypeInv, TypeOK, WalkInv, SetTv, Thread
  <2>1. /\ Outgoing(a) \in SUBSET Channel /\ calls' \in 0 .. MaxCalls
        /\ [type |-> "SOURCE_CHANGED", tv |-> v] \in Message
    BY <1>1, <2>0, NewType DEF TypeInv, SetTv
  <2>3. QED
    BY <1>1, <2>0, <2>1 DEF TypeInv, TypeOK, SetTv, Controls, Goto
<1>2. ASSUME NEW t \in Clients, NEW a \in Atom, Infer(t, a) PROVE TypeOK'
  <2>0. t \in Thread /\ a \in Atom
    BY <1>2, FirstAtom DEF TypeInv, TypeOK, WalkInv, Infer, Thread
  <2>1. /\ Outgoing(a) \in SUBSET Channel /\ calls' \in 0 .. MaxCalls
        /\ [type |-> "INFER", tv |-> NoTv] \in Message
    BY <1>2, <2>0, NewType DEF TypeInv, Infer
  <2>3. QED
    BY <1>2, <2>0, <2>1 DEF TypeInv, TypeOK, Infer, Controls, Goto, data
<1>3. ASSUME NEW t \in Clients, Send(t) PROVE TypeOK'
  <2>1. First(sends[t]) \in Channel /\ msg[t] \in Message
    BY <1>3, FirstChannel DEF TypeInv, TypeOK, WalkInv, Send, Thread
  <2>2. QueueType /\ Put(First(sends[t]), msg[t])
    BY <1>3 DEF TypeInv, TypeOK, QueueType, Send
  <2>3. QueueType'
    BY <2>1, <2>2, PutType
  <2>4. QED
    BY <1>3, <2>3 DEF TypeInv, TypeOK, QueueType, Send, Controls, Goto, Thread
<1>4. ASSUME NEW t \in Clients, Wake(t) PROVE TypeOK'
  BY <1>4, FirstChannel, FirstAtom
     DEF TypeInv, TypeOK, WalkInv, Wake, Thread, Message, Controls, Goto, Call,
         Outgoing, Incoming, data
<1>5. ASSUME NEW t \in Clients, Enqueue(t) PROVE TypeOK'
  <2>1. t \in Thread /\ First(sends[t]) \in Channel
    BY <1>5, FirstChannel DEF TypeInv, TypeOK, WalkInv, Enqueue, Thread
  <2>2. ready' \in [Atom -> Nat]
    <3>1. Dst[First(sends[t])] \in Atom
      BY <2>1, GraphAssumption
    <3>2. ready \in [Atom -> Nat]
      BY DEF TypeInv, TypeOK
    <3>3. ready' = [ready EXCEPT ![Dst[First(sends[t])]] = @ + 1]
      BY <1>5 DEF Enqueue
    <3>4. QED
      BY <3>1, <3>2, <3>3
  <2>3. sends' \in [Thread -> SUBSET Channel]
    BY <1>5, <2>1 DEF TypeInv, TypeOK, Enqueue
  <2>4. QED
    BY <1>5, <2>1, <2>2, <2>3 DEF TypeInv, TypeOK, Enqueue, Controls, Goto
<1>6. ASSUME NEW t \in Clients, Broadcast(t) PROVE TypeOK'
  <2>1. sends[t] # {} /\ t \in Thread
    BY <1>6 DEF TypeInv, WalkInv, Broadcast, Thread
  <2>2. PutUnscheduled(t) /\ TypeOK
    BY <1>6 DEF TypeInv, Broadcast
  <2>3. /\ QueueType' /\ owed' \in [Channel -> Nat]
        /\ sends' \in [Thread -> SUBSET Channel]
    BY <2>1, <2>2, PutUnscheduledType
  <2>4. QED
    BY <1>6, <2>1, <2>2, <2>3 DEF TypeOK, QueueType, Broadcast, Controls, Goto
<1>7. ASSUME NEW e \in Ecan, Diffuse(e) PROVE TypeOK'
  <2>1. calls' \in 0 .. MaxCalls
    BY <1>7, NewType DEF TypeInv, Diffuse
  <2>2. QED
    BY <1>7, <2>1 DEF TypeInv, TypeOK, Diffuse, Controls, Goto, Thread, data
<1>8. ASSUME NEW e \in Ecan, DiffuseSkip(e) PROVE TypeOK'
  BY <1>8, FirstChannel, FirstAtom
     DEF TypeInv, TypeOK, WalkInv, DiffuseSkip, Thread, Message, Controls, Goto, Call,
         Outgoing, Incoming, data
<1>9. ASSUME NEW e \in Ecan, DiffuseLock(e) PROVE TypeOK'
  <2>0. e \in Thread /\ First(visits[e]) \in Atom
    BY <1>9, FirstAtom DEF TypeInv, TypeOK, WalkInv, DiffuseLock, Thread
  <2>1. /\ Outgoing(First(visits[e])) \in SUBSET Channel
        /\ [type |-> "ATTEND", tv |-> NoTv] \in Message
    BY <1>9, <2>0, NewType DEF TypeInv, DiffuseLock
  <2>3. QED
    BY <1>9, <2>0, <2>1 DEF TypeInv, TypeOK, DiffuseLock, Controls, Goto
<1>10. ASSUME NEW e \in Ecan, Spread(e) PROVE TypeOK'
  <2>1. sends[e] # {} /\ e \in Thread
    BY <1>10 DEF TypeInv, WalkInv, Spread, Thread
  <2>2. PutUnscheduled(e) /\ TypeOK
    BY <1>10 DEF TypeInv, Spread
  <2>3. /\ QueueType' /\ owed' \in [Channel -> Nat]
        /\ sends' \in [Thread -> SUBSET Channel]
    BY <2>1, <2>2, PutUnscheduledType
  <2>4. at[e] \in Atom
    BY <2>1 DEF TypeInv, TypeOK
  <2>5. /\ visits' \in [Thread -> SUBSET Atom]
        /\ owner' \in [Atom -> Thread \cup {NoThread}]
        /\ pc' \in [Thread -> Controls]
    <3>1. /\ pc \in [Thread -> Controls] /\ owner \in [Atom -> Thread \cup {NoThread}]
          /\ visits \in [Thread -> SUBSET Atom]
      BY DEF TypeInv, TypeOK
    <3>2. CASE UNCHANGED <<owner, visits, pc>>
      BY <3>1, <3>2
    <3>3. CASE /\ visits' = [visits EXCEPT ![e] = @ \ {at[e]}]
               /\ owner' = [owner EXCEPT ![at[e]] = NoThread]
               /\ Goto(e, IF visits'[e] = {} THEN "idle" ELSE "visit")
      BY <2>1, <2>4, <3>1, <3>3 DEF Goto, Controls
    <3>4. QED
      BY <1>10, <3>2, <3>3 DEF Spread
  <2>6. UNCHANGED <<tv, state, ready, heard, at, drains, from, msg, vm, calls>>
    BY <1>10 DEF Spread
  <2>7. QED
    BY <2>2, <2>3, <2>5, <2>6 DEF TypeOK, QueueType
<1>11. ASSUME NEW w \in Workers, NEW a \in Atom, Pop(w, a) PROVE TypeOK'
  <2>1. w \in Thread /\ Incoming(a) \in SUBSET Channel
    BY NewType DEF TypeInv, Thread
  <2>2. ready' \in [Atom -> Nat]
    BY <1>11 DEF TypeInv, TypeOK, Pop
  <2>3. /\ at' \in [Thread -> Atom]
        /\ drains' \in [Thread -> SUBSET Channel]
        /\ pc' \in [Thread -> Controls]
    <3>1. /\ pc \in [Thread -> Controls] /\ at \in [Thread -> Atom]
          /\ drains \in [Thread -> SUBSET Channel]
      BY DEF TypeInv, TypeOK
    <3>2. CASE UNCHANGED <<at, drains, pc>>
      BY <3>1, <3>2
    <3>3. CASE /\ at' = [at EXCEPT ![w] = a]
               /\ drains' = [drains EXCEPT ![w] = Incoming(a)]
               /\ Goto(w, "drain")
      BY <2>1, <3>1, <3>3 DEF Goto, Controls
    <3>4. QED
      BY <1>11, <3>2, <3>3 DEF Pop
  <2>4. UNCHANGED <<queue, tv, state, owner, heard, owed, sends, from, msg, vm, visits,
                    calls>>
    BY <1>11 DEF Pop
  <2>5. QED
    BY <2>2, <2>3, <2>4 DEF TypeInv, TypeOK
<1>12. ASSUME NEW w \in Workers, Drain(w) PROVE TypeOK'
  <2> DEFINE ch == First(drains[w])
  <2>1. w \in Thread /\ ch \in Channel
    BY <1>12, FirstChannel DEF TypeInv, TypeOK, WalkInv, Drain, Thread
  <2>2. /\ drains' \in [Thread -> SUBSET Channel]
        /\ pc' \in [Thread -> Controls]
    BY <1>12, <2>1 DEF TypeInv, TypeOK, Drain, Goto, Controls
  <2>3. queue[ch] # <<>> => /\ Head(queue[ch]) \in Message
                           /\ Tail(queue[ch]) \in Seq(Message)
                           /\ Len(Tail(queue[ch])) <= Capacity
    <3>1. queue[ch] \in Seq(Message) /\ Len(queue[ch]) <= Capacity
      BY <2>1 DEF TypeInv, TypeOK
    <3>2. QED
      BY <3>1
  <2>4. QueueType' /\ msg' \in [Thread -> Message] /\ from' \in [Thread -> Channel]
    <3>1. QueueType /\ msg \in [Thread -> Message] /\ from \in [Thread -> Channel]
      BY DEF TypeInv, TypeOK, QueueType
    <3>2. CASE UNCHANGED <<queue, msg, from>>
      BY <3>1, <3>2 DEF QueueType
    <3>3. CASE /\ queue[ch] # <<>>
               /\ msg' = [msg EXCEPT ![w] = Head(queue[ch])]
               /\ from' = [from EXCEPT ![w] = ch]
               /\ queue' = [queue EXCEPT ![ch] = Tail(queue[ch])]
      BY <2>1, <2>3, <3>1, <3>3 DEF QueueType
    <3>4. QED
      BY <1>12, <3>2, <3>3 DEF Drain
  <2>5. UNCHANGED <<tv, state, owner, ready, heard, owed, at, sends, vm, visits, calls>>
    BY <1>12 DEF Drain
  <2>6. QED
    BY <2>2, <2>4, <2>5 DEF TypeInv, TypeOK, QueueType
<1>13. ASSUME NEW w \in Workers, ExecMsg(w) PROVE TypeOK'
  BY <1>13, FirstChannel, FirstAtom
     DEF TypeInv, TypeOK, WalkInv, ExecMsg, Thread, Message, Controls, Goto, Call,
         Outgoing, Incoming, data
<1>14. ASSUME NEW w \in Workers, VmHalt(w) PROVE TypeOK'
  BY <1>14, FirstChannel, FirstAtom
     DEF TypeInv, TypeOK, WalkInv, VmHalt, Thread, Message, Controls, Goto, Call,
         Outgoing, Incoming, data
<1>15. ASSUME NEW w \in Workers, VmSetTv(w) PROVE TypeOK'
  <2>1. vm' \in [Thread -> Seq(Opcodes)]
    BY <1>15 DEF TypeInv, TypeOK, VmSetTv, Step, At, Thread
  <2>2. tv' \in [Atom -> Tv]
    <3>1. at[w] \in Atom /\ tv \in [Atom -> Tv]
      BY DEF TypeInv, TypeOK, Thread
    <3>2. \E v \in Tv : tv' = [tv EXCEPT ![at[w]] = v]
      BY <1>15 DEF VmSetTv
    <3>3. QED
      BY <3>1, <3>2
  <2>3. UNCHANGED <<queue, state, owner, ready, heard, owed, pc, at, sends, drains, from,
                    msg, visits, calls>>
    BY <1>15 DEF VmSetTv
  <2>4. QED
    BY <2>1, <2>2, <2>3 DEF TypeInv, TypeOK
<1>16. ASSUME NEW w \in Workers, VmSend(w) PROVE TypeOK'
  <2>1. QueueType /\ w \in Thread
    BY DEF TypeInv, TypeOK, QueueType, Thread
  <2>2. vm' \in [Thread -> Seq(Opcodes)]
    BY <1>16, <2>1 DEF TypeInv, TypeOK, VmSend, Step, At
  <2>3. QueueType' /\ owed' \in [Channel -> Nat]
    <3>1. CASE UNCHANGED <<queue, owed>>
      BY <2>1, <3>1 DEF TypeInv, TypeOK, QueueType
    <3>2. ASSUME NEW c \in Outgoing(at[w]), NEW v \in Tv,
                 Put(c, [type |-> "UPDATE_TV", tv |-> v]),
                 owed' = [owed EXCEPT ![c] = @ + 1]
          PROVE  QueueType' /\ owed' \in [Channel -> Nat]
      <4>1. c \in Channel /\ [type |-> "UPDATE_TV", tv |-> v] \in Message
        BY DEF Outgoing, Message
      <4>2. QueueType'
        BY <2>1, <3>2, <4>1, PutType
      <4>3. QED
        BY <3>2, <4>1, <4>2 DEF TypeInv, TypeOK
    <3>3. QED
      BY <1>16, <3>1, <3>2 DEF VmSend
  <2>4. QED
    BY <1>16, <2>2, <2>3 DEF TypeInv, TypeOK, QueueType, VmSend
<1>17. ASSUME NEW w \in Workers, VmEcanSpread(w) PROVE TypeOK'
  <2>0. w \in Thread /\ at[w] \in Atom
    BY <1>17, FirstAtom DEF TypeInv, TypeOK, WalkInv, VmEcanSpread, Thread
  <2>1. /\ Outgoing(at[w]) \in SUBSET Channel
        /\ [type |-> "ATTEND", tv |-> NoTv] \in Message
    BY <1>17, <2>0, NewType DEF TypeInv, VmEcanSpread
  <2>2. vm' \in [Thread -> Seq(Opcodes)]
    BY <1>17 DEF TypeInv, TypeOK, VmEcanSpread, Step, At, Thread
  <2>3. /\ pc' \in [Thread -> Controls] /\ msg' \in [Thread -> Message]
        /\ sends' \in [Thread -> SUBSET Channel]
    <3>1. /\ pc \in [Thread -> Controls] /\ msg \in [Thread -> Message]
          /\ sends \in [Thread -> SUBSET Channel]
      BY DEF TypeInv, TypeOK
    <3>2. QED
      BY <1>17, <2>0, <2>1, <3>1 DEF VmEcanSpread, Controls, Goto
  <2>4. UNCHANGED <<data, at, drains, from, visits, calls>>
    BY <1>17 DEF VmEcanSpread
  <2>5. QED
    BY <2>2, <2>3, <2>4 DEF TypeInv, TypeOK, data
<1>18. ASSUME NEW w \in Workers, VmSpread(w) PROVE TypeOK'
  <2>1. sends[w] # {} /\ w \in Thread
    BY <1>18 DEF TypeInv, WalkInv, VmSpread, Thread
  <2>2. PutUnscheduled(w) /\ TypeOK
    BY <1>18 DEF TypeInv, VmSpread
  <2>3. /\ QueueType' /\ owed' \in [Channel -> Nat]
        /\ sends' \in [Thread -> SUBSET Channel]
    BY <2>1, <2>2, PutUnscheduledType
  <2>4. QED
    BY <1>18, <2>1, <2>2, <2>3 DEF TypeOK, QueueType, VmSpread, Controls, Goto
<1>19. ASSUME NEW w \in Workers, VmSpawn(w) PROVE TypeOK'
  <2>1. vm' \in [Thread -> Seq(Opcodes)]
    BY <1>19 DEF TypeInv, TypeOK, VmSpawn, Step, At, Thread
  <2>2. QED
    BY <1>19, <2>1 DEF TypeInv, TypeOK, VmSpawn, data
<1>20. CASE UNCHANGED vars
  BY <1>20 DEF TypeInv, TypeOK, vars, data, locals
<1>21. QED
  BY <1>1, <1>2, <1>3, <1>4, <1>5, <1>6, <1>7, <1>8, <1>9, <1>10, <1>11, <1>12, <1>13, <1>14, <1>15, <1>16, <1>17, <1>18, <1>19, <1>20 DEF Next, ClientStep, EcanStep, WorkerStep

\* The walks are preserved by every step.
LEMMA StepWalk == TypeInv /\ [Next]_vars => WalkInv'
<1> SUFFICES ASSUME TypeInv, [Next]_vars PROVE WalkInv'
  OBVIOUS
<1> USE ThreadAssumption DEF Thread
<1> DEFINE WalkType == /\ pc \in [Thread -> Controls]
                       /\ sends \in [Thread -> SUBSET Channel]
                       /\ drains \in [Thread -> SUBSET Channel]
                       /\ visits \in [Thread -> SUBSET Atom]
<1>0. WalkType /\ WalkInv
  BY DEF TypeInv, TypeOK
<1>1. ASSUME NEW t \in Clients, NEW a \in Atom, NEW v \in Tv, SetTv(t, a, v) PROVE WalkInv'
  BY <1>0, <1>1 DEF WalkInv, SetTv, Goto, data, At
<1>2. ASSUME NEW t \in Clients, NEW a \in Atom, Infer(t, a) PROVE WalkInv'
  BY <1>0, <1>2 DEF WalkInv, Infer, Goto, data, At
<1>3. ASSUME NEW t \in Clients, Send(t) PROVE WalkInv'
  BY <1>0, <1>3 DEF WalkInv, Send, Goto, data, At
<1>4. ASSUME NEW t \in Clients, Wake(t) PROVE WalkInv'
  BY <1>0, <1>4 DEF WalkInv, Wake, Goto, data, At
<1>5. ASSUME NEW t \in Clients, Enqueue(t) PROVE WalkInv'
  BY <1>0, <1>5 DEF WalkInv, Enqueue, Goto, data, At
<1>6. ASSUME NEW t \in Clients, Broadcast(t) PROVE WalkInv'
  <2>1. TypeOK /\ sends[t] # {} /\ PutUnscheduled(t)
    BY <1>6 DEF TypeInv, WalkInv, Broadcast
  <2>2. sends' = [sends EXCEPT ![t] = @ \ {First(sends[t])}]
    BY <2>1 DEF PutUnscheduled
  <2>3. QED
    BY <1>0, <1>6, <2>2 DEF WalkInv, Broadcast, Goto
<1>7. ASSUME NEW e \in Ecan, Diffuse(e) PROVE WalkInv'
  BY <1>0, <1>7, GraphAssumption DEF WalkInv, Diffuse, Goto, data, At
<1>8. ASSUME NEW e \in Ecan, DiffuseSkip(e) PROVE WalkInv'
  BY <1>0, <1>8 DEF WalkInv, DiffuseSkip, Goto, data, At
<1>9. ASSUME NEW e \in Ecan, DiffuseLock(e) PROVE WalkInv'
  BY <1>0, <1>9 DEF WalkInv, DiffuseLock, Goto, data, At
<1>10. ASSUME NEW e \in Ecan, Spread(e) PROVE WalkInv'
  <2>1. TypeOK /\ sends[e] # {} /\ PutUnscheduled(e)
    BY <1>10 DEF TypeInv, WalkInv, Spread
  <2>2. sends' = [sends EXCEPT ![e] = @ \ {First(sends[e])}]
    BY <2>1 DEF PutUnscheduled
  <2>3. QED
    BY <1>0, <1>10, <2>2 DEF WalkInv, Spread, Goto
<1>11. ASSUME NEW w \in Workers, NEW a \in Atom, Pop(w, a) PROVE WalkInv'
  BY <1>0, <1>11 DEF WalkInv, Pop, Goto, data, At
<1>12. ASSUME NEW w \in Workers, Drain(w) PROVE WalkInv'
  BY <1>0, <1>12 DEF WalkInv, Drain, Goto, data, At
<1>13. ASSUME NEW w \in Workers, ExecMsg(w) PROVE WalkInv'
  BY <1>0, <1>13 DEF WalkInv, ExecMsg, Goto, data, At
<1>14. ASSUME NEW w \in Workers, VmHalt(w) PROVE WalkInv'
  BY <1>0, <1>14 DEF WalkInv, VmHalt, Goto, data, At
<1>15. ASSUME NEW w \in Workers, VmSetTv(w) PROVE WalkInv'
  BY <1>0, <1>15 DEF WalkInv, VmSetTv, Goto, data, At
<1>16. ASSUME NEW w \in Workers, VmSend(w) PROVE WalkInv'
  BY <1>0, <1>16 DEF WalkInv, VmSend, Goto, data, At
<1>17. ASSUME NEW w \in Workers, VmEcanSpread(w) PROVE WalkInv'
  BY <1>0, <1>17 DEF WalkInv, VmEcanSpread, Goto, data, At
<1>18. ASSUME NEW w \in Workers, VmSpread(w) PROVE WalkInv'
  <2>1. TypeOK /\ sends[w] # {} /\ PutUnscheduled(w)
    BY <1>18 DEF TypeInv, WalkInv, VmSpread
  <2>2. sends' = [sends EXCEPT ![w] = @ \ {First(sends[w])}]
    BY <2>1 DEF PutUnscheduled
  <2>3. QED
    BY <1>0, <1>18, <2>2 DEF WalkInv, VmSpread, Goto
<1>19. ASSUME NEW w \in Workers, VmSpawn(w) PROVE WalkInv'
  BY <1>0, <1>19 DEF WalkInv, VmSpawn, Goto, data, At
<1>20. CASE UNCHANGED vars
  BY <1>0, <1>20 DEF WalkInv, vars, locals
<1>21. QED
  BY <1>1, <1>2, <1>3, <1>4, <1>5, <1>6, <1>7, <1>8, <1>9, <1>10, <1>11, <1>12, <1>13, <1>14, <1>15, <1>16, <1>17, <1>18, <1>19, <1>20 DEF Next, ClientStep, EcanStep, WorkerStep

\* Types and controls are right in every reachable state.
THEOREM TypesAndWalks == Spec => [](TypeOK /\ WalkInv)
<1>1. TypeInv /\ [Next]_vars => TypeInv'
  BY StepTypeOK, StepWalk DEF TypeInv
<1>2. QED
  BY <1>1, InitType, PTL DEF Spec, TypeInv

-----------------------------------------------------------------------------
(* Tickets. *)

\* An atom in the run queue is alive: the worker that pops it does not let it
\* go with its messages unread.
AliveInv ==
    /\ \A a \in Atom : ready[a] > 0 => state[a] = "ALIVE"
    /\ \A t \in Clients : pc[t] = "enqueue" => state[Dst[First(sends[t])]] = "ALIVE"

TicketInv == TypeInv /\ AliveInv /\ EveryMessageHasATicket

\* The threads counted are finitely many.
LEMMA CountType ==
    ASSUME NEW c \in Channel
    PROVE  /\ IsFiniteSet(OnTheWay(c)) /\ Cardinality(OnTheWay(c)) \in Nat
           /\ IsFiniteSet(Buying(c)) /\ Cardinality(Buying(c)) \in Nat
<1>1. IsFiniteSet(OnTheWay(c)) /\ IsFiniteSet(Buying(c))
  BY ThreadAssumption, FS_Subset DEF OnTheWay, Buying
<1>2. QED
  BY <1>1, FS_CardinalityType

\* The terms of the inequality are numbers.
LEMMA TermType ==
    ASSUME TypeInv, NEW c \in Channel
    PROVE  /\ Len(queue[c]) \in Nat /\ owed[c] \in Nat /\ ready[Dst[c]] \in Nat
           /\ Cardinality(OnTheWay(c)) \in Nat /\ Cardinality(Buying(c)) \in Nat
<1>1. queue[c] \in Seq(Message) /\ owed[c] \in Nat
  BY DEF TypeInv, TypeOK
<1>2. Dst[c] \in Atom /\ ready \in [Atom -> Nat]
  BY GraphAssumption DEF TypeInv, TypeOK
<1>3. QED
  BY <1>1, <1>2, CountType

\* A step that moves no ticket and sends only without one.
LEMMA Frame ==
    ASSUME TypeInv, TypeInv', EveryMessageHasATicket,
           UNCHANGED ready,
           \A c \in Channel : Len(queue'[c]) - owed'[c] = Len(queue[c]) - owed[c],
           \A c \in Channel : OnTheWay(c)' = OnTheWay(c) /\ Buying(c)' = Buying(c)
    PROVE  EveryMessageHasATicket'
<1> SUFFICES ASSUME NEW c \in Channel
             PROVE  Len(queue'[c]) <= ready'[Dst[c]] + Cardinality(OnTheWay(c)')
                                        + Cardinality(Buying(c)') + owed'[c]
  BY DEF EveryMessageHasATicket
<1>1. /\ Len(queue[c]) \in Nat /\ owed[c] \in Nat /\ ready[Dst[c]] \in Nat
      /\ Cardinality(OnTheWay(c)) \in Nat /\ Cardinality(Buying(c)) \in Nat
  BY TermType
<1>2. Len(queue'[c]) \in Nat /\ owed'[c] \in Nat
  BY DEF TypeInv, TypeOK
<1>3. Len(queue[c]) <= ready[Dst[c]] + Cardinality(OnTheWay(c))
                         + Cardinality(Buying(c)) + owed[c]
  BY DEF EveryMessageHasATicket
<1>4. Len(queue'[c]) - owed'[c] = Len(queue[c]) - owed[c]
  OBVIOUS
<1>5. /\ OnTheWay(c)' = OnTheWay(c) /\ Buying(c)' = Buying(c)
      /\ ready'[Dst[c]] = ready[Dst[c]]
  OBVIOUS
<1> DEFINE q == Len(queue[c])
           q2 == Len(queue'[c])
           o == owed[c]
           o2 == owed'[c]
           r == ready[Dst[c]]
           n == Cardinality(OnTheWay(c))
           b == Cardinality(Buying(c))
<1>6. /\ q \in Nat /\ q2 \in Nat /\ o \in Nat /\ o2 \in Nat
      /\ r \in Nat /\ n \in Nat /\ b \in Nat
      /\ q <= r + n + b + o /\ q2 - o2 = q - o
  BY <1>1, <1>2, <1>3, <1>4
<1> HIDE DEF q, q2, o, o2, r, n, b
<1>7. q2 <= r + n + b + o2
  BY <1>6
<1>8. QED
  BY <1>5, <1>7 DEF q2, o2, r, n, b

\* What the ticket invariant reads of a client, and of a worker.
LEMMA OthersBuy ==
    ASSUME NEW t \in Thread \ Clients, NEW x, pc' = [pc EXCEPT ![t] = x],
           \A u \in Clients : sends'[u] = sends[u],
           pc \in [Thread -> Controls]
    PROVE  \A c \in Channel : Buying(c)' = Buying(c)
BY DEF Buying, Thread

\* cogdiod_send of cogdiod_set_tv: the message waits for its ticket.
LEMMA SendTicket ==
    ASSUME TicketInv, TypeInv', NEW t \in Clients, Send(t)
    PROVE  EveryMessageHasATicket'
<1> DEFINE ch == First(sends[t])
<1>1. t \in Thread /\ ch \in Channel /\ msg[t] \in Message
  BY FirstChannel DEF TicketInv, TypeInv, TypeOK, WalkInv, Send, Thread
<1>2. QueueType /\ Put(ch, msg[t])
  BY DEF TicketInv, TypeInv, TypeOK, QueueType, Send
<1>3. /\ Len(queue'[ch]) = Len(queue[ch]) + 1
      /\ \A d \in Channel \ {ch} : queue'[d] = queue[d]
  BY <1>1, <1>2, PutType
<1>4. /\ pc[t] = "send" /\ pc' = [pc EXCEPT ![t] = "wake"]
      /\ UNCHANGED <<ready, drains, sends, owed>>
  BY DEF Send, Goto
<1>5. pc \in [Thread -> Controls]
  BY DEF TicketInv, TypeInv, TypeOK
<1>6. Buying(ch)' = Buying(ch) \cup {t} /\ t \notin Buying(ch)
  BY <1>1, <1>4, <1>5 DEF Buying, Thread
<1>7. \A d \in Channel \ {ch} : Buying(d)' = Buying(d)
  BY <1>1, <1>4, <1>5 DEF Buying, Thread
<1>8. \A d \in Channel : OnTheWay(d)' = OnTheWay(d)
  BY <1>4 DEF OnTheWay
<1>9. Cardinality(Buying(ch)') = Cardinality(Buying(ch)) + 1
  BY <1>1, <1>6, CountType, FS_AddElement
<1> SUFFICES ASSUME NEW c \in Channel
             PROVE  Len(queue'[c]) <= ready'[Dst[c]] + Cardinality(OnTheWay(c)')
                                        + Cardinality(Buying(c)') + owed'[c]
  BY DEF EveryMessageHasATicket
<1>10. /\ Len(queue[c]) \in Nat /\ owed[c] \in Nat /\ ready[Dst[c]] \in Nat
       /\ Cardinality(OnTheWay(c)) \in Nat /\ Cardinality(Buying(c)) \in Nat
  BY TermType DEF TicketInv
<1>11. Len(queue[c]) <= ready[Dst[c]] + Cardinality(OnTheWay(c))
                          + Cardinality(Buying(c)) + owed[c]
  BY DEF TicketInv, EveryMessageHasATicket
<1>12. CASE c = ch
  BY <1>3, <1>4, <1>8, <1>9, <1>10, <1>11, <1>12, CountType
<1>13. CASE c # ch
  BY <1>3, <1>4, <1>7, <1>8, <1>10, <1>11, <1>13, CountType
<1>14. QED
  BY <1>12, <1>13

\* cogdiod_enqueue: the ticket goes from the client to the run queue.
LEMMA EnqueueTicket ==
    ASSUME TicketInv, TypeInv', NEW t \in Clients, Enqueue(t)
    PROVE  EveryMessageHasATicket'
<1>0. First(sends[t]) \in Channel
  <2>1. t \in Thread /\ sends[t] # {}
    BY DEF TicketInv, TypeInv, WalkInv, Enqueue, Thread
  <2>2. sends[t] \in SUBSET Channel
    BY <2>1 DEF TicketInv, TypeInv, TypeOK
  <2>3. QED
    BY <2>1, <2>2, FirstChannel
<1> PICK ch \in Channel : ch = First(sends[t])
  BY <1>0
<1>1. t \in Thread
  BY DEF Thread
<1>2. /\ pc[t] = "enqueue" /\ \E x \in {"idle", "send"} : pc' = [pc EXCEPT ![t] = x]
      /\ sends' = [sends EXCEPT ![t] = @ \ {ch}]
      /\ ready' = [ready EXCEPT ![Dst[ch]] = @ + 1]
      /\ UNCHANGED <<queue, drains, owed>>
  BY DEF Enqueue, Goto
<1>3. /\ pc \in [Thread -> Controls] /\ ready \in [Atom -> Nat]
      /\ sends \in [Thread -> SUBSET Channel]
  BY DEF TicketInv, TypeInv, TypeOK
<1>14. /\ pc'[t] \in {"idle", "send"}
       /\ \A u \in Clients \ {t} : pc'[u] = pc[u] /\ sends'[u] = sends[u]
  <2>1. PICK x \in {"idle", "send"} : pc' = [pc EXCEPT ![t] = x]
    BY <1>2
  <2>2. \A u \in Clients : u \in Thread
    BY DEF Thread
  <2>3. QED
    BY <2>1, <2>2, <1>1, <1>2, <1>3
<1>4. Buying(ch)' = Buying(ch) \ {t} /\ t \in Buying(ch)
  <2>1. pc'[t] # "enqueue" /\ pc'[t] # "wake" /\ t \in Thread
    BY <1>1, <1>3, <1>14
  <2>2. \A u \in Clients \ {t} : pc'[u] = pc[u] /\ sends'[u] = sends[u]
    BY <1>14
  <2>3. QED
    BY <1>2, <2>1, <2>2 DEF Buying
<1>5. \A d \in Channel \ {ch} : Buying(d)' = Buying(d)
  <2>1. pc'[t] # "enqueue" /\ pc'[t] # "wake" /\ t \in Thread
    BY <1>1, <1>3, <1>14
  <2>2. \A u \in Clients \ {t} : pc'[u] = pc[u] /\ sends'[u] = sends[u]
    BY <1>14
  <2>3. QED
    BY <1>2, <2>1, <2>2 DEF Buying
<1>6. \A d \in Channel : OnTheWay(d)' = OnTheWay(d)
  BY <1>2 DEF OnTheWay
<1>7. Cardinality(Buying(ch)') = Cardinality(Buying(ch)) - 1
  BY <1>1, <1>4, CountType, FS_RemoveElement
<1> SUFFICES ASSUME NEW c \in Channel
             PROVE  Len(queue'[c]) <= ready'[Dst[c]] + Cardinality(OnTheWay(c)')
                                        + Cardinality(Buying(c)') + owed'[c]
  BY DEF EveryMessageHasATicket
<1>8. Dst[c] \in Atom /\ Dst[ch] \in Atom
  BY <1>1, GraphAssumption
<1>9. /\ Len(queue[c]) \in Nat /\ owed[c] \in Nat /\ ready[Dst[c]] \in Nat
      /\ Cardinality(OnTheWay(c)) \in Nat /\ Cardinality(Buying(c)) \in Nat
  BY TermType DEF TicketInv
<1>10. Len(queue[c]) <= ready[Dst[c]] + Cardinality(OnTheWay(c))
                          + Cardinality(Buying(c)) + owed[c]
  BY DEF TicketInv, EveryMessageHasATicket
<1>11. CASE c = ch
  <2>1. /\ ready'[Dst[c]] = ready[Dst[c]] + 1
        /\ Cardinality(Buying(c)') = Cardinality(Buying(c)) - 1
        /\ OnTheWay(c)' = OnTheWay(c) /\ queue'[c] = queue[c] /\ owed'[c] = owed[c]
    BY <1>2, <1>3, <1>6, <1>7, <1>8, <1>11
  <2>2. QED
    BY <2>1, <1>9, <1>10, SMTT(40)
<1>12. CASE c # ch
  <2>1. ready'[Dst[c]] \in Nat /\ ready'[Dst[c]] >= ready[Dst[c]]
    BY <1>2, <1>3, <1>8
  <2>2. /\ Buying(c)' = Buying(c) /\ OnTheWay(c)' = OnTheWay(c)
        /\ queue'[c] = queue[c] /\ owed'[c] = owed[c]
    BY <1>2, <1>5, <1>6, <1>12
  <2>3. QED
    BY <2>1, <2>2, <1>9, <1>10, SMTT(40)
<1>13. QED
  BY <1>11, <1>12

\* rq_pop: the ticket goes from the run queue to the worker, for each channel.
LEMMA PopTicket ==
    ASSUME TicketInv, TypeInv', NEW w \in Workers, NEW a \in Atom, Pop(w, a)
    PROVE  EveryMessageHasATicket'
<1>1. w \in Thread /\ w \notin Clients /\ drains[w] = {} /\ state[a] = "ALIVE"
  BY ThreadAssumption DEF TicketInv, TypeInv, WalkInv, AliveInv, Pop, Thread
<1>2. /\ UNCHANGED <<queue, owed, sends>>
      /\ ready' = [ready EXCEPT ![a] = @ - 1] /\ ready[a] > 0
  BY DEF Pop
<1>3. /\ pc \in [Thread -> Controls] /\ ready \in [Atom -> Nat]
      /\ drains \in [Thread -> SUBSET Channel]
  BY DEF TicketInv, TypeInv, TypeOK
<1>4. \A d \in Channel : Buying(d)' = Buying(d)
  <2>1. \A u \in Clients : pc'[u] = pc[u] /\ sends'[u] = sends[u]
    BY <1>1, <1>2, <1>3 DEF Pop, Goto, Thread
  <2>2. QED
    BY <2>1 DEF Buying
<1>5. drains'[w] = Incoming(a) /\ \A u \in Workers \ {w} : drains'[u] = drains[u]
  <2>1. CASE Incoming(a) = {}
    BY <1>1, <2>1 DEF Pop
  <2>2. CASE Incoming(a) # {}
    BY <1>1, <1>3, <2>2 DEF Pop, Thread
  <2>3. QED
    BY <2>1, <2>2
<1>6. \A d \in Channel :
         IF Dst[d] = a THEN OnTheWay(d)' = OnTheWay(d) \cup {w} /\ w \notin OnTheWay(d)
                       ELSE OnTheWay(d)' = OnTheWay(d)
  BY <1>1, <1>5 DEF OnTheWay, Incoming
<1> SUFFICES ASSUME NEW c \in Channel
             PROVE  Len(queue'[c]) <= ready'[Dst[c]] + Cardinality(OnTheWay(c)')
                                        + Cardinality(Buying(c)') + owed'[c]
  BY DEF EveryMessageHasATicket
<1>7. Dst[c] \in Atom
  BY GraphAssumption
<1>8. /\ Len(queue[c]) \in Nat /\ owed[c] \in Nat /\ ready[Dst[c]] \in Nat
      /\ Cardinality(OnTheWay(c)) \in Nat /\ Cardinality(Buying(c)) \in Nat
  BY TermType DEF TicketInv
<1>9. Len(queue[c]) <= ready[Dst[c]] + Cardinality(OnTheWay(c))
                         + Cardinality(Buying(c)) + owed[c]
  BY DEF TicketInv, EveryMessageHasATicket
<1>10. CASE Dst[c] = a
  <2>1. ready'[Dst[c]] = ready[Dst[c]] - 1
    BY <1>2, <1>3, <1>10
  <2>2. Cardinality(OnTheWay(c)') = Cardinality(OnTheWay(c)) + 1
    BY <1>6, <1>10, CountType, FS_AddElement
  <2>3. QED
    BY <2>1, <2>2, <1>2, <1>4, <1>8, <1>9, CountType
<1>11. CASE Dst[c] # a
  <2>1. ready'[Dst[c]] = ready[Dst[c]]
    BY <1>2, <1>3, <1>7, <1>11
  <2>2. QED
    BY <2>1, <1>2, <1>4, <1>6, <1>8, <1>9, <1>11
<1>12. QED
  BY <1>10, <1>11

\* worker_process_atom: a worker leaves a channel with a message less, or empty.
LEMMA DrainTicket ==
    ASSUME TicketInv, TypeInv', NEW w \in Workers, Drain(w)
    PROVE  EveryMessageHasATicket'
<1>0. First(drains[w]) \in Channel /\ First(drains[w]) \in drains[w]
  BY FirstChannel DEF TicketInv, TypeInv, TypeOK, WalkInv, Drain, Thread
<1> PICK ch \in Channel : ch = First(drains[w])
  BY <1>0
<1>1. w \in Thread /\ w \notin Clients /\ ch \in drains[w]
  BY <1>0, ThreadAssumption DEF Thread
<1>2. UNCHANGED <<owed, ready, sends>> /\ drains' = [drains EXCEPT ![w] = @ \ {ch}]
  BY DEF Drain
<1>3. /\ pc \in [Thread -> Controls] /\ drains \in [Thread -> SUBSET Channel]
      /\ queue \in [Channel -> Seq(Message)]
  BY DEF TicketInv, TypeInv, TypeOK
<1>4. \A d \in Channel : Buying(d)' = Buying(d)
  <2>1. \A u \in Clients : pc'[u] = pc[u] /\ sends'[u] = sends[u]
    BY <1>1, <1>2, <1>3 DEF Drain, Goto, Thread
  <2>2. QED
    BY <2>1 DEF Buying
<1>5. OnTheWay(ch)' = OnTheWay(ch) \ {w} /\ w \in OnTheWay(ch)
  <2>1. /\ drains'[w] = drains[w] \ {ch}
        /\ \A u \in Workers \ {w} : drains'[u] = drains[u]
    BY <1>1, <1>2, <1>3 DEF Thread
  <2>2. QED
    BY <1>1, <2>1 DEF OnTheWay
<1>6. \A d \in Channel \ {ch} : OnTheWay(d)' = OnTheWay(d)
  BY <1>1, <1>2, <1>3 DEF OnTheWay, Thread
<1>7. Cardinality(OnTheWay(ch)') = Cardinality(OnTheWay(ch)) - 1
  BY <1>1, <1>5, CountType, FS_RemoveElement
<1>8. \A d \in Channel \ {ch} : queue'[d] = queue[d]
  <2>1. queue' = queue \/ queue' = [queue EXCEPT ![ch] = Tail(@)]
    BY DEF Drain
  <2>2. QED
    BY <1>3, <2>1
<1>9. Len(queue'[ch]) = 0 \/ Len(queue'[ch]) = Len(queue[ch]) - 1
  <2>1. CASE queue[ch] = <<>> /\ queue' = queue
    BY <2>1
  <2>2. CASE queue[ch] # <<>> /\ queue' = [queue EXCEPT ![ch] = Tail(@)]
    <3>1. queue'[ch] = Tail(queue[ch]) /\ queue[ch] \in Seq(Message)
      BY <1>1, <1>3, <2>2
    <3>2. Len(Tail(queue[ch])) = Len(queue[ch]) - 1
      BY <2>2, <3>1
    <3>3. QED
      BY <3>1, <3>2
  <2>3. QED
    BY <2>1, <2>2 DEF Drain
<1> SUFFICES ASSUME NEW c \in Channel
             PROVE  Len(queue'[c]) <= ready'[Dst[c]] + Cardinality(OnTheWay(c)')
                                        + Cardinality(Buying(c)') + owed'[c]
  BY DEF EveryMessageHasATicket
<1>10. /\ Len(queue[c]) \in Nat /\ owed[c] \in Nat /\ ready[Dst[c]] \in Nat
       /\ Cardinality(OnTheWay(c)) \in Nat /\ Cardinality(Buying(c)) \in Nat
  BY TermType DEF TicketInv
<1>11. Len(queue[c]) <= ready[Dst[c]] + Cardinality(OnTheWay(c))
                          + Cardinality(Buying(c)) + owed[c]
  BY DEF TicketInv, EveryMessageHasATicket
<1>12. CASE c = ch
  <2>1. Cardinality(OnTheWay(ch)') \in Nat
    BY <1>1, <1>5, CountType, FS_RemoveElement, FS_CardinalityType
  <2>2. /\ Cardinality(OnTheWay(c)') = Cardinality(OnTheWay(c)) - 1
        /\ Cardinality(OnTheWay(c)') \in Nat
        /\ Buying(c)' = Buying(c) /\ ready'[Dst[c]] = ready[Dst[c]]
        /\ owed'[c] = owed[c]
        /\ Len(queue'[c]) = 0 \/ Len(queue'[c]) = Len(queue[c]) - 1
    BY <2>1, <1>2, <1>4, <1>7, <1>9, <1>12
  <2>3. QED
    BY <2>2, <1>10, <1>11, SMTT(40)
<1>13. CASE c # ch
  BY <1>2, <1>4, <1>6, <1>8, <1>10, <1>11, <1>13
<1>14. QED
  BY <1>12, <1>13

\* A step that neither moves a ticket, nor wakes an atom, nor sends a message
\* with the intention to buy its ticket.
Calm ==
    /\ UNCHANGED <<ready, state, drains>>
    /\ \A t \in Clients : \/ pc'[t] = pc[t] /\ sends'[t] = sends[t]
                          \/ /\ pc[t] \notin {"wake", "enqueue"}
                             /\ pc'[t] \notin {"wake", "enqueue"}

\* Only messages without a ticket are sent.
Unpaid == \A c \in Channel : Len(queue'[c]) - owed'[c] = Len(queue[c]) - owed[c]

LEMMA CalmStep ==
    ASSUME TicketInv, TypeInv', Calm, Unpaid
    PROVE  AliveInv' /\ EveryMessageHasATicket'
<1>1. AliveInv'
  BY DEF TicketInv, AliveInv, Calm
<1>2. \A c \in Channel : OnTheWay(c)' = OnTheWay(c) /\ Buying(c)' = Buying(c)
  BY DEF Calm, OnTheWay, Buying
<1>3. EveryMessageHasATicket'
  BY <1>2, Frame DEF TicketInv, Calm, Unpaid
<1>4. QED
  BY <1>1, <1>3

LEMMA SendsUnpaid ==
    ASSUME TypeInv, NEW c \in Channel, NEW m \in Message, Put(c, m),
           owed' = [owed EXCEPT ![c] = @ + 1]
    PROVE  Unpaid
<1>1. QueueType /\ owed \in [Channel -> Nat]
  BY DEF TypeInv, TypeOK, QueueType
<1>2. /\ Len(queue'[c]) = Len(queue[c]) + 1
      /\ \A d \in Channel \ {c} : queue'[d] = queue[d]
  BY <1>1, PutType
<1> SUFFICES ASSUME NEW d \in Channel
             PROVE  Len(queue'[d]) - owed'[d] = Len(queue[d]) - owed[d]
  BY DEF Unpaid
<1>3. Len(queue[d]) \in Nat /\ owed[d] \in Nat
  BY TermType
<1>4. CASE d = c
  <2>1. Len(queue'[d]) = Len(queue[d]) + 1 /\ owed'[d] = owed[d] + 1
    BY <1>1, <1>2, <1>4
  <2>2. QED
    BY <2>1, <1>3
<1>5. CASE d # c
  <2>1. queue'[d] = queue[d] /\ owed'[d] = owed[d]
    BY <1>1, <1>2, <1>5
  <2>2. QED
    BY <2>1, <1>3
<1>6. QED
  BY <1>4, <1>5

LEMMA UnscheduledUnpaid ==
    ASSUME TypeInv, NEW t \in Thread, sends[t] # {}, PutUnscheduled(t)
    PROVE  Unpaid
<1>1. First(sends[t]) \in Channel /\ msg[t] \in Message
  <2>1. sends[t] \in SUBSET Channel /\ msg[t] \in Message
    BY DEF TypeInv, TypeOK
  <2>2. QED
    BY <2>1, FirstChannel
<1>2. Put(First(sends[t]), msg[t]) /\ owed' = [owed EXCEPT ![First(sends[t])] = @ + 1]
  BY DEF PutUnscheduled
<1>3. QED
  BY <1>1, <1>2, SendsUnpaid

LEMMA InitTicket == Init => TicketInv
<1> SUFFICES ASSUME Init PROVE TicketInv
  OBVIOUS
<1>1. TypeInv
  BY InitType
<1>2. AliveInv
  BY DEF Init, AliveInv, Thread
<1>3. EveryMessageHasATicket
  <2> SUFFICES ASSUME NEW c \in Channel
               PROVE  Len(queue[c]) <= ready[Dst[c]] + Cardinality(OnTheWay(c))
                                          + Cardinality(Buying(c)) + owed[c]
    BY DEF EveryMessageHasATicket
  <2>1. Len(queue[c]) = 0
    BY DEF Init
  <2>2. QED
    BY <1>1, <2>1, TermType
<1>4. QED
  BY <1>1, <1>2, <1>3 DEF TicketInv

\* Every step keeps the tickets.
LEMMA StepTickets == TicketInv /\ [Next]_vars => TicketInv'
<1> SUFFICES ASSUME TicketInv, [Next]_vars PROVE AliveInv' /\ EveryMessageHasATicket'
  BY StepTypeOK, StepWalk DEF TicketInv, TypeInv
<1>0. TypeInv /\ TypeInv' /\ AliveInv /\ EveryMessageHasATicket
  BY StepTypeOK, StepWalk DEF TicketInv, TypeInv
<1> DEFINE ControlType == /\ pc \in [Thread -> Controls]
                          /\ sends \in [Thread -> SUBSET Channel]
<1>30. ControlType /\ WalkInv
  BY <1>0 DEF TypeInv, TypeOK
<1> USE ThreadAssumption DEF Thread
<1>1. ASSUME NEW t \in Clients, NEW a \in Atom, NEW v \in Tv, SetTv(t, a, v) PROVE Calm /\ Unpaid
  BY <1>1, <1>30 DEF WalkInv, Calm, Unpaid, SetTv, Goto, data, At
<1>2. ASSUME NEW t \in Clients, NEW a \in Atom, Infer(t, a) PROVE Calm /\ Unpaid
  BY <1>2, <1>30 DEF WalkInv, Calm, Unpaid, Infer, Goto, data, At
<1>3. ASSUME NEW t \in Clients, Send(t) PROVE AliveInv' /\ EveryMessageHasATicket'
  <2>1. AliveInv'
    BY <1>0, <1>3, <1>30 DEF AliveInv, Send, Goto
  <2>2. QED
    BY <1>0, <1>3, <2>1, SendTicket
<1>4. ASSUME NEW t \in Clients, Wake(t) PROVE AliveInv' /\ EveryMessageHasATicket'
  <2>1. Dst[First(sends[t])] \in Atom /\ state \in [Atom -> {"ALIVE", "SLEEPING"}]
    <3>1. sends[t] \in SUBSET Channel /\ sends[t] # {}
      BY <1>4, <1>30 DEF WalkInv, Wake
    <3>2. QED
      BY <1>0, <3>1, FirstChannel, GraphAssumption DEF TypeInv, TypeOK
  <2>2. AliveInv'
    BY <1>0, <1>4, <1>30, <2>1 DEF AliveInv, Wake, Goto
  <2>3. \A c \in Channel : OnTheWay(c)' = OnTheWay(c) /\ Buying(c)' = Buying(c)
    BY <1>4, <1>30 DEF OnTheWay, Buying, Wake, Goto
  <2>4. EveryMessageHasATicket'
    <3>1. /\ UNCHANGED ready
          /\ \A c \in Channel : Len(queue'[c]) - owed'[c] = Len(queue[c]) - owed[c]
      BY <1>4 DEF Wake
    <3>2. QED
      BY <1>0, <2>3, <3>1, Frame
  <2>5. QED
    BY <2>2, <2>4
<1>5. ASSUME NEW t \in Clients, Enqueue(t) PROVE AliveInv' /\ EveryMessageHasATicket'
  <2>1. ready \in [Atom -> Nat]
    BY <1>0 DEF TypeInv, TypeOK
  <2>2. \A a \in Atom : ready'[a] > 0 => ready[a] > 0 \/ a = Dst[First(sends[t])]
    BY <1>5, <2>1 DEF Enqueue
  <2>3. UNCHANGED state /\ state[Dst[First(sends[t])]] = "ALIVE"
    BY <1>0, <1>5 DEF AliveInv, Enqueue
  <2>4. \A u \in Clients : pc'[u] = "enqueue" => pc[u] = "enqueue" /\ sends'[u] = sends[u]
    BY <1>5, <1>30 DEF Enqueue, Goto
  <2>5. AliveInv'
    BY <1>0, <2>2, <2>3, <2>4 DEF AliveInv
  <2>6. QED
    BY <1>0, <1>5, <2>5, EnqueueTicket
<1>6. ASSUME NEW t \in Clients, Broadcast(t) PROVE Calm /\ Unpaid
  <2>1. t \in Thread /\ sends[t] # {} /\ PutUnscheduled(t)
    BY <1>6, <1>30 DEF WalkInv, Broadcast
  <2>2. Unpaid
    BY <1>0, <2>1, UnscheduledUnpaid
  <2>3. sends' = [sends EXCEPT ![t] = @ \ {First(sends[t])}]
    BY <2>1 DEF PutUnscheduled
  <2>4. Calm
    BY <1>6, <1>30, <2>1, <2>3 DEF Calm, Broadcast, Goto
  <2>5. QED
    BY <2>2, <2>4
<1>7. ASSUME NEW e \in Ecan, Diffuse(e) PROVE Calm /\ Unpaid
  BY <1>7, <1>30 DEF WalkInv, Calm, Unpaid, Diffuse, Goto, data, At
<1>8. ASSUME NEW e \in Ecan, DiffuseSkip(e) PROVE Calm /\ Unpaid
  BY <1>8, <1>30 DEF WalkInv, Calm, Unpaid, DiffuseSkip, Goto, data, At
<1>9. ASSUME NEW e \in Ecan, DiffuseLock(e) PROVE Calm /\ Unpaid
  BY <1>9, <1>30 DEF WalkInv, Calm, Unpaid, DiffuseLock, Goto, data, At
<1>10. ASSUME NEW e \in Ecan, Spread(e) PROVE Calm /\ Unpaid
  <2>1. e \in Thread /\ sends[e] # {} /\ PutUnscheduled(e)
    BY <1>10, <1>30 DEF WalkInv, Spread
  <2>2. Unpaid
    BY <1>0, <2>1, UnscheduledUnpaid
  <2>3. sends' = [sends EXCEPT ![e] = @ \ {First(sends[e])}]
    BY <2>1 DEF PutUnscheduled
  <2>4. Calm
    BY <1>10, <1>30, <2>1, <2>3 DEF Calm, Spread, Goto
  <2>5. QED
    BY <2>2, <2>4
<1>11. ASSUME NEW w \in Workers, NEW a \in Atom, Pop(w, a)
       PROVE  AliveInv' /\ EveryMessageHasATicket'
  <2>1. ready \in [Atom -> Nat]
    BY <1>0 DEF TypeInv, TypeOK
  <2>2. \A b \in Atom : ready'[b] > 0 => ready[b] > 0
    BY <1>11, <2>1 DEF Pop
  <2>3. UNCHANGED <<state, sends>> /\ \A u \in Clients : pc'[u] = pc[u]
    BY <1>11, <1>30 DEF Pop, Goto
  <2>4. AliveInv'
    BY <1>0, <2>2, <2>3 DEF AliveInv
  <2>5. QED
    BY <1>0, <1>11, <2>4, PopTicket
<1>12. ASSUME NEW w \in Workers, Drain(w) PROVE AliveInv' /\ EveryMessageHasATicket'
  <2>1. UNCHANGED <<state, sends, ready>> /\ \A u \in Clients : pc'[u] = pc[u]
    BY <1>12, <1>30 DEF Drain, Goto
  <2>2. AliveInv'
    BY <1>0, <2>1 DEF AliveInv
  <2>3. QED
    BY <1>0, <1>12, <2>2, DrainTicket
<1>13. ASSUME NEW w \in Workers, ExecMsg(w) PROVE Calm /\ Unpaid
  BY <1>13, <1>30 DEF WalkInv, Calm, Unpaid, ExecMsg, Goto, data, At
<1>14. ASSUME NEW w \in Workers, VmHalt(w) PROVE Calm /\ Unpaid
  BY <1>14, <1>30 DEF WalkInv, Calm, Unpaid, VmHalt, Goto, data, At
<1>15. ASSUME NEW w \in Workers, VmSetTv(w) PROVE Calm /\ Unpaid
  BY <1>15, <1>30 DEF WalkInv, Calm, Unpaid, VmSetTv, Goto, data, At
<1>16. ASSUME NEW w \in Workers, VmSend(w) PROVE Calm /\ Unpaid
  <2>1. Calm
    BY <1>16 DEF Calm, VmSend
  <2>2. ASSUME UNCHANGED <<queue, owed>> PROVE Unpaid
    BY <2>2 DEF Unpaid
  <2>3. ASSUME NEW c \in Outgoing(at[w]), NEW v \in Tv,
               Put(c, [type |-> "UPDATE_TV", tv |-> v]),
               owed' = [owed EXCEPT ![c] = @ + 1]
        PROVE  Unpaid
    <3>1. c \in Channel /\ [type |-> "UPDATE_TV", tv |-> v] \in Message
      BY DEF Outgoing, Message
    <3>2. QED
      BY <1>0, <2>3, <3>1, SendsUnpaid
  <2>4. QED
    BY <1>16, <2>1, <2>2, <2>3 DEF VmSend
<1>17. ASSUME NEW w \in Workers, VmEcanSpread(w) PROVE Calm /\ Unpaid
  BY <1>17, <1>30 DEF WalkInv, Calm, Unpaid, VmEcanSpread, Goto, data, At
<1>18. ASSUME NEW w \in Workers, VmSpread(w) PROVE Calm /\ Unpaid
  <2>1. w \in Thread /\ sends[w] # {} /\ PutUnscheduled(w)
    BY <1>18, <1>30 DEF WalkInv, VmSpread
  <2>2. Unpaid
    BY <1>0, <2>1, UnscheduledUnpaid
  <2>3. sends' = [sends EXCEPT ![w] = @ \ {First(sends[w])}]
    BY <2>1 DEF PutUnscheduled
  <2>4. Calm
    BY <1>18, <1>30, <2>1, <2>3 DEF Calm, VmSpread, Goto
  <2>5. QED
    BY <2>2, <2>4
<1>19. ASSUME NEW w \in Workers, VmSpawn(w) PROVE Calm /\ Unpaid
  BY <1>19, <1>30 DEF WalkInv, Calm, Unpaid, VmSpawn, Goto, data, At
<1>20. ASSUME UNCHANGED vars PROVE Calm /\ Unpaid
  BY <1>20 DEF Calm, Unpaid, vars, data, locals
<1>21. Calm /\ Unpaid => AliveInv' /\ EveryMessageHasATicket'
  BY <1>0, CalmStep
<1>22. QED
  BY <1>1, <1>2, <1>3, <1>4, <1>5, <1>6, <1>7, <1>8, <1>9, <1>10, <1>11, <1>12, <1>13,
     <1>14, <1>15, <1>16, <1>17, <1>18, <1>19, <1>20, <1>21
     DEF Next, ClientStep, EcanStep, WorkerStep

\* No message of cogdiod_set_tv is stranded, whatever the graph, the number of
\* threads, the bytecode and the capacity of the channels: the ticket that
\* cogdiod_enqueue adds is still there, or a worker is on its way.
THEOREM NoMessageStranded == Spec => []EveryMessageHasATicket
<1>1. TicketInv => EveryMessageHasATicket
  BY DEF TicketInv
<1>2. QED
  BY <1>1, InitTicket, StepTickets, PTL DEF Spec

-----------------------------------------------------------------------------
(* What is heard last. *)

Changed == "SOURCE_CHANGED"

\* A client that announces a value has the atom's present one in hand, and nobody
\* else announces anything; the worker looks at channels of its atom and executes
\* the program of its atom.
Announces(t) ==
    /\ pc[t] \in {"send", "wake", "enqueue"} =>
          /\ at[t] \in Sets[t] /\ sends[t] \subseteq Outgoing(at[t])
          /\ msg[t].type = Changed /\ msg[t].tv = tv[at[t]]
    /\ pc[t] \in {"broadcast", "spread", "vmSpread"} => msg[t].type # Changed
Executes(w) ==
    /\ drains[w] \subseteq Incoming(at[w])
    /\ pc[w] = "exec" => Dst[from[w]] = at[w]
    /\ pc[w] \in {"vm", "vmSpread"} =>
          \A i \in DOMAIN vm[w] : \E j \in DOMAIN Program[at[w]] : vm[w][i] = Program[at[w]][j]
VoiceInv == (\A t \in Thread : Announces(t)) /\ (\A w \in Workers : Executes(w))

\* The present value of c's source is about to be sent on c; it is in c; a worker has
\* it in hand.
From(t, c) ==
    /\ at[t] = Src[c] /\ c \in sends[t]
    /\ pc[t] = "send" \/ (pc[t] \in {"wake", "enqueue"} /\ First(sends[t]) # c)
Coming(c) == \E t \in Clients : From(t, c)
Changes(c) == {i \in DOMAIN queue[c] : queue[c][i].type = Changed}
InHand(c) == {w \in Workers : pc[w] = "exec" /\ from[w] = c /\ msg[w].type = Changed}

\* Some client sets the atom.
Voiced(a) == \E t \in Clients : a \in Sets[t]

\* Unless it is about to be sent, the present value is the last that is in the
\* channel, or if none is there the one in hand, or else the one heard last.
Unvoiced(c) == ~ Voiced(Src[c]) => Changes(c) = {} /\ InHand(c) = {} /\ heard[c] = NoTv
LastIsCurrent(c) == ~ Coming(c) =>
    /\ \A i \in Changes(c) : (\A j \in Changes(c) : j <= i) => queue[c][i].tv = tv[Src[c]]
    /\ Changes(c) = {} => \A w \in InHand(c) : msg[w].tv = tv[Src[c]]
    /\ Changes(c) = {} /\ InHand(c) = {} => heard[c] \in {NoTv, tv[Src[c]]}
Heard(c) == Unvoiced(c) /\ LastIsCurrent(c)

HeardInv == TypeInv /\ VoiceInv /\ \A c \in Channel : Heard(c)

\* It holds at first, when nobody has said anything.
LEMMA InitHeard == Init => HeardInv
<1> SUFFICES ASSUME Init PROVE HeardInv
  OBVIOUS
<1>1. TypeInv
  BY InitType
<1>2. /\ \A t \in Thread : pc[t] = "idle" /\ drains[t] = {}
      /\ \A c \in Channel : queue[c] = <<>> /\ heard[c] = NoTv
  BY DEF Init
<1>3. VoiceInv
  BY <1>2 DEF VoiceInv, Announces, Executes, Thread
<1>4. ASSUME NEW c \in Channel PROVE Heard(c)
  <2>1. Changes(c) = {} /\ InHand(c) = {}
    BY <1>2 DEF Changes, InHand, Thread
  <2> QED BY <1>2, <2>1 DEF Heard, Unvoiced, LastIsCurrent
<1> QED BY <1>1, <1>3, <1>4 DEF HeardInv

\* At rest the channel is empty and no worker has a message of it in hand.
LEMMA HeardFollows == HeardInv => HeardIsCurrent
<1> SUFFICES ASSUME HeardInv, NEW c \in Channel, AtRest(c), heard[c] # NoTv
             PROVE  heard[c] = tv[Src[c]]
  BY DEF HeardIsCurrent
<1>1. ~ Coming(c)
  BY DEF AtRest, Coming, From
<1>2. Changes(c) = {}
  BY DEF AtRest, Changes
<1>3. InHand(c) = {}
  <2> SUFFICES ASSUME NEW w \in Workers, pc[w] = "exec", from[w] = c PROVE FALSE
    BY DEF InHand
  <2>1. at[w] = Dst[c]
    BY DEF HeardInv, VoiceInv, Executes
  <2> QED BY <2>1 DEF AtRest
<1> QED BY <1>1, <1>2, <1>3 DEF HeardInv, Heard, LastIsCurrent

\* A step after which c has the same announcements, and that sets the value of no
\* atom a client sets.
LEMMA SameAnnouncements ==
    ASSUME NEW c \in Channel, Heard(c), heard'[c] = heard[c],
           Changes(c)' = Changes(c), \A i \in Changes(c) : queue'[c][i] = queue[c][i],
           InHand(c)' = InHand(c), \A w \in InHand(c) : msg'[w] = msg[w],
           Coming(c) => Coming(c)',
           tv'[Src[c]] = tv[Src[c]] \/ ~ Voiced(Src[c])
    PROVE  Heard(c)'
<1>1. Unvoiced(c)'
  BY DEF Heard, Unvoiced, Voiced
<1>2. CASE tv'[Src[c]] = tv[Src[c]]
  <2> SUFFICES ASSUME ~ Coming(c)' PROVE
         /\ \A i \in Changes(c) : (\A j \in Changes(c) : j <= i) => queue'[c][i].tv = tv[Src[c]]
         /\ Changes(c) = {} => \A w \in InHand(c) : msg'[w].tv = tv[Src[c]]
         /\ Changes(c) = {} /\ InHand(c) = {} => heard'[c] \in {NoTv, tv[Src[c]]}
    BY <1>1, <1>2 DEF Heard, LastIsCurrent
  <2> QED BY DEF Heard, LastIsCurrent
<1>3. CASE ~ Voiced(Src[c])
  <2>1. Changes(c) = {} /\ InHand(c) = {} /\ heard[c] = NoTv
    BY <1>3 DEF Heard, Unvoiced
  <2> QED BY <1>1, <2>1 DEF Heard, LastIsCurrent
<1> QED BY <1>2, <1>3

\* Another message leaves the announcements in the channel where they are.
LEMMA PutOther ==
    ASSUME TypeOK, NEW d \in Channel, NEW m \in Message, m.type # Changed, Put(d, m),
           NEW c \in Channel
    PROVE  Changes(c)' = Changes(c) /\ \A i \in Changes(c) : queue'[c][i] = queue[c][i]
<1>1. queue[c] \in Seq(Message) /\ queue' = [queue EXCEPT ![d] = Append(queue[d], m)]
  BY DEF TypeOK, Put
<1>2. CASE c = d
  <2>1. queue'[c] = Append(queue[c], m)
    BY <1>1, <1>2 DEF TypeOK
  <2>2. /\ DOMAIN queue[c] = 1 .. Len(queue[c]) /\ DOMAIN queue'[c] = 1 .. Len(queue[c]) + 1
        /\ \A i \in 1 .. Len(queue[c]) : queue'[c][i] = queue[c][i]
        /\ queue'[c][Len(queue[c]) + 1] = m /\ Len(queue[c]) \in Nat
    BY <1>1, <2>1
  <2> QED BY <2>2 DEF Changes
<1>3. CASE c # d
  BY <1>1, <1>3 DEF Changes, TypeOK
<1> QED BY <1>2, <1>3

\* A step of t leaves the other threads alone.
Others(t) == \A u \in Thread \ {t} :
    /\ pc'[u] = pc[u] /\ at'[u] = at[u] /\ sends'[u] = sends[u] /\ drains'[u] = drains[u]
    /\ from'[u] = from[u] /\ msg'[u] = msg[u] /\ vm'[u] = vm[u]

\* What is coming from another, and what another has in hand, it leaves.
LEMMA Elsewhere ==
    ASSUME TypeInv, NEW t \in Thread, Others(t), NEW c \in Channel,
           t \in Clients => (From(t, c) => From(t, c)'),
           t \in Workers => /\ (t \in InHand(c))' <=> t \in InHand(c)
                            /\ t \in InHand(c) => msg'[t] = msg[t]
    PROVE  /\ Coming(c) => Coming(c)'
           /\ InHand(c)' = InHand(c) /\ \A w \in InHand(c) : msg'[w] = msg[w]
<1>1. \A u \in Clients \ {t} : From(u, c)' <=> From(u, c)
  BY DEF From, Others, Thread
<1>2. Coming(c) => Coming(c)'
  BY <1>1 DEF Coming
<1>3. \A w \in Workers \ {t} :
          /\ (w \in InHand(c))' <=> w \in InHand(c)
          /\ msg'[w] = msg[w]
  BY DEF InHand, Others, Thread
<1>4. InHand(c) \subseteq Workers /\ InHand(c)' \subseteq Workers
  BY DEF InHand
<1> QED BY <1>2, <1>3, <1>4

\* A step of t that sets the value of no atom about to be announced.
LEMMA VoiceKept ==
    ASSUME TypeInv, VoiceInv, NEW t \in Thread, Others(t),
           \A u \in Clients \ {t} :
              pc[u] \in {"send", "wake", "enqueue"} => tv'[at[u]] = tv[at[u]],
           Announces(t)', t \in Workers => Executes(t)'
    PROVE  VoiceInv'
<1>1. ASSUME NEW u \in Thread, u # t PROVE Announces(u)'
  <2>1. Announces(u) /\ pc'[u] = pc[u] /\ at'[u] = at[u] /\ sends'[u] = sends[u] /\ msg'[u] = msg[u]
    BY <1>1 DEF VoiceInv, Others
  <2>2. pc[u] \in {"send", "wake", "enqueue"} => u \in Clients
    BY DEF TypeInv, WalkInv, Thread
  <2>3. Outgoing(at[u])' = Outgoing(at[u])
    BY <2>1 DEF Outgoing
  <2> QED BY <1>1, <2>1, <2>2, <2>3 DEF Announces
<1>2. ASSUME NEW w \in Workers, w # t PROVE Executes(w)'
  <2>1. /\ Executes(w) /\ pc'[w] = pc[w] /\ at'[w] = at[w] /\ drains'[w] = drains[w]
        /\ from'[w] = from[w] /\ vm'[w] = vm[w]
    BY <1>2 DEF VoiceInv, Others, Thread
  <2>2. Incoming(at[w])' = Incoming(at[w])
    BY <2>1 DEF Incoming
  <2> QED BY <2>1, <2>2 DEF Executes
<1> QED BY <1>1, <1>2 DEF VoiceInv

\* cogdiod_set_tv.
LEMMA SetTvHeard ==
    ASSUME OneVoice, HeardInv, NEW t \in Clients, NEW a \in Atom, NEW v \in Tv, SetTv(t, a, v)
    PROVE  VoiceInv' /\ \A c \in Channel : Heard(c)'
<1>1. TypeInv /\ TypeOK /\ VoiceInv /\ t \in Thread /\ t \notin Workers
  BY ThreadAssumption DEF HeardInv, TypeInv, Thread
<1>2. /\ pc[t] = "idle" /\ a \in Sets[t] /\ queue' = queue /\ heard' = heard /\ vm' = vm
      /\ from' = from /\ drains' = drains /\ tv' = [tv EXCEPT ![a] = v]
      /\ pc'[t] = (IF Outgoing(a) = {} THEN "idle" ELSE "send")
      /\ at'[t] = a /\ sends'[t] = Outgoing(a)
      /\ msg'[t] = [type |-> "SOURCE_CHANGED", tv |-> v]
      /\ Others(t)
  BY <1>1 DEF SetTv, Goto, TypeOK, Others
<1>3. tv'[a] = v /\ \A b \in Atom \ {a} : tv'[b] = tv[b]
  BY <1>1, <1>2 DEF TypeOK
<1>4. VoiceInv'
  <2>1. ASSUME NEW u \in Clients \ {t}, pc[u] \in {"send", "wake", "enqueue"}
        PROVE  tv'[at[u]] = tv[at[u]]
    <3>1. at[u] \in Sets[u] /\ at[u] \in Atom
      BY <1>1, <2>1 DEF VoiceInv, Announces, TypeOK, Thread
    <3>2. at[u] # a
      BY <1>2, <3>1 DEF OneVoice
    <3> QED BY <1>3, <3>1, <3>2
  <2>2. Outgoing(a)' = Outgoing(a)
    BY DEF Outgoing
  <2>3. Announces(t)'
    BY <1>2, <1>3, <2>2 DEF Announces, Changed
  <2> QED BY <1>1, <1>2, <2>1, <2>3, VoiceKept
<1>5. ASSUME NEW c \in Channel PROVE Heard(c)'
  <2>1. Heard(c) /\ Src[c] \in Atom
    BY GraphAssumption DEF HeardInv
  <2>2. CASE Src[c] = a
    <3>1. c \in Outgoing(a)
      BY <2>2 DEF Outgoing
    <3>2. Coming(c)'
      BY <1>2, <2>2, <3>1 DEF Coming, From
    <3>3. Voiced(Src[c])
      BY <1>2, <2>2 DEF Voiced
    <3> QED BY <3>2, <3>3 DEF Heard, Unvoiced, LastIsCurrent, Voiced
  <2>3. CASE Src[c] # a
    <3>1. ~ From(t, c)
      BY <1>2 DEF From
    <3>2. /\ Coming(c) => Coming(c)'
          /\ InHand(c)' = InHand(c) /\ \A w \in InHand(c) : msg'[w] = msg[w]
      BY <1>1, <1>2, <3>1, Elsewhere
    <3>3. Changes(c)' = Changes(c)
      BY <1>2 DEF Changes
    <3> QED BY <1>2, <1>3, <2>1, <2>3, <3>2, <3>3, SameAnnouncements
  <2> QED BY <2>2, <2>3
<1> QED BY <1>4, <1>5

\* cogdiod_send of it: it is the last in the channel.
LEMMA SendHeard ==
    ASSUME HeardInv, NEW t \in Clients, Send(t)
    PROVE  VoiceInv' /\ \A c \in Channel : Heard(c)'
<1>1. TypeInv /\ TypeOK /\ VoiceInv /\ t \in Thread /\ t \notin Workers
  BY ThreadAssumption DEF HeardInv, TypeInv, Thread
<1>2. /\ pc[t] = "send" /\ tv' = tv /\ heard' = heard /\ at' = at /\ sends' = sends
      /\ drains' = drains /\ from' = from /\ msg' = msg /\ vm' = vm
      /\ pc'[t] = "wake" /\ Others(t) /\ Put(First(sends[t]), msg[t])
  BY <1>1 DEF Send, Goto, TypeOK, Others
<1>3. /\ at[t] \in Sets[t] /\ sends[t] \subseteq Outgoing(at[t])
      /\ msg[t].type = Changed /\ msg[t].tv = tv[at[t]]
  BY <1>1, <1>2 DEF VoiceInv, Announces
<1>4. PICK d \in Channel : d = First(sends[t]) /\ d \in sends[t]
  BY <1>1, <1>2, FirstChannel DEF TypeInv, WalkInv, TypeOK
<1>5. Src[d] = at[t] /\ Voiced(Src[d])
  BY <1>3, <1>4 DEF Outgoing, Voiced
<1>6. VoiceInv'
  <2>1. Announces(t)'
    BY <1>2, <1>3 DEF Announces, Outgoing
  <2> QED BY <1>1, <1>2, <2>1, VoiceKept
<1>7. queue' = [queue EXCEPT ![d] = Append(queue[d], msg[t])] /\ queue[d] \in Seq(Message)
  BY <1>1, <1>2, <1>4 DEF Put, TypeOK
<1>8. Heard(d)'
  <2>1. queue'[d] = Append(queue[d], msg[t])
    BY <1>1, <1>7 DEF TypeOK
  <2>2. /\ DOMAIN queue'[d] = 1 .. Len(queue[d]) + 1 /\ Len(queue[d]) \in Nat
        /\ queue'[d][Len(queue[d]) + 1] = msg[t]
    BY <1>7, <2>1
  <2>3. Len(queue[d]) + 1 \in Changes(d)' /\ Changes(d)' \subseteq 1 .. Len(queue[d]) + 1
    BY <1>3, <2>2 DEF Changes
  <2>4. ASSUME NEW i \in Changes(d)', \A j \in Changes(d)' : j <= i
        PROVE  queue'[d][i].tv = tv'[Src[d]]
    <3>1. i = Len(queue[d]) + 1
      BY <2>2, <2>3, <2>4
    <3> QED BY <1>2, <1>3, <1>5, <2>2, <3>1
  <2>5. LastIsCurrent(d)'
    BY <2>3, <2>4 DEF LastIsCurrent
  <2> QED BY <1>5, <2>5 DEF Heard, Unvoiced, Voiced
<1>9. ASSUME NEW c \in Channel, c # d PROVE Heard(c)'
  <2>1. From(t, c) => From(t, c)'
    BY <1>2, <1>4, <1>9 DEF From
  <2>2. /\ Coming(c) => Coming(c)'
        /\ InHand(c)' = InHand(c) /\ \A w \in InHand(c) : msg'[w] = msg[w]
    BY <1>1, <1>2, <2>1, Elsewhere
  <2>3. queue'[c] = queue[c]
    BY <1>1, <1>7, <1>9 DEF TypeOK
  <2>4. Changes(c)' = Changes(c) /\ Heard(c)
    BY <2>3 DEF Changes, HeardInv
  <2> QED BY <1>2, <2>2, <2>3, <2>4, SameAnnouncements
<1> QED BY <1>6, <1>8, <1>9

\* The rest of a client's walks.
LEMMA ClientHeard ==
    ASSUME HeardInv, NEW t \in Clients,
           Wake(t) \/ Enqueue(t) \/ Broadcast(t) \/ \E a \in Atom : Infer(t, a)
    PROVE  VoiceInv' /\ \A c \in Channel : Heard(c)'
<1>1. TypeInv /\ TypeOK /\ VoiceInv /\ t \in Thread /\ t \notin Workers
  BY ThreadAssumption DEF HeardInv, TypeInv, Thread
<1>2. /\ tv' = tv /\ heard' = heard /\ drains' = drains /\ from' = from /\ vm' = vm
  BY DEF Wake, Enqueue, Broadcast, Infer, data
<1>3. ASSUME Others(t), Announces(t)', \A c \in Channel : From(t, c) => From(t, c)',
             \A c \in Channel : /\ Changes(c)' = Changes(c)
                                /\ \A i \in Changes(c) : queue'[c][i] = queue[c][i]
      PROVE  VoiceInv' /\ \A c \in Channel : Heard(c)'
  <2>1. VoiceInv'
    BY <1>1, <1>2, <1>3, VoiceKept
  <2>2. ASSUME NEW c \in Channel PROVE Heard(c)'
    <3>1. /\ Coming(c) => Coming(c)'
          /\ InHand(c)' = InHand(c) /\ \A w \in InHand(c) : msg'[w] = msg[w]
      BY <1>1, <1>3, Elsewhere
    <3>2. Heard(c)
      BY DEF HeardInv
    <3> QED BY <1>2, <1>3, <3>1, <3>2, SameAnnouncements
  <2> QED BY <2>1, <2>2
<1>4. ASSUME queue' = queue
      PROVE  \A c \in Channel : /\ Changes(c)' = Changes(c)
                                /\ \A i \in Changes(c) : queue'[c][i] = queue[c][i]
  BY <1>4 DEF Changes
<1>5. CASE Wake(t)
  <2>1. /\ queue' = queue /\ at' = at /\ sends' = sends /\ msg' = msg /\ pc[t] = "wake"
        /\ pc'[t] = "enqueue" /\ Others(t)
    BY <1>1, <1>2, <1>5 DEF Wake, Goto, TypeOK, Others
  <2>2. Announces(t)' /\ \A c \in Channel : From(t, c) => From(t, c)'
    BY <1>1, <1>2, <2>1 DEF VoiceInv, Announces, Outgoing, From
  <2> QED BY <1>3, <1>4, <2>1, <2>2
<1>6. CASE Enqueue(t)
  <2>1. /\ queue' = queue /\ at' = at /\ msg' = msg /\ pc[t] = "enqueue"
        /\ sends'[t] = sends[t] \ {First(sends[t])}
        /\ pc'[t] = (IF sends[t] = {First(sends[t])} THEN "idle" ELSE "send") /\ Others(t)
    BY <1>1, <1>2, <1>6 DEF Enqueue, Goto, TypeOK, Others
  <2>2. Announces(t)'
    BY <1>1, <1>2, <2>1 DEF VoiceInv, Announces, Outgoing
  <2>3. ASSUME NEW c \in Channel, From(t, c) PROVE From(t, c)'
    BY <2>1, <2>3 DEF From
  <2> QED BY <1>3, <1>4, <2>1, <2>2, <2>3
<1>7. CASE Broadcast(t)
  <2>1. /\ at' = at /\ msg' = msg /\ pc[t] = "broadcast" /\ PutUnscheduled(t)
        /\ pc'[t] \in {"idle", "broadcast"} /\ Others(t)
    BY <1>1, <1>2, <1>7 DEF Broadcast, PutUnscheduled, Goto, TypeOK, Others
  <2>2. msg[t] \in Message /\ msg[t].type # Changed /\ Put(First(sends[t]), msg[t])
    BY <1>1, <2>1 DEF VoiceInv, Announces, TypeOK, PutUnscheduled
  <2>3. First(sends[t]) \in Channel
    BY <1>1, <2>1, FirstChannel DEF TypeInv, WalkInv, TypeOK
  <2>4. Announces(t)' /\ \A c \in Channel : From(t, c) => From(t, c)'
    BY <2>1, <2>2 DEF Announces, From
  <2>5. \A c \in Channel : /\ Changes(c)' = Changes(c)
                           /\ \A i \in Changes(c) : queue'[c][i] = queue[c][i]
    BY <1>1, <2>2, <2>3, PutOther
  <2> QED BY <1>3, <2>1, <2>4, <2>5
<1>8. CASE \E a \in Atom : Infer(t, a)
  <2>1. PICK a \in Atom : Infer(t, a)
    BY <1>8
  <2>2. /\ queue' = queue /\ pc[t] = "idle" /\ pc'[t] = "broadcast"
        /\ msg'[t] = [type |-> "INFER", tv |-> NoTv] /\ Others(t)
    BY <1>1, <1>2, <2>1 DEF Infer, data, Goto, TypeOK, Others
  <2>3. Announces(t)' /\ \A c \in Channel : From(t, c) => From(t, c)'
    BY <2>2 DEF Announces, From, Changed
  <2> QED BY <1>3, <1>4, <2>2, <2>3
<1> QED BY <1>5, <1>6, <1>7, <1>8

\* A step of the diffusion or of a worker that takes nothing into its hands, executes
\* nothing, sends other messages, and sets the value of no atom a client sets.
LEMMA Quiet ==
    ASSUME HeardInv, NEW t \in Thread, t \notin Clients, Others(t), Announces(t)',
           t \in Workers => Executes(t)', pc[t] # "exec", pc'[t] # "exec", heard' = heard,
           \A a \in Atom : tv'[a] = tv[a] \/ ~ Voiced(a),
           \A c \in Channel : /\ Changes(c)' = Changes(c)
                              /\ \A i \in Changes(c) : queue'[c][i] = queue[c][i]
    PROVE  VoiceInv' /\ \A c \in Channel : Heard(c)'
<1>1. TypeInv /\ TypeOK /\ VoiceInv
  BY DEF HeardInv, TypeInv
<1>2. ASSUME NEW u \in Clients \ {t}, pc[u] \in {"send", "wake", "enqueue"}
      PROVE  tv'[at[u]] = tv[at[u]]
  <2>1. at[u] \in Sets[u] /\ at[u] \in Atom
    BY <1>1, <1>2 DEF VoiceInv, Announces, TypeOK, Thread
  <2> QED BY <2>1 DEF Voiced
<1>3. VoiceInv'
  BY <1>1, <1>2, VoiceKept
<1>4. ASSUME NEW c \in Channel PROVE Heard(c)'
  <2>1. t \notin InHand(c) /\ (t \notin InHand(c))'
    BY DEF InHand
  <2>2. /\ Coming(c) => Coming(c)'
        /\ InHand(c)' = InHand(c) /\ \A w \in InHand(c) : msg'[w] = msg[w]
    BY <1>1, <2>1, Elsewhere
  <2>3. Heard(c) /\ Src[c] \in Atom
    BY GraphAssumption DEF HeardInv
  <2> QED BY <2>2, <2>3, SameAnnouncements
<1> QED BY <1>3, <1>4

\* cogdiod_ecan_diffuse.
LEMMA EcanHeard ==
    ASSUME HeardInv, NEW t \in Ecan, Diffuse(t) \/ EcanStep(t)
    PROVE  VoiceInv' /\ \A c \in Channel : Heard(c)'
<1>1. TypeInv /\ TypeOK /\ VoiceInv /\ t \in Thread /\ t \notin Clients /\ t \notin Workers
  BY ThreadAssumption DEF HeardInv, TypeInv, Thread
<1>2. tv' = tv /\ heard' = heard /\ pc[t] # "exec"
  BY DEF Diffuse, EcanStep, DiffuseSkip, DiffuseLock, Spread, data
<1>3. ASSUME Others(t), pc'[t] \in {"idle", "visit", "spread"},
             pc'[t] = "spread" => msg'[t].type # Changed,
             \A c \in Channel : /\ Changes(c)' = Changes(c)
                                /\ \A i \in Changes(c) : queue'[c][i] = queue[c][i]
      PROVE  VoiceInv' /\ \A c \in Channel : Heard(c)'
  <2>1. Announces(t)'
    BY <1>3 DEF Announces
  <2> QED BY <1>1, <1>2, <1>3, <2>1, Quiet
<1>4. ASSUME queue' = queue
      PROVE  \A c \in Channel : /\ Changes(c)' = Changes(c)
                                /\ \A i \in Changes(c) : queue'[c][i] = queue[c][i]
  BY <1>4 DEF Changes
<1>5. CASE Diffuse(t)
  <2>1. queue' = queue /\ pc'[t] = "visit" /\ Others(t)
    BY <1>1, <1>5 DEF Diffuse, data, Goto, TypeOK, Others
  <2> QED BY <1>3, <1>4, <2>1
<1>6. CASE DiffuseSkip(t)
  <2>1. queue' = queue /\ pc'[t] \in {"idle", "visit"} /\ Others(t)
    BY <1>1, <1>6 DEF DiffuseSkip, data, Goto, TypeOK, Others
  <2> QED BY <1>3, <1>4, <2>1
<1>7. CASE DiffuseLock(t)
  <2>1. queue' = queue /\ pc'[t] = "spread" /\ msg'[t].type = "ATTEND" /\ Others(t)
    BY <1>1, <1>7 DEF DiffuseLock, Goto, TypeOK, Others
  <2> QED BY <1>3, <1>4, <2>1 DEF Changed
<1>8. CASE Spread(t)
  <2>1. /\ msg' = msg /\ pc[t] = "spread" /\ PutUnscheduled(t)
        /\ pc'[t] \in {"idle", "visit", "spread"} /\ Others(t)
    BY <1>1, <1>8 DEF Spread, PutUnscheduled, Goto, TypeOK, Others
  <2>2. msg[t] \in Message /\ msg[t].type # Changed /\ Put(First(sends[t]), msg[t])
    BY <1>1, <2>1 DEF VoiceInv, Announces, TypeOK, PutUnscheduled
  <2>3. First(sends[t]) \in Channel
    BY <1>1, <2>1, FirstChannel DEF TypeInv, WalkInv, TypeOK
  <2>4. \A c \in Channel : /\ Changes(c)' = Changes(c)
                           /\ \A i \in Changes(c) : queue'[c][i] = queue[c][i]
    BY <1>1, <2>2, <2>3, PutOther
  <2> QED BY <1>3, <2>1, <2>2, <2>4
<1> QED BY <1>5, <1>6, <1>7, <1>8 DEF EcanStep

\* What is left of a program is of the program.
LEMMA TailExecutes ==
    ASSUME TypeOK, NEW w \in Workers, Executes(w), NEW op, At(w, op), Step(w)
    PROVE  /\ \A i \in DOMAIN vm'[w] : \E j \in DOMAIN Program[at[w]] :
                 vm'[w][i] = Program[at[w]][j]
           /\ \E j \in DOMAIN Program[at[w]] : Program[at[w]][j] = op
           /\ \A u \in Thread \ {w} : vm'[u] = vm[u]
<1>1. w \in Thread /\ vm[w] \in Seq(Opcodes) /\ vm[w] # <<>> /\ pc[w] = "vm" /\ Head(vm[w]) = op
  BY DEF TypeOK, At, Thread
<1>2. /\ vm'[w] = Tail(vm[w]) /\ \A u \in Thread \ {w} : vm'[u] = vm[u]
  BY <1>1 DEF TypeOK, Step
<1>3. /\ DOMAIN vm[w] = 1 .. Len(vm[w]) /\ Len(vm[w]) \in Nat \ {0} /\ vm[w][1] = op
      /\ DOMAIN Tail(vm[w]) = 1 .. Len(vm[w]) - 1
      /\ \A i \in 1 .. Len(vm[w]) - 1 : Tail(vm[w])[i] = vm[w][i + 1]
  BY <1>1
<1>4. \A i \in DOMAIN vm[w] : \E j \in DOMAIN Program[at[w]] : vm[w][i] = Program[at[w]][j]
  BY <1>1 DEF Executes
<1>5. \E j \in DOMAIN Program[at[w]] : Program[at[w]][j] = op
  BY <1>3, <1>4
<1>6. ASSUME NEW i \in DOMAIN vm'[w]
      PROVE  \E j \in DOMAIN Program[at[w]] : vm'[w][i] = Program[at[w]][j]
  <2>1. i \in 1 .. Len(vm[w]) - 1 /\ i + 1 \in DOMAIN vm[w] /\ vm'[w][i] = vm[w][i + 1]
    BY <1>2, <1>3
  <2> QED BY <1>4, <2>1
<1> QED BY <1>2, <1>5, <1>6

\* The virtual machine: bytecode sets no value that a client announces.
LEMMA VmHeard ==
    ASSUME OneVoice, HeardInv, NEW w \in Workers,
           \/ VmHalt(w) \/ VmSetTv(w) \/ VmSend(w) \/ VmEcanSpread(w)
           \/ VmSpread(w) \/ VmSpawn(w)
    PROVE  VoiceInv' /\ \A c \in Channel : Heard(c)'
<1>1. /\ TypeInv /\ TypeOK /\ VoiceInv /\ w \in Thread /\ w \notin Clients
      /\ Announces(w) /\ Executes(w) /\ at[w] \in Atom
  BY ThreadAssumption DEF HeardInv, TypeInv, VoiceInv, TypeOK, Thread
<1>2. heard' = heard /\ at' = at /\ drains' = drains /\ from' = from /\ pc[w] \in {"vm", "vmSpread"}
  BY DEF VmHalt, VmSetTv, VmSend, VmEcanSpread, VmSpread, VmSpawn, data, At
<1>3. ASSUME Others(w), pc'[w] \in {"idle", "drain", "vm", "vmSpread"},
             pc'[w] = "vmSpread" => msg'[w].type # Changed,
             \A i \in DOMAIN vm'[w] : \E j \in DOMAIN Program[at[w]] :
                vm'[w][i] = Program[at[w]][j],
             \A a \in Atom : tv'[a] = tv[a] \/ ~ Voiced(a),
             \A c \in Channel : /\ Changes(c)' = Changes(c)
                                /\ \A i \in Changes(c) : queue'[c][i] = queue[c][i]
      PROVE  VoiceInv' /\ \A c \in Channel : Heard(c)'
  <2>1. Announces(w)'
    BY <1>3 DEF Announces
  <2>2. Incoming(at[w])' = Incoming(at[w])
    BY <1>2 DEF Incoming
  <2>3. Executes(w)'
    BY <1>1, <1>2, <1>3, <2>2 DEF Executes
  <2> QED BY <1>1, <1>2, <1>3, <2>1, <2>3, Quiet
<1>4. ASSUME queue' = queue
      PROVE  \A c \in Channel : /\ Changes(c)' = Changes(c)
                                /\ \A i \in Changes(c) : queue'[c][i] = queue[c][i]
  BY <1>4 DEF Changes
<1>5. \A i \in DOMAIN vm[w] : \E j \in DOMAIN Program[at[w]] : vm[w][i] = Program[at[w]][j]
  BY <1>1, <1>2 DEF Executes
<1>6. CASE VmHalt(w)
  <2>1. queue' = queue /\ tv' = tv /\ vm' = vm /\ pc'[w] \in {"idle", "drain"} /\ Others(w)
    BY <1>1, <1>6 DEF VmHalt, Goto, TypeOK, Others
  <2> QED BY <1>3, <1>4, <1>5, <2>1
<1>7. CASE VmSetTv(w)
  <2>1. /\ queue' = queue /\ pc' = pc /\ sends' = sends /\ msg' = msg /\ pc[w] = "vm"
        /\ At(w, "SET_TV") /\ Step(w)
    BY <1>7 DEF VmSetTv, At
  <2>2. /\ \A i \in DOMAIN vm'[w] : \E j \in DOMAIN Program[at[w]] :
              vm'[w][i] = Program[at[w]][j]
        /\ \E j \in DOMAIN Program[at[w]] : Program[at[w]][j] = "SET_TV"
        /\ \A u \in Thread \ {w} : vm'[u] = vm[u]
    BY <1>1, <2>1, TailExecutes
  <2>3. ~ Voiced(at[w])
    BY <2>2 DEF Voiced, OneVoice
  <2>4. \A a \in Atom : tv'[a] = tv[a] \/ ~ Voiced(a)
    BY <1>1, <1>7, <2>3 DEF VmSetTv, TypeOK
  <2>5. Others(w)
    BY <1>2, <2>1, <2>2 DEF Others
  <2> QED BY <1>3, <1>4, <2>1, <2>2, <2>4, <2>5
<1>8. CASE VmSend(w)
  <2>1. /\ tv' = tv /\ pc' = pc /\ sends' = sends /\ msg' = msg /\ pc[w] = "vm"
        /\ At(w, "SEND") /\ Step(w)
    BY <1>8 DEF VmSend, At
  <2>2. /\ \A i \in DOMAIN vm'[w] : \E j \in DOMAIN Program[at[w]] :
              vm'[w][i] = Program[at[w]][j]
        /\ \A u \in Thread \ {w} : vm'[u] = vm[u]
    BY <1>1, <2>1, TailExecutes
  <2>3. Others(w)
    BY <1>2, <2>1, <2>2 DEF Others
  <2>4. \A c \in Channel : /\ Changes(c)' = Changes(c)
                           /\ \A i \in Changes(c) : queue'[c][i] = queue[c][i]
    <3>1. ASSUME NEW d \in Outgoing(at[w]), NEW v \in Tv,
                 Put(d, [type |-> "UPDATE_TV", tv |-> v]), NEW c \in Channel
          PROVE  /\ Changes(c)' = Changes(c)
                 /\ \A i \in Changes(c) : queue'[c][i] = queue[c][i]
      <4>1. /\ d \in Channel /\ [type |-> "UPDATE_TV", tv |-> v] \in Message
            /\ [type |-> "UPDATE_TV", tv |-> v].type # Changed
        BY DEF Outgoing, Message, Changed
      <4> QED BY <1>1, <3>1, <4>1, PutOther
    <3> QED BY <1>4, <1>8, <3>1 DEF VmSend
  <2> QED BY <1>3, <2>1, <2>2, <2>3, <2>4
<1>9. CASE VmEcanSpread(w)
  <2>1. /\ queue' = queue /\ tv' = tv /\ pc[w] = "vm" /\ At(w, "ECAN_SP") /\ Step(w)
    BY <1>9 DEF VmEcanSpread, At, data
  <2>2. /\ \A i \in DOMAIN vm'[w] : \E j \in DOMAIN Program[at[w]] :
              vm'[w][i] = Program[at[w]][j]
        /\ \A u \in Thread \ {w} : vm'[u] = vm[u]
    BY <1>1, <2>1, TailExecutes
  <2>3. /\ pc'[w] \in {"vm", "vmSpread"} /\ (pc'[w] = "vmSpread" => msg'[w].type # Changed)
        /\ \A u \in Thread \ {w} : pc'[u] = pc[u] /\ sends'[u] = sends[u] /\ msg'[u] = msg[u]
    BY <1>1, <1>9, <2>1 DEF VmEcanSpread, Goto, TypeOK, Changed
  <2>4. Others(w)
    BY <1>2, <2>2, <2>3 DEF Others
  <2> QED BY <1>3, <1>4, <2>1, <2>2, <2>3, <2>4
<1>10. CASE VmSpread(w)
  <2>1. /\ tv' = tv /\ msg' = msg /\ vm' = vm /\ pc[w] = "vmSpread" /\ PutUnscheduled(w)
        /\ pc'[w] \in {"vm", "vmSpread"} /\ Others(w)
    BY <1>1, <1>10 DEF VmSpread, PutUnscheduled, Goto, TypeOK, Others
  <2>2. msg[w] \in Message /\ msg[w].type # Changed /\ Put(First(sends[w]), msg[w])
    BY <1>1, <2>1 DEF Announces, TypeOK, PutUnscheduled
  <2>3. First(sends[w]) \in Channel
    BY <1>1, <2>1, FirstChannel DEF TypeInv, WalkInv, TypeOK
  <2>4. \A c \in Channel : /\ Changes(c)' = Changes(c)
                           /\ \A i \in Changes(c) : queue'[c][i] = queue[c][i]
    BY <1>1, <2>2, <2>3, PutOther
  <2> QED BY <1>3, <1>5, <2>1, <2>2, <2>4
<1>11. CASE VmSpawn(w)
  <2>1. /\ queue' = queue /\ tv' = tv /\ pc' = pc /\ sends' = sends /\ msg' = msg /\ pc[w] = "vm"
        /\ At(w, "SPAWN") /\ Step(w)
    BY <1>11 DEF VmSpawn, At, data
  <2>2. /\ \A i \in DOMAIN vm'[w] : \E j \in DOMAIN Program[at[w]] :
              vm'[w][i] = Program[at[w]][j]
        /\ \A u \in Thread \ {w} : vm'[u] = vm[u]
    BY <1>1, <2>1, TailExecutes
  <2>3. Others(w)
    BY <1>2, <2>1, <2>2 DEF Others
  <2> QED BY <1>3, <1>4, <2>1, <2>2, <2>3
<1> QED BY <1>6, <1>7, <1>8, <1>9, <1>10, <1>11

\* rq_pop.
LEMMA PopHeard ==
    ASSUME HeardInv, NEW w \in Workers, NEW a \in Atom, Pop(w, a)
    PROVE  VoiceInv' /\ \A c \in Channel : Heard(c)'
<1>1. /\ TypeInv /\ TypeOK /\ VoiceInv /\ w \in Thread /\ w \notin Clients
      /\ Announces(w) /\ Executes(w) /\ drains[w] = {}
  BY ThreadAssumption DEF HeardInv, TypeInv, VoiceInv, WalkInv, Pop, Thread
<1>2. /\ queue' = queue /\ heard' = heard /\ tv' = tv /\ sends' = sends /\ from' = from
      /\ msg' = msg /\ vm' = vm /\ pc[w] = "idle"
  BY DEF Pop
<1>3. /\ pc'[w] \in {"idle", "drain"}
      /\ \A u \in Thread \ {w} : pc'[u] = pc[u] /\ at'[u] = at[u] /\ drains'[u] = drains[u]
      /\ drains'[w] \subseteq Incoming(at'[w])
  BY <1>1, <1>2 DEF Pop, Goto, TypeOK
<1>4. Others(w)
  BY <1>2, <1>3 DEF Others
<1>5. Announces(w)' /\ Executes(w)'
  <2>1. Incoming(at[w])' = Incoming(at'[w])
    BY DEF Incoming
  <2> QED BY <1>3, <2>1 DEF Announces, Executes
<1>6. \A c \in Channel : Changes(c)' = Changes(c)
  BY <1>2 DEF Changes
<1> QED BY <1>1, <1>2, <1>3, <1>4, <1>5, <1>6, Quiet

\* worker_process_atom finds nothing.
LEMMA NothingHeard ==
    ASSUME HeardInv, NEW w \in Workers, Drain(w), UNCHANGED <<queue, msg, from>>, pc'[w] # "exec"
    PROVE  VoiceInv' /\ \A c \in Channel : Heard(c)'
<1>1. /\ TypeInv /\ TypeOK /\ VoiceInv /\ w \in Thread /\ w \notin Clients
      /\ Announces(w) /\ Executes(w)
  BY ThreadAssumption DEF HeardInv, TypeInv, VoiceInv, Thread
<1>2. /\ queue' = queue /\ heard' = heard /\ tv' = tv /\ sends' = sends /\ from' = from
      /\ msg' = msg /\ vm' = vm /\ at' = at /\ pc[w] = "drain"
  BY DEF Drain
<1>3. /\ pc'[w] \in {"idle", "drain"} /\ drains'[w] \subseteq drains[w] /\ Others(w)
  BY <1>1, <1>2 DEF Drain, Goto, TypeOK, Others
<1>4. Announces(w)' /\ Executes(w)'
  <2>1. Incoming(at[w])' = Incoming(at[w])
    BY <1>2 DEF Incoming
  <2> QED BY <1>1, <1>2, <1>3, <2>1 DEF Announces, Executes
<1>5. \A c \in Channel : Changes(c)' = Changes(c)
  BY <1>2 DEF Changes
<1> QED BY <1>1, <1>2, <1>3, <1>4, <1>5, Quiet

\* The channel whose oldest message is taken into the hand: the announcements that
\* stay are the ones they were, a place further on, and the one taken was the last if
\* none stays.
LEMMA TakenHeard ==
    ASSUME OneVoice, HeardInv, NEW w \in Workers, NEW c \in Channel, queue[c] # <<>>,
           pc[w] # "exec", pc'[w] = "exec", from'[w] = c, msg'[w] = Head(queue[c]),
           queue'[c] = Tail(queue[c]), tv' = tv, heard'[c] = heard[c],
           Coming(c) => Coming(c)'
    PROVE  Heard(c)'
<1>1. Heard(c) /\ queue[c] \in Seq(Message)
  BY DEF HeardInv, TypeInv, TypeOK
<1>2. InHand(c) = {}
  BY DEF InHand, OneVoice
<1>3. InHand(c)' = IF Head(queue[c]).type = Changed THEN {w} ELSE {}
  BY DEF InHand, OneVoice
<1>4. /\ DOMAIN queue[c] = 1 .. Len(queue[c]) /\ Len(queue[c]) \in Nat \ {0}
      /\ Head(queue[c]) = queue[c][1]
      /\ DOMAIN queue'[c] = 1 .. Len(queue[c]) - 1
      /\ \A i \in 1 .. Len(queue[c]) - 1 : queue'[c][i] = queue[c][i + 1]
  BY <1>1
<1>5. \A i \in Nat \ {0} : i \in Changes(c)' <=> i + 1 \in Changes(c)
  BY <1>4 DEF Changes
<1>6. /\ Changes(c) \subseteq Nat \ {0} /\ Changes(c)' \subseteq Nat \ {0}
      /\ 1 \in Changes(c) <=> Head(queue[c]).type = Changed
  BY <1>4 DEF Changes
<1>7. Unvoiced(c)'
  <2> SUFFICES ASSUME ~ Voiced(Src[c])
               PROVE  Changes(c)' = {} /\ InHand(c)' = {} /\ heard'[c] = NoTv
    BY DEF Unvoiced, Voiced
  <2>1. Changes(c) = {} /\ heard[c] = NoTv
    BY <1>1 DEF Heard, Unvoiced
  <2>2. Head(queue[c]).type # Changed
    BY <1>6, <2>1
  <2>3. Changes(c)' = {}
    BY <1>5, <1>6, <2>1
  <2> QED BY <1>3, <2>1, <2>2, <2>3
<1>8. LastIsCurrent(c)'
  <2> SUFFICES ASSUME ~ Coming(c)' PROVE
         /\ \A i \in Changes(c)' :
               (\A j \in Changes(c)' : j <= i) => queue'[c][i].tv = tv[Src[c]]
         /\ Changes(c)' = {} => \A u \in InHand(c)' : msg'[u].tv = tv[Src[c]]
         /\ Changes(c)' = {} /\ InHand(c)' = {} => heard'[c] \in {NoTv, tv[Src[c]]}
    BY DEF LastIsCurrent
  <2>1. /\ \A i \in Changes(c) : (\A j \in Changes(c) : j <= i) => queue[c][i].tv = tv[Src[c]]
        /\ Changes(c) = {} => heard[c] \in {NoTv, tv[Src[c]]}
    BY <1>1, <1>2 DEF Heard, LastIsCurrent
  <2>2. ASSUME NEW i \in Changes(c)', \A j \in Changes(c)' : j <= i
        PROVE  queue'[c][i].tv = tv[Src[c]]
    <3>1. i + 1 \in Changes(c) /\ queue'[c][i] = queue[c][i + 1]
      BY <1>4, <1>5, <1>6 DEF Changes
    <3>2. ASSUME NEW j \in Changes(c) PROVE j <= i + 1
      <4>1. CASE j = 1
        BY <1>6, <4>1
      <4>2. CASE j # 1
        <5>1. j - 1 \in Nat \ {0} /\ (j - 1) + 1 = j
          BY <1>6, <4>2
        <5>2. j - 1 \in Changes(c)'
          BY <1>5, <5>1
        <5> QED BY <1>6, <2>2, <5>1, <5>2
      <4> QED BY <4>1, <4>2
    <3> QED BY <2>1, <3>1, <3>2
  <2>3. ASSUME Changes(c)' = {} PROVE Changes(c) \subseteq {1}
    <3> SUFFICES ASSUME NEW j \in Changes(c), j # 1 PROVE FALSE
      OBVIOUS
    <3>1. j - 1 \in Nat \ {0} /\ (j - 1) + 1 = j
      BY <1>6
    <3> QED BY <1>5, <2>3, <3>1
  <2>4. ASSUME Changes(c)' = {}, NEW u \in InHand(c)' PROVE msg'[u].tv = tv[Src[c]]
    <3>1. u = w /\ 1 \in Changes(c)
      BY <1>3, <1>6, <2>4
    <3>2. \A j \in Changes(c) : j <= 1
      BY <2>3, <2>4
    <3> QED BY <1>4, <2>1, <3>1, <3>2
  <2>5. ASSUME Changes(c)' = {}, InHand(c)' = {} PROVE heard'[c] \in {NoTv, tv[Src[c]]}
    <3>1. Changes(c) = {}
      BY <1>3, <1>6, <2>3, <2>5
    <3> QED BY <2>1, <3>1
  <2> QED BY <2>2, <2>4, <2>5
<1> QED BY <1>7, <1>8 DEF Heard

\* worker_process_atom takes a message.
LEMMA TakeHeard ==
    ASSUME OneVoice, HeardInv, NEW w \in Workers, Drain(w), NEW d \in Channel,
           d = First(drains[w]), d \in drains[w], queue[d] # <<>>,
           msg' = [msg EXCEPT ![w] = Head(queue[d])], from' = [from EXCEPT ![w] = d],
           queue' = [queue EXCEPT ![d] = Tail(queue[d])], Goto(w, "exec")
    PROVE  VoiceInv' /\ \A c \in Channel : Heard(c)'
<1>1. /\ TypeInv /\ TypeOK /\ VoiceInv /\ w \in Thread /\ w \notin Clients
      /\ Announces(w) /\ Executes(w)
  BY ThreadAssumption DEF HeardInv, TypeInv, VoiceInv, Thread
<1>2. /\ heard' = heard /\ tv' = tv /\ sends' = sends /\ vm' = vm /\ at' = at /\ pc[w] = "drain"
      /\ drains' = [drains EXCEPT ![w] = drains[w] \ {d}]
  BY DEF Drain
<1>3. /\ pc'[w] = "exec" /\ from'[w] = d /\ msg'[w] = Head(queue[d])
      /\ drains'[w] \subseteq drains[w] /\ Others(w)
  BY <1>1, <1>2 DEF Goto, TypeOK, Others
<1>4. VoiceInv'
  <2>1. Announces(w)'
    BY <1>3 DEF Announces
  <2>2. Incoming(at[w])' = Incoming(at[w])
    BY <1>2 DEF Incoming
  <2>3. Dst[d] = at[w]
    BY <1>1 DEF Executes, Incoming
  <2>4. Executes(w)'
    BY <1>1, <1>2, <1>3, <2>2, <2>3 DEF Executes
  <2> QED BY <1>1, <1>2, <1>3, <2>1, <2>4, VoiceKept
<1>5. ASSUME NEW c \in Channel PROVE Coming(c) => Coming(c)'
  <2>1. \A t \in Clients : t \in Thread \ {w}
    BY <1>1 DEF Thread
  <2> QED BY <1>3, <2>1 DEF Coming, From, Others
<1>6. queue'[d] = Tail(queue[d]) /\ \A c \in Channel \ {d} : queue'[c] = queue[c]
  BY <1>1 DEF TypeOK
<1>7. Heard(d)'
  BY <1>2, <1>3, <1>5, <1>6, TakenHeard
<1>8. ASSUME NEW c \in Channel, c # d PROVE Heard(c)'
  <2>1. w \notin InHand(c) /\ (w \notin InHand(c))'
    BY <1>2, <1>3, <1>8 DEF InHand
  <2>2. InHand(c)' = InHand(c) /\ \A u \in InHand(c) : msg'[u] = msg[u]
    BY <1>1, <1>3, <2>1, Elsewhere
  <2>3. Changes(c)' = Changes(c) /\ queue'[c] = queue[c]
    BY <1>6, <1>8 DEF Changes
  <2>4. Heard(c)
    BY DEF HeardInv
  <2> QED BY <1>2, <1>5, <2>2, <2>3, <2>4, SameAnnouncements
<1> QED BY <1>4, <1>7, <1>8

\* elm_exec_msg: what was in hand is what is heard.
LEMMA ExecHeard ==
    ASSUME OneVoice, HeardInv, NEW w \in Workers, ExecMsg(w)
    PROVE  VoiceInv' /\ \A c \in Channel : Heard(c)'
<1>1. /\ TypeInv /\ TypeOK /\ VoiceInv /\ w \in Thread /\ w \notin Clients
      /\ Announces(w) /\ Executes(w) /\ from[w] \in Channel
  BY ThreadAssumption DEF HeardInv, TypeInv, VoiceInv, TypeOK, Thread
<1>2. /\ queue' = queue /\ tv' = tv /\ sends' = sends /\ at' = at /\ pc[w] = "exec"
      /\ drains' = drains /\ from' = from /\ msg' = msg
      /\ vm' = [vm EXCEPT ![w] = Program[at[w]]]
      /\ heard' = IF msg[w].type = Changed
                  THEN [heard EXCEPT ![from[w]] = msg[w].tv] ELSE heard
  BY DEF ExecMsg, Changed
<1>3. pc'[w] = "vm" /\ vm'[w] = Program[at[w]] /\ Others(w)
  BY <1>1, <1>2 DEF ExecMsg, Goto, TypeOK, Others
<1>4. VoiceInv'
  <2>1. Announces(w)'
    BY <1>3 DEF Announces
  <2>2. Incoming(at[w])' = Incoming(at[w])
    BY <1>2 DEF Incoming
  <2>3. Executes(w)'
    BY <1>1, <1>2, <1>3, <2>2 DEF Executes
  <2> QED BY <1>1, <1>2, <1>3, <2>1, <2>3, VoiceKept
<1>5. ASSUME NEW c \in Channel PROVE (Coming(c) => Coming(c)') /\ Changes(c)' = Changes(c)
  <2>1. \A t \in Clients : t \in Thread \ {w}
    BY <1>1 DEF Thread
  <2> QED BY <1>2, <1>3, <2>1 DEF Coming, From, Others, Changes
<1>6. ASSUME NEW c \in Channel, from[w] = c, msg[w].type = Changed PROVE Heard(c)'
  <2>1. InHand(c) = {w} /\ InHand(c)' = {} /\ heard'[c] = msg[w].tv
    BY <1>1, <1>2, <1>3, <1>6 DEF InHand, OneVoice, TypeOK
  <2>2. Heard(c)
    BY DEF HeardInv
  <2>3. Unvoiced(c)'
    BY <2>1, <2>2 DEF Heard, Unvoiced, Voiced
  <2>4. LastIsCurrent(c)'
    <3> SUFFICES ASSUME ~ Coming(c)' PROVE
         /\ \A i \in Changes(c) : (\A j \in Changes(c) : j <= i) => queue[c][i].tv = tv[Src[c]]
         /\ Changes(c) = {} => heard'[c] \in {NoTv, tv[Src[c]]}
      BY <1>2, <1>5, <2>1 DEF LastIsCurrent
    <3> QED BY <1>5, <2>1, <2>2 DEF Heard, LastIsCurrent
  <2> QED BY <2>3, <2>4 DEF Heard
<1>7. ASSUME NEW c \in Channel, from[w] # c \/ msg[w].type # Changed PROVE Heard(c)'
  <2>1. w \notin InHand(c) /\ (w \notin InHand(c))'
    BY <1>2, <1>3, <1>7 DEF InHand
  <2>2. InHand(c)' = InHand(c) /\ \A u \in InHand(c) : msg'[u] = msg[u]
    BY <1>1, <1>3, <2>1, Elsewhere
  <2>3. heard'[c] = heard[c]
    BY <1>1, <1>2, <1>7 DEF TypeOK
  <2>4. Heard(c)
    BY DEF HeardInv
  <2> QED BY <1>2, <1>5, <2>2, <2>3, <2>4, SameAnnouncements
<1> QED BY <1>4, <1>6, <1>7

\* Every step keeps what is heard.
LEMMA StepHeard == OneVoice /\ HeardInv /\ [Next]_vars => HeardInv'
<1> SUFFICES ASSUME OneVoice, HeardInv, [Next]_vars
             PROVE  VoiceInv' /\ \A c \in Channel : Heard(c)'
  BY StepTypeOK, StepWalk DEF HeardInv, TypeInv
<1>1. ASSUME NEW w \in Workers, Drain(w) PROVE VoiceInv' /\ \A c \in Channel : Heard(c)'
  <2>1. CASE UNCHANGED <<queue, msg, from>> /\ pc'[w] # "exec"
    BY <1>1, <2>1, NothingHeard
  <2>2. CASE ~ (UNCHANGED <<queue, msg, from>> /\ pc'[w] # "exec")
    <3>1. TypeOK /\ w \in Thread /\ drains[w] # {} /\ drains[w] \subseteq Channel
      BY <1>1 DEF HeardInv, TypeInv, WalkInv, TypeOK, Drain, Thread
    <3>2. PICK d \in Channel : d = First(drains[w]) /\ d \in drains[w]
      BY <3>1, FirstChannel
    <3>3. /\ queue[d] # <<>>
          /\ msg' = [msg EXCEPT ![w] = Head(queue[d])] /\ from' = [from EXCEPT ![w] = d]
          /\ queue' = [queue EXCEPT ![d] = Tail(queue[d])] /\ Goto(w, "exec")
      <4>1. ASSUME Goto(w, IF drains[w] = {d} THEN "idle" ELSE "drain") PROVE pc'[w] # "exec"
        BY <3>1, <4>1 DEF Goto, TypeOK
      <4> QED BY <1>1, <2>2, <3>2, <4>1 DEF Drain
    <3> QED BY <1>1, <3>2, <3>3, TakeHeard
  <2> QED BY <2>1, <2>2
<1>2. ASSUME UNCHANGED vars PROVE VoiceInv' /\ \A c \in Channel : Heard(c)'
  <2>1. /\ queue' = queue /\ tv' = tv /\ pc' = pc /\ at' = at /\ sends' = sends
        /\ drains' = drains /\ from' = from /\ msg' = msg /\ vm' = vm /\ heard' = heard
    BY <1>2 DEF vars, data, locals
  <2>2. VoiceInv'
    BY <2>1 DEF HeardInv, VoiceInv, Announces, Executes, Outgoing, Incoming
  <2>3. ASSUME NEW c \in Channel PROVE Heard(c)'
    BY <2>1 DEF HeardInv, Heard, Unvoiced, LastIsCurrent, Voiced, Coming, From, Changes, InHand
  <2> QED BY <2>2, <2>3
<1> QED BY <1>1, <1>2, SetTvHeard, SendHeard, ClientHeard, EcanHeard, VmHeard, PopHeard, ExecHeard
        DEF Next, ClientStep, WorkerStep

\* With one worker, and atoms that only one client sets and no bytecode, an atom that
\* nothing is under way to has heard each of its sources' present values last,
\* whatever the graph, the capacities, and what the threads do between two steps.
THEOREM HeardStaysCurrent == ASSUME OneVoice PROVE Spec => []HeardIsCurrent
<1>1. Init => HeardInv
  BY InitHeard
<1>2. HeardInv /\ [Next]_vars => HeardInv'
  BY StepHeard
<1>3. HeardInv => HeardIsCurrent
  BY HeardFollows
<1> QED BY <1>1, <1>2, <1>3, PTL DEF Spec
=============================================================================
