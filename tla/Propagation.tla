---------------------------- MODULE Propagation ----------------------------
(***************************************************************************)
(* How a message gets from the call that sends it to the bytecode of the   *)
(* atom at the other end: cogdiod_set_tv, cogdiod_ecan_diffuse and the     *)
(* workers of src/kernel/cogdiod_kernel.c, distyx_handle_infer of          *)
(* src/p9/distyx.c, elm_exec_msg and the opcodes of src/elbo/elm_loader.c  *)
(* that reach outside the virtual machine.                                 *)
(*                                                                         *)
(* A worker does not look at a channel by itself: it takes at most one     *)
(* message from each incoming channel of an atom each time it pops the     *)
(* atom from the run queue.  An entry of the run queue is a ticket for one *)
(* message of each of the atom's channels.  cogdiod_set_tv buys a ticket   *)
(* with each message; cogdiod_ecan_diffuse, distyx_handle_infer, OP_SEND   *)
(* and OP_ECAN_SP do not.                                                  *)
(*                                                                         *)
(* Channels are the bounded queues of BoundedFifo (LimboChannel is their   *)
(* implementation, correct while one thread at a time waits for room), the *)
(* run queue is a bag (RunQueue), the graph does not change (Topology).    *)
(* Channels are numbered from the newest to the oldest, the order of the   *)
(* lists cogdiod_link makes.  a->lock is held from one action to another   *)
(* only by bytecode and by the diffusion; pool_lock only by the diffusion, *)
(* which reads, so that only OP_SPAWN, which writes, can wait for it.      *)
(*                                                                         *)
(* A definition named like another with a suffix (EnqueueOnce...) is a     *)
(* faulty variant of it that no action uses: the properties are shown to   *)
(* tell the two apart.                                                     *)
(***************************************************************************)
EXTENDS Naturals, Sequences, FiniteSets

CONSTANTS
    Atom,       \* uuids of the atoms, in the order the pool is walked
    Channel,    \* the channels
    Src, Dst,   \* the atoms at their ends
    Capacity,   \* messages a channel holds, CHANNEL_BUF_MAX - 1
    Tv,         \* truth values
    NoTv,       \* the truth value of a message without one, of none heard yet
    NoThread,   \* a->lock is free
    Clients,    \* threads that call cogdiod_set_tv and distyx_handle_infer
    Workers,    \* worker threads
    Ecan,       \* the ECAN thread, if it is enabled
    Sets,       \* Sets[t]: the atoms whose truth value client t sets
    Infers,     \* Infers[t]: the atoms on which client t asks for inference
    Program,    \* Program[a]: what a's on-message bytecode does outside the VM
    MaxCalls    \* bound on the calls that clients and the ECAN thread make

Opcodes == {"SET_TV", "SEND", "ECAN_SP", "SPAWN"}
Thread == Clients \cup Workers \cup Ecan

ASSUME GraphAssumption ==
    /\ Atom \subseteq Nat /\ Atom # {}
    /\ Channel \subseteq Nat /\ Channel # {}
    /\ Src \in [Channel -> Atom] /\ Dst \in [Channel -> Atom]
ASSUME CapacityAssumption == Capacity \in Nat \ {0} /\ MaxCalls \in Nat
ASSUME TvAssumption == NoTv \notin Tv
ASSUME ThreadAssumption ==
    /\ NoThread \notin Thread
    /\ IsFiniteSet(Clients) /\ IsFiniteSet(Workers)
    /\ Clients \cap Workers = {} /\ Clients \cap Ecan = {} /\ Workers \cap Ecan = {}
    /\ Sets \in [Clients -> SUBSET Atom] /\ Infers \in [Clients -> SUBSET Atom]
ASSUME ProgramAssumption == Program \in [Atom -> Seq(Opcodes)]

VARIABLES
    queue,      \* queue[c]: the messages in the channel, oldest first
    tv,         \* a->tv
    state,      \* a->state
    owner,      \* the thread that holds a->lock
    ready,      \* ready[a]: how many times a is in the run queue
    pc,         \* control of each thread
    at,         \* the atom each thread works on
    sends,      \* the outgoing channels it has yet to send msg to
    drains,     \* the incoming channels a worker has yet to look at
    from,       \* the channel a worker took msg from
    msg,        \* the message in hand
    vm,         \* the opcodes a worker has yet to execute
    visits,     \* the atoms the ECAN thread has yet to visit
    calls,      \* calls made so far
    heard,      \* heard[c]: the last truth value from c that Dst[c] executed
    owed        \* owed[c]: messages ever sent on c without a ticket

data == <<queue, tv, state, owner, ready, heard, owed>>
locals == <<pc, at, sends, drains, from, msg, vm, visits, calls>>
vars == <<data, locals>>

Message == [type : {"SOURCE_CHANGED", "INFER", "ATTEND", "UPDATE_TV"},
            tv : Tv \cup {NoTv}]
NoMessage == [type |-> "ATTEND", tv |-> NoTv]
Controls == {"idle", "send", "wake", "enqueue", "broadcast", "visit", "spread",
             "drain", "exec", "vm", "vmSpread"}

TypeOK ==
    /\ queue \in [Channel -> Seq(Message)]
    /\ \A c \in Channel : Len(queue[c]) <= Capacity
    /\ tv \in [Atom -> Tv]
    /\ state \in [Atom -> {"ALIVE", "SLEEPING"}]
    /\ owner \in [Atom -> Thread \cup {NoThread}]
    /\ ready \in [Atom -> Nat]
    /\ pc \in [Thread -> Controls]
    /\ at \in [Thread -> Atom]
    /\ sends \in [Thread -> SUBSET Channel]
    /\ drains \in [Thread -> SUBSET Channel]
    /\ from \in [Thread -> Channel]
    /\ msg \in [Thread -> Message]
    /\ vm \in [Thread -> Seq(Opcodes)]
    /\ visits \in [Thread -> SUBSET Atom]
    /\ calls \in 0 .. MaxCalls
    /\ heard \in [Channel -> Tv \cup {NoTv}]
    /\ owed \in [Channel -> Nat]

\* Atoms just spawned and linked, kernel started.
Init ==
    /\ queue = [c \in Channel |-> <<>>]
    /\ tv \in [Atom -> Tv] /\ \A a, b \in Atom : tv[a] = tv[b]
    /\ state = [a \in Atom |-> "SLEEPING"]
    /\ owner = [a \in Atom |-> NoThread]
    /\ ready = [a \in Atom |-> 0]
    /\ pc = [t \in Thread |-> "idle"]
    /\ at = [t \in Thread |-> CHOOSE a \in Atom : TRUE]
    /\ sends = [t \in Thread |-> {}]
    /\ drains = [t \in Thread |-> {}]
    /\ from = [t \in Thread |-> CHOOSE c \in Channel : TRUE]
    /\ msg = [t \in Thread |-> NoMessage]
    /\ vm = [t \in Thread |-> <<>>]
    /\ visits = [t \in Thread |-> {}]
    /\ calls = 0
    /\ heard = [c \in Channel |-> NoTv]
    /\ owed = [c \in Channel |-> 0]

-----------------------------------------------------------------------------
Outgoing(a) == {c \in Channel : Src[c] = a}
Incoming(a) == {c \in Channel : Dst[c] = a}

\* What a walk comes to next, of what it has left.
First(S) == CHOOSE x \in S : \A y \in S : x <= y

Goto(t, control) == pc' = [pc EXCEPT ![t] = control]

Call == calls < MaxCalls /\ calls' = calls + 1

PutAlways(c, m) == queue' = [queue EXCEPT ![c] = Append(@, m)]

\* cogdiod_send: disabled while the channel is full.
Put(c, m) ==
    /\ Len(queue[c]) < Capacity
    /\ queue' = [queue EXCEPT ![c] = Append(@, m)]

\* A message without a ticket: the next channel of the walk gets it.
PutUnscheduled(t) ==
    LET c == First(sends[t]) IN
    /\ Put(c, msg[t])
    /\ owed' = [owed EXCEPT ![c] = @ + 1]
    /\ sends' = [sends EXCEPT ![t] = @ \ {c}]

-----------------------------------------------------------------------------
(* cogdiod_set_tv. *)

SetTvSendsOld(t, a, v) ==
    /\ pc[t] = "idle" /\ a \in Sets[t] /\ Call
    /\ owner[a] = NoThread
    /\ at' = [at EXCEPT ![t] = a]
    /\ tv' = [tv EXCEPT ![a] = v]
    /\ sends' = [sends EXCEPT ![t] = Outgoing(a)]
    /\ msg' = [msg EXCEPT ![t] = [type |-> "SOURCE_CHANGED", tv |-> tv[a]]]
    /\ Goto(t, IF Outgoing(a) = {} THEN "idle" ELSE "send")
    /\ UNCHANGED <<queue, state, owner, ready, heard, owed, drains, from, vm, visits>>

\* The new value is stored under a->lock, which is released before the walk of
\* the outgoing list.
SetTv(t, a, v) ==
    /\ pc[t] = "idle" /\ a \in Sets[t] /\ Call
    /\ owner[a] = NoThread
    /\ at' = [at EXCEPT ![t] = a]
    /\ tv' = [tv EXCEPT ![a] = v]
    /\ sends' = [sends EXCEPT ![t] = Outgoing(a)]
    /\ msg' = [msg EXCEPT ![t] = [type |-> "SOURCE_CHANGED", tv |-> v]]
    /\ Goto(t, IF Outgoing(a) = {} THEN "idle" ELSE "send")
    /\ UNCHANGED <<queue, state, owner, ready, heard, owed, drains, from, vm, visits>>

Send(t) ==
    /\ pc[t] = "send"
    /\ Put(First(sends[t]), msg[t])
    /\ Goto(t, "wake")
    /\ UNCHANGED <<tv, state, owner, ready, heard, owed, at, sends, drains, from,
                   msg, vm, visits, calls>>

\* dst->state = ATOM_ALIVE, with no lock.
Wake(t) ==
    /\ pc[t] = "wake"
    /\ state' = [state EXCEPT ![Dst[First(sends[t])]] = "ALIVE"]
    /\ Goto(t, "enqueue")
    /\ UNCHANGED <<queue, tv, owner, ready, heard, owed, at, sends, drains, from,
                   msg, vm, visits, calls>>

EnqueueOnce(t) ==
    LET c == First(sends[t]) IN
    /\ pc[t] = "enqueue"
    /\ ready' = [ready EXCEPT ![Dst[c]] = IF @ = 0 THEN 1 ELSE @]
    /\ sends' = [sends EXCEPT ![t] = @ \ {c}]
    /\ Goto(t, IF sends[t] = {c} THEN "idle" ELSE "send")
    /\ UNCHANGED <<queue, tv, state, owner, heard, owed, at, drains, from, msg, vm,
                   visits, calls>>

\* cogdiod_enqueue(dst): an entry more, also when dst is in the run queue.
Enqueue(t) ==
    LET c == First(sends[t]) IN
    /\ pc[t] = "enqueue"
    /\ ready' = [ready EXCEPT ![Dst[c]] = @ + 1]
    /\ sends' = [sends EXCEPT ![t] = @ \ {c}]
    /\ Goto(t, IF sends[t] = {c} THEN "idle" ELSE "send")
    /\ UNCHANGED <<queue, tv, state, owner, heard, owed, at, drains, from, msg, vm,
                   visits, calls>>

-----------------------------------------------------------------------------
(* distyx_handle_infer. *)

Infer(t, a) ==
    /\ pc[t] = "idle" /\ a \in Infers[t] /\ Call
    /\ Outgoing(a) # {}
    /\ at' = [at EXCEPT ![t] = a]
    /\ sends' = [sends EXCEPT ![t] = Outgoing(a)]
    /\ msg' = [msg EXCEPT ![t] = [type |-> "INFER", tv |-> NoTv]]
    /\ Goto(t, "broadcast")
    /\ UNCHANGED <<data, drains, from, vm, visits>>

Broadcast(t) ==
    /\ pc[t] = "broadcast"
    /\ PutUnscheduled(t)
    /\ Goto(t, IF sends'[t] = {} THEN "idle" ELSE "broadcast")
    /\ UNCHANGED <<tv, state, owner, ready, heard, at, drains, from, msg, vm, visits,
                   calls>>

-----------------------------------------------------------------------------
(* cogdiod_ecan_diffuse: pool_lock is held for reading over the whole walk. *)

Diffuse(e) ==
    /\ pc[e] = "idle" /\ Call
    /\ visits' = [visits EXCEPT ![e] = Atom]
    /\ Goto(e, "visit")
    /\ UNCHANGED <<data, at, sends, drains, from, msg, vm>>

\* The atom's STI is at most 1, or it has no channel.
DiffuseSkip(e) ==
    LET a == First(visits[e]) IN
    /\ pc[e] = "visit"
    /\ owner[a] = NoThread
    /\ visits' = [visits EXCEPT ![e] = @ \ {a}]
    /\ Goto(e, IF visits[e] = {a} THEN "idle" ELSE "visit")
    /\ UNCHANGED <<data, at, sends, drains, from, msg, vm, calls>>

\* It is above, and stays locked until all channels have the message.
DiffuseLock(e) ==
    LET a == First(visits[e]) IN
    /\ pc[e] = "visit"
    /\ owner[a] = NoThread
    /\ Outgoing(a) # {}
    /\ owner' = [owner EXCEPT ![a] = e]
    /\ at' = [at EXCEPT ![e] = a]
    /\ sends' = [sends EXCEPT ![e] = Outgoing(a)]
    /\ msg' = [msg EXCEPT ![e] = [type |-> "ATTEND", tv |-> NoTv]]
    /\ Goto(e, "spread")
    /\ UNCHANGED <<queue, tv, state, ready, heard, owed, drains, from, vm, visits,
                   calls>>

SpreadKeepsLock(e) ==
    /\ pc[e] = "spread"
    /\ PutUnscheduled(e)
    /\ IF sends'[e] # {}
       THEN UNCHANGED <<owner, visits, pc>>
       ELSE /\ visits' = [visits EXCEPT ![e] = @ \ {at[e]}]
            /\ Goto(e, IF visits'[e] = {} THEN "idle" ELSE "visit")
            /\ UNCHANGED owner
    /\ UNCHANGED <<tv, state, ready, heard, at, drains, from, msg, vm, calls>>

Spread(e) ==
    /\ pc[e] = "spread"
    /\ PutUnscheduled(e)
    /\ IF sends'[e] # {}
       THEN UNCHANGED <<owner, visits, pc>>
       ELSE /\ visits' = [visits EXCEPT ![e] = @ \ {at[e]}]
            /\ owner' = [owner EXCEPT ![at[e]] = NoThread]
            /\ Goto(e, IF visits'[e] = {} THEN "idle" ELSE "visit")
    /\ UNCHANGED <<tv, state, ready, heard, at, drains, from, msg, vm, calls>>

-----------------------------------------------------------------------------
(* Workers. *)

\* rq_pop; an atom that is not alive is let go.
Pop(w, a) ==
    /\ pc[w] = "idle" /\ ready[a] > 0
    /\ ready' = [ready EXCEPT ![a] = @ - 1]
    /\ IF state[a] = "ALIVE" /\ Incoming(a) # {}
       THEN /\ at' = [at EXCEPT ![w] = a]
            /\ drains' = [drains EXCEPT ![w] = Incoming(a)]
            /\ Goto(w, "drain")
       ELSE UNCHANGED <<at, drains, pc>>
    /\ UNCHANGED <<queue, tv, state, owner, heard, owed, sends, from, msg, vm, visits,
                   calls>>

\* worker_process_atom: one channel, under its lock.
Drain(w) ==
    LET c == First(drains[w]) IN
    /\ pc[w] = "drain"
    /\ drains' = [drains EXCEPT ![w] = @ \ {c}]
    /\ \/ /\ queue[c] = <<>>
          /\ Goto(w, IF drains[w] = {c} THEN "idle" ELSE "drain")
          /\ UNCHANGED <<queue, msg, from>>
       \/ /\ queue[c] # <<>>
          /\ msg' = [msg EXCEPT ![w] = Head(queue[c])]
          /\ from' = [from EXCEPT ![w] = c]
          /\ queue' = [queue EXCEPT ![c] = Tail(@)]
          /\ Goto(w, "exec")
    /\ UNCHANGED <<tv, state, owner, ready, heard, owed, at, sends, vm, visits, calls>>

\* elm_exec_msg: the atom is locked, the message goes to regs[8..11].
ExecMsg(w) ==
    /\ pc[w] = "exec"
    /\ owner[at[w]] = NoThread
    /\ owner' = [owner EXCEPT ![at[w]] = w]
    /\ vm' = [vm EXCEPT ![w] = Program[at[w]]]
    /\ heard' = IF msg[w].type = "SOURCE_CHANGED"
                THEN [heard EXCEPT ![from[w]] = msg[w].tv] ELSE heard
    /\ Goto(w, "vm")
    /\ UNCHANGED <<queue, tv, state, ready, owed, at, sends, drains, from, msg, visits,
                   calls>>

At(w, op) == pc[w] = "vm" /\ vm[w] # <<>> /\ Head(vm[w]) = op

Step(w) == vm' = [vm EXCEPT ![w] = Tail(@)]

\* OP_SET_TV: self->tv is assigned, nobody is told.
VmSetTv(w) ==
    /\ At(w, "SET_TV") /\ Step(w)
    /\ \E v \in Tv : tv' = [tv EXCEPT ![at[w]] = v]
    /\ UNCHANGED <<queue, state, owner, ready, heard, owed, pc, at, sends, drains, from,
                   msg, visits, calls>>

\* OP_SEND: on the outgoing channel whose index is in regs[0], if there is one.
VmSend(w) ==
    /\ At(w, "SEND") /\ Step(w)
    /\ \/ UNCHANGED <<queue, owed>>
       \/ \E c \in Outgoing(at[w]), v \in Tv :
             /\ Put(c, [type |-> "UPDATE_TV", tv |-> v])
             /\ owed' = [owed EXCEPT ![c] = @ + 1]
    /\ UNCHANGED <<tv, state, owner, ready, heard, pc, at, sends, drains, from, msg,
                   visits, calls>>

\* OP_ECAN_SP: half of the STI, to all outgoing channels.
VmEcanSpread(w) ==
    /\ At(w, "ECAN_SP") /\ Step(w)
    /\ IF Outgoing(at[w]) = {} THEN UNCHANGED <<pc, sends, msg>>
       ELSE /\ sends' = [sends EXCEPT ![w] = Outgoing(at[w])]
            /\ msg' = [msg EXCEPT ![w] = [type |-> "ATTEND", tv |-> NoTv]]
            /\ Goto(w, "vmSpread")
    /\ UNCHANGED <<data, at, drains, from, visits, calls>>

VmSpread(w) ==
    /\ pc[w] = "vmSpread"
    /\ PutUnscheduled(w)
    /\ Goto(w, IF sends'[w] = {} THEN "vm" ELSE "vmSpread")
    /\ UNCHANGED <<tv, state, owner, ready, heard, at, drains, from, msg, vm, visits,
                   calls>>

\* OP_SPAWN: cogdiod_spawn takes pool_lock for writing.
VmSpawn(w) ==
    /\ At(w, "SPAWN") /\ Step(w)
    /\ \A e \in Ecan : pc[e] = "idle"
    /\ UNCHANGED <<data, pc, at, sends, drains, from, msg, visits, calls>>

VmHaltKeepsLock(w) ==
    /\ pc[w] = "vm" /\ vm[w] = <<>>
    /\ Goto(w, IF drains[w] = {} THEN "idle" ELSE "drain")
    /\ UNCHANGED <<queue, tv, state, owner, ready, heard, owed, at, sends, drains, from,
                   msg, vm, visits, calls>>

\* OP_HALT: unlock, and on to the next channel.
VmHalt(w) ==
    /\ pc[w] = "vm" /\ vm[w] = <<>>
    /\ owner' = [owner EXCEPT ![at[w]] = NoThread]
    /\ Goto(w, IF drains[w] = {} THEN "idle" ELSE "drain")
    /\ UNCHANGED <<queue, tv, state, ready, heard, owed, at, sends, drains, from, msg,
                   vm, visits, calls>>

-----------------------------------------------------------------------------
ClientStep(t) == Send(t) \/ Wake(t) \/ Enqueue(t) \/ Broadcast(t)
EcanStep(e) == DiffuseSkip(e) \/ DiffuseLock(e) \/ Spread(e)
WorkerStep(w) ==
    \/ \E a \in Atom : Pop(w, a)
    \/ Drain(w) \/ ExecMsg(w) \/ VmHalt(w)
    \/ VmSetTv(w) \/ VmSend(w) \/ VmEcanSpread(w) \/ VmSpread(w) \/ VmSpawn(w)

Next ==
    \/ \E t \in Clients : \/ \E a \in Atom, v \in Tv : SetTv(t, a, v)
                          \/ \E a \in Atom : Infer(t, a)
                          \/ ClientStep(t)
    \/ \E e \in Ecan : Diffuse(e) \/ EcanStep(e)
    \/ \E w \in Workers : WorkerStep(w)

Spec == Init /\ [][Next]_vars

\* Threads keep running: a call that has been made goes on, a worker looks at
\* the run queue.  A mutex wanted by one of finitely many calls is acquired.
Fairness ==
    /\ \A t \in Clients : WF_vars(ClientStep(t))
    /\ \A e \in Ecan : WF_vars(EcanStep(e))
    /\ \A w \in Workers : WF_vars(WorkerStep(w))

FairSpec == Spec /\ Fairness

-----------------------------------------------------------------------------
\* The workers on their way to look at c, and the clients that have put a
\* message into c and not yet queued its target.
OnTheWay(c) == {w \in Workers : c \in drains[w]}
Buying(c) == {t \in Clients : pc[t] \in {"wake", "enqueue"} /\ First(sends[t]) = c}

\* No message of cogdiod_set_tv is stranded: apart from the messages sent
\* without cogdiod_enqueue, each message in a channel has an entry of its
\* target in the run queue, a worker about to look at the channel, or a client
\* about to queue the target.
EveryMessageHasATicket ==
    \A c \in Channel :
        Len(queue[c]) <= ready[Dst[c]] + Cardinality(OnTheWay(c))
                           + Cardinality(Buying(c)) + owed[c]

\* Every message is taken out of its channel to be executed ("Enqueue
\* downstream atom to process the message", cogdiod_kernel.c:682).
MessagesAreTaken == \A c \in Channel : queue[c] # <<>> ~> queue[c] = <<>>

\* cogdiod_set_tv and distyx_handle_infer return, though they wait for room in
\* a full channel and for the lock of an atom whose bytecode runs.
CallsReturn == \A t \in Clients : pc[t] # "idle" ~> pc[t] = "idle"

\* What keeps the messages of an atom in order: one worker, which executes them as
\* it takes them; and of an atom that a client sets, that nobody else sets it,
\* neither another client nor its own bytecode.
OneVoice ==
    /\ \A w, u \in Workers : w = u
    /\ \A t \in Clients : \A a \in Sets[t] :
          /\ \A u \in Clients \ {t} : a \notin Sets[u]
          /\ \A i \in DOMAIN Program[a] : Program[a][i] # "SET_TV"

\* Once nothing is under way between the two atoms of a channel, the target
\* has executed the source's present truth value last, and no older one: the
\* unlocking between tv and the sends, and between taking a message and
\* executing it, does not let an old value overtake a new one.
AtRest(c) ==
    /\ queue[c] = <<>>
    /\ \A t \in Clients : pc[t] = "idle" \/ at[t] # Src[c]
    /\ \A w \in Workers : pc[w] = "idle" \/ at[w] \notin {Src[c], Dst[c]}

HeardIsCurrent ==
    \A c \in Channel : AtRest(c) /\ heard[c] # NoTv => heard[c] = tv[Src[c]]

\* "Triggers an inference cycle on a Link isolate"
\* (docs/CogDiod_Formal_Specification.md:89): the MSG_INFER that is in a
\* channel is taken out to be executed.
InferIsRun ==
    \A c \in Channel :
        (\E i \in DOMAIN queue[c] : queue[c][i].type = "INFER")
            ~> ~ \E i \in DOMAIN queue[c] : queue[c][i].type = "INFER"

\* "Enqueue downstream atom to process the message" (cogdiod_kernel.c:682): a
\* MSG_SOURCE_CHANGED in a channel is taken out to be executed.
ChangeIsRun ==
    \A c \in Channel :
        (\E i \in DOMAIN queue[c] : queue[c][i].type = "SOURCE_CHANGED")
            ~> ~ \E i \in DOMAIN queue[c] : queue[c][i].type = "SOURCE_CHANGED"

\* "Run one diffuse cycle" (tests/test_ecan.c:81): cogdiod_ecan_diffuse returns.
DiffuseReturns == \A e \in Ecan : pc[e] # "idle" ~> pc[e] = "idle"
=============================================================================
