-------------------------------- MODULE DisVM --------------------------------
(***************************************************************************)
(* One atom's Dis VM: disvm_step and its two entry points elm_exec_init    *)
(* and elm_exec_msg (src/src/elbo/elm_loader.c), run on the bytecode of a  *)
(* package.  One action per group of opcodes, one step per instruction;    *)
(* the atom's lock is held from the entry to the halt, so that other       *)
(* threads (SetTv, Attend) act on the atom only between two handlers.      *)
(*                                                                         *)
(* Registers are words of two halves, Half standing for 2^32: a float      *)
(* opcode copies 4 bytes and so changes the low half only.  A float is a   *)
(* small number v, whose bits are 0 for 0.0, lie above every address and   *)
(* channel index otherwise, and have the sign bit, the highest, when v is  *)
(* negative (denormals count as 0.0).  The result of a PLN formula is the  *)
(* one value Derived.  A jump's operand is read whole, a target of 2^16 or *)
(* more counting as 2^16, which is outside any code.  The stack is the     *)
(* part of the stack array below sp, in words of 8 bytes; the part above   *)
(* is never read.                                                          *)
(*                                                                         *)
(* A handler can wait in three opcodes, its atom's lock held: OP_SEND and  *)
(* OP_ECAN_SP for room on an outgoing channel (cogdiod_send), OP_SPAWN for *)
(* pool_lock.  A channel is the number of messages on it, to which others  *)
(* add and from which its target's worker takes; the wait for not_full     *)
(* itself is in LimboChannel, what an amount sent by OP_ECAN_SP comes to   *)
(* in StiLedger.  The outgoing list stays as it is (Topology changes it).  *)
(***************************************************************************)
EXTENDS Integers, Sequences, ElmPackages

CONSTANTS
    Packages,       \* the packages an atom may be of: those of src/packages/
    Half,           \* stands for 2^32
    FloatBase,      \* the bits of the float v > 0 are FloatBase + v
    SignBit,        \* the least bits of a negative float
    Derived,        \* the float every PLN formula returns
    StackSize,      \* package->stack_size, or DISVM_STKMAX: the stack in bytes
    HeapSize,       \* ctx->heap_size
    TruthValues,    \* truth values others give the atom: <<strength, confidence>>
    Senders,        \* uuids of the atoms that send to this one
    MaxChannels,    \* bound on the outgoing channels
    ChannelSize,    \* the messages a channel holds: CHANNEL_BUF_MAX - 1
    MaxQueued,      \* bound on the messages waiting on the incoming channel
    MaxMessages,    \* bound on the messages ever sent to the atom
    MaxUuid,        \* bound on the uuids OP_SPAWN hands out
    Gifts,          \* the amounts of attention given to the atom, of any sign
    MaxSti,         \* bound on what attention makes of the atom's STI, and
                    \* -MaxSti its lower bound
    Preloads        \* truth values a program embedding the VM puts in regs[2..3]
                    \* (tests/test_elm_loader.c does; the kernel does not: {})

Word == Half * Half
Float == (SignBit - Half)..(SignBit - FloatBase - 1)

Package == [name : STRING, code : Seq(0..255), ep_init : Nat,
            ep_on_message : Nat, ep_on_gc : Nat]

\* What the packages of src/packages/ have in common: their code is straight
\* (no jump, call or return), init and on-message end in an OP_HALT, and an
\* OP_SET_TV has an OP_GET_TV before it in its section, with no instruction
\* in between that writes regs[0] or regs[1].
Jumps == {"JMP", "JEQ", "JNE", "CALL", "RET"}
WritesPair == {"ADD", "SUB", "MUL", "DIV", "LOAD", "POP", "SPAWN", "GET_STI"}
Straight(p) == \A i \in DOMAIN p.code, n \in Jumps : p.code[i] # OP[n]
EndsInHalt(p) ==
    /\ p.ep_init < p.ep_on_message /\ p.ep_on_message < p.ep_on_gc
    /\ p.ep_on_gc <= Len(p.code)
    /\ p.code[p.ep_on_message] = OP.HALT /\ p.code[p.ep_on_gc] = OP.HALT
\* Between start and address a the truth value was read and is still in place.
HasRead(p, start, a) ==
    \E g \in start..a :
        /\ g < a /\ p.code[g + 1] = OP.GET_TV
        /\ \A k \in g..a : g < k /\ k < a =>
              \A n \in WritesPair : p.code[k + 1] # OP[n]
PutsBack(p) ==
    /\ \A a \in p.ep_init..(p.ep_on_message - 1) :
         p.code[a + 1] = OP.SET_TV => HasRead(p, p.ep_init, a)
    /\ \A a \in p.ep_on_message..(p.ep_on_gc - 1) :
         p.code[a + 1] = OP.SET_TV => HasRead(p, p.ep_on_message, a)

ASSUME PackagesAssumption ==
    \A p \in Packages : p \in Package /\ Straight(p) /\ EndsInHalt(p) /\ PutsBack(p)

ASSUME VmAssumption ==
    /\ Half \in Nat /\ FloatBase \in Nat \ {0} /\ SignBit \in Nat
    /\ FloatBase < SignBit /\ SignBit < Half
    /\ Derived \in Float
    /\ StackSize \in Nat /\ HeapSize \in Nat
    /\ TruthValues \subseteq Float \X Float /\ Preloads \subseteq Float \X Float
    /\ Senders \subseteq Nat
    /\ MaxChannels \in Nat /\ ChannelSize \in Nat \ {0}
    /\ MaxMessages \in Nat /\ MaxUuid \in Nat /\ MaxQueued \in Nat
    /\ MaxSti \in Nat /\ (-MaxSti)..MaxSti \subseteq Float /\ Gifts \subseteq Int
    /\ \A s \in Senders : s < Word
    /\ MaxUuid < Word

VARIABLES
    pkg,        \* a->package
    status,     \* "idle", or the handler that runs: "init" or "message"
    pc, regs, stack, heap,      \* a->vm_ctx
    tv, sti,    \* a->tv, a->av.sti
    inbox,      \* the messages on the incoming channel: [sender, tv]
    queued,     \* queued[c]: messages waiting on the c-th outgoing channel
    spreading,  \* the channel OP_ECAN_SP is about to send on; 0 when it does not run
    told,       \* number of messages ever sent to the atom
    uuid,       \* the last uuid handed out
    poolHeld    \* another thread holds pool_lock

vm == <<status, pc, regs, stack, heap>>
atom == <<tv, sti>>
outgoing == <<queued, spreading>>
world == <<inbox, outgoing, told, uuid, poolHeld>>
vars == <<pkg, vm, atom, world>>

Code == pkg.code
Bits(v) == IF v = 0 THEN 0 ELSE IF v > 0 THEN FloatBase + v ELSE Half + v
Value(b) == IF b < FloatBase THEN 0 ELSE IF b < SignBit THEN b - FloatBase ELSE b - Half
Low(r) == r % Half
\* memcpy(&regs[i], &f, 4): the high half stays.
WithLow(r, b) == r - Low(r) + b
\* A truth value copied into regs[r] and regs[r + 1].
TvInto(r, t) == [regs EXCEPT ![r] = WithLow(@, Bits(t[1])),
                             ![r + 1] = WithLow(@, Bits(t[2]))]

\* The 8-byte operand at address p.
Operand(p) ==
    IF \E i \in 3..8 : Code[p + i] # 0
        THEN 65536 ELSE Code[p + 1] + 256 * Code[p + 2]
HasOperand(p) == p + 8 <= Len(Code)
HasRoom == 8 * Len(stack) + 8 <= StackSize
Top == stack[Len(stack)]
Popped == SubSeq(stack, 1, Len(stack) - 1)
\* Mutant: the room is not looked at.
PushedAnyway(w) == Append(stack, w)
Pushed(w) == IF HasRoom THEN Append(stack, w) ELSE stack

Running == status \in {"init", "message"}
Fetches(names) ==
    /\ Running
    /\ pc < Len(Code)
    /\ \E n \in names : Code[pc + 1] = OP[n]

Goto(p) == pc' = p /\ UNCHANGED status
NextIsWithin == pc < Len(Code)
-----------------------------------------------------------------------------
(* elm_exec_init, elm_exec_msg (from worker_process_atom), the end of a run *)

\* Nothing in src/src/ calls it: an atom's owner may, at any time.
ExecInit ==
    /\ status = "idle"
    /\ status' = "init"
    /\ pc' = pkg.ep_init
    /\ UNCHANGED <<pkg, regs, stack, heap, atom, world>>

\* The type (MSG_UPDATE_TV), the sender and the truth value, to regs[8..11].
Received(m) == [TvInto(10, m.tv) EXCEPT ![8] = 1, ![9] = m.sender]
TakeMessage == regs' = Received(Head(inbox)) /\ inbox' = Tail(inbox)

ExecMsg ==
    /\ status = "idle"
    /\ inbox # <<>>
    /\ TakeMessage
    /\ status' = "message"
    /\ pc' = pkg.ep_on_message
    /\ UNCHANGED <<pkg, stack, heap, atom, outgoing, told, uuid, poolHeld>>

\* pc past the end, OP_HALT, OP_RET with less than a word on the stack, and
\* the errors: OP_DIV by zero, OP_JEQ, OP_JNE or OP_CALL with their operand cut.
Halts ==
    \/ ~NextIsWithin
    \/ Fetches({"HALT"})
    \/ Fetches({"RET"}) /\ stack = <<>>
    \/ Fetches({"DIV"}) /\ regs[2] = 0
    \/ Fetches({"JEQ", "JNE", "CALL"}) /\ ~HasOperand(pc + 1)

Halt ==
    /\ Running
    /\ Halts
    /\ status' = "idle"
    /\ pc' = IF NextIsWithin THEN pc + 1 ELSE pc
    /\ UNCHANGED <<pkg, regs, stack, heap, atom, world>>
-----------------------------------------------------------------------------
(* disvm_step: arithmetic and control flow                                 *)

\* OP_NOP, and the opcodes the switch does not know.
Nop ==
    /\ Running /\ NextIsWithin
    /\ ~Fetches(DOMAIN OP \ {"NOP"})
    /\ Goto(pc + 1)
    /\ UNCHANGED <<pkg, regs, stack, heap, atom, world>>

Arith ==
    /\ \/ Fetches({"ADD"}) /\ regs' = [regs EXCEPT ![0] = (regs[1] + regs[2]) % Word]
       \/ Fetches({"SUB"}) /\ regs' = [regs EXCEPT ![0] = (regs[1] - regs[2]) % Word]
       \/ Fetches({"MUL"}) /\ regs' = [regs EXCEPT ![0] = (regs[1] * regs[2]) % Word]
       \/ /\ Fetches({"DIV"}) /\ regs[2] # 0
          /\ regs' = [regs EXCEPT ![0] = regs[1] \div regs[2]]
    /\ Goto(pc + 1)
    /\ UNCHANGED <<pkg, stack, heap, atom, world>>

\* Mutant: the operand counted from the end of the instruction.
JumpRelative ==
    /\ Fetches({"JMP"})
    /\ Goto(IF HasOperand(pc + 1) THEN pc + 9 + Operand(pc + 1) ELSE pc + 1)
    /\ UNCHANGED <<pkg, regs, stack, heap, atom, world>>

\* OP_JMP whose operand is cut does not jump, and goes on with the operand.
Jump ==
    /\ Fetches({"JMP"})
    /\ Goto(IF HasOperand(pc + 1) THEN Operand(pc + 1) ELSE pc + 1)
    /\ UNCHANGED <<pkg, regs, stack, heap, atom, world>>

Branch ==
    /\ HasOperand(pc + 1)
    /\ \/ Fetches({"JEQ"}) /\ Goto(IF regs[0] = regs[1] THEN Operand(pc + 1) ELSE pc + 9)
       \/ Fetches({"JNE"}) /\ Goto(IF regs[0] # regs[1] THEN Operand(pc + 1) ELSE pc + 9)
    /\ UNCHANGED <<pkg, regs, stack, heap, atom, world>>

\* Mutant: the return address is that of the OP_CALL.
CallReturningToItself ==
    /\ Fetches({"CALL"}) /\ HasOperand(pc + 1)
    /\ stack' = Pushed(pc)
    /\ Goto(Operand(pc + 1))
    /\ UNCHANGED <<pkg, regs, heap, atom, world>>

Call ==
    /\ Fetches({"CALL"}) /\ HasOperand(pc + 1)
    /\ stack' = Pushed(pc + 9)
    /\ Goto(Operand(pc + 1))
    /\ UNCHANGED <<pkg, regs, heap, atom, world>>

Ret ==
    /\ Fetches({"RET"}) /\ stack # <<>>
    /\ Goto(Top)
    /\ stack' = Popped
    /\ UNCHANGED <<pkg, regs, heap, atom, world>>
-----------------------------------------------------------------------------
(* Memory; an address or a stack that does not fit is passed over silently. *)

InHeap == regs[1] + 8 <= HeapSize

Load ==
    /\ Fetches({"LOAD"})
    /\ regs' = IF InHeap THEN [regs EXCEPT ![0] = heap[regs[1]]] ELSE regs
    /\ Goto(pc + 1)
    /\ UNCHANGED <<pkg, stack, heap, atom, world>>

\* A word written over parts of others leaves some mixture there.
Overlapped == {a \in DOMAIN heap : a # regs[1] /\ a < regs[1] + 8 /\ regs[1] < a + 8}

Store ==
    /\ Fetches({"STORE"})
    /\ IF InHeap
         THEN \E mix \in [Overlapped -> 0..(Word - 1)] :
                heap' = [a \in DOMAIN heap |-> IF a = regs[1] THEN regs[0]
                           ELSE IF a \in Overlapped THEN mix[a] ELSE heap[a]]
         ELSE UNCHANGED heap
    /\ Goto(pc + 1)
    /\ UNCHANGED <<pkg, regs, stack, atom, world>>

Push ==
    /\ Fetches({"PUSH"})
    /\ stack' = Pushed(regs[0])
    /\ Goto(pc + 1)
    /\ UNCHANGED <<pkg, regs, heap, atom, world>>

Pop ==
    /\ Fetches({"POP"})
    /\ IF stack = <<>>
         THEN UNCHANGED <<regs, stack>>
         ELSE /\ regs' = [regs EXCEPT ![0] = Top]
              /\ stack' = Popped
    /\ Goto(pc + 1)
    /\ UNCHANGED <<pkg, heap, atom, world>>
-----------------------------------------------------------------------------
(* Channels and the kernel                                                 *)

Full(c) == c \in DOMAIN queued /\ queued[c] = ChannelSize

\* The low half of regs[0] is the place of the channel on the outgoing list.
SendsOn == Low(regs[0]) + 1

Send ==
    /\ Fetches({"SEND"})
    /\ ~Full(SendsOn)
    /\ queued' = IF SendsOn \in DOMAIN queued THEN [queued EXCEPT ![SendsOn] = @ + 1]
                 ELSE queued
    /\ Goto(pc + 1)
    /\ UNCHANGED <<pkg, regs, stack, heap, atom, inbox, spreading, told, uuid, poolHeld>>

Recv ==
    /\ Fetches({"RECV"})
    /\ IF inbox = <<>>
         THEN UNCHANGED <<regs, inbox>>
         ELSE TakeMessage
    /\ Goto(pc + 1)
    /\ UNCHANGED <<pkg, stack, heap, atom, outgoing, told, uuid, poolHeld>>

\* cogdiod_spawn puts the atom into the pool under pool_lock.  It fails, before
\* that, when the ConceptNode package is not loaded.
Spawn ==
    /\ Fetches({"SPAWN"})
    /\ \/ /\ ~poolHeld /\ uuid < MaxUuid
          /\ uuid' = uuid + 1 /\ regs' = [regs EXCEPT ![0] = uuid + 1]
       \/ uuid' = uuid /\ regs' = [regs EXCEPT ![0] = 0]
    /\ Goto(pc + 1)
    /\ UNCHANGED <<pkg, stack, heap, atom, inbox, outgoing, told, poolHeld>>

\* Half of the atom's STI goes, in equal parts, to its outgoing channels; with
\* no channel it goes nowhere.
EcanSpread ==
    /\ Fetches({"ECAN_SP"}) /\ spreading = 0
    /\ sti' = sti - sti \div 2
    /\ IF 1 \in DOMAIN queued
         THEN spreading' = 1 /\ UNCHANGED <<status, pc>>
         ELSE UNCHANGED spreading /\ Goto(pc + 1)
    /\ UNCHANGED <<pkg, regs, stack, heap, tv, inbox, queued, told, uuid, poolHeld>>

\* One turn of the loop over the channels.
EcanSend ==
    /\ Fetches({"ECAN_SP"}) /\ spreading \in DOMAIN queued
    /\ ~Full(spreading)
    /\ queued' = [queued EXCEPT ![spreading] = @ + 1]
    /\ IF spreading + 1 \in DOMAIN queued
         THEN spreading' = spreading + 1 /\ UNCHANGED <<status, pc>>
         ELSE spreading' = 0 /\ Goto(pc + 1)
    /\ UNCHANGED <<pkg, regs, stack, heap, atom, inbox, told, uuid, poolHeld>>

\* cogdiod_send waits for room, cogdiod_spawn for pool_lock.
Waiting ==
    \/ Fetches({"SEND"}) /\ Full(SendsOn)
    \/ Fetches({"ECAN_SP"}) /\ Full(spreading)
    \/ Fetches({"SPAWN"}) /\ poolHeld
-----------------------------------------------------------------------------
(* Cognitive operations                                                    *)

GetTv ==
    /\ Fetches({"GET_TV"})
    /\ regs' = TvInto(0, tv)
    /\ Goto(pc + 1)
    /\ UNCHANGED <<pkg, stack, heap, atom, world>>

SetTvFromRegs ==
    /\ Fetches({"SET_TV"})
    /\ tv' = <<Value(Low(regs[0])), Value(Low(regs[1]))>>
    /\ Goto(pc + 1)
    /\ UNCHANGED <<pkg, regs, stack, heap, sti, world>>

GetSti ==
    /\ Fetches({"GET_STI"})
    /\ regs' = [regs EXCEPT ![0] = WithLow(@, Bits(sti))]
    /\ Goto(pc + 1)
    /\ UNCHANGED <<pkg, stack, heap, atom, world>>

SetSti ==
    /\ Fetches({"SET_STI"})
    /\ sti' = Value(Low(regs[0]))
    /\ Goto(pc + 1)
    /\ UNCHANGED <<pkg, regs, stack, heap, tv, world>>

\* The first register of the pair each rule leaves its truth value in.
ResultPair(rule) == IF rule \in {"PLN_ABD", "PLN_TMP"} THEN 6 ELSE 4

Pln ==
    /\ \E rule \in {"PLN_DED", "PLN_REV", "PLN_ABD", "PLN_IND", "PLN_TMP"} :
         /\ Fetches({rule})
         /\ regs' = TvInto(ResultPair(rule), <<Derived, Derived>>)
    /\ Goto(pc + 1)
    /\ UNCHANGED <<pkg, stack, heap, atom, world>>
-----------------------------------------------------------------------------
(* Everybody else: senders, cogdiod_set_tv and cogdiod_attend (which take  *)
(* the lock the VM holds while it runs), those who share the outgoing      *)
(* channels (announcements and diffusion put messages on them too, the     *)
(* targets' workers take them) and the users of pool_lock.                 *)

Deliver ==
    /\ Len(inbox) < MaxQueued /\ told < MaxMessages
    /\ \E s \in Senders, t \in TruthValues :
         inbox' = Append(inbox, [sender |-> s, tv |-> t])
    /\ told' = told + 1
    /\ UNCHANGED <<pkg, vm, atom, outgoing, uuid, poolHeld>>

SetTv ==
    /\ status = "idle"
    /\ tv' \in TruthValues
    /\ UNCHANGED <<pkg, vm, sti, world>>

Attend ==
    /\ status = "idle"
    /\ \E d \in Gifts : sti + d \in (-MaxSti)..MaxSti /\ sti' = sti + d
    /\ UNCHANGED <<pkg, vm, tv, world>>

Preload ==
    /\ status = "idle"
    /\ \E t \in Preloads : regs' = TvInto(2, t)
    /\ UNCHANGED <<pkg, status, pc, stack, heap, atom, world>>

Announced ==
    /\ \E c \in DOMAIN queued : ~Full(c) /\ queued' = [queued EXCEPT ![c] = @ + 1]
    /\ UNCHANGED <<pkg, vm, atom, inbox, spreading, told, uuid, poolHeld>>

Taken ==
    /\ \E c \in DOMAIN queued : queued[c] > 0 /\ queued' = [queued EXCEPT ![c] = @ - 1]
    /\ UNCHANGED <<pkg, vm, atom, inbox, spreading, told, uuid, poolHeld>>

PoolLock ==
    /\ poolHeld' = ~poolHeld
    /\ UNCHANGED <<pkg, vm, atom, inbox, outgoing, told, uuid>>

-----------------------------------------------------------------------------
\* An atom as cogdiod_spawn makes it (disvm_init, calloc), with its channels.
InitVm ==
    /\ status = "idle"
    /\ pc = pkg.ep_init
    /\ regs = [r \in 0..15 |-> 0]
    /\ stack = <<>>
    /\ heap = [a \in 0..(HeapSize - 8) |-> 0]
    /\ tv \in TruthValues
    /\ sti = 0
    /\ inbox = <<>>
    /\ \E n \in 0..MaxChannels : queued = [c \in 1..n |-> 0]
    /\ spreading = 0
    /\ told = 0
    /\ uuid = 0
    /\ poolHeld = FALSE

Instruction ==
    \/ Nop \/ Arith \/ Jump \/ Branch \/ Call \/ Ret
    \/ Load \/ Store \/ Push \/ Pop
    \/ Send \/ Recv \/ Spawn \/ EcanSpread \/ EcanSend
    \/ GetTv \/ SetTvFromRegs \/ GetSti \/ SetSti \/ Pln

Others == Deliver \/ SetTv \/ Attend \/ Preload \/ Announced \/ Taken \/ PoolLock

Run == Halt \/ Instruction

Next == ExecInit \/ ExecMsg \/ Run \/ Others
\* The VM runs on a worker thread that nothing but its waits stops before the
\* handler ends.  Nothing ends a wait: a target's worker may never take, the
\* holder of pool_lock may wait for this atom's lock.
Spec == pkg \in Packages /\ InitVm /\ [][Next]_vars /\ WF_vars(Run)
-----------------------------------------------------------------------------
(* Properties                                                              *)

\* Types, and what the two stack checks of OP_CALL and OP_PUSH are for: the
\* stack never outgrows the array disvm_init allocated (sp <= stkmax); and
\* regs[1] keeps its high half 0, so that the address check regs[1] + 8 <=
\* heap_size of OP_LOAD and OP_STORE cannot wrap (elm_loader.c:117, 138, 152).
ControlOK == pkg \in Package /\ status \in {"init", "idle", "message"} /\ pc \in Nat
RegsOK == regs \in [0..15 -> Nat] /\ regs[1] < Half
StackOK == stack \in Seq(Nat) /\ 8 * Len(stack) <= StackSize
HeapOK == heap \in [0..(HeapSize - 8) -> Nat]
AtomOK == tv \in Float \X Float /\ sti \in Float
InboxOK == inbox \in Seq([sender : Senders, tv : TruthValues])
OutgoingOK ==
    \E n \in 0..MaxChannels : queued \in [1..n -> 0..ChannelSize] /\ spreading \in 0..n
BoundsOK == told \in 0..MaxMessages /\ uuid \in 0..MaxUuid /\ poolHeld \in BOOLEAN
TypeOK ==
    /\ ControlOK /\ RegsOK /\ StackOK /\ HeapOK
    /\ AtomOK /\ InboxOK /\ OutgoingOK /\ BoundsOK

\* A handler runs in its own section of the bytecode: init does not fall
\* through into on-message, nor on-message into on-gc (the sections lie one
\* after the other, only an OP_HALT keeps them apart).
StaysInSection ==
    /\ status = "init" => pc >= pkg.ep_init /\ pc < pkg.ep_on_message
    /\ status = "message" => pc >= pkg.ep_on_message /\ pc < pkg.ep_on_gc

\* Every handler ends, whatever registers, stack and messages earlier ones
\* left, or comes to wait again for room on a channel or for pool_lock: one that
\* never ends is one that waits (the loop of disvm_run, elm_loader.c).
HandlersHalt == Running ~> ~Running \/ Waiting

\* What the code does: a message never changes the truth value of an atom of a
\* package of src/packages/.  OP_SET_TV puts back what OP_GET_TV read, whatever
\* OP_PLN_REV and OP_PLN_TMP left in the registers above.
PackagesKeepTv == [][Running /\ pkg \in Packages => tv' = tv]_vars

\* What the packages' comments say instead ("store revised TV",
\* evaluation_link_pkg.c:31): an OP_SET_TV that follows an OP_PLN_REV stores the
\* truth value that rule made, in regs[4..5].
RevisedIsStored ==
    [][Fetches({"SET_TV"}) /\ pkg \in Packages /\ pc > 0 /\ Code[pc] = OP.PLN_REV =>
          tv' = <<Value(Low(regs[4])), Value(Low(regs[5]))>>]_vars

\* What the comments of the packages say (implication_link_pkg.c:31): when a
\* PLN rule runs on a message, regs[2..3] hold the message's truth value.
IncomingInPlace ==
    status = "message" /\ Fetches({"PLN_DED", "PLN_REV"}) =>
        Low(regs[2]) = Low(regs[10]) /\ Low(regs[3]) = Low(regs[11])
=============================================================================
