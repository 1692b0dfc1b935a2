----------------------------- MODULE DisVMProofs -----------------------------
(***************************************************************************)
(* The VM and the Elbo compiler, for every set of packages that satisfies  *)
(* PackagesAssumption, every set of programs and every value of the other  *)
(* constants.                                                              *)
(*                                                                         *)
(* The VM: types and the bound of the stack, and for straight packages     *)
(* that a handler keeps to its section and leaves the truth value as it    *)
(* found it.  The compiler: every call of CompileExpr ends and goes on,    *)
(* and of a well-formed program it makes the code the grammar gives; the   *)
(* VM that runs this code keeps its types too.                             *)
(*                                                                         *)
(* The compiler's recursion is proved by induction over the source left,   *)
(* the grammar's by induction over the depth of the trees, and its loops   *)
(* by a measure: a loop is a recursive function, so that each is shown to  *)
(* be equal to its own unrolling first (Turn, Measures).                   *)
(***************************************************************************)
EXTENDS ElboCompiler, FiniteSetTheorems, WellFoundedInduction, SequenceTheorems, TLAPS

Start == IF status = "init" THEN pkg.ep_init ELSE pkg.ep_on_message

\* What OP_GET_TV read is in place up to the next write of regs[0..1].
StillRead ==
    Running /\ HasRead(pkg, Start, pc) =>
        Low(regs[0]) = Bits(tv[1]) /\ Low(regs[1]) = Bits(tv[2])

\* StaysInSection is not inductive without the package being straight, nor
\* PackagesKeepTv without StillRead.
IInv == TypeOK /\ pkg \in Packages /\ StaysInSection /\ StillRead
-----------------------------------------------------------------------------
(* Registers and floats                                                    *)

\* The low half of a register is a half.
LEMMA LowIsHalf == \A r \in Nat : Low(r) \in 0..(Half - 1)
BY VmAssumption DEF Low

\* A float opcode leaves in the low half the bits it wrote.
LEMMA LowOfWithLow ==
    ASSUME NEW r \in Nat, NEW b \in 0..(Half - 1)
    PROVE  WithLow(r, b) \in Nat /\ Low(WithLow(r, b)) = b
<1> DEFINE q == r \div Half
<1>1. Half \in Nat \ {0} /\ q \in Nat
  BY VmAssumption
<1>2. r = Half * q + (r % Half)
  BY <1>1
<1>3. r - (r % Half) + b = q * Half + b
  BY <1>1, <1>2
<1>4. (q * Half + b) % Half = b
  BY <1>1
<1>5. q * Half + b \in Nat
  BY <1>1
<1> HIDE DEF q
<1> QED
  BY <1>3, <1>4, <1>5 DEF WithLow, Low

\* OP_SET_TV of the bits of a float gives the float.
LEMMA ValueOfBits == \A v \in Float : Bits(v) \in 0..(Half - 1) /\ Value(Bits(v)) = v
BY VmAssumption DEF Bits, Value, Float

\* The bits of a register's low half are those of a float.
LEMMA ValueIsFloat == \A b \in 0..(Half - 1) : Value(b) \in Float
BY VmAssumption DEF Value, Float
-----------------------------------------------------------------------------
(* The package                                                             *)

LEMMA CodeOK ==
    ASSUME TypeOK
    PROVE  /\ pkg.code \in Seq(0..255) /\ Len(pkg.code) \in Nat /\ pc \in Nat
           /\ DOMAIN pkg.code = 1..Len(pkg.code)
<1>1. pkg \in Package /\ pc \in Nat
  BY DEF TypeOK, ControlOK, RegsOK, InboxOK, AtomOK
<1>2. pkg.code \in Seq(0..255)
  BY <1>1 DEF Package
<1> QED
  BY <1>1, <1>2

\* No other opcode has the byte of OP_HALT.
LEMMA HaltIsUnique == \A n \in DOMAIN OP \ {"HALT"} : OP[n] # OP.HALT
<1> SUFFICES ASSUME NEW n \in DOMAIN OP, n # "HALT" PROVE OP[n] # 255
  BY DEF OP
<1> QED
  BY DEF OP

\* No jump, call or return is ever fetched.
LEMMA NeverJumps ==
    ASSUME TypeOK, pkg \in Packages, NEW n \in Jumps
    PROVE  ~Fetches({n})
<1> SUFFICES ASSUME Fetches({n}) PROVE FALSE
  OBVIOUS
<1>1. pc + 1 \in DOMAIN pkg.code
  BY CodeOK DEF Fetches, Code
<1>2. pkg.code[pc + 1] = OP[n]
  BY DEF Fetches, Code
<1> QED
  BY <1>1, <1>2, PackagesAssumption DEF Straight

\* So an instruction that does not halt is followed by the next byte's, but for
\* the turns of OP_ECAN_SP's loop.
LEMMA NextByte ==
    ASSUME TypeOK, pkg \in Packages, Instruction
    PROVE  /\ pc' = pc + 1 \/ (pc' = pc /\ regs' = regs /\ tv' = tv)
           /\ status' = status /\ pkg' = pkg
           /\ Running /\ pc < Len(pkg.code) /\ pkg.code[pc + 1] # OP.HALT
<1>1. ~Jump /\ ~Branch /\ ~Call /\ ~Ret
  BY NeverJumps DEF Jump, Branch, Call, Ret, Jumps
<1>2. ASSUME NEW names, names \subseteq DOMAIN OP \ {"HALT"}, Fetches(names)
      PROVE  Running /\ pc < Len(pkg.code) /\ pkg.code[pc + 1] # OP.HALT
  <2> PICK n \in names : Code[pc + 1] = OP[n]
    BY <1>2 DEF Fetches
  <2> QED
    BY <1>2, HaltIsUnique DEF Fetches, Code
<1>3. CASE Nop
  BY <1>3 DEF Nop, NextIsWithin, Fetches, Code, Goto, OP
<1>4. CASE Arith
  BY <1>2, <1>4 DEF Arith, Goto, OP
<1>5. CASE Load \/ Store
  BY <1>2, <1>5 DEF Load, Store, Goto, OP
<1>6. CASE Push \/ Pop
  BY <1>2, <1>6 DEF Push, Pop, Goto, OP
<1>7. CASE Send \/ Recv \/ Spawn \/ EcanSpread \/ EcanSend
  BY <1>2, <1>7 DEF Send, Recv, Spawn, EcanSpread, EcanSend, Goto, OP, atom
<1>8. CASE GetTv \/ SetTvFromRegs
  BY <1>2, <1>8 DEF GetTv, SetTvFromRegs, Goto, OP
<1>9. CASE GetSti \/ SetSti
  BY <1>2, <1>9 DEF GetSti, SetSti, Goto, OP
<1>10. CASE Pln
  <2>1. PICK rule \in {"PLN_DED", "PLN_REV", "PLN_ABD", "PLN_IND", "PLN_TMP"} :
            Fetches({rule})
    BY <1>10 DEF Pln
  <2> QED
    BY <1>2, <1>10, <2>1 DEF Pln, Goto, OP
<1> QED
  BY <1>1, <1>3, <1>4, <1>5, <1>6, <1>7, <1>8, <1>9, <1>10 DEF Instruction
-----------------------------------------------------------------------------
(* Types                                                                   *)

\* The first message of a queue that is not empty: its float fields have bits.
LEMMA HeadOfInbox ==
    ASSUME TypeOK, inbox # <<>>
    PROVE  /\ Head(inbox).sender \in Nat
           /\ Head(inbox).tv \in Float \X Float
           /\ Tail(inbox) \in Seq([sender : Senders, tv : TruthValues])
<1> DEFINE M == [sender : Senders, tv : TruthValues]
<1>1. inbox \in Seq(M)
  BY DEF TypeOK, ControlOK, RegsOK, InboxOK, AtomOK
<1> HIDE DEF M
<1>2. Head(inbox) \in M /\ Tail(inbox) \in Seq(M)
  BY <1>1, HeadTailProperties
<1>3. Head(inbox).sender \in Senders /\ Head(inbox).tv \in TruthValues
  BY <1>2 DEF M
<1>4. Head(inbox).tv \in Float \X Float /\ Head(inbox).sender \in Nat
  BY <1>3, VmAssumption
<1> QED
  BY <1>2, <1>4 DEF M

\* A truth value copied into two registers is what their low halves hold.
LEMMA TvIntoOK ==
    ASSUME TypeOK, NEW r \in 0..14, NEW t \in Float \X Float
    PROVE  LET g == TvInto(r, t) IN
             /\ g \in [0..15 -> Nat]
             /\ Low(g[r]) = Bits(t[1]) /\ Low(g[r + 1]) = Bits(t[2])
             /\ \A i \in 0..15 : i # r /\ i # r + 1 => g[i] = regs[i]
<1> DEFINE b1 == Bits(t[1])
           b2 == Bits(t[2])
           w1 == WithLow(regs[r], b1)
           w2 == WithLow(regs[r + 1], b2)
           g == TvInto(r, t)
<1>1. b1 \in 0..(Half - 1) /\ b2 \in 0..(Half - 1)
  BY ValueOfBits
<1>2. regs \in [0..15 -> Nat]
  BY DEF TypeOK, ControlOK, RegsOK, InboxOK, AtomOK
<1>3. regs[r] \in Nat /\ regs[r + 1] \in Nat
  BY <1>2
<1>4. g = [regs EXCEPT ![r] = w1, ![r + 1] = w2]
  BY DEF TvInto
<1> HIDE DEF b1, b2
<1>5. w1 \in Nat /\ Low(w1) = b1 /\ w2 \in Nat /\ Low(w2) = b2
  BY <1>1, <1>3, LowOfWithLow
<1> HIDE DEF w1, w2, g
<1>6. g[r] = w1
  BY <1>2, <1>4
<1>7. g[r + 1] = w2
  BY <1>2, <1>4
<1>8. g \in [0..15 -> Nat]
  BY <1>2, <1>4, <1>5
<1>9. \A i \in 0..15 : i # r /\ i # r + 1 => g[i] = regs[i]
  BY <1>2, <1>4
<1> QED
  BY <1>5, <1>6, <1>7, <1>8, <1>9 DEF b1, b2, g

\* A handler starts with natural numbers in its registers and the truth value it was left.
LEMMA ReceivedOK ==
    ASSUME TypeOK, NEW m, m.sender \in Nat, m.tv \in Float \X Float
    PROVE  LET g == Received(m) IN
             g \in [0..15 -> Nat] /\ g[0] = regs[0] /\ g[1] = regs[1]
<1> DEFINE s == m.sender
           f == TvInto(10, m.tv)
           g == Received(m)
<1>1. s \in Nat
  OBVIOUS
<1>2. g = [f EXCEPT ![8] = 1, ![9] = s]
  BY DEF Received
<1>3. f \in [0..15 -> Nat] /\ f[0] = regs[0] /\ f[1] = regs[1]
  BY TvIntoOK
<1> HIDE DEF s, f, g
<1>4. g \in [0..15 -> Nat]
  BY <1>1, <1>2, <1>3
<1>5. g[0] = f[0]
  BY <1>2, <1>3
<1>6. g[1] = f[1]
  BY <1>2, <1>3
<1> QED
  BY <1>3, <1>4, <1>5, <1>6 DEF g

\* What ExecMsg and Recv do.
LEMMA TakeMessageOK ==
    ASSUME TypeOK, inbox # <<>>, TakeMessage
    PROVE  /\ regs' \in [0..15 -> Nat] /\ regs'[0] = regs[0] /\ regs'[1] = regs[1]
           /\ inbox' \in Seq([sender : Senders, tv : TruthValues])
BY HeadOfInbox, ReceivedOK DEF TakeMessage

\* The end of the stack comes off, word by word; a push that fits stays in bounds.
LEMMA StackBounds ==
    ASSUME TypeOK, NEW w \in Nat
    PROVE  /\ Pushed(w) \in Seq(Nat) /\ 8 * Len(Pushed(w)) <= StackSize
           /\ stack # <<>> => /\ Top \in Nat /\ Popped \in Seq(Nat)
                              /\ 8 * Len(Popped) <= StackSize
<1>1. stack \in Seq(Nat) /\ 8 * Len(stack) <= StackSize /\ StackSize \in Nat
  BY VmAssumption DEF TypeOK, StackOK
<1>2. /\ Append(stack, w) \in Seq(Nat) /\ Len(Append(stack, w)) = Len(stack) + 1
      /\ Len(stack) \in Nat
  BY <1>1
<1>3. Pushed(w) \in Seq(Nat) /\ 8 * Len(Pushed(w)) <= StackSize
  BY <1>1, <1>2 DEF Pushed, HasRoom
<1>4. ASSUME stack # <<>>
      PROVE  Top \in Nat /\ Popped \in Seq(Nat) /\ 8 * Len(Popped) <= StackSize
  <2>1. Len(stack) \in Nat \ {0}
    BY <1>1, <1>4, EmptySeq
  <2>2. Top \in Nat
    BY <1>1, <2>1 DEF Top
  <2>3. Popped \in Seq(Nat) /\ Len(Popped) = Len(stack) - 1
    <3>1. 1 \in Int /\ Len(stack) - 1 \in Int
      BY <2>1
    <3>2. \A i \in 1..(Len(stack) - 1) : stack[i] \in Nat
      BY <1>1, <2>1
    <3>3. /\ SubSeq(stack, 1, Len(stack) - 1) \in Seq(Nat)
          /\ Len(SubSeq(stack, 1, Len(stack) - 1))
               = IF 1 <= Len(stack) - 1 THEN Len(stack) - 1 - 1 + 1 ELSE 0
      BY <3>1, <3>2, SubSeqProperties
    <3> DEFINE n == Len(stack)
               q == SubSeq(stack, 1, Len(stack) - 1)
    <3>4. n \in Nat \ {0} /\ q \in Seq(Nat) /\ Len(q) = IF 1 <= n - 1 THEN n - 1 - 1 + 1 ELSE 0
      BY <2>1, <3>3
    <3>5. q = Popped
      BY DEF Popped
    <3> HIDE DEF n, q
    <3>6. Len(q) = n - 1
      BY <3>4
    <3> QED
      BY <3>4, <3>5, <3>6 DEF n
  <2> QED
    BY <1>1, <2>1, <2>2, <2>3
<1> QED
  BY <1>3, <1>4

\* Each part of TypeOK is kept by the instructions that write it.
LEMMA RegsStep ==
    ASSUME TypeOK, Instruction
    PROVE  RegsOK'
<1>1. Arith \/ Load \/ Pop \/ Recv \/ Spawn \/ GetTv \/ GetSti \/ Pln \/ UNCHANGED regs
  BY DEF Instruction, Nop, Jump, Branch, Call, Ret, Store, Push, Send, EcanSpread, EcanSend,
         SetTvFromRegs, SetSti
<1>2. RegsOK /\ regs[0] \in Nat /\ regs[1] \in Nat /\ regs[2] \in Nat
  BY DEF TypeOK, RegsOK
<1>3. ASSUME NEW v \in Nat, regs' = [regs EXCEPT ![0] = v]
      PROVE  RegsOK'
  BY <1>2, <1>3 DEF RegsOK
<1>4. CASE Arith
  <2>1. Word \in Nat \ {0}
    BY VmAssumption DEF Word
  <2> DEFINE sum == (regs[1] + regs[2]) % Word
             dif == (regs[1] - regs[2]) % Word
             prod == (regs[1] * regs[2]) % Word
             quot == regs[1] \div regs[2]
  <2>2. sum \in Nat /\ dif \in Nat
    BY <1>2, <2>1
  <2>3. prod \in Nat
    <3>1. regs[1] * regs[2] \in Int
      BY <1>2
    <3> QED
      BY <2>1, <3>1
  <2>4. regs[2] # 0 => quot \in Nat
    BY <1>2
  <2>5. \/ regs' = [regs EXCEPT ![0] = sum] \/ regs' = [regs EXCEPT ![0] = dif]
        \/ regs' = [regs EXCEPT ![0] = prod]
        \/ regs[2] # 0 /\ regs' = [regs EXCEPT ![0] = quot]
    BY <1>4 DEF Arith
  <2> HIDE DEF sum, dif, prod, quot
  <2> QED
    BY <1>3, <2>2, <2>3, <2>4, <2>5
<1>5. CASE Load
  <2>1. InHeap => heap[regs[1]] \in Nat
    BY <1>2, VmAssumption DEF InHeap, TypeOK, HeapOK
  <2> QED
    BY <1>2, <1>3, <1>5, <2>1 DEF Load, RegsOK
<1>6. CASE Pop
  <2>1. stack # <<>> => Top \in Nat
    BY <1>2, StackBounds
  <2>2. \/ regs' = regs
        \/ stack # <<>> /\ regs' = [regs EXCEPT ![0] = Top]
    BY <1>6 DEF Pop
  <2> QED
    BY <1>2, <1>3, <2>1, <2>2 DEF RegsOK
<1>7. CASE Recv
  BY <1>2, <1>7, TakeMessageOK DEF Recv, RegsOK
<1>8. CASE Spawn
  <2>1. uuid + 1 \in Nat
    BY VmAssumption DEF TypeOK, BoundsOK
  <2> QED
    BY <1>3, <1>8, <2>1 DEF Spawn
<1>9. CASE GetTv
  <2>1. tv \in Float \X Float
    BY DEF TypeOK, AtomOK
  <2>2. regs' \in [0..15 -> Nat]
    BY <1>9, <2>1, TvIntoOK DEF GetTv
  <2>3. regs'[1] < Half
    <3>1. regs'[1] = WithLow(regs[1], Bits(tv[2]))
      BY <1>2, <1>9 DEF GetTv, TvInto, RegsOK
    <3>2. Low(regs[1]) = regs[1]
      BY <1>2, VmAssumption DEF Low, RegsOK
    <3>3. Bits(tv[2]) \in 0..(Half - 1)
      BY <2>1, ValueOfBits
    <3> QED
      BY <1>2, <3>1, <3>2, <3>3, VmAssumption DEF WithLow
  <2> QED
    BY <2>2, <2>3 DEF RegsOK
<1>10. CASE GetSti
  <2>1. Bits(sti) \in 0..(Half - 1)
    BY ValueOfBits DEF TypeOK, AtomOK
  <2>2. WithLow(regs[0], Bits(sti)) \in Nat
    BY <1>2, <2>1, LowOfWithLow
  <2> QED
    BY <1>3, <1>10, <2>2 DEF GetSti
<1>11. CASE Pln
  <2>1. PICK r \in {4, 6} : regs' = TvInto(r, <<Derived, Derived>>)
    BY <1>11 DEF Pln, ResultPair
  <2>2. r \in 0..14 /\ <<Derived, Derived>> \in Float \X Float
    BY VmAssumption
  <2>3. regs' \in [0..15 -> Nat] /\ \A i \in 0..15 : i # r /\ i # r + 1 => regs'[i] = regs[i]
    BY <2>1, <2>2, TvIntoOK
  <2>4. regs'[1] = regs[1]
    BY <2>1, <2>3
  <2> QED
    BY <1>2, <2>3, <2>4 DEF RegsOK
<1>12. CASE UNCHANGED regs
  BY <1>2, <1>12 DEF RegsOK
<1> QED
  BY <1>1, <1>4, <1>5, <1>6, <1>7, <1>8, <1>9, <1>10, <1>11, <1>12

\* The stack keeps to its 256 places (StackSize) whatever opcode comes next.
LEMMA StackStep ==
    ASSUME TypeOK, Instruction
    PROVE  StackOK'
<1>1. Push \/ Pop \/ Ret \/ Call \/ UNCHANGED stack
  BY DEF Instruction, Nop, Jump, Arith, Branch, Load, Store, Send, Recv, Spawn, EcanSpread,
         EcanSend, GetTv, SetTvFromRegs, GetSti, SetSti, Pln
<1>2. regs[0] \in Nat /\ pc + 9 \in Nat /\ StackOK
  BY DEF TypeOK, RegsOK, ControlOK
<1>3. stack' = stack \/ (\E w \in Nat : stack' = Pushed(w)) \/ (stack # <<>> /\ stack' = Popped)
  BY <1>1, <1>2 DEF Push, Pop, Ret, Call
<1>4. CASE stack' = stack
  BY <1>2, <1>4 DEF StackOK
<1>5. ASSUME NEW w \in Nat, stack' = Pushed(w) PROVE StackOK'
  BY <1>2, <1>5, StackBounds DEF StackOK
<1>6. CASE stack # <<>> /\ stack' = Popped
  BY <1>2, <1>6, StackBounds DEF StackOK
<1> QED
  BY <1>3, <1>4, <1>5, <1>6

\* Bytes are natural numbers.
LEMMA BytesAreNat ==
    ASSUME NEW s \in Seq(0..255)
    PROVE  \A i \in 1..Len(s) : s[i] \in Nat
<1>1. \A S : \A q \in Seq(S) : \A i \in 1..Len(q) : q[i] \in S
  OBVIOUS
<1>2. \A i \in 1..Len(s) : s[i] \in 0..255
  BY <1>1, Zenon
<1>3. \A b \in 0..255 : b \in Nat
  OBVIOUS
<1> QED BY <1>2, <1>3, Zenon

\* Whatever a jump, a call or a return finds, it is an address.
LEMMA ControlStep ==
    ASSUME TypeOK, Instruction
    PROVE  ControlOK' /\ pkg' = pkg
<1>1. /\ pkg \in Package /\ status \in {"init", "idle", "message"} /\ pc \in Nat
      /\ stack \in Seq(Nat)
  BY DEF TypeOK, ControlOK, StackOK
<1>2. Code \in Seq(0..255) /\ Len(Code) \in Nat
  BY CodeOK DEF Code
<1>3. HasOperand(pc + 1) => Operand(pc + 1) \in Nat
  <2> SUFFICES ASSUME pc + 1 + 8 <= Len(Code) PROVE Operand(pc + 1) \in Nat
    BY DEF HasOperand
  <2>1. pc + 1 + 1 \in 1..Len(Code) /\ pc + 1 + 2 \in 1..Len(Code)
    BY <1>1, <1>2
  <2>2. \A i \in 1..Len(Code) : Code[i] \in Nat
    BY <1>2, BytesAreNat
  <2>3. \A x, y \in Nat : x + 256 * y \in Nat
    OBVIOUS
  <2>4. Code[pc + 1 + 1] + 256 * Code[pc + 1 + 2] \in Nat
    BY <2>1, <2>2, <2>3
  <2> QED BY <2>4 DEF Operand
<1>4. stack # <<>> => Top \in Nat
  BY <1>1 DEF Top
<1>5. pc + 1 \in Nat /\ pc + 9 \in Nat
  BY <1>1
<1>6. pc' \in Nat /\ status' = status /\ pkg' = pkg
  <2>1. CASE Jump \/ Branch \/ Call \/ Ret
    BY <1>3, <1>4, <1>5, <2>1 DEF Jump, Branch, Call, Ret, Goto
  <2>2. CASE Nop \/ Arith \/ Load \/ Store \/ Push \/ Pop
    BY <1>5, <2>2 DEF Nop, Arith, Load, Store, Push, Pop, Goto
  <2>3. CASE Send \/ Recv \/ Spawn \/ EcanSpread \/ EcanSend
    <3>1. CASE Send \/ Recv \/ Spawn
      BY <1>5, <3>1 DEF Send, Recv, Spawn, Goto
    <3>2. CASE EcanSpread
      BY <1>1, <1>5, <3>2 DEF EcanSpread, Goto
    <3>3. CASE EcanSend
      BY <1>1, <1>5, <3>3 DEF EcanSend, Goto
    <3> QED BY <2>3, <3>1, <3>2, <3>3
  <2>4. CASE GetTv \/ SetTvFromRegs \/ GetSti \/ SetSti \/ Pln
    BY <1>5, <2>4 DEF GetTv, SetTvFromRegs, GetSti, SetSti, Pln, Goto
  <2> QED BY <2>1, <2>2, <2>3, <2>4 DEF Instruction
<1> QED BY <1>1, <1>6 DEF ControlOK

\* No opcode writes outside the heap.
LEMMA HeapStep ==
    ASSUME TypeOK, Instruction
    PROVE  HeapOK'
<1>1. Store \/ UNCHANGED heap
  BY DEF Instruction, Nop, Jump, Arith, Branch, Call, Ret, Load, Push, Pop, Send, Recv, Spawn,
         EcanSpread, EcanSend, GetTv, SetTvFromRegs, GetSti, SetSti, Pln
<1>2. CASE heap' = heap
  BY <1>2 DEF TypeOK, HeapOK
<1>3. CASE Store /\ InHeap
  <2>1. PICK mix \in [Overlapped -> 0..(Word - 1)] :
          heap' = [a \in DOMAIN heap |-> IF a = regs[1] THEN regs[0]
                     ELSE IF a \in Overlapped THEN mix[a] ELSE heap[a]]
    BY <1>3 DEF Store
  <2>2. /\ heap \in [0..(HeapSize - 8) -> Nat] /\ regs[0] \in Nat
        /\ \A a \in Overlapped : mix[a] \in Nat
    <3>1. 0..(Word - 1) \subseteq Nat
      BY VmAssumption DEF Word
    <3>2. \A a \in Overlapped : mix[a] \in 0..(Word - 1)
      OBVIOUS
    <3>3. heap \in [0..(HeapSize - 8) -> Nat] /\ regs[0] \in Nat
      BY DEF TypeOK, HeapOK, RegsOK
    <3> QED
      BY <3>1, <3>2, <3>3
  <2> DEFINE h(a) == IF a = regs[1] THEN regs[0] ELSE IF a \in Overlapped THEN mix[a] ELSE heap[a]
  <2>3. \A a \in 0..(HeapSize - 8) : h(a) \in Nat
    BY <2>2
  <2>4. heap' = [a \in 0..(HeapSize - 8) |-> h(a)]
    BY <2>1, <2>2
  <2> HIDE DEF h
  <2> QED
    BY <2>3, <2>4 DEF HeapOK
<1> QED
  BY <1>1, <1>2, <1>3 DEF Store

\* The truth value stays a pair of floats and the attention a number.
LEMMA AtomStep ==
    ASSUME TypeOK, Instruction
    PROVE  AtomOK'
<1>1. EcanSpread \/ SetTvFromRegs \/ SetSti \/ UNCHANGED atom
  BY DEF Instruction, Nop, Jump, Arith, Branch, Call, Ret, Load, Store, Push, Pop, Send, Recv,
         Spawn, EcanSend, GetTv, GetSti, Pln
<1>2. AtomOK /\ Low(regs[0]) \in 0..(Half - 1) /\ Low(regs[1]) \in 0..(Half - 1)
  BY LowIsHalf DEF TypeOK, RegsOK
<1>3. CASE EcanSpread
  BY <1>2, <1>3, VmAssumption DEF EcanSpread, AtomOK, Float
<1>4. CASE SetTvFromRegs
  BY <1>2, <1>4, ValueIsFloat DEF SetTvFromRegs, AtomOK
<1>5. CASE SetSti
  BY <1>2, <1>5, ValueIsFloat DEF SetSti, AtomOK
<1>6. CASE UNCHANGED atom
  BY <1>2, <1>6 DEF atom, AtomOK
<1> QED
  BY <1>1, <1>3, <1>4, <1>5, <1>6

\* What an opcode sends and spawns is of the types of messages and atoms.
LEMMA WorldStep ==
    ASSUME TypeOK, Instruction
    PROVE  InboxOK' /\ OutgoingOK' /\ BoundsOK'
<1>1. Send \/ Recv \/ Spawn \/ EcanSpread \/ EcanSend \/ UNCHANGED world
  BY DEF Instruction, Nop, Jump, Arith, Branch, Call, Ret, Load, Store, Push, Pop,
         GetTv, SetTvFromRegs, GetSti, SetSti, Pln
<1>2. InboxOK /\ OutgoingOK /\ BoundsOK
  BY DEF TypeOK
<1>3. CASE Send
  <2>1. PICK n \in 0..MaxChannels : queued \in [1..n -> 0..ChannelSize] /\ spreading \in 0..n
    BY <1>2 DEF OutgoingOK
  <2>2. SendsOn \in 1..n => queued[SendsOn] + 1 \in 0..ChannelSize
    BY <1>3, <2>1, VmAssumption DEF Send, Full
  <2>3. queued' \in [1..n -> 0..ChannelSize] /\ spreading' = spreading
    <3>1. \A v \in 0..ChannelSize, c \in 1..n :
             [queued EXCEPT ![c] = v] \in [1..n -> 0..ChannelSize]
      BY <2>1
    <3> QED
      BY <1>3, <2>1, <2>2, <3>1 DEF Send
  <2>4. UNCHANGED <<inbox, told, uuid, poolHeld>>
    BY <1>3 DEF Send
  <2> QED
    BY <1>2, <2>1, <2>3, <2>4 DEF InboxOK, OutgoingOK, BoundsOK
<1>4. CASE Recv
  <2>1. InboxOK'
    BY <1>2, <1>4, TakeMessageOK DEF Recv, InboxOK
  <2> QED
    BY <1>2, <1>4, <2>1 DEF Recv, OutgoingOK, BoundsOK, outgoing
<1>5. CASE Spawn
  <2>1. uuid' \in 0..MaxUuid
    BY <1>2, <1>5, VmAssumption DEF Spawn, BoundsOK
  <2>2. UNCHANGED <<inbox, queued, spreading, told, poolHeld>>
    BY <1>5 DEF Spawn, outgoing
  <2> QED
    BY <1>2, <2>1, <2>2 DEF InboxOK, OutgoingOK, BoundsOK
<1>6. CASE EcanSpread
  <2>1. PICK n \in 0..MaxChannels : queued \in [1..n -> 0..ChannelSize] /\ spreading \in 0..n
    BY <1>2 DEF OutgoingOK
  <2>2. spreading' \in 0..n
    BY <1>6, <2>1 DEF EcanSpread
  <2>3. UNCHANGED <<inbox, queued, told, uuid, poolHeld>>
    BY <1>6 DEF EcanSpread
  <2> QED
    BY <1>2, <2>1, <2>2, <2>3 DEF InboxOK, OutgoingOK, BoundsOK
<1>6a. CASE EcanSend
  <2>1. PICK n \in 0..MaxChannels : queued \in [1..n -> 0..ChannelSize] /\ spreading \in 0..n
    BY <1>2 DEF OutgoingOK
  <2>2. spreading \in 1..n /\ queued[spreading] + 1 \in 0..ChannelSize
    BY <1>6a, <2>1, VmAssumption DEF EcanSend, Full
  <2>3. queued' \in [1..n -> 0..ChannelSize]
    BY <1>6a, <2>1, <2>2 DEF EcanSend
  <2>4. spreading' \in 0..n
    BY <1>6a, <2>1, <2>2 DEF EcanSend
  <2>5. UNCHANGED <<inbox, told, uuid, poolHeld>>
    BY <1>6a DEF EcanSend
  <2> QED
    BY <1>2, <2>1, <2>3, <2>4, <2>5 DEF InboxOK, OutgoingOK, BoundsOK
<1>7. CASE UNCHANGED world
  BY <1>2, <1>7 DEF world, outgoing, InboxOK, OutgoingOK, BoundsOK
<1> QED
  BY <1>1, <1>3, <1>4, <1>5, <1>6, <1>6a, <1>7

\* Every step of the VM keeps the types, and none touches the package.
LEMMA TypeStep ==
    ASSUME TypeOK, [Next]_vars
    PROVE  TypeOK' /\ pkg' = pkg
<1>1. /\ ControlOK /\ RegsOK /\ StackOK /\ HeapOK
      /\ AtomOK /\ InboxOK /\ OutgoingOK /\ BoundsOK
  BY DEF TypeOK
<1>2. CASE ExecInit
  <2>1. ControlOK' /\ pkg' = pkg
    BY <1>1, <1>2 DEF ExecInit, ControlOK, Package
  <2> QED
    BY <1>1, <1>2, <2>1 DEF ExecInit, TypeOK, RegsOK, StackOK, HeapOK, AtomOK, InboxOK,
       OutgoingOK, BoundsOK, atom, world, outgoing
<1>3. CASE ExecMsg
  <2>1. ControlOK' /\ pkg' = pkg
    BY <1>1, <1>3 DEF ExecMsg, ControlOK, Package
  <2>2. RegsOK' /\ InboxOK'
    BY <1>1, <1>3, TakeMessageOK DEF ExecMsg, RegsOK, InboxOK
  <2> QED
    BY <1>1, <1>3, <2>1, <2>2 DEF ExecMsg, TypeOK, StackOK, HeapOK, AtomOK,
       OutgoingOK, BoundsOK, atom, outgoing
<1>4. CASE Halt
  <2>1. ControlOK' /\ pkg' = pkg
    BY <1>1, <1>4 DEF Halt, ControlOK
  <2> QED
    BY <1>1, <1>4, <2>1 DEF Halt, TypeOK, RegsOK, StackOK, HeapOK, AtomOK, InboxOK,
       OutgoingOK, BoundsOK, atom, world, outgoing
<1>5. CASE Instruction
  <2>1. ControlOK' /\ pkg' = pkg
    BY <1>5, ControlStep
  <2> QED
    BY <1>5, <2>1, RegsStep, StackStep, HeapStep, AtomStep, WorldStep DEF TypeOK
<1>6. CASE Deliver
  <2>1. InboxOK' /\ BoundsOK'
    <3>1. PICK s \in Senders, t \in TruthValues : inbox' = Append(inbox, [sender |-> s, tv |-> t])
      BY <1>6 DEF Deliver
    <3>2. told' \in 0..MaxMessages /\ uuid' = uuid /\ poolHeld' = poolHeld
      BY <1>1, <1>6, VmAssumption DEF Deliver, BoundsOK
    <3> QED
      BY <1>1, <3>1, <3>2 DEF InboxOK, BoundsOK
  <2> QED
    BY <1>1, <1>6, <2>1 DEF Deliver, TypeOK, ControlOK, RegsOK, StackOK, HeapOK, AtomOK,
       OutgoingOK, vm, atom, outgoing
<1>7. CASE SetTv \/ Attend
  <2>1. AtomOK'
    BY <1>1, <1>7, VmAssumption DEF SetTv, Attend, AtomOK, Float
  <2> QED
    BY <1>1, <1>7, <2>1 DEF SetTv, Attend, TypeOK, ControlOK, RegsOK, StackOK, HeapOK, InboxOK,
       OutgoingOK, BoundsOK, vm, world, outgoing
<1>8. CASE Preload
  <2>1. PICK t \in Preloads : regs' = TvInto(2, t)
    BY <1>8 DEF Preload
  <2>2. t \in Float \X Float
    BY <2>1, VmAssumption
  <2>3. regs' \in [0..15 -> Nat] /\ regs'[1] = regs[1]
    BY <2>1, <2>2, TvIntoOK
  <2> QED
    BY <1>1, <1>8, <2>3 DEF Preload, TypeOK, ControlOK, RegsOK, StackOK, HeapOK, AtomOK, InboxOK,
       OutgoingOK, BoundsOK, atom, world, outgoing
<1>8a. CASE Announced \/ Taken
  <2>1. PICK n \in 0..MaxChannels : queued \in [1..n -> 0..ChannelSize] /\ spreading \in 0..n
    BY <1>1 DEF OutgoingOK
  <2>2. PICK c \in 1..n, v \in 0..ChannelSize : queued' = [queued EXCEPT ![c] = v]
    <3>1. CASE Announced
      <4>1. PICK c \in 1..n : queued[c] # ChannelSize
                               /\ queued' = [queued EXCEPT ![c] = queued[c] + 1]
        BY <2>1, <3>1 DEF Announced, Full
      <4>2. queued[c] + 1 \in 0..ChannelSize
        BY <2>1, <4>1, VmAssumption
      <4> QED BY <4>1, <4>2
    <3>2. CASE Taken
      <4>1. PICK c \in 1..n : queued[c] > 0
                               /\ queued' = [queued EXCEPT ![c] = queued[c] - 1]
        BY <2>1, <3>2 DEF Taken
      <4>2. queued[c] - 1 \in 0..ChannelSize
        BY <2>1, <4>1, VmAssumption
      <4> QED BY <4>1, <4>2
    <3> QED
      BY <1>8a, <3>1, <3>2
  <2>3. OutgoingOK'
    <3>1. queued' \in [1..n -> 0..ChannelSize] /\ spreading' = spreading
      BY <1>8a, <2>1, <2>2 DEF Announced, Taken
    <3> QED
      BY <2>1, <3>1 DEF OutgoingOK
  <2>4. UNCHANGED <<pkg, vm, atom, inbox, told, uuid, poolHeld>>
    BY <1>8a DEF Announced, Taken
  <2> QED
    BY <1>1, <2>3, <2>4 DEF TypeOK, ControlOK, RegsOK, StackOK, HeapOK, AtomOK, InboxOK,
       BoundsOK, vm, atom
<1>8b. CASE PoolLock
  BY <1>1, <1>8b DEF PoolLock, TypeOK, ControlOK, RegsOK, StackOK, HeapOK, AtomOK, InboxOK,
     OutgoingOK, BoundsOK, vm, atom, outgoing
<1>9. CASE UNCHANGED vars
  BY <1>1, <1>9 DEF vars, TypeOK, ControlOK, RegsOK, StackOK, HeapOK, AtomOK, InboxOK,
     OutgoingOK, BoundsOK, vm, atom, world, outgoing
<1> QED
  BY <1>2, <1>3, <1>4, <1>5, <1>6, <1>7, <1>8, <1>8a, <1>8b, <1>9
  DEF Next, Run, Others
-----------------------------------------------------------------------------
(* Sections and truth values                                               *)

\* The first byte of a section is in place when a handler starts.
LEMMA Sections ==
    ASSUME TypeOK, pkg \in Packages
    PROVE  /\ pkg.ep_init \in Nat /\ pkg.ep_on_message \in Nat /\ pkg.ep_on_gc \in Nat
           /\ pkg.ep_init < pkg.ep_on_message /\ pkg.ep_on_message < pkg.ep_on_gc
           /\ pkg.ep_on_gc <= Len(pkg.code)
           /\ pkg.code[pkg.ep_on_message] = OP.HALT /\ pkg.code[pkg.ep_on_gc] = OP.HALT
BY PackagesAssumption DEF TypeOK, ControlOK, Package, EndsInHalt

\* An instruction that is not the OP_HALT of the section is not its last.
LEMMA SectionStep ==
    ASSUME TypeOK, pkg \in Packages, StaysInSection, Instruction
    PROVE  StaysInSection'
<1>1. /\ pc' \in {pc, pc + 1} /\ status' = status /\ pkg' = pkg /\ pc \in Nat
      /\ pkg.code[pc + 1] # OP.HALT
  BY NextByte DEF TypeOK, ControlOK
<1>2. status = "init" => pc + 1 # pkg.ep_on_message
  BY <1>1, Sections
<1>3. status = "message" => pc + 1 # pkg.ep_on_gc
  BY <1>1, Sections
<1> QED
  BY <1>1, <1>2, <1>3, Sections DEF StaysInSection

\* No other opcode has the byte of OP_GET_TV.
LEMMA GetTvIsUnique ==
    ASSUME NEW n \in DOMAIN OP, n # "GET_TV", Fetches({n})
    PROVE  pkg.code[pc + 1] # OP.GET_TV
<1>1. pkg.code[pc + 1] = OP[n]
  BY DEF Fetches, Code
<1>2. OP[n] # OP.GET_TV
  BY DEF OP
<1> QED
  BY <1>1, <1>2

\* The registers of the truth value are written only by the instructions of
\* WritesPair and, with the truth value itself, by OP_GET_TV.
LEMMA PairStep ==
    ASSUME TypeOK, pkg \in Packages, Instruction
    PROVE  \/ \E n \in WritesPair : pkg.code[pc + 1] = OP[n]
           \/ pkg.code[pc + 1] = OP.GET_TV /\ GetTv
           \/ pkg.code[pc + 1] = OP.SET_TV /\ SetTvFromRegs
           \/ regs'[0] = regs[0] /\ regs'[1] = regs[1] /\ tv' = tv /\ pkg.code[pc + 1] # OP.GET_TV
<1>1. ~Jump /\ ~Branch /\ ~Call /\ ~Ret
  BY NeverJumps DEF Jump, Branch, Call, Ret, Jumps
<1>2. CASE Arith \/ Load \/ Pop \/ Spawn \/ GetSti
  BY <1>2 DEF Arith, Load, Pop, Spawn, GetSti, Fetches, Code, WritesPair
<1>3. CASE GetTv \/ SetTvFromRegs
  BY <1>3 DEF GetTv, SetTvFromRegs, Fetches, Code
<1>4. CASE Store \/ Push \/ Send \/ EcanSpread \/ EcanSend \/ SetSti
  <2>1. {"STORE", "PUSH", "SEND", "ECAN_SP", "SET_STI"} \subseteq DOMAIN OP \ {"GET_TV"}
    BY DEF OP
  <2>2. pkg.code[pc + 1] # OP.GET_TV
    BY <1>4, <2>1, GetTvIsUnique DEF Store, Push, Send, EcanSpread, EcanSend, SetSti
  <2>3. regs' = regs /\ tv' = tv
    BY <1>4 DEF Store, Push, Send, EcanSpread, EcanSend, SetSti, atom
  <2> QED
    BY <2>2, <2>3
<1>5. CASE Nop
  <2>1. regs' = regs /\ tv' = tv
    BY <1>5 DEF Nop, atom
  <2>2. "GET_TV" \in DOMAIN OP \ {"NOP"} /\ OP.GET_TV = OP["GET_TV"]
    BY DEF OP
  <2>3. pkg.code[pc + 1] # OP["GET_TV"]
    BY <1>5, <2>2, Zenon DEF Nop, NextIsWithin, Fetches, Code
  <2> QED
    BY <2>1, <2>2, <2>3
<1>6. CASE Recv
  <2>1. regs'[0] = regs[0] /\ regs'[1] = regs[1]
    BY <1>6, TakeMessageOK DEF Recv
  <2>2. tv' = tv /\ pkg.code[pc + 1] # OP.GET_TV
    BY <1>6 DEF Recv, atom, Fetches, Code, OP
  <2> QED
    BY <2>1, <2>2
<1>7. CASE Pln
  <2>1. PICK r \in {4, 6} : regs' = TvInto(r, <<Derived, Derived>>)
    BY <1>7 DEF Pln, ResultPair
  <2>2. r \in 0..14 /\ <<Derived, Derived>> \in Float \X Float
    BY VmAssumption
  <2>3. \A i \in 0..15 : i # r /\ i # r + 1 => regs'[i] = regs[i]
    BY <2>1, <2>2, TvIntoOK
  <2>4. regs'[0] = regs[0] /\ regs'[1] = regs[1]
    BY <2>3
  <2>5. {"PLN_DED", "PLN_REV", "PLN_ABD", "PLN_IND", "PLN_TMP"} \subseteq DOMAIN OP \ {"GET_TV"}
    BY DEF OP
  <2>6. pkg.code[pc + 1] # OP.GET_TV
    BY <1>7, <2>5, GetTvIsUnique DEF Pln
  <2>7. tv' = tv
    BY <1>7 DEF Pln, atom
  <2> QED
    BY <2>4, <2>6, <2>7
<1> QED
  BY <1>1, <1>2, <1>3, <1>4, <1>5, <1>6, <1>7 DEF Instruction

\* Where the truth value was read and is still in place one byte on, either
\* this is the OP_GET_TV or it was in place already.
LEMMA HasReadStep ==
    ASSUME NEW p, NEW start \in Nat, NEW a \in Nat, HasRead(p, start, a + 1),
           p.code[a + 1] # OP.GET_TV
    PROVE  HasRead(p, start, a) /\ \A n \in WritesPair : p.code[a + 1] # OP[n]
<1>1. PICK g \in start..(a + 1) :
         /\ g < a + 1 /\ p.code[g + 1] = OP.GET_TV
         /\ \A k \in g..(a + 1) : g < k /\ k < a + 1 =>
               \A n \in WritesPair : p.code[k + 1] # OP[n]
  BY Zenon DEF HasRead
<1>2. g # a
  BY <1>1
<1>3. g \in start..a /\ g < a /\ a \in g..(a + 1)
  BY <1>1, <1>2
<1>4. \A n \in WritesPair : p.code[a + 1] # OP[n]
  BY <1>1, <1>3
<1>5. \A k \in g..a : g < k /\ k < a => \A n \in WritesPair : p.code[k + 1] # OP[n]
  BY <1>1, <1>3
<1> QED
  BY <1>1, <1>3, <1>4, <1>5, Zenon DEF HasRead

\* No instruction parts the registers from the truth value between a read of it
\* and the write that puts it back, which therefore changes nothing.
LEMMA ReadStep ==
    ASSUME IInv, Instruction
    PROVE  StillRead' /\ tv' = tv
<1>1. TypeOK /\ pkg \in Packages /\ StaysInSection /\ StillRead
  BY DEF IInv
<1>2. /\ pc' = pc + 1 \/ (pc' = pc /\ regs' = regs /\ tv' = tv)
      /\ status' = status /\ pkg' = pkg /\ Running /\ pc \in Nat
      /\ pc < Len(pkg.code)
  BY <1>1, NextByte DEF TypeOK, ControlOK
<1>3. Start \in Nat /\ Start' = Start /\ Running'
  BY <1>1, <1>2, Sections DEF Start, Running
<1>3a. CASE pc' = pc /\ regs' = regs /\ tv' = tv
  BY <1>1, <1>2, <1>3, <1>3a DEF StillRead
<1>3b. SUFFICES ASSUME pc' = pc + 1 PROVE StillRead' /\ tv' = tv
  BY <1>2, <1>3a
<1>4. tv \in Float \X Float /\ tv = <<tv[1], tv[2]>>
  BY <1>1 DEF TypeOK, AtomOK
<1>5. CASE pkg.code[pc + 1] = OP.GET_TV /\ GetTv
  <2>1. tv' = tv /\ regs' = TvInto(0, tv) /\ 0 \in 0..14 /\ 0 + 1 = 1
    BY <1>5 DEF GetTv, atom
  <2> DEFINE g == TvInto(0, tv)
  <2>2. Low(g[0]) = Bits(tv[1]) /\ Low(g[0 + 1]) = Bits(tv[2])
    BY <1>1, <1>4, <2>1, TvIntoOK, Zenon
  <2>3. g = regs' /\ g[0 + 1] = g[1]
    BY <2>1
  <2> HIDE DEF g
  <2>4. Low(regs'[0]) = Bits(tv'[1]) /\ Low(regs'[1]) = Bits(tv'[2])
    BY <2>1, <2>2, <2>3
  <2> QED
    BY <2>1, <2>4 DEF StillRead
<1>6. CASE pkg.code[pc + 1] = OP.SET_TV /\ SetTvFromRegs
  <2>1. HasRead(pkg, Start, pc)
    <3>1. /\ \A a \in pkg.ep_init..(pkg.ep_on_message - 1) :
                pkg.code[a + 1] = OP.SET_TV => HasRead(pkg, pkg.ep_init, a)
          /\ \A a \in pkg.ep_on_message..(pkg.ep_on_gc - 1) :
                pkg.code[a + 1] = OP.SET_TV => HasRead(pkg, pkg.ep_on_message, a)
      BY <1>1, PackagesAssumption DEF PutsBack
    <3>2. CASE status = "init"
      <4>1. pc \in pkg.ep_init..(pkg.ep_on_message - 1)
        BY <1>1, <1>2, <3>2, Sections DEF StaysInSection
      <4> QED
        BY <1>6, <3>1, <3>2, <4>1 DEF Start
    <3>3. CASE status = "message"
      <4>1. pc \in pkg.ep_on_message..(pkg.ep_on_gc - 1)
        BY <1>1, <1>2, <3>3, Sections DEF StaysInSection
      <4> QED
        BY <1>6, <3>1, <3>3, <4>1 DEF Start
    <3> QED
      BY <1>2, <3>2, <3>3 DEF Running
  <2>2. Low(regs[0]) = Bits(tv[1]) /\ Low(regs[1]) = Bits(tv[2])
    BY <1>1, <1>2, <2>1 DEF StillRead
  <2>3. tv' = tv
    BY <1>4, <1>6, <2>2, ValueOfBits DEF SetTvFromRegs
  <2>4. regs' = regs
    BY <1>6 DEF SetTvFromRegs
  <2> QED
    BY <2>2, <2>3, <2>4 DEF StillRead
<1>7. CASE \E n \in WritesPair : pkg.code[pc + 1] = OP[n]
  <2>1. pkg.code[pc + 1] # OP.GET_TV /\ pkg.code[pc + 1] # OP.SET_TV
    BY <1>7 DEF WritesPair, OP
  <2>2. ~HasRead(pkg, Start, pc + 1)
    BY <1>2, <1>3, <1>7, <2>1, HasReadStep
  <2>3. tv' = tv
    BY <1>7, <2>1 DEF Instruction, Nop, Jump, Arith, Branch, Call, Ret, Load, Store, Push, Pop,
       Send, Recv, Spawn, EcanSpread, EcanSend, GetTv, SetTvFromRegs, GetSti, SetSti, Pln,
       atom, Fetches, Code
  <2> QED
    BY <1>2, <1>3, <1>3b, <2>2, <2>3 DEF StillRead
<1>8. CASE regs'[0] = regs[0] /\ regs'[1] = regs[1] /\ tv' = tv /\ pkg.code[pc + 1] # OP.GET_TV
  <2>1. HasRead(pkg, Start, pc + 1) => HasRead(pkg, Start, pc)
    BY <1>2, <1>3, <1>8, HasReadStep
  <2> QED
    BY <1>1, <1>2, <1>3, <1>3b, <1>8, <2>1 DEF StillRead
<1> QED
  BY <1>1, <1>5, <1>6, <1>7, <1>8, PairStep

\* Nobody else's step starts a handler with something read, and while a handler
\* runs the others do not touch the atom's truth value or registers.
LEMMA IInvStep == IInv /\ [Next]_vars => IInv' /\ (Running => tv' = tv)
<1> SUFFICES ASSUME IInv, [Next]_vars PROVE IInv' /\ (Running => tv' = tv)
  OBVIOUS
<1>1. TypeOK /\ pkg \in Packages /\ StaysInSection /\ StillRead
  BY DEF IInv
<1>2. TypeOK' /\ pkg' = pkg
  BY <1>1, TypeStep
<1>3. ASSUME StaysInSection', StillRead', Running => tv' = tv
      PROVE  IInv' /\ (Running => tv' = tv)
  BY <1>1, <1>2, <1>3 DEF IInv
<1>4. \A start, a \in Nat : a = start => ~HasRead(pkg, start, a)
  BY DEF HasRead
<1>5. CASE Instruction
  BY <1>1, <1>3, <1>5, SectionStep, ReadStep
<1>6. CASE ExecInit
  <2>1. status' = "init" /\ pc' = pkg.ep_init /\ ~Running
    BY <1>6 DEF ExecInit, Running
  <2>2. StaysInSection'
    BY <1>1, <1>2, <2>1, Sections DEF StaysInSection
  <2>3. StillRead'
    BY <1>1, <1>2, <1>4, <2>1, Sections DEF StillRead, Start
  <2> QED
    BY <1>3, <2>1, <2>2, <2>3
<1>7. CASE ExecMsg
  <2>1. status' = "message" /\ pc' = pkg.ep_on_message /\ ~Running
    BY <1>7 DEF ExecMsg, Running
  <2>2. StaysInSection'
    BY <1>1, <1>2, <2>1, Sections DEF StaysInSection
  <2>3. StillRead'
    BY <1>1, <1>2, <1>4, <2>1, Sections DEF StillRead, Start
  <2> QED
    BY <1>3, <2>1, <2>2, <2>3
<1>8. CASE Halt
  BY <1>3, <1>8 DEF Halt, atom, StaysInSection, StillRead, Running
<1>9. CASE SetTv \/ Attend \/ Preload
  BY <1>3, <1>9 DEF SetTv, Attend, Preload, vm, StaysInSection, StillRead, Running
<1>10. CASE Deliver \/ Announced \/ Taken \/ PoolLock \/ UNCHANGED vars
  <2>1. UNCHANGED <<pkg, status, pc, regs, tv>>
    BY <1>10 DEF Deliver, Announced, Taken, PoolLock, vars, vm, atom
  <2> QED
    BY <1>1, <1>3, <2>1 DEF StaysInSection, StillRead, Running, Start
<1> QED
  BY <1>5, <1>6, <1>7, <1>8, <1>9, <1>10 DEF Next, Run, Others

\* An idle VM has the types, whatever its package.
LEMMA InitTypes == pkg \in Package /\ InitVm => TypeOK
<1> SUFFICES ASSUME pkg \in Package, InitVm PROVE TypeOK
  OBVIOUS
<1>1. status = "idle" /\ pkg \in Package /\ pc \in Nat
  BY DEF InitVm, Package
<1>2. RegsOK /\ StackOK /\ HeapOK
  BY VmAssumption DEF InitVm, RegsOK, StackOK, HeapOK
<1>3. AtomOK /\ InboxOK /\ BoundsOK
  <2>1. tv \in Float \X Float
    BY VmAssumption DEF InitVm
  <2>2. sti \in Float
    BY VmAssumption DEF InitVm, Float
  <2>3. /\ told \in 0..MaxMessages /\ uuid \in 0..MaxUuid
        /\ poolHeld \in BOOLEAN
    <3>1. told = 0 /\ uuid = 0 /\ poolHeld = FALSE
      BY DEF InitVm
    <3>2. 0 \in 0..MaxMessages /\ 0 \in 0..MaxUuid
      BY VmAssumption
    <3>3. poolHeld \in BOOLEAN
      BY <3>1
    <3> QED BY <3>1, <3>2, <3>3
  <2>4. inbox \in Seq([sender : Senders, tv : TruthValues])
    BY DEF InitVm
  <2> QED BY <2>1, <2>2, <2>3, <2>4 DEF AtomOK, InboxOK, BoundsOK
<1>4. OutgoingOK
  <2>1. PICK n \in 0..MaxChannels : queued = [c \in 1..n |-> 0]
    BY DEF InitVm
  <2>2. 0 \in 0..ChannelSize /\ 0 \in 0..n
    BY <2>1, VmAssumption
  <2>3. queued \in [1..n -> 0..ChannelSize] /\ spreading \in 0..n
    BY <2>1, <2>2 DEF InitVm
  <2> QED BY <2>3 DEF OutgoingOK
<1> QED
  BY <1>1, <1>2, <1>3, <1>4 DEF TypeOK, ControlOK

\* An idle VM with a straight package is a start of the induction.
LEMMA InitIInv == pkg \in Packages /\ InitVm => IInv
<1> SUFFICES ASSUME pkg \in Packages, InitVm PROVE IInv
  OBVIOUS
<1>1. status = "idle" /\ TypeOK
  BY PackagesAssumption, InitTypes DEF InitVm
<1> QED
  BY <1>1 DEF IInv, StaysInSection, StillRead, Running
-----------------------------------------------------------------------------
\* The stack bound and the types, whatever the packages, the messages and the
\* other threads do (disvm_step, elm_loader.c:64).
THEOREM VmTypeCorrect == Spec => []TypeOK
<1>1. IInv => TypeOK
  BY DEF IInv
<1> QED
  BY <1>1, InitIInv, IInvStep, PTL DEF Spec

\* A handler of a straight package runs in its own section of the bytecode.
THEOREM HandlersStay == Spec => []StaysInSection
<1>1. IInv => StaysInSection
  BY DEF IInv
<1> QED
  BY <1>1, InitIInv, IInvStep, PTL DEF Spec

\* No message changes the truth value of an atom whose package puts back what
\* it reads: what OP_PLN_REV and OP_PLN_TMP compute is never stored.
THEOREM TvIsKept == Spec => PackagesKeepTv
<1>1. IInv /\ [Next]_vars => [Running /\ pkg \in Packages => tv' = tv]_vars
  BY IInvStep
<1> QED
  BY <1>1, InitIInv, IInvStep, PTL DEF Spec, PackagesKeepTv
-----------------------------------------------------------------------------
(* Induction                                                               *)

\* A set of numbers has a least one: the sets of the numbers below them are
\* ordered by inclusion, and on finite sets that order is well founded.
LEMMA LeastNat ==
    ASSUME NEW T \in SUBSET Nat, T # {}
    PROVE  \E n \in T : \A m \in T : n <= m
<1> DEFINE U == {0 .. n - 1 : n \in T}
<1>1. U \subseteq FiniteSubsetsOf(Nat)
  <2>1. ASSUME NEW n \in T PROVE IsFiniteSet(0 .. n - 1) /\ 0 .. n - 1 \subseteq Nat
    <3>1. 0 \in Int /\ n - 1 \in Int
      OBVIOUS
    <3> QED BY <3>1, FS_Interval
  <2> QED BY <2>1 DEF FiniteSubsetsOf
<1>2. U # {}
  OBVIOUS
<1>3. PICK x \in U : \A y \in U : ~(<<y, x>> \in StrictSubsetOrdering(Nat))
  <2> HIDE DEF U
  <2> QED BY <1>1, <1>2, FS_StrictSubsetOrderingWellFounded, WFMin
<1>4. PICK n \in T : x = 0 .. n - 1
  OBVIOUS
<1>5. ASSUME NEW m \in T, m < n PROVE FALSE
  <2>1. 0 .. m - 1 \in U
    OBVIOUS
  <2>2. /\ 0 .. m - 1 \subseteq 0 .. n - 1 /\ 0 .. n - 1 \subseteq Nat
        /\ m \in 0 .. n - 1 /\ m \notin 0 .. m - 1
    BY <1>5
  <2>3. <<0 .. m - 1, x>> \in StrictSubsetOrdering(Nat)
    BY <2>2, <1>4 DEF StrictSubsetOrdering
  <2> QED BY <2>1, <2>3, <1>3
<1> QED BY <1>5, <1>4

\* What holds of nothing, and of the next number with a number, holds up to n.
LEMMA UpTo ==
    ASSUME NEW n \in Nat, NEW T, 0 \in T, \A k \in 0 .. n - 1 : k \in T => k + 1 \in T
    PROVE  n \in T
<1> DEFINE U == {k \in 0 .. n : k \notin T}
<1>1. ASSUME n \notin T PROVE FALSE
  <2>1. U # {} /\ U \in SUBSET Nat
    BY <1>1
  <2>2. PICK k \in U : \A m \in U : k <= m
    <3> HIDE DEF U
    <3> QED BY <2>1, LeastNat
  <2>3. k # 0 /\ k \in Nat /\ k <= n
    OBVIOUS
  <2>4. k - 1 \in 0 .. n - 1 /\ k - 1 \notin U
    BY <2>2, <2>3
  <2> QED BY <2>3, <2>4
<1> QED BY <1>1
-----------------------------------------------------------------------------
(* Loops                                                                   *)

\* What a loop makes of x, if g is what it makes of the rest.
Turn(g, more, body, x) == IF x \in more THEN g[body[x]] ELSE x

\* The measure m goes down with every turn.
Measures(m, S, more, body, N) ==
    /\ DOMAIN body = S /\ N \in Nat
    /\ \A x \in S : m[x] \in 0 .. N
    /\ \A x \in S : x \in more => body[x] \in S /\ m[body[x]] < m[x]

\* There is a function that goes on with every turn: it is found by the measure.
LEMMA LoopExists ==
    ASSUME NEW S, NEW more, NEW body, NEW m, NEW N, Measures(m, S, more, body, N)
    PROVE  \E g : g = [x \in S |-> Turn(g, more, body, x)]
<1>1. N \in Nat /\ DOMAIN body = S /\ (\A x \in S : m[x] \in 0 .. N)
  BY DEF Measures
<1>2. \A x \in S : x \in more => body[x] \in S /\ m[body[x]] < m[x]
  BY DEF Measures
<1> DEFINE T == {k \in 0 .. N : \E g : \A x \in S : m[x] <= k => g[x] = Turn(g, more, body, x)}
<1>3. 0 \in T
  <2> DEFINE g == [x \in S |-> x]
  <2>1. \A x \in S : m[x] <= 0 => g[x] = Turn(g, more, body, x)
    <3> SUFFICES ASSUME NEW x \in S, m[x] <= 0 PROVE x \notin more
      BY DEF Turn
    <3>1. m[x] = 0
      BY <1>1
    <3>2. x \in more => body[x] \in S /\ m[body[x]] < 0 /\ m[body[x]] \in 0 .. N
      BY <1>1, <1>2, <3>1
    <3> QED BY <3>2
  <2> HIDE DEF g
  <2> QED BY <1>1, <2>1
<1>4. ASSUME NEW k \in 0 .. N - 1, k \in T PROVE k + 1 \in T
  <2>1. PICK g : \A x \in S : m[x] <= k => g[x] = Turn(g, more, body, x)
    BY <1>4
  <2> DEFINE h == [x \in S |-> Turn(g, more, body, x)]
  <2>2. ASSUME NEW x \in S, m[x] <= k + 1 PROVE h[x] = Turn(h, more, body, x)
    <3>1. CASE x \in more
      <4>1. body[x] \in S /\ m[body[x]] <= k
        <5>1. body[x] \in S /\ m[body[x]] < m[x]
          BY <1>2, <3>1
        <5>2. m[x] \in Nat /\ m[body[x]] \in Nat
          BY <1>1, <5>1
        <5> QED BY <5>1, <5>2, <2>2
      <4>2. h[body[x]] = g[body[x]]
        BY <2>1, <4>1
      <4>3. h[x] = g[body[x]]
        BY <3>1 DEF Turn
      <4> HIDE DEF h
      <4> QED BY <3>1, <4>2, <4>3 DEF Turn
    <3>2. CASE x \notin more
      BY <3>2 DEF Turn
    <3> QED BY <3>1, <3>2
  <2>3. \E f : \A x \in S : m[x] <= k + 1 => f[x] = Turn(f, more, body, x)
    <3> HIDE DEF h
    <3> QED BY <2>2
  <2>4. k + 1 \in 0 .. N
    BY <1>1
  <2> QED BY <2>3, <2>4
<1> HIDE DEF T
<1>5. N \in T
  BY <1>1, <1>3, <1>4, UpTo
<1>6. PICK g : \A x \in S : m[x] <= N => g[x] = Turn(g, more, body, x)
  BY <1>5 DEF T
<1>7. \A x \in S : g[x] = Turn(g, more, body, x)
  BY <1>1, <1>6
<1> DEFINE f == [x \in S |-> g[x]]
<1>8. \A x \in S : f[x] = Turn(f, more, body, x)
  <2> SUFFICES ASSUME NEW x \in S PROVE g[x] = Turn(f, more, body, x)
    OBVIOUS
  <2>1. x \in more => f[body[x]] = g[body[x]]
    BY <1>2
  <2> HIDE DEF f
  <2> QED BY <1>7, <2>1 DEF Turn
<1>9. f = [x \in S |-> f[x]]
  OBVIOUS
<1> HIDE DEF f
<1>10. f = [x \in S |-> Turn(f, more, body, x)]
  BY <1>8, <1>9
<1> QED BY <1>10

\* So a loop is a turn and the loop.
LEMMA WhileTurns ==
    ASSUME NEW S, NEW more, NEW body, NEW m, NEW N, Measures(m, S, more, body, N), NEW x \in S
    PROVE  While(more, body)[x] = IF x \in more THEN While(more, body)[body[x]] ELSE x
<1> DEFINE g == CHOOSE g : g = [y \in S |-> Turn(g, more, body, y)]
<1>1. g = [y \in S |-> Turn(g, more, body, y)]
  BY LoopExists
<1>2. S = DOMAIN body
  BY DEF Measures
<1>3. While(more, body) = g
  BY <1>2 DEF While, Turn
<1> HIDE DEF g
<1>4. g[x] = Turn(g, more, body, x)
  BY <1>1
<1> QED BY <1>3, <1>4 DEF Turn

\* And what every turn keeps, holds at its end.
LEMMA WhileEnds ==
    ASSUME NEW S, NEW more, NEW body, NEW m, NEW N, Measures(m, S, more, body, N),
           NEW R \in SUBSET S, \A x \in R : x \in more => body[x] \in R
    PROVE  \A x \in R : While(more, body)[x] \in R /\ While(more, body)[x] \notin more
<1> DEFINE L == While(more, body)
           Bad == {x \in R : ~(L[x] \in R /\ L[x] \notin more)}
           T == {m[x] : x \in Bad}
<1>1. N \in Nat /\ (\A x \in S : m[x] \in 0 .. N)
  BY DEF Measures
<1>2. \A x \in S : x \in more => body[x] \in S /\ m[body[x]] < m[x]
  BY DEF Measures
<1>3. \A x \in S : L[x] = IF x \in more THEN L[body[x]] ELSE x
  BY WhileTurns
<1> HIDE DEF L
<1>4. ASSUME Bad # {} PROVE FALSE
  <2>1. T \in SUBSET Nat /\ T # {}
    BY <1>1, <1>4
  <2>2. PICK n \in T : \A k \in T : n <= k
    <3> HIDE DEF T
    <3> QED BY <2>1, LeastNat
  <2>3. PICK x \in Bad : n = m[x]
    OBVIOUS
  <2>4. x \in more
    BY <1>3
  <2>5. body[x] \in R /\ m[body[x]] < n /\ m[body[x]] \in Nat
    BY <1>1, <1>2, <2>3, <2>4
  <2>6. body[x] \notin Bad
    <3> SUFFICES ASSUME body[x] \in Bad PROVE FALSE
      OBVIOUS
    <3>1. m[body[x]] \in T /\ n \in Nat
      BY <2>1
    <3> HIDE DEF T
    <3> QED BY <2>2, <2>5, <3>1
  <2> QED BY <1>3, <2>4, <2>5, <2>6
<1> QED BY <1>4 DEF L

-----------------------------------------------------------------------------
(* Pieces one behind the other                                             *)

\* A piece is a function from its address to a sequence.
ArePieces(piece, n, S) == piece \in [1 .. n -> [Nat -> Seq(S)]]
\* One piece more than the i-th prefix has, and what Prefixes says of the i-th.
Longer(u, piece, at, i) == u[i] \o piece[i + 1][at + Len(u[i])]
Prefix(u, piece, at, i) == IF i = 0 THEN <<>> ELSE u[i - 1] \o piece[i][at + Len(u[i - 1])]
ArePrefixes(u, n, piece, at) == u = [i \in 0 .. n |-> Prefix(u, piece, at, i)]

\* Which a function P does that has the prefixes.
Grows(P, n, piece, at, S) ==
    /\ P \in [0 .. n -> Seq(S)]
    /\ P[0] = <<>>
    /\ \A i \in 0 .. n - 1 : P[i + 1] = Longer(P, piece, at, i)

\* A prefix of k + 1 pieces is the one of k pieces and one piece more.
LEMMA PrefixIsLonger ==
    ASSUME NEW u, NEW piece, NEW at, NEW k \in Nat
    PROVE  Prefix(u, piece, at, k + 1) = Longer(u, piece, at, k)
<1>1. ASSUME NEW i, i # 0, i - 1 = k, i = k + 1
      PROVE  Prefix(u, piece, at, i) = Longer(u, piece, at, k)
  BY <1>1, Zenon DEF Prefix, Longer
<1> QED BY <1>1, k + 1 # 0, k + 1 - 1 = k

\* One more piece keeps the type.
LEMMA LongerType ==
    ASSUME NEW S, NEW n \in Nat, NEW piece, ArePieces(piece, n, S), NEW at \in Nat,
           NEW k \in 0 .. n - 1, NEW u, u[k] \in Seq(S)
    PROVE  /\ piece[k + 1][at + Len(u[k])] \in Seq(S)
           /\ Longer(u, piece, at, k) \in Seq(S)
<1>1. piece[k + 1] \in [Nat -> Seq(S)]
  BY k + 1 \in 1 .. n DEF ArePieces
<1>2. piece[k + 1][at + Len(u[k])] \in Seq(S)
  BY <1>1, at + Len(u[k]) \in Nat
<1> QED BY <1>2 DEF Longer

\* The pieces have prefixes, of their elements.
LEMMA PrefixesExist ==
    ASSUME NEW S, NEW n \in Nat, NEW piece, ArePieces(piece, n, S), NEW at \in Nat
    PROVE  \E u : ArePrefixes(u, n, piece, at)
<1> DEFINE Upto(u, k) == /\ u \in [0 .. k -> Seq(S)] /\ u[0] = <<>>
                         /\ \A i \in 0 .. k - 1 : u[i + 1] = Longer(u, piece, at, i)
           T == {k \in 0 .. n : \E u : Upto(u, k)}
<1>1. 0 \in T
  <2> DEFINE u == [i \in 0 .. 0 |-> <<>>]
  <2>1. Upto(u, 0)
    OBVIOUS
  <2> HIDE DEF u, Upto
  <2> QED BY <2>1
<1>2. ASSUME NEW k \in 0 .. n - 1, k \in T PROVE k + 1 \in T
  <2>1. PICK u : Upto(u, k)
    BY <1>2
  <2> DEFINE new == Longer(u, piece, at, k)
             w == [i \in 0 .. k + 1 |-> IF i = k + 1 THEN new ELSE u[i]]
  <2>2. new \in Seq(S)
    BY <2>1, LongerType, u[k] \in Seq(S)
  <2> HIDE DEF new
  <2>3. w \in [0 .. k + 1 -> Seq(S)] /\ w[0] = <<>>
    BY <2>1, <2>2
  <2>4. ASSUME NEW i \in 0 .. k PROVE w[i + 1] = Longer(w, piece, at, i)
    <3>1. w[i] = u[i]
      BY <2>1
    <3>2. Longer(w, piece, at, i) = Longer(u, piece, at, i)
      <4> HIDE DEF w
      <4> QED BY <3>1, Zenon DEF Longer
    <3>3. CASE i = k
      <4>1. w[k + 1] = new
        OBVIOUS
      <4> HIDE DEF w
      <4> QED BY <3>2, <3>3, <4>1 DEF new
    <3>4. CASE i # k
      <4>1. w[i + 1] = u[i + 1] /\ i \in 0 .. k - 1
        BY <2>1, <3>4
      <4> HIDE DEF w
      <4> QED BY <2>1, <3>2, <4>1
    <3> QED BY <3>3, <3>4
  <2>5. Upto(w, k + 1)
    <3> HIDE DEF w
    <3> QED BY <2>3, <2>4, \A i \in 0 .. k + 1 - 1 : i \in 0 .. k
  <2> HIDE DEF Upto, w
  <2> QED BY <2>5
<1> HIDE DEF T
<1>3. n \in T
  BY <1>1, <1>2, UpTo
<1>4. PICK u : Upto(u, n)
  BY <1>3 DEF T
<1>5. ASSUME NEW i \in 0 .. n PROVE u[i] = Prefix(u, piece, at, i)
  <2>1. CASE i = 0
    BY <1>4, <2>1 DEF Prefix
  <2>2. CASE i # 0
    <3>1. PICK k \in 0 .. n - 1 : i = k + 1
      BY <2>2, i - 1 \in 0 .. n - 1, i = (i - 1) + 1
    <3>2. u[k + 1] = Longer(u, piece, at, k)
      BY <1>4
    <3>3. Prefix(u, piece, at, k + 1) = Longer(u, piece, at, k)
      BY PrefixIsLonger
    <3> QED BY <3>1, <3>2, <3>3
  <2> QED BY <2>1, <2>2
<1>6. u = [i \in 0 .. n |-> Prefix(u, piece, at, i)]
  BY <1>4, <1>5
<1> QED BY <1>6 DEF ArePrefixes

\* The recursive function Prefixes does what its body says.
LEMMA PrefixesAre ==
    ASSUME NEW S, NEW n \in Nat, NEW piece, ArePieces(piece, n, S), NEW at \in Nat
    PROVE  Grows(Prefixes(n, piece, at), n, piece, at, S)
<1> DEFINE P == Prefixes(n, piece, at)
<1>2. P = CHOOSE v : ArePrefixes(v, n, piece, at)
  BY DEF Prefixes, ArePrefixes, Prefix
<1>3. ArePrefixes(P, n, piece, at)
  BY <1>2, PrefixesExist
<1> HIDE DEF P
<1>4. P[0] = <<>>
  BY <1>3 DEF ArePrefixes, Prefix
<1>5. ASSUME NEW i \in 0 .. n - 1 PROVE P[i + 1] = Longer(P, piece, at, i)
  <2>1. P[i + 1] = Prefix(P, piece, at, i + 1)
    BY <1>3, i + 1 \in 0 .. n DEF ArePrefixes
  <2>2. Prefix(P, piece, at, i + 1) = Longer(P, piece, at, i)
    BY PrefixIsLonger
  <2> QED BY <2>1, <2>2
<1> DEFINE Typed(k) == P[k] \in Seq(S)
           T == {k \in 0 .. n : Typed(k)}
<1>6. Typed(0)
  BY <1>4
<1>7. ASSUME NEW k \in 0 .. n - 1, Typed(k) PROVE Typed(k + 1)
  <2>1. Longer(P, piece, at, k) \in Seq(S)
    BY <1>7, LongerType
  <2> QED BY <1>5, <2>1
<1> HIDE DEF Typed
<1>8. ASSUME NEW m \in 0 .. n PROVE Typed(m)
  <2>1. 0 \in T
    BY <1>6
  <2>2. \A k \in 0 .. m - 1 : k \in T => k + 1 \in T
    BY <1>7
  <2> HIDE DEF T
  <2>3. m \in T
    BY <2>1, <2>2, UpTo
  <2> QED BY <2>3 DEF T
<1>9. P \in [0 .. n -> Seq(S)]
  BY <1>3, <1>8 DEF ArePrefixes, Typed
<1> QED BY <1>4, <1>5, <1>9 DEF P, Grows

\* A concatenation begins with its first half.
LEMMA Begins ==
    ASSUME NEW S, NEW a \in Seq(S), NEW b \in Seq(S)
    PROVE  Len(a) <= Len(a \o b) /\ \A q \in 1 .. Len(a) : (a \o b)[q] = a[q]
OBVIOUS

\* The others are the pieces behind the first.
Behead(piece, others, n, S) ==
    /\ ArePieces(piece, n + 1, S) /\ ArePieces(others, n, S)
    /\ \A i \in 1 .. n : others[i] = piece[i + 1]

FirstThen(piece, others, n, S, at) ==
    /\ Concat(n + 1, piece, at) = piece[1][at] \o Concat(n, others, at + Len(piece[1][at]))
    /\ piece[1][at] \in Seq(S) /\ at + Len(piece[1][at]) \in Nat

\* n pieces are the first one and, behind it, the others.
LEMMA FirstPiece ==
    ASSUME NEW S, NEW n \in Nat, NEW at \in Nat, NEW piece, NEW others, Behead(piece, others, n, S)
    PROVE  FirstThen(piece, others, n, S, at)
<1>0. ArePieces(piece, n + 1, S) /\ ArePieces(others, n, S) /\ \A i \in 1 .. n : others[i] = piece[i + 1]
  BY DEF Behead
<1> USE <1>0
<1> DEFINE first == piece[1][at]
           start == at + Len(first)
           P == Prefixes(n + 1, piece, at)
           Q == Prefixes(n, others, start)
           Same(k) == P[k + 1] = first \o Q[k]
           T == {k \in 0 .. n : Same(k)}
<1>1. piece[1] \in [Nat -> Seq(S)]
  BY 1 \in 1 .. n + 1 DEF ArePieces
<1>2. first \in Seq(S)
  BY <1>1
<1> HIDE DEF first
<1>3. /\ P \in [0 .. n + 1 -> Seq(S)] /\ P[0] = <<>>
      /\ \A i \in 0 .. n : P[i + 1] = Longer(P, piece, at, i)
  <2>1. PICK m \in Nat : m = n + 1 /\ 0 .. m - 1 = 0 .. n
    OBVIOUS
  <2>2. Grows(P, m, piece, at, S)
    BY <2>1, PrefixesAre
  <2> HIDE DEF P
  <2> QED BY <2>1, <2>2 DEF Grows
<1>4. /\ Q \in [0 .. n -> Seq(S)] /\ Q[0] = <<>>
      /\ \A i \in 0 .. n - 1 : Q[i + 1] = Longer(Q, others, start, i)
  <2>1. start \in Nat
    BY <1>2
  <2> HIDE DEF start
  <2>2. Grows(Q, n, others, start, S)
    BY <2>1, PrefixesAre
  <2> HIDE DEF Q
  <2> QED BY <2>2 DEF Grows
<1> HIDE DEF P, Q
<1>5. Same(0)
  <2>1. P[1] = Longer(P, piece, at, 0)
    BY <1>3, 0 + 1 = 1
  <2>2. at + Len(P[0]) = at
    BY <1>3
  <2>3. P[1] = P[0] \o piece[1][at]
    BY <2>1, <2>2, 0 + 1 = 1, Zenon DEF Longer
  <2>4. P[1] = first
    BY <1>2, <1>3, <2>3 DEF first
  <2> QED BY <1>2, <1>4, <2>4, 0 + 1 = 1
<1>6. ASSUME NEW k \in 0 .. n - 1, Same(k) PROVE Same(k + 1)
  <2>1. Q[k] \in Seq(S) /\ P[k + 1] \in Seq(S)
    BY <1>3, <1>4, k \in 0 .. n, k + 1 \in 0 .. n + 1
  <2>2. at + Len(P[k + 1]) = start + Len(Q[k])
    <3>1. \A q \in Seq(S) : Len(first \o q) = Len(first) + Len(q)
      BY <1>2
    <3>2. Len(P[k + 1]) = Len(first) + Len(Q[k])
      BY <1>6, <2>1, <3>1, Zenon
    <3>3. Len(first) \in Nat /\ Len(Q[k]) \in Nat
      BY <1>2, <2>1
    <3>4. start + Len(Q[k]) = at + (Len(first) + Len(Q[k]))
      <4>1. \A a, b \in Nat : (at + a) + b = at + (a + b)
        OBVIOUS
      <4> QED BY <3>3, <4>1
    <3> HIDE DEF start
    <3> QED BY <3>2, <3>4
  <2> DEFINE b == others[k + 1][start + Len(Q[k])]
  <2>3. b \in Seq(S)
    BY <1>2, <2>1, LongerType, start \in Nat
  <2>4. b = piece[(k + 1) + 1][at + Len(P[k + 1])]
    BY <2>2, k + 1 \in 1 .. n, Zenon
  <2>5. P[(k + 1) + 1] = P[k + 1] \o b
    BY <1>3, <2>4, k + 1 \in 0 .. n, Zenon DEF Longer
  <2>6. Q[k + 1] = Q[k] \o b
    BY <1>4, Zenon DEF Longer
  <2> HIDE DEF b
  <2>7. (first \o Q[k]) \o b = first \o (Q[k] \o b)
    <3>1. \A q, c \in Seq(S) : (first \o q) \o c = first \o (q \o c)
      BY <1>2, ConcatAssociative
    <3> QED BY <2>1, <2>3, <3>1
  <2> QED BY <1>6, <2>5, <2>6, <2>7, Zenon
<1> HIDE DEF Same
<1>7. 0 \in T
  BY <1>5
<1>8. \A k \in 0 .. n - 1 : k \in T => k + 1 \in T
  BY <1>6
<1> HIDE DEF T
<1>9. n \in T
  BY <1>7, <1>8, UpTo
<1>10. first \in Seq(S) /\ at + Len(first) \in Nat
  BY <1>2
<1> QED BY <1>9, <1>10 DEF T, P, Q, first, Concat, Same, FirstThen

-----------------------------------------------------------------------------
(* Recursion over the trees                                                *)

LEMMA TokensExists ==
    \E g : g = [t \in Trees |-> TokensAt([s \in Below(t) |-> g[s]], t)]
<1> DEFINE Is(g, t) == g[t] = TokensAt([s \in Below(t) |-> g[s]], t)
           T == {k \in 0 .. MaxDepth + 1 : \E g : \A t \in Trees : Depth[t] < k => Is(g, t)}
<1>1. MaxDepth \in Nat /\ (\A t \in Trees : Depth[t] \in 0 .. MaxDepth)
  BY DepthAssumption
<1>2. 0 \in T
  <2>1. \A t \in Trees : ~(Depth[t] < 0)
    BY <1>1
  <2> HIDE DEF Is
  <2> QED BY <1>1, <2>1
<1>3. ASSUME NEW k \in 0 .. MaxDepth, k \in T PROVE k + 1 \in T
  <2>1. PICK g : \A t \in Trees : Depth[t] < k => Is(g, t)
    BY <1>3
  <2> DEFINE h == [t \in Trees |-> TokensAt([s \in Below(t) |-> g[s]], t)]
  <2>2. ASSUME NEW t \in Trees, Depth[t] < k + 1 PROVE Is(h, t)
    <3>1. ASSUME NEW s \in Below(t) PROVE h[s] = g[s]
      <4>1. s \in Trees /\ Depth[s] < k
        BY <1>1, <2>2 DEF Below
      <4>2. Is(g, s)
        BY <2>1, <4>1
      <4>3. h[s] = TokensAt([r \in Below(s) |-> g[r]], s)
        BY <4>1
      <4> HIDE DEF h
      <4> QED BY <4>2, <4>3
    <3>2. h[t] = TokensAt([s \in Below(t) |-> g[s]], t)
      OBVIOUS
    <3> HIDE DEF h
    <3>3. [s \in Below(t) |-> h[s]] = [s \in Below(t) |-> g[s]]
      BY <3>1
    <3> QED BY <3>2, <3>3
  <2>3. \E f : \A t \in Trees : Depth[t] < k + 1 => Is(f, t)
    <3> HIDE DEF Is, h
    <3> QED BY <2>2
  <2> HIDE DEF Is
  <2> QED BY <1>1, <2>3, k + 1 \in 0 .. MaxDepth + 1
<1> HIDE DEF T
<1>4. MaxDepth + 1 \in T
  <2>1. PICK n \in Nat : n = MaxDepth + 1 /\ 0 .. n - 1 = 0 .. MaxDepth
    BY <1>1
  <2>2. \A k \in 0 .. n - 1 : k \in T => k + 1 \in T
    BY <1>3, <2>1
  <2>3. n \in T
    BY <1>2, <2>2, UpTo
  <2> QED BY <2>1, <2>3
<1>5. PICK g : \A t \in Trees : Depth[t] < MaxDepth + 1 => Is(g, t)
  BY <1>4 DEF T
<1>6. \A t \in Trees : Is(g, t)
  <2>1. \A t \in Trees : Depth[t] < MaxDepth + 1
    BY <1>1
  <2> HIDE DEF Is
  <2> QED BY <1>5, <2>1
<1> DEFINE f == [t \in Trees |-> g[t]]
<1>7. ASSUME NEW t \in Trees PROVE f[t] = TokensAt([s \in Below(t) |-> f[s]], t)
  <2>1. f[t] = g[t] /\ (\A s \in Below(t) : f[s] = g[s])
    BY DEF Below
  <2> HIDE DEF f
  <2>2. [s \in Below(t) |-> f[s]] = [s \in Below(t) |-> g[s]]
    BY <2>1
  <2> QED BY <1>6, <2>1, <2>2
<1>8. f = [t \in Trees |-> f[t]]
  OBVIOUS
<1> HIDE DEF f
<1>9. f = [t \in Trees |-> TokensAt([s \in Below(t) |-> f[s]], t)]
  BY <1>7, <1>8
<1> QED BY <1>9

\* Tokens does what its body says: depth decreases from a tree to its parts.
LEMMA TokensAre ==
    \A t \in Trees : Tokens[t] = TokensAt([s \in Below(t) |-> Tokens[s]], t)
<1> DEFINE g == CHOOSE g : g = [t \in Trees |-> TokensAt([s \in Below(t) |-> g[s]], t)]
<1>1. g = [t \in Trees |-> TokensAt([s \in Below(t) |-> g[s]], t)]
  BY TokensExists
<1>2. Tokens = g
  BY DEF Tokens
<1> HIDE DEF g
<1> QED BY <1>1, <1>2

\* There is a function with the equation of Gen.
LEMMA GenExists ==
    \E g : g = [t \in Trees |-> GenTree([s \in Below(t) |-> g[s]], t)]
<1> DEFINE Is(g, t) == g[t] = GenTree([s \in Below(t) |-> g[s]], t)
           T == {k \in 0 .. MaxDepth + 1 : \E g : \A t \in Trees : Depth[t] < k => Is(g, t)}
<1>1. MaxDepth \in Nat /\ (\A t \in Trees : Depth[t] \in 0 .. MaxDepth)
  BY DepthAssumption
<1>2. 0 \in T
  <2>1. \A t \in Trees : ~(Depth[t] < 0)
    BY <1>1
  <2> HIDE DEF Is
  <2> QED BY <1>1, <2>1
<1>3. ASSUME NEW k \in 0 .. MaxDepth, k \in T PROVE k + 1 \in T
  <2>1. PICK g : \A t \in Trees : Depth[t] < k => Is(g, t)
    BY <1>3
  <2> DEFINE h == [t \in Trees |-> GenTree([s \in Below(t) |-> g[s]], t)]
  <2>2. ASSUME NEW t \in Trees, Depth[t] < k + 1 PROVE Is(h, t)
    <3>1. ASSUME NEW s \in Below(t) PROVE h[s] = g[s]
      <4>1. s \in Trees /\ Depth[s] < k
        BY <1>1, <2>2 DEF Below
      <4>2. Is(g, s)
        BY <2>1, <4>1
      <4>3. h[s] = GenTree([r \in Below(s) |-> g[r]], s)
        BY <4>1
      <4> HIDE DEF h
      <4> QED BY <4>2, <4>3
    <3>2. h[t] = GenTree([s \in Below(t) |-> g[s]], t)
      OBVIOUS
    <3> HIDE DEF h
    <3>3. [s \in Below(t) |-> h[s]] = [s \in Below(t) |-> g[s]]
      BY <3>1
    <3> QED BY <3>2, <3>3
  <2>3. \E f : \A t \in Trees : Depth[t] < k + 1 => Is(f, t)
    <3> HIDE DEF Is, h
    <3> QED BY <2>2
  <2> HIDE DEF Is
  <2> QED BY <1>1, <2>3, k + 1 \in 0 .. MaxDepth + 1
<1> HIDE DEF T
<1>4. MaxDepth + 1 \in T
  <2>1. PICK n \in Nat : n = MaxDepth + 1 /\ 0 .. n - 1 = 0 .. MaxDepth
    BY <1>1
  <2>2. \A k \in 0 .. n - 1 : k \in T => k + 1 \in T
    BY <1>3, <2>1
  <2>3. n \in T
    BY <1>2, <2>2, UpTo
  <2> QED BY <2>1, <2>3
<1>5. PICK g : \A t \in Trees : Depth[t] < MaxDepth + 1 => Is(g, t)
  BY <1>4 DEF T
<1>6. \A t \in Trees : Is(g, t)
  <2>1. \A t \in Trees : Depth[t] < MaxDepth + 1
    BY <1>1
  <2> HIDE DEF Is
  <2> QED BY <1>5, <2>1
<1> DEFINE f == [t \in Trees |-> g[t]]
<1>7. ASSUME NEW t \in Trees PROVE f[t] = GenTree([s \in Below(t) |-> f[s]], t)
  <2>1. f[t] = g[t] /\ (\A s \in Below(t) : f[s] = g[s])
    BY DEF Below
  <2> HIDE DEF f
  <2>2. [s \in Below(t) |-> f[s]] = [s \in Below(t) |-> g[s]]
    BY <2>1
  <2> QED BY <1>6, <2>1, <2>2
<1>8. f = [t \in Trees |-> f[t]]
  OBVIOUS
<1> HIDE DEF f
<1>9. f = [t \in Trees |-> GenTree([s \in Below(t) |-> f[s]], t)]
  BY <1>7, <1>8
<1> QED BY <1>9

\* Gen does what its body says.
LEMMA GenAre ==
    \A t \in Trees : Gen[t] = GenTree([s \in Below(t) |-> Gen[s]], t)
<1> DEFINE g == CHOOSE g : g = [t \in Trees |-> GenTree([s \in Below(t) |-> g[s]], t)]
<1>1. g = [t \in Trees |-> GenTree([s \in Below(t) |-> g[s]], t)]
  BY GenExists
<1>2. Gen = g
  BY DEF Gen
<1> HIDE DEF g
<1> QED BY <1>1, <1>2

-----------------------------------------------------------------------------
(* What tokens and code are made of                                        *)

Token == {"(", ")"} \cup ({t[1] : t \in Trees} \ {""})
\* Sets of trees with all that is part of them.
Closed(B) == B \subseteq Trees /\ \A t \in B : Below(t) \subseteq B

\* A sequence of one element.
LEMMA Single ==
    ASSUME NEW S, NEW x \in S
    PROVE  <<x>> \in Seq(S) /\ Len(<<x>>) = 1 /\ <<x>>[1] = x
OBVIOUS

\* Types, length and elements of a concatenation.
LEMMA Joined ==
    ASSUME NEW S, NEW a \in Seq(S), NEW b \in Seq(S)
    PROVE  /\ a \o b \in Seq(S) /\ Len(a \o b) = Len(a) + Len(b)
           /\ Len(a) \in Nat /\ Len(b) \in Nat
           /\ \A i \in 1 .. Len(a) : (a \o b)[i] = a[i]
           /\ \A i \in 1 .. Len(b) : (a \o b)[Len(a) + i] = b[i]
<1>1. a \o b \in Seq(S) /\ Len(a \o b) = Len(a) + Len(b) /\ Len(a) \in Nat /\ Len(b) \in Nat
  OBVIOUS
<1>2. \A i \in 1 .. Len(a) : (a \o b)[i] = a[i]
  OBVIOUS
<1>3. \A i \in 1 .. Len(b) : (a \o b)[Len(a) + i] = b[i]
  OBVIOUS
<1> QED BY <1>1, <1>2, <1>3

\* An opcode and its 8 operand bytes.
LEMMA ByteAndWord ==
    ASSUME NEW S, NEW o \in Seq(S), NEW u \in Seq(S)
    PROVE  Len(o) = 1 /\ Len(u) = 8 =>
           /\ o \o u \in Seq(S) /\ Len(o \o u) = 9 /\ (o \o u)[1] = o[1]
           /\ (\A i \in 1 .. 8 : (o \o u)[i + 1] = u[i])
           /\ u \in [1 .. 8 -> S]
<1>1. /\ o \o u \in Seq(S) /\ Len(o \o u) = Len(o) + Len(u)
      /\ \A i \in 1 .. Len(o) : (o \o u)[i] = o[i]
      /\ \A i \in 1 .. Len(u) : (o \o u)[Len(o) + i] = u[i]
  BY Joined
<1>2. 1 + 8 = 9 /\ 1 \in 1 .. 1 /\ (\A i \in 1 .. 8 : 1 + i = i + 1)
  OBVIOUS
<1>3. u \in [1 .. Len(u) -> S]
  BY LenProperties
<1> QED BY <1>1, <1>2, <1>3, Zenon

\* Induction on the depth of a tree.
LEMMA TreeInduction ==
    ASSUME NEW Good, \A t \in Trees : Below(t) \subseteq Good => t \in Good
    PROVE  Trees \subseteq Good
<1> DEFINE T == {k \in 0 .. MaxDepth + 1 : \A t \in Trees : Depth[t] < k => t \in Good}
<1>1. MaxDepth \in Nat /\ (\A t \in Trees : Depth[t] \in 0 .. MaxDepth)
  BY DepthAssumption
<1>2. 0 \in T
  BY <1>1
<1>3. ASSUME NEW k \in 0 .. MaxDepth, k \in T PROVE k + 1 \in T
  <2>1. ASSUME NEW t \in Trees, Depth[t] < k + 1 PROVE t \in Good
    <3>1. \A s \in Below(t) : s \in Trees /\ Depth[s] < k
      BY <1>1, <2>1 DEF Below
    <3> QED BY <1>3, <3>1
  <2> QED BY <1>1, <2>1, k + 1 \in 0 .. MaxDepth + 1
<1> HIDE DEF T
<1>4. MaxDepth + 1 \in T
  <2>1. PICK n \in Nat : n = MaxDepth + 1 /\ 0 .. n - 1 = 0 .. MaxDepth
    BY <1>1
  <2>2. \A k \in 0 .. n - 1 : k \in T => k + 1 \in T
    BY <1>3, <2>1
  <2>3. n \in T
    BY <1>2, <2>2, UpTo
  <2> QED BY <2>1, <2>3
<1> QED BY <1>1, <1>4 DEF T

\* The trees less deep than one are closed under parts.
LEMMA BelowClosed ==
    ASSUME NEW t \in Trees
    PROVE  Closed(Below(t))
BY DepthAssumption DEF Closed, Below

\* The parts of a form are in every closed set that has the form.
LEMMA SubtreesIn ==
    ASSUME NEW B, Closed(B), NEW t \in B, ~IsAtom(t)
    PROVE  t[2] \in Seq(B) /\ (\A i \in 1 .. Len(t[2]) : t[2][i] \in B)
<1>1. t[2] \in Seq(Below(t)) /\ Below(t) \subseteq B
  BY TreesAssumption DEF Closed
<1>2. \A i \in 1 .. Len(t[2]) : t[2][i] \in Below(t)
  BY <1>1
<1> QED BY <1>1, <1>2

\* Pieces of one type make a sequence of that type.
LEMMA ConcatType ==
    ASSUME NEW S, NEW n \in Nat, NEW piece, ArePieces(piece, n, S), NEW at \in Nat
    PROVE  Concat(n, piece, at) \in Seq(S)
<1>1. Grows(Prefixes(n, piece, at), n, piece, at, S)
  BY PrefixesAre
<1> QED BY <1>1 DEF Grows, Concat

\* The spelt trees are such pieces.
LEMMA SpeltType ==
    ASSUME NEW B, NEW S, NEW T, \A s \in B : T[s] \in Seq(S), NEW trees \in Seq(B)
    PROVE  ArePieces(Spelt(T, trees), Len(trees), S)
<1>1. \A i \in 1 .. Len(trees) : T[trees[i]] \in Seq(S)
  OBVIOUS
<1> QED BY <1>1 DEF Spelt, ArePieces

\* Trees are spelt in tokens.
LEMMA AllTokensType ==
    ASSUME NEW B, NEW S, NEW T, \A s \in B : T[s] \in Seq(S), NEW trees \in Seq(B)
    PROVE  AllTokens(T, trees) \in Seq(S)
<1>1. ArePieces(Spelt(T, trees), Len(trees), S)
  BY SpeltType
<1>2. Len(trees) \in Nat
  OBVIOUS
<1> QED BY <1>1, <1>2, ConcatType, 0 \in Nat DEF AllTokens

\* The tokens of a tree, by those of its parts.
LEMMA TokensSpelt ==
    ASSUME NEW t \in Trees
    PROVE  Tokens[t] = TokensAt(Tokens, t)
<1> DEFINE T == [s \in Below(t) |-> Tokens[s]]
<1>1. Tokens[t] = TokensAt(T, t)
  BY TokensAre
<1>2. CASE IsAtom(t)
  BY <1>1, <1>2 DEF TokensAt
<1>3. CASE ~IsAtom(t)
  <2>0. t[2] \in Seq(Below(t))
    BY <1>3, TreesAssumption
  <2>1. \A i \in 1 .. Len(t[2]) : t[2][i] \in Below(t)
    BY <2>0
  <2>2. \A i \in 1 .. Len(t[2]) : T[t[2][i]] = Tokens[t[2][i]]
    BY <2>1
  <2> HIDE DEF T
  <2>3. Spelt(T, t[2]) = Spelt(Tokens, t[2])
    BY <2>2 DEF Spelt
  <2> QED BY <1>1, <2>3 DEF TokensAt, AllTokens
<1> QED BY <1>2, <1>3

\* A tree is spelt in tokens.
LEMMA TokensType ==
    \A t \in Trees : Tokens[t] \in Seq(Token)
<1> DEFINE Good == {t \in Trees : Tokens[t] \in Seq(Token)}
<1>1. ASSUME NEW t \in Trees, Below(t) \subseteq Good PROVE Tokens[t] \in Seq(Token)
  <2>1. Tokens[t] = TokensAt(Tokens, t)
    BY TokensSpelt
  <2>2. CASE IsAtom(t)
    <3>1. t[1] \in Token
      BY <2>2, TreesAssumption DEF Token
    <3> QED BY <2>1, <2>2, <3>1 DEF TokensAt
  <2>3. CASE ~IsAtom(t)
    <3>1. t[2] \in Seq(Below(t))
      BY <2>3, TreesAssumption
    <3>2. AllTokens(Tokens, t[2]) \in Seq(Token)
      BY <1>1, <3>1, AllTokensType
    <3>3. (IF t[1] = "" THEN <<>> ELSE <<t[1]>>) \in Seq(Token)
      <4>1. t[1] # "" => t[1] \in Token
        BY DEF Token
      <4>2. t[1] # "" => <<t[1]>> \in Seq(Token)
        BY <4>1, Single
      <4>3. <<>> \in Seq(Token)
        OBVIOUS
      <4> QED BY <4>2, <4>3
    <3>4. <<"(">> \in Seq(Token) /\ <<")">> \in Seq(Token)
      BY DEF Token
    <3> DEFINE head == IF t[1] = "" THEN <<>> ELSE <<t[1]>>
    <3>5. Tokens[t] = <<"(">> \o head \o AllTokens(Tokens, t[2]) \o <<")">>
      BY <2>1, <2>3 DEF TokensAt
    <3> HIDE DEF head
    <3>6. head \in Seq(Token)
      BY <3>3 DEF head
    <3> QED BY <3>2, <3>4, <3>5, <3>6
  <2> QED BY <2>2, <2>3
<1>2. Trees \subseteq Good
  <2>1. \A t \in Trees : Below(t) \subseteq Good => t \in Good
    BY <1>1
  <2> HIDE DEF Good
  <2> QED BY <2>1, TreeInduction
<1> QED BY <1>2
-----------------------------------------------------------------------------
(* The code of a form                                                      *)

LEMMA Jumps9 ==
    ASSUME NEW op \in {"JMP", "CALL", "JEQ", "JNE"}, NEW v \in Nat
    PROVE  /\ JumpTo(op, v) \in Seq(Byte) /\ Len(JumpTo(op, v)) = 9
           /\ JumpTo(op, v)[1] = OP[op] /\ (\A i \in 1 .. 8 : JumpTo(op, v)[i + 1] = U64(v)[i])
           /\ U64(v) \in [1 .. 8 -> Byte]
<1>1. U64(v) \in Seq(Byte) /\ Len(U64(v)) = 8
  BY DEF U64, Byte
<1>2. <<OP[op]>> \in Seq(Byte) /\ Len(<<OP[op]>>) = 1
  BY DEF OP, Byte
<1>3. JumpTo(op, v) = <<OP[op]>> \o U64(v)
  BY DEF JumpTo
<1> DEFINE u == U64(v)
           o == <<OP[op]>>
<1>4. o[1] = OP[op]
  OBVIOUS
<1>5. o \in Seq(Byte) /\ Len(o) = 1 /\ u \in Seq(Byte) /\ Len(u) = 8 /\ JumpTo(op, v) = o \o u
  BY <1>1, <1>2, <1>3
<1> HIDE DEF u, o
<1>6. /\ o \o u \in Seq(Byte) /\ Len(o \o u) = 9 /\ (o \o u)[1] = o[1]
      /\ (\A i \in 1 .. 8 : (o \o u)[i + 1] = u[i])
      /\ u \in [1 .. 8 -> Byte]
  BY <1>5, ByteAndWord
<1> QED BY <1>4, <1>5, <1>6 DEF u

\* An opcode is a byte.
LEMMA Opcodes ==
    ASSUME NEW name \in DOMAIN OP
    PROVE  <<OP[name]>> \in Seq(Byte) /\ Len(<<OP[name]>>) = 1
BY DEF OP, Byte

\* An atom's code is bytes.
LEMMA ConstantType ==
    ASSUME NEW a
    PROVE  Constant(a) \in Seq(Byte)
<1>1. a \in DOMAIN Literal => Literal[a] \in Seq(Byte)
  BY BytesAssumption
<1>2. <<OP.LOAD>> \in Seq(Byte) /\ <<OP.NOP>> \in Seq(Byte)
  BY DEF OP, Byte
<1> QED BY <1>1, <1>2 DEF Constant

\* strtoull gives a natural number.
LEMMA OffsetType ==
    ASSUME NEW a
    PROVE  OffsetOf(a) \in Nat
BY BytesAssumption DEF OffsetOf

\* The heads of the forms that end in one opcode.
LEMMA FormsAre ==
    /\ DOMAIN Forms = {"halt", "nop", "get_tv", "set_tv", "get_sti", "set_sti", "pln_ded",
         "pln_rev", "pln_abd", "pln_ind", "pln_tmp", "ecan_sp", "send", "recv", "spawn",
         "add", "sub", "mul", "div", "ret", "push", "pop"}
    /\ \A h \in DOMAIN Forms : Forms[h].args \in Nat /\ Forms[h].op \in DOMAIN OP
<1>1. DOMAIN Forms = {"halt", "nop", "get_tv", "set_tv", "get_sti", "set_sti", "pln_ded",
         "pln_rev", "pln_abd", "pln_ind", "pln_tmp", "ecan_sp", "send", "recv", "spawn",
         "add", "sub", "mul", "div", "ret", "push", "pop"}
  BY DEF Forms
<1>2. ASSUME NEW h \in DOMAIN Forms PROVE Forms[h].args \in Nat /\ Forms[h].op \in DOMAIN OP
  BY DEF Forms, Plain, OP
<1> QED BY <1>1, <1>2

\* G gives the code of the trees of B.
IsCode(G, B) == \A s \in B : G[s] \in [Nat -> Seq(Byte)]

\* The code of a list of trees is bytes.
LEMMA GenAllType ==
    ASSUME NEW B, NEW G, IsCode(G, B), NEW trees \in Seq(B), NEW at \in Nat
    PROVE  GenAll(G, trees, at) \in Seq(Byte)
<1>1. \A i \in 1 .. Len(trees) : G[trees[i]] \in [Nat -> Seq(Byte)]
  BY DEF IsCode
<1>2. ArePieces([i \in 1 .. Len(trees) |-> G[trees[i]]], Len(trees), Byte)
  BY <1>1 DEF ArePieces
<1> QED BY <1>2, ConcatType, Len(trees) \in Nat DEF GenAll

\* So is the code of an argument, there or not,
LEMMA GenArgType ==
    ASSUME NEW B, NEW G, IsCode(G, B), NEW args \in Seq(B), NEW i \in Nat \ {0}, NEW at \in Nat
    PROVE  GenArg(G, args, i, at) \in Seq(Byte)
<1>1. i <= Len(args) => G[args[i]] \in [Nat -> Seq(Byte)]
  BY DEF IsCode
<1>2. <<OP.NOP>> \in Seq(Byte)
  BY DEF OP, Byte
<1>3. i <= Len(args) => G[args[i]][at] \in Seq(Byte)
  BY <1>1
<1> QED BY <1>2, <1>3 DEF GenArg

\* of a fixed number of arguments,
LEMMA GenArgsType ==
    ASSUME NEW B, NEW G, IsCode(G, B), NEW args \in Seq(B), NEW n \in Nat, NEW at \in Nat
    PROVE  /\ ArePieces([i \in 1 .. n |-> [a \in Nat |-> GenArg(G, args, i, a)]], n, Byte)
           /\ GenArgs(G, n, args, at) \in Seq(Byte)
<1>1. \A i \in 1 .. n, a \in Nat : GenArg(G, args, i, a) \in Seq(Byte)
  BY GenArgType
<1>2. ArePieces([i \in 1 .. n |-> [a \in Nat |-> GenArg(G, args, i, a)]], n, Byte)
  BY <1>1 DEF ArePieces
<1> QED BY <1>2, ConcatType DEF GenArgs

\* (what is left of a list are members of it)
LEMMA RestType ==
    ASSUME NEW B, NEW args \in Seq(B)
    PROVE  Rest(args) \in Seq(B)
BY DEF Rest

\* of a when or an unless,
LEMMA GenGuardedType ==
    ASSUME NEW B, NEW G, IsCode(G, B), NEW args \in Seq(B), NEW at \in Nat,
           NEW op \in {"JEQ", "JNE"}
    PROVE  GenGuarded(G, op, args, at) \in Seq(Byte)
<1>1. PICK test \in Seq(Byte) : test = GenArg(G, args, 1, at)
  BY GenArgType, 1 \in Nat \ {0}
<1>2. PICK a \in Nat : a = at + Len(test) + 9
  OBVIOUS
<1>3. PICK body \in Seq(Byte) : body = GenAll(G, Rest(args), a)
  BY GenAllType, RestType
<1>4. PICK jump \in Seq(Byte) : jump = JumpTo(op, a + Len(body))
  BY Jumps9, a + Len(body) \in Nat
<1>5. GenGuarded(G, op, args, at) = test \o jump \o body
  BY <1>1, <1>2, <1>3, <1>4 DEF GenGuarded
<1> QED BY <1>5

\* of an if,
LEMMA GenIfType ==
    ASSUME NEW B, NEW G, IsCode(G, B), NEW args \in Seq(B), NEW at \in Nat
    PROVE  GenIf(G, args, at) \in Seq(Byte)
<1>1. PICK test \in Seq(Byte) : test = GenArg(G, args, 1, at)
  BY GenArgType, 1 \in Nat \ {0}
<1>2. PICK a \in Nat : a = at + Len(test) + 9
  OBVIOUS
<1>3. PICK then \in Seq(Byte) : then = GenArg(G, args, 2, a)
  BY GenArgType, 2 \in Nat \ {0}
<1>4. PICK other \in Nat : other = at + Len(test) + Len(then) + 18
  OBVIOUS
<1>5. PICK else \in Seq(Byte) : else = GenArg(G, args, 3, other)
  BY GenArgType, 3 \in Nat \ {0}
<1>6. PICK jeq \in Seq(Byte) : jeq = JumpTo("JEQ", other)
  BY Jumps9
<1>7. PICK jmp \in Seq(Byte) : jmp = JumpTo("JMP", other + Len(else))
  BY Jumps9, other + Len(else) \in Nat
<1>8. GenIf(G, args, at) = test \o jeq \o then \o jmp \o else
  BY <1>1, <1>2, <1>3, <1>4, <1>5, <1>6, <1>7 DEF GenIf
<1> QED BY <1>8

\* of a clause,
LEMMA GenClauseType ==
    ASSUME NEW B, Closed(B), NEW G, IsCode(G, B), NEW clause \in B, ~IsAtom(clause),
           NEW at \in Nat, NEW end \in Nat
    PROVE  GenClause(G, clause, at, end) \in Seq(Byte)
<1>0. PICK args \in Seq(B) : args = clause[2]
  BY SubtreesIn
<1>1. PICK test \in Seq(Byte) : test = GenArg(G, args, 1, at)
  BY GenArgType, 1 \in Nat \ {0}
<1>2. PICK a \in Nat : a = at + Len(test) + 9
  OBVIOUS
<1>3. PICK body \in Seq(Byte) : body = GenAll(G, Rest(args), a)
  BY GenAllType, RestType
<1>4. PICK next \in Nat : next = at + Len(test) + Len(body) + 18
  OBVIOUS
<1>5. PICK jeq \in Seq(Byte) : jeq = JumpTo("JEQ", next)
  BY Jumps9
<1>6. PICK jmp \in Seq(Byte) : jmp = JumpTo("JMP", end)
  BY Jumps9
<1>7. PICK all \in Seq(Byte) : all = GenAll(G, args, at)
  BY GenAllType
<1>8. GenClause(G, clause, at, end)
        = IF clause[1] = "else" THEN all ELSE test \o jeq \o body \o jmp
  BY <1>0, <1>1, <1>2, <1>3, <1>4, <1>5, <1>6, <1>7 DEF GenClause
<1>9. test \o jeq \o body \o jmp \in Seq(Byte)
  OBVIOUS
<1> QED BY <1>8, <1>9

\* of the clauses of a cond,
LEMMA GenClausesType ==
    ASSUME NEW B, Closed(B), NEW G, IsCode(G, B), NEW clauses \in Seq(B),
           \A i \in 1 .. Len(clauses) : ~IsAtom(clauses[i]), NEW at \in Nat, NEW end \in Nat
    PROVE  /\ ArePieces([i \in 1 .. Len(clauses) |-> [a \in Nat |-> GenClause(G, clauses[i], a, end)]],
                        Len(clauses), Byte)
           /\ GenClauses(G, clauses, at, end) \in Seq(Byte)
<1>1. ASSUME NEW i \in 1 .. Len(clauses), NEW a \in Nat
      PROVE  GenClause(G, clauses[i], a, end) \in Seq(Byte)
  BY GenClauseType, clauses[i] \in B
<1>2. ArePieces([i \in 1 .. Len(clauses) |-> [a \in Nat |-> GenClause(G, clauses[i], a, end)]],
                Len(clauses), Byte)
  BY <1>1 DEF ArePieces
<1> QED BY <1>2, ConcatType, Len(clauses) \in Nat DEF GenClauses

\* of the bindings of a let.
LEMMA GenBindingsType ==
    ASSUME NEW B, Closed(B), NEW G, IsCode(G, B), NEW bindings \in Seq(B),
           \A i \in 1 .. Len(bindings) : ~IsAtom(bindings[i]), NEW at \in Nat
    PROVE  /\ ArePieces([i \in 1 .. Len(bindings) |->
                           [a \in Nat |-> GenArg(G, bindings[i][2], 1, a) \o <<OP.STORE>>]],
                        Len(bindings), Byte)
           /\ GenBindings(G, bindings, at) \in Seq(Byte)
<1>1. ASSUME NEW i \in 1 .. Len(bindings), NEW a \in Nat
      PROVE  GenArg(G, bindings[i][2], 1, a) \o <<OP.STORE>> \in Seq(Byte)
  <2>1. bindings[i][2] \in Seq(B)
    BY SubtreesIn, bindings[i] \in B
  <2>2. PICK code \in Seq(Byte) : code = GenArg(G, bindings[i][2], 1, a)
    BY <2>1, GenArgType, 1 \in Nat \ {0}
  <2>3. PICK store \in Seq(Byte) : store = <<OP.STORE>>
    BY Opcodes DEF OP
  <2>4. code \o store \in Seq(Byte)
    OBVIOUS
  <2> QED BY <2>2, <2>3, <2>4
<1>2. ArePieces([i \in 1 .. Len(bindings) |->
                   [a \in Nat |-> GenArg(G, bindings[i][2], 1, a) \o <<OP.STORE>>]],
                Len(bindings), Byte)
  BY <1>1 DEF ArePieces
<1> QED BY <1>2, ConcatType, Len(bindings) \in Nat DEF GenBindings

\* The heads that are no plain forms.
Special == {"jmp", "call", "if", "when", "unless", "cond", "let", "define", "fn", "lambda",
            "defun", "elbo_module"}

\* No head is in two arms of compile_list.
LEMMA SpecialHeads ==
    ASSUME NEW h \in Special
    PROVE  h \notin DOMAIN Forms
BY FormsAre DEF Special

FormIs(G, h, args, at) ==
    /\ h \in DOMAIN Forms =>
         GenForm(G, h, args, at) = GenArgs(G, Forms[h].args, args, at) \o <<OP[Forms[h].op]>>
    /\ h = "jmp" => GenForm(G, h, args, at) = JumpTo("JMP", OffsetOf(args[1][1]))
    /\ h = "call" => GenForm(G, h, args, at) = JumpTo("CALL", OffsetOf(args[1][1]))
    /\ h = "if" => GenForm(G, h, args, at) = GenIf(G, args, at)
    /\ h = "when" => GenForm(G, h, args, at) = GenGuarded(G, "JEQ", args, at)
    /\ h = "unless" => GenForm(G, h, args, at) = GenGuarded(G, "JNE", args, at)
    /\ h = "cond" => GenForm(G, h, args, at)
           = GenClauses(G, args, at, at + Len(GenClauses(G, args, at, 0)))
    /\ h = "let" => GenForm(G, h, args, at)
           = GenBindings(G, args[1][2], at)
             \o GenAll(G, Rest(args), at + Len(GenBindings(G, args[1][2], at)))
    /\ h = "define" => GenForm(G, h, args, at) = GenArg(G, args, 2, at) \o <<OP.STORE>>
    /\ h \in {"fn", "lambda"} =>
         GenForm(G, h, args, at) = GenAll(G, Rest(args), at) \o <<OP.RET>>
    /\ h = "defun" => GenForm(G, h, args, at) = GenAll(G, Rest(Rest(args)), at) \o <<OP.RET>>
    /\ h = "elbo_module" => GenForm(G, h, args, at) = GenAll(G, Rest(args), at)
    /\ h \notin DOMAIN Forms \cup Special =>
         GenForm(G, h, args, at) = GenAll(G, args, at) \o <<OP.NOP>>

\* GenForm, arm by arm.
LEMMA GenFormArms ==
    ASSUME NEW G, NEW h, NEW args, NEW at
    PROVE  FormIs(G, h, args, at)
<1>1. h \in Special => h \notin DOMAIN Forms
  BY SpecialHeads
<1> QED BY <1>1 DEF FormIs, GenForm, Special

HeadIs(E, h, c) ==
    /\ h \in DOMAIN Forms =>
         CompileHead(E, h, c) = Emit(Exprs(E, Forms[h].args, c), <<OP[Forms[h].op]>>)
    /\ h = "jmp" => CompileHead(E, h, c) = Emit(SkipAtom(c), JumpTo("JMP", OffsetOf(AtomAt(c))))
    /\ h = "call" => CompileHead(E, h, c) = Emit(SkipAtom(c), JumpTo("CALL", OffsetOf(AtomAt(c))))
    /\ h = "if" => CompileHead(E, h, c) = CompileIf(E, c)
    /\ h = "when" => CompileHead(E, h, c) = Over(E, E[c], "JEQ")
    /\ h = "unless" => CompileHead(E, h, c) = Over(E, E[c], "JNE")
    /\ h = "cond" => CompileHead(E, h, c) = CompileCond(E, c)
    /\ h = "let" => CompileHead(E, h, c) = CompileLet(E, c)
    /\ h = "define" => CompileHead(E, h, c) = Emit(E[SkipAtom(c)], <<OP.STORE>>)
    /\ h \in {"fn", "lambda"} =>
         CompileHead(E, h, c) = Emit(Body(E, SkipParameters(c)), <<OP.RET>>)
    /\ h = "defun" =>
         CompileHead(E, h, c) = Emit(Body(E, SkipParameters(SkipAtom(c))), <<OP.RET>>)
    /\ h = "elbo_module" => CompileHead(E, h, c) = Body(E, SkipAtom(c))
    /\ h \notin DOMAIN Forms \cup Special =>
         CompileHead(E, h, c) = Emit(Body(E, c), <<OP.NOP>>)

\* CompileHead, arm by arm.
LEMMA CompileArms ==
    ASSUME NEW E, NEW h, NEW c
    PROVE  HeadIs(E, h, c)
<1>1. h \in Special => h \notin DOMAIN Forms
  BY SpecialHeads
<1> QED BY <1>1 DEF HeadIs, CompileHead, Special

ArgsAre(h, args) ==
    /\ h \in DOMAIN Forms => Len(args) <= Forms[h].args /\ AreExprs(args)
    /\ h \in {"jmp", "call"} => Len(args) = 1 /\ IsAtom(args[1])
    /\ h = "if" => Len(args) <= 3 /\ AreExprs(args)
    /\ h = "cond" =>
         /\ \A i \in DOMAIN args : IsClause(args[i]) \/ (i = Len(args) /\ IsElse(args[i]))
         /\ Len(args) > MaxClauses => Len(args) = MaxClauses + 1 /\ IsElse(args[Len(args)])
    /\ h = "let" =>
         /\ args # <<>> /\ AreExprs(Rest(args))
         /\ IsList(args[1]) /\ \A i \in DOMAIN args[1][2] : IsBinding(args[1][2][i])
    /\ h = "define" => Len(args) \in 1..2 /\ IsAtom(args[1]) /\ AreExprs(args)
    /\ h \in {"fn", "lambda"} =>
         args # <<>> /\ AreParameters(args[1]) /\ AreExprs(Rest(args))
    /\ h = "defun" =>
         /\ Len(args) >= 2 /\ IsAtom(args[1]) /\ AreParameters(args[2])
         /\ AreExprs(Rest(Rest(args)))
    /\ h = "elbo_module" => args # <<>> /\ IsAtom(args[1]) /\ AreExprs(args)
    /\ h \in {"when", "unless"} => AreExprs(args)
    /\ h \notin DOMAIN Forms \cup Special \cup {""} => AreExprs(args)

\* WellFormed, arm by arm.
LEMMA WellFormedArms ==
    ASSUME NEW h, NEW args, WellFormed(h, args)
    PROVE  ArgsAre(h, args)
<1>1. h \in Special => h \notin DOMAIN Forms
  BY SpecialHeads
<1>2. "" \notin DOMAIN Forms
  BY FormsAre
<1> QED BY <1>1, <1>2 DEF ArgsAre, WellFormed, Special

\* Bytes with an opcode behind them are bytes.
LEMMA OpcodeAppended ==
    ASSUME NEW a \in Seq(Byte)
    PROVE  a \o <<OP.NOP>> \in Seq(Byte) /\ a \o <<OP.RET>> \in Seq(Byte) /\ a \o <<OP.STORE>> \in Seq(Byte)
<1>1. OP.NOP \in Byte /\ OP.RET \in Byte /\ OP.STORE \in Byte
  BY DEF OP, Byte
<1>2. \A b \in Byte : a \o <<b>> \in Seq(Byte)
  OBVIOUS
<1> QED BY <1>1, <1>2

\* The same of any opcode.
LEMMA Appended ==
    ASSUME NEW a \in Seq(Byte), NEW name \in DOMAIN OP
    PROVE  a \o <<OP[name]>> \in Seq(Byte)
<1>1. PICK b \in Seq(Byte) : b = <<OP[name]>>
  BY Opcodes
<1> QED BY <1>1

\* A list's places and members.
LEMMA Elements ==
    ASSUME NEW B, NEW args \in Seq(B)
    PROVE  DOMAIN args = 1 .. Len(args) /\ (\A i \in 1 .. Len(args) : args[i] \in B)
           /\ Len(args) \in Nat /\ (args # <<>> => Len(args) >= 1)
OBVIOUS

\* The code of a form is bytes if the code of its parts is.
LEMMA GenFormType ==
    ASSUME NEW B, Closed(B), NEW G, IsCode(G, B), NEW h, NEW args \in Seq(B), WellFormed(h, args),
           NEW at \in Nat
    PROVE  GenForm(G, h, args, at) \in Seq(Byte)
<1>a. FormIs(G, h, args, at)
  BY GenFormArms
<1>b. ArgsAre(h, args)
  BY WellFormedArms
<1>0. DOMAIN args = 1 .. Len(args) /\ (\A i \in 1 .. Len(args) : args[i] \in B)
  BY Elements
<1>1. CASE h \in DOMAIN Forms
  <2>1. Forms[h].args \in Nat /\ Forms[h].op \in DOMAIN OP
    BY <1>1, FormsAre
  <2>2. GenArgs(G, Forms[h].args, args, at) \in Seq(Byte)
    BY <2>1, GenArgsType
  <2>3. GenForm(G, h, args, at) = GenArgs(G, Forms[h].args, args, at) \o <<OP[Forms[h].op]>>
    BY <1>a, <1>1 DEF FormIs
  <2> QED BY <2>1, <2>2, <2>3, Appended
<1>2. CASE h \in {"jmp", "call"}
  <2>1. GenForm(G, h, args, at) \in {JumpTo("JMP", OffsetOf(args[1][1])), JumpTo("CALL", OffsetOf(args[1][1]))}
    BY <1>a, <1>2 DEF FormIs
  <2>2. JumpTo("JMP", OffsetOf(args[1][1])) \in Seq(Byte) /\ JumpTo("CALL", OffsetOf(args[1][1])) \in Seq(Byte)
    BY Jumps9, OffsetType
  <2> QED BY <2>1, <2>2
<1>3. CASE h = "if"
  BY <1>a, <1>3, GenIfType DEF FormIs
<1>4. CASE h \in {"when", "unless"}
  <2>1. GenForm(G, h, args, at) \in {GenGuarded(G, "JEQ", args, at), GenGuarded(G, "JNE", args, at)}
    BY <1>a, <1>4 DEF FormIs
  <2>2. GenGuarded(G, "JEQ", args, at) \in Seq(Byte) /\ GenGuarded(G, "JNE", args, at) \in Seq(Byte)
    BY GenGuardedType
  <2> QED BY <2>1, <2>2
<1>5. CASE h = "cond"
  <2>1. \A i \in 1 .. Len(args) : ~IsAtom(args[i])
    BY <1>b, <1>0, <1>5 DEF ArgsAre, IsClause, IsElse, IsList
  <2>2. \A end \in Nat : GenClauses(G, args, at, end) \in Seq(Byte)
    BY <2>1, GenClausesType
  <2>3. at + Len(GenClauses(G, args, at, 0)) \in Nat
    <3>1. PICK code \in Seq(Byte) : code = GenClauses(G, args, at, 0)
      BY <2>2, 0 \in Nat
    <3>2. at + Len(code) \in Nat
      OBVIOUS
    <3> QED BY <3>1, <3>2
  <2>4. GenForm(G, h, args, at) = GenClauses(G, args, at, at + Len(GenClauses(G, args, at, 0)))
    BY <1>a, <1>5 DEF FormIs
  <2> QED BY <2>2, <2>3, <2>4
<1>6. CASE h = "let"
  <2>1. args[1] \in B /\ ~IsAtom(args[1]) /\ (\A i \in DOMAIN args[1][2] : IsBinding(args[1][2][i]))
    <3>1. args # <<>> /\ IsList(args[1]) /\ (\A i \in DOMAIN args[1][2] : IsBinding(args[1][2][i]))
      BY <1>b, <1>6 DEF ArgsAre
    <3>2. 1 \in 1 .. Len(args)
      BY <3>1, Elements
    <3> QED BY <1>0, <3>1, <3>2 DEF IsList
  <2>2. PICK bindings \in Seq(B) : bindings = args[1][2]
    BY <2>1, SubtreesIn
  <2>3. \A i \in 1 .. Len(bindings) : ~IsAtom(bindings[i])
    <3>1. DOMAIN bindings = 1 .. Len(bindings)
      BY Elements
    <3> QED BY <2>1, <2>2, <3>1 DEF IsBinding
  <2>4. PICK b \in Seq(Byte) : b = GenBindings(G, bindings, at)
    BY <2>3, GenBindingsType
  <2>5. PICK rest \in Seq(Byte) : rest = GenAll(G, Rest(args), at + Len(b))
    BY GenAllType, RestType, at + Len(b) \in Nat
  <2>6. GenForm(G, h, args, at) = b \o rest
    BY <1>a, <1>6, <2>2, <2>4, <2>5 DEF FormIs
  <2> QED BY <2>6
<1>7. CASE h = "define"
  <2>1. GenArg(G, args, 2, at) \in Seq(Byte)
    BY GenArgType, 2 \in Nat \ {0}
  <2>2. GenForm(G, h, args, at) = GenArg(G, args, 2, at) \o <<OP.STORE>>
    BY <1>a, <1>7 DEF FormIs
  <2> QED BY <2>1, <2>2, OpcodeAppended
<1>8. CASE h \in {"fn", "lambda", "defun"}
  <2>1. Rest(args) \in Seq(B) /\ Rest(Rest(args)) \in Seq(B)
    BY RestType
  <2>2. GenAll(G, Rest(args), at) \in Seq(Byte) /\ GenAll(G, Rest(Rest(args)), at) \in Seq(Byte)
    BY <2>1, GenAllType
  <2>3. GenForm(G, h, args, at) \in
          {GenAll(G, Rest(args), at) \o <<OP.RET>>, GenAll(G, Rest(Rest(args)), at) \o <<OP.RET>>}
    BY <1>a, <1>8 DEF FormIs
  <2>4. GenAll(G, Rest(args), at) \o <<OP.RET>> \in Seq(Byte)
        /\ GenAll(G, Rest(Rest(args)), at) \o <<OP.RET>> \in Seq(Byte)
    BY <2>2, OpcodeAppended
  <2> QED BY <2>3, <2>4
<1>9. CASE h = "elbo_module"
  BY <1>a, <1>9, GenAllType, RestType DEF FormIs
<1>10. CASE h \notin DOMAIN Forms \cup Special
  <2>1. GenForm(G, h, args, at) = GenAll(G, args, at) \o <<OP.NOP>>
    BY <1>a, <1>10 DEF FormIs
  <2>2. GenAll(G, args, at) \in Seq(Byte)
    BY GenAllType
  <2> QED BY <2>1, <2>2, OpcodeAppended
<1> QED BY <1>1, <1>2, <1>3, <1>4, <1>5, <1>6, <1>7, <1>8, <1>9, <1>10 DEF Special

\* The code of every tree is a sequence of bytes, wherever it starts.
LEMMA GenType ==
    IsCode(Gen, Trees)
<1> DEFINE Good == {t \in Trees : Gen[t] \in [Nat -> Seq(Byte)]}
<1>1. ASSUME NEW t \in Trees, Below(t) \subseteq Good PROVE Gen[t] \in [Nat -> Seq(Byte)]
  <2> DEFINE G == [s \in Below(t) |-> Gen[s]]
  <2>1. Gen[t] = GenTree(G, t)
    BY GenAre
  <2>2. IsCode(G, Below(t))
    BY <1>1 DEF IsCode
  <2> HIDE DEF G
  <2>3. ASSUME NEW at \in Nat PROVE GenAt(G, t, at) \in Seq(Byte)
    <3>1. CASE IsAtom(t)
      BY <3>1, ConstantType DEF GenAt
    <3>2. CASE ~IsAtom(t)
      <4>1. t[2] \in Seq(Below(t)) /\ WellFormed(t[1], t[2])
        BY <3>2, TreesAssumption
      <4>2. GenForm(G, t[1], t[2], at) \in Seq(Byte)
        BY <2>2, <4>1, BelowClosed, GenFormType
      <4> QED BY <3>2, <4>2 DEF GenAt
    <3> QED BY <3>1, <3>2
  <2> QED BY <2>1, <2>3 DEF GenTree
<1>2. Trees \subseteq Good
  <2>1. \A t \in Trees : Below(t) \subseteq Good => t \in Good
    BY <1>1
  <2> HIDE DEF Good
  <2> QED BY <2>1, TreeInduction
<1> QED BY <1>2 DEF IsCode

-----------------------------------------------------------------------------
(* The compiler goes on                                                    *)

SourceOK == source \in Seq(Token)
\* Tokens left to read.
Ahead(d) == IF Ended(d) THEN 0 ELSE Len(source) + 1 - d.pos
Onward(c) == {d \in State : d.pos >= c.pos}

\* A state of the compiler is its place and its buffer.
LEMMA StateIs ==
    ASSUME NEW c \in State
    PROVE  c.pos \in Nat /\ c.buf \in Seq(Byte) /\ c = [pos |-> c.pos, buf |-> c.buf]
BY DEF State

\* Skip moves one token on and emits nothing.
LEMMA SkipGoesOn ==
    ASSUME NEW c \in State
    PROVE  Skip(c) \in State /\ Skip(c).pos = c.pos + 1 /\ Skip(c).buf = c.buf
BY DEF State, Skip

\* SkipAtom and SkipClose do not move back and emit nothing.
LEMMA SkipsGoOn ==
    ASSUME NEW c \in State
    PROVE  /\ SkipAtom(c) \in Onward(c) /\ SkipAtom(c).buf = c.buf
           /\ SkipClose(c) \in Onward(c) /\ SkipClose(c).buf = c.buf
<1>1. Skip(c) \in Onward(c) /\ c \in Onward(c)
  BY SkipGoesOn, StateIs DEF Onward
<1> QED BY <1>1, SkipGoesOn DEF SkipAtom, SkipClose

\* Emit stays where it is.
LEMMA EmitGoesOn ==
    ASSUME NEW c \in State, NEW bytes \in Seq(Byte)
    PROVE  /\ Emit(c, bytes) \in State /\ Emit(c, bytes).pos = c.pos
           /\ Emit(c, bytes).buf = c.buf \o bytes
           /\ Here(c) \in Nat
           /\ Here(Emit(c, bytes)) = Here(c) + Len(bytes)
<1>1. Emit(c, bytes) = [pos |-> c.pos, buf |-> c.buf \o bytes]
  BY DEF Emit
<1>2. c.buf \in Seq(Byte) /\ c.pos \in Nat
  BY StateIs
<1>3. c.buf \o bytes \in Seq(Byte) /\ Len(c.buf \o bytes) = Len(c.buf) + Len(bytes)
      /\ Len(c.buf) \in Nat
  BY <1>2, Joined
<1> QED BY <1>1, <1>2, <1>3 DEF State, Here

\* An operand is 8 bytes.
LEMMA U64Type ==
    ASSUME NEW v \in Nat
    PROVE  U64(v) \in [1 .. 8 -> Byte]
BY Jumps9

\* What Patch makes of the byte b at i.
ByteAt(offsets, v, b, i) ==
    IF Covering(offsets, i) = {} THEN b ELSE U64(v)[i - Only(Covering(offsets, i))]

\* Patch stays where it is and changes the bytes of the patched operands only.
LEMMA PatchGoesOn ==
    ASSUME NEW c \in State, NEW offsets \in SUBSET Nat, NEW v \in Nat
    PROVE  /\ Patch(c, offsets, v) \in State /\ Patch(c, offsets, v).pos = c.pos
           /\ Patch(c, offsets, v).buf \in Seq(Byte)
           /\ Len(Patch(c, offsets, v).buf) = Len(c.buf)
           /\ \A i \in 1 .. Len(c.buf) :
                Patch(c, offsets, v).buf[i] = ByteAt(offsets, v, c.buf[i], i)
<1> DEFINE byte(i) == ByteAt(offsets, v, c.buf[i], i)
           b == [i \in 1 .. Len(c.buf) |-> byte(i)]
<1>1. c.buf \in Seq(Byte) /\ c.pos \in Nat /\ Len(c.buf) \in Nat /\ DOMAIN c.buf = 1 .. Len(c.buf)
  BY StateIs, LenProperties
<1>2. Patch(c, offsets, v) = [pos |-> c.pos, buf |-> b]
  BY DEF Patch, ByteAt
<1>3. ASSUME NEW i \in 1 .. Len(c.buf) PROVE byte(i) \in Byte
  <2>1. CASE Covering(offsets, i) = {}
    BY <1>1, <2>1 DEF ByteAt
  <2>2. CASE Covering(offsets, i) # {}
    <3>1. PICK o \in Covering(offsets, i) : o = Only(Covering(offsets, i))
      BY <2>2 DEF Only
    <3>2. i - o \in 1 .. 8
      <4>1. o \in Nat /\ i \in (o + 1) .. (o + 8)
        BY <3>1 DEF Covering
      <4> QED BY <4>1, <1>1
    <3>3. U64(v)[i - o] \in Byte
      BY <3>2, U64Type
    <3> QED BY <2>2, <3>1, <3>3 DEF ByteAt
  <2> QED BY <2>1, <2>2
<1> HIDE DEF byte
<1>4. b \in Seq(Byte) /\ Len(b) = Len(c.buf) /\ (\A i \in 1 .. Len(c.buf) : b[i] = byte(i))
  BY <1>1, <1>3
<1> HIDE DEF b
<1> QED BY <1>1, <1>2, <1>4 DEF State, byte

\* There are fewer tokens ahead the further on a state is.
LEMMA InsideIs ==
    ASSUME SourceOK, NEW d \in State, d.pos > 0
    PROVE  /\ ~Ended(d) => source[d.pos] \in Token /\ Ahead(d) = Len(source) + 1 - d.pos
           /\ d \in Inside => AtomAt(d) # "" \/ At(d, "(")
           /\ Ahead(d) \in 0 .. Len(source) + 1
           /\ \A e \in State : ~Ended(d) /\ e.pos > d.pos => Ahead(e) < Ahead(d)
<1>1. d.pos \in Nat /\ Len(source) \in Nat
  BY StateIs DEF SourceOK
<1>2. ~Ended(d) => source[d.pos] \in Token /\ Ahead(d) = Len(source) + 1 - d.pos
  BY <1>1 DEF Ended, Ahead, SourceOK
<1>3. d \in Inside => AtomAt(d) # "" \/ At(d, "(")
  BY <1>2 DEF Inside, AtomAt, At, Token
<1>4. Ahead(d) \in 0 .. Len(source) + 1
  BY <1>1 DEF Ahead, Ended
<1>5. ASSUME NEW e \in State, ~Ended(d), e.pos > d.pos PROVE Ahead(e) < Ahead(d)
  BY <1>1, <1>5, StateIs DEF Ahead, Ended
<1> QED BY <1>2, <1>3, <1>4, <1>5

\* E goes on from every state behind p, and reads what is inside a list.
Consumes(E, p) ==
    /\ E \in [Behind(p) -> Behind(p)]
    /\ \A d \in Behind(p) : E[d].pos >= d.pos /\ (d \in Inside => E[d].pos > d.pos)

\* States from c on are behind all that c is behind.
LEMMA OnwardBehind ==
    ASSUME NEW p \in Nat, NEW c \in Behind(p)
    PROVE  /\ c \in State /\ c.pos \in Nat /\ c.pos > p /\ c \in Onward(c)
           /\ \A d \in Onward(c) : d \in Behind(p) /\ d.pos >= c.pos /\ Onward(d) \subseteq Onward(c)
<1>1. c \in State /\ c.pos \in Nat /\ c.pos > p
  BY StateIs DEF Behind
<1>2. ASSUME NEW d \in Onward(c)
      PROVE  d \in Behind(p) /\ d.pos >= c.pos /\ Onward(d) \subseteq Onward(c)
  BY <1>1, StateIs DEF Behind, Onward
<1> QED BY <1>1, <1>2 DEF Onward

\* A compiler of expressions that consumes, at one state.
LEMMA ConsumesOn ==
    ASSUME NEW p \in Nat, NEW E, Consumes(E, p), NEW c \in Behind(p)
    PROVE  E[c] \in Onward(c) /\ E[c] \in Behind(p) /\ (c \in Inside => E[c].pos > c.pos)
BY DEF Consumes, Onward, Behind

\* Going on is transitive.
LEMMA OnwardTrans ==
    ASSUME NEW c \in State, NEW d \in Onward(c), NEW e \in Onward(d)
    PROVE  e \in Onward(c) /\ d \in State /\ e \in State
BY StateIs DEF Onward

\* A loop over states, each turn of which goes on, ends further on.
GoesOn(more, body, p) ==
    /\ DOMAIN body = Behind(p)
    /\ \A d \in Behind(p) : d \in more => body[d] \in Behind(p) /\ body[d].pos > d.pos /\ ~Ended(d)

\* A loop whose every turn consumes ends, goes on, and is its own unrolling.
LEMMA LoopGoesOn ==
    ASSUME SourceOK, NEW p \in Nat, NEW more, NEW body, GoesOn(more, body, p), NEW c \in Behind(p)
    PROVE  /\ While(more, body)[c] \in Onward(c) /\ While(more, body)[c] \notin more
           /\ While(more, body)[c] = IF c \in more THEN While(more, body)[body[c]] ELSE c
<1> DEFINE m == [d \in Behind(p) |-> Ahead(d)]
           N == Len(source) + 1
           R == {d \in Behind(p) : d.pos >= c.pos}
<1>1. \A d \in Behind(p) : d \in State /\ d.pos \in Nat /\ d.pos > 0
  BY StateIs DEF Behind
<1>2. \A d \in Behind(p) : m[d] = Ahead(d) /\ Ahead(d) \in 0 .. N
  BY <1>1, InsideIs
<1>3. \A d \in Behind(p) : d \in more => body[d] \in Behind(p) /\ Ahead(body[d]) < Ahead(d)
  BY <1>1, InsideIs DEF GoesOn
<1>4. N \in Nat
  BY DEF SourceOK
<1> HIDE DEF m, N
<1>5. Measures(m, Behind(p), more, body, N)
  BY <1>2, <1>3, <1>4 DEF Measures, GoesOn
<1>6. While(more, body)[c] = IF c \in more THEN While(more, body)[body[c]] ELSE c
  BY <1>5, WhileTurns
<1>7. R \in SUBSET Behind(p) /\ c \in R
  BY <1>1
<1>8. \A d \in R : d \in more => body[d] \in R
  <2> SUFFICES ASSUME NEW d \in R, d \in more PROVE body[d] \in R
    OBVIOUS
  <2>1. d \in Behind(p) /\ d.pos >= c.pos /\ c.pos \in Nat /\ d.pos \in Nat
    BY <1>1
  <2>2. body[d] \in Behind(p) /\ body[d].pos > d.pos
    BY <2>1 DEF GoesOn
  <2>3. body[d].pos \in Nat
    BY <1>1, <2>2
  <2> QED BY <2>1, <2>2, <2>3
<1> HIDE DEF R
<1>9. While(more, body)[c] \in R /\ While(more, body)[c] \notin more
  BY <1>5, <1>7, <1>8, WhileEnds
<1> QED BY <1>1, <1>6, <1>9 DEF R, Onward

\* The loop up to a closing parenthesis is such a loop,
LEMMA BodyGoesOn ==
    ASSUME SourceOK, NEW p \in Nat, NEW E, Consumes(E, p), NEW c \in Behind(p)
    PROVE  /\ Body(E, c) \in Onward(c)
           /\ Body(E, c) = IF c \in Inside THEN Body(E, E[c]) ELSE c
<1>1. GoesOn(Inside, E, p)
  BY DEF Consumes, GoesOn, Inside
<1> QED BY <1>1, LoopGoesOn DEF Body

\* (a binding consumes its parenthesis)
LEMMA BindingGoesOn ==
    ASSUME SourceOK, NEW p \in Nat, NEW E, Consumes(E, p), NEW d \in Behind(p)
    PROVE  Binding(E, d) \in Onward(Skip(d)) /\ Binding(E, d).pos > d.pos
<1>1. PICK e \in Onward(Skip(d)) : e = SkipAtom(Skip(d))
  BY SkipGoesOn, SkipsGoOn DEF Behind
<1>2. e \in Behind(p)
  BY <1>1, SkipGoesOn, StateIs DEF Behind, Onward
<1>3. PICK f \in Onward(e) : f = E[e]
  BY <1>2, ConsumesOn
<1>4. PICK g \in Onward(f) : g = Emit(f, <<OP.STORE>>)
  <2>1. <<OP.STORE>> \in Seq(Byte)
    BY DEF OP, Byte
  <2>2. Emit(f, <<OP.STORE>>) \in State /\ Emit(f, <<OP.STORE>>).pos = f.pos
    BY <1>3, <2>1, EmitGoesOn DEF Onward
  <2> QED BY <1>3, <2>2, StateIs DEF Onward
<1>5. PICK h \in Onward(g) : h = SkipClose(g)
  BY <1>4, SkipsGoOn DEF Onward
<1>6. h = Binding(E, d)
  BY <1>1, <1>3, <1>4, <1>5 DEF Binding
<1>7. Skip(d) \in State /\ Skip(d).pos = d.pos + 1 /\ d.pos \in Nat
  BY SkipGoesOn, StateIs DEF Behind
<1>8. h \in Onward(Skip(d))
  BY <1>1, <1>3, <1>4, <1>5, <1>7, OnwardTrans
<1>9. h.pos >= d.pos + 1 /\ h.pos \in Nat
  BY <1>7, <1>8, StateIs DEF Onward
<1> QED BY <1>6, <1>7, <1>8, <1>9

\* so is the loop over bindings,
LEMMA BindingsGoOn ==
    ASSUME SourceOK, NEW p \in Nat, NEW E, Consumes(E, p), NEW c \in Behind(p)
    PROVE  /\ Bindings(E, c) \in Onward(c)
           /\ Bindings(E, c) = IF At(c, "(") THEN Bindings(E, Binding(E, c)) ELSE c
<1> DEFINE body == [d \in DOMAIN E |-> Binding(E, d)]
<1>1. DOMAIN E = Behind(p)
  BY DEF Consumes
<1>2. \A d \in Behind(p) : body[d] = Binding(E, d)
  BY <1>1
<1>3. ASSUME NEW d \in Behind(p) PROVE Binding(E, d) \in Behind(p) /\ Binding(E, d).pos > d.pos
  <2>1. Binding(E, d) \in Onward(Skip(d)) /\ Binding(E, d).pos > d.pos
    BY BindingGoesOn
  <2>2. Binding(E, d) \in State
    BY <2>1 DEF Onward
  <2> QED BY <2>1, <2>2, StateIs DEF Behind
<1>4. \A d \in Behind(p) : d \in AtOpen <=> At(d, "(")
  BY DEF AtOpen, Behind
<1>5. \A d \in Behind(p) : At(d, "(") => ~Ended(d)
  BY DEF At
<1>6. Bindings(E, c) = While(AtOpen, body)[c]
  BY DEF Bindings
<1>7. DOMAIN body = Behind(p)
  BY <1>1
<1> HIDE DEF body
<1>8. GoesOn(AtOpen, body, p)
  BY <1>2, <1>3, <1>4, <1>5, <1>7 DEF GoesOn
<1>9. /\ While(AtOpen, body)[c] \in Onward(c)
      /\ While(AtOpen, body)[c] = IF c \in AtOpen THEN While(AtOpen, body)[body[c]] ELSE c
  BY <1>8, LoopGoesOn
<1>10. Bindings(E, Binding(E, c)) = While(AtOpen, body)[Binding(E, c)]
  BY DEF Bindings, body
<1> QED BY <1>2, <1>4, <1>6, <1>9, <1>10

\* (each step from a state further on goes on)
LEMMA StepsGoOn ==
    ASSUME SourceOK, NEW p \in Nat, NEW E, Consumes(E, p), NEW c \in Behind(p), NEW d \in Onward(c)
    PROVE  /\ d \in State /\ d \in Behind(p) /\ Here(d) \in Nat
           /\ E[d] \in Onward(c) /\ Body(E, d) \in Onward(c)
           /\ Skip(d) \in Onward(c) /\ SkipAtom(d) \in Onward(c) /\ SkipClose(d) \in Onward(c)
           /\ \A bytes \in Seq(Byte) : Emit(d, bytes) \in Onward(c)
           /\ \A offsets \in SUBSET Nat, v \in Nat : Patch(d, offsets, v) \in Onward(c)
<1>1. d \in State /\ d \in Behind(p) /\ Onward(d) \subseteq Onward(c)
  BY OnwardBehind DEF Onward
<1>2. d.pos \in Nat /\ Here(d) \in Nat
  <2>1. <<>> \in Seq(Byte)
    OBVIOUS
  <2> QED BY <1>1, <2>1, StateIs, EmitGoesOn
<1>3. E[d] \in Onward(d)
  BY <1>1, ConsumesOn
<1>4. Body(E, d) \in Onward(d)
  BY <1>1, BodyGoesOn
<1>5. Skip(d) \in Onward(d)
  BY <1>1, <1>2, SkipGoesOn DEF Onward
<1>6. SkipAtom(d) \in Onward(d) /\ SkipClose(d) \in Onward(d)
  BY <1>1, SkipsGoOn
<1>7. ASSUME NEW bytes \in Seq(Byte) PROVE Emit(d, bytes) \in Onward(d)
  BY <1>1, <1>2, EmitGoesOn DEF Onward
<1>8. ASSUME NEW offsets \in SUBSET Nat, NEW v \in Nat PROVE Patch(d, offsets, v) \in Onward(d)
  BY <1>1, <1>2, PatchGoesOn DEF Onward
<1> QED BY <1>1, <1>2, <1>3, <1>4, <1>5, <1>6, <1>7, <1>8

ExprsLoop(E, n) ==
    While({x \in State \X (0..n) : x[2] > 0},
          [x \in (DOMAIN E) \X (0..n) |-> <<E[x[1]], x[2] - 1>>])

ExprsTurn(E, n, c, k) ==
    /\ ExprsLoop(E, n)[<<c, k>>][1] \in Onward(c)
    /\ k > 0 => ExprsLoop(E, n)[<<c, k>>] = ExprsLoop(E, n)[<<E[c], k - 1>>]
    /\ ExprsLoop(E, n)[<<c, 0>>] = <<c, 0>>

\* so are n expressions: this loop ends because it counts,
LEMMA ExprsGoOn ==
    ASSUME NEW p \in Nat, NEW E, Consumes(E, p), NEW n \in Nat
    PROVE  \A c \in Behind(p), k \in 0 .. n : ExprsTurn(E, n, c, k)
<1> DEFINE S == Behind(p) \X (0 .. n)
           more == {x \in State \X (0 .. n) : x[2] > 0}
           body == [x \in (DOMAIN E) \X (0 .. n) |-> <<E[x[1]], x[2] - 1>>]
           m == [x \in S |-> x[2]]
<1>1. DOMAIN body = S /\ DOMAIN E = Behind(p)
  BY DEF Consumes
<1>2. ASSUME NEW x \in S PROVE /\ m[x] = x[2] /\ x[2] \in 0 .. n /\ x[1] \in Behind(p) /\ x[1] \in State
                               /\ (x \in more <=> x[2] > 0)
  BY OnwardBehind
<1>3. ASSUME NEW x \in S PROVE body[x] = <<E[x[1]], x[2] - 1>>
  BY <1>1
<1>4. ExprsLoop(E, n) = While(more, body)
  BY DEF ExprsLoop
<1> HIDE DEF more, body, m
<1>5. ASSUME NEW x \in S, x \in more
      PROVE  body[x] \in S /\ m[body[x]] < m[x] /\ body[x][1] \in Onward(x[1])
  <2>1. E[x[1]] \in Behind(p) /\ E[x[1]] \in Onward(x[1])
    BY <1>2, ConsumesOn
  <2>2. x[2] \in 0 .. n /\ x[2] > 0
    BY <1>2, <1>5
  <2>3. <<E[x[1]], x[2] - 1>> \in S
    BY <2>1, <2>2
  <2>4. body[x] \in S /\ body[x][2] = x[2] - 1 /\ body[x][1] = E[x[1]]
    BY <1>3, <2>3
  <2>5. m[body[x]] = x[2] - 1 /\ m[x] = x[2]
    BY <1>2, <2>4
  <2> QED BY <2>1, <2>2, <2>4, <2>5
<1>6. Measures(m, S, more, body, n)
  BY <1>1, <1>2, <1>5 DEF Measures
<1>7. ASSUME NEW c \in Behind(p), NEW k \in 0 .. n
      PROVE  /\ While(more, body)[<<c, k>>][1] \in Onward(c)
             /\ k > 0 => While(more, body)[<<c, k>>] = While(more, body)[<<E[c], k - 1>>]
             /\ While(more, body)[<<c, 0>>] = <<c, 0>>
  <2> DEFINE R == {x \in S : x[1] \in Onward(c)}
  <2>1. <<c, k>> \in R /\ R \in SUBSET S
    BY OnwardBehind
  <2>2. ASSUME NEW x \in R, x \in more PROVE body[x] \in R
    <3>1. x \in S /\ x[1] \in Onward(c)
      OBVIOUS
    <3>2. body[x] \in S /\ body[x][1] \in Onward(x[1])
      BY <1>5, <2>2, <3>1
    <3> QED BY <3>1, <3>2, OnwardBehind
  <2>3. \A x \in R : While(more, body)[x] \in R
    <3> HIDE DEF R, S
    <3> QED BY <1>6, <2>1, <2>2, WhileEnds
  <2>4. While(more, body)[<<c, k>>][1] \in Onward(c)
    BY <2>1, <2>3
  <2>5. <<c, k>> \in S /\ <<c, 0>> \in S
    OBVIOUS
  <2>6. \A x \in S : While(more, body)[x] = IF x \in more THEN While(more, body)[body[x]] ELSE x
    <3> HIDE DEF S
    <3> QED BY <1>6, WhileTurns
  <2>7. k > 0 => <<c, k>> \in more /\ body[<<c, k>>] = <<E[c], k - 1>>
    BY <1>2, <1>3, <2>5
  <2>8. <<c, 0>> \notin more
    BY <1>2, <2>5
  <2> QED BY <2>4, <2>5, <2>6, <2>7, <2>8
<1> QED BY <1>4, <1>7 DEF ExprsTurn

WordsLoop == While(AtWord, [d \in State |-> Skip(d)])

\* The loop over a list of parameters.
LEMMA WordsGoOn ==
    ASSUME SourceOK
    PROVE  \A c \in State : /\ WordsLoop[c] \in Onward(c)
                            /\ WordsLoop[c] = IF AtomAt(c) # "" THEN WordsLoop[Skip(c)] ELSE c
<1> DEFINE body == [d \in State |-> Skip(d)]
           m == [d \in State |-> Ahead(d)]
           N == Len(source) + 1
<1>1. WordsLoop = While(AtWord, body) /\ DOMAIN body = State /\ (\A d \in State : body[d] = Skip(d))
  BY DEF WordsLoop
<1>2. Len(source) \in Nat
  BY DEF SourceOK
<1>3. ASSUME NEW d \in State
      PROVE  /\ m[d] \in 0 .. N
             /\ d \in AtWord => Skip(d) \in State /\ m[Skip(d)] < m[d]
             /\ d \in AtWord <=> AtomAt(d) # ""
  <2>1. d.pos \in Nat /\ Skip(d) \in State /\ Skip(d).pos = d.pos + 1
    BY SkipGoesOn, StateIs
  <2>2. m[d] = Ahead(d) /\ m[Skip(d)] = Ahead(Skip(d))
    BY <2>1
  <2>3. Ahead(d) \in 0 .. N
    BY <1>2, <2>1 DEF Ahead, Ended
  <2>4. AtomAt(d) # "" => ~Ended(d)
    BY DEF AtomAt
  <2>5. ~Ended(d) => Ahead(Skip(d)) < Ahead(d)
    BY <1>2, <2>1 DEF Ahead, Ended
  <2> QED BY <2>1, <2>2, <2>3, <2>4, <2>5 DEF AtWord
<1>2a. N \in Nat
  BY <1>2
<1> HIDE DEF body, m, N
<1>4. Measures(m, State, AtWord, body, N)
  <2>1. \A d \in State : d \in AtWord => body[d] \in State /\ m[body[d]] < m[d]
    BY <1>1, <1>3
  <2> QED BY <1>1, <1>2a, <1>3, <2>1 DEF Measures
<1>5. ASSUME NEW c \in State
      PROVE  /\ While(AtWord, body)[c] \in Onward(c)
             /\ While(AtWord, body)[c] = IF AtomAt(c) # "" THEN While(AtWord, body)[Skip(c)] ELSE c
  <2> DEFINE R == Onward(c)
  <2>1. c \in R /\ R \in SUBSET State
    BY StateIs DEF Onward
  <2>2. \A d \in R : d \in AtWord => body[d] \in R
    BY <1>1, SkipGoesOn, StateIs DEF Onward
  <2> HIDE DEF R
  <2>3. While(AtWord, body)[c] \in R
    BY <1>4, <2>1, <2>2, WhileEnds
  <2>4. While(AtWord, body)[c] = IF c \in AtWord THEN While(AtWord, body)[body[c]] ELSE c
    BY <1>4, WhileTurns
  <2> QED BY <1>1, <1>3, <2>3, <2>4 DEF R
<1> QED BY <1>1, <1>5

\* so is the loop over parameters,
LEMMA ParametersGoOn ==
    ASSUME SourceOK, NEW c \in State
    PROVE  SkipParameters(c) \in Onward(c)
<1>1. Skip(c) \in Onward(c) /\ c \in Onward(c)
  BY SkipGoesOn, StateIs DEF Onward
<1>2. WordsLoop[Skip(c)] \in Onward(Skip(c))
  BY WordsGoOn, SkipGoesOn
<1>3. SkipClose(WordsLoop[Skip(c)]) \in Onward(WordsLoop[Skip(c)])
  BY <1>2, SkipsGoOn DEF Onward
<1>4. SkipClose(WordsLoop[Skip(c)]) \in Onward(c)
  BY <1>1, <1>2, <1>3, OnwardTrans
<1> QED BY <1>1, <1>4 DEF SkipParameters, WordsLoop

\* and the one that skips what is left of a cond.
LEMMA SkipRestGoesOn ==
    ASSUME SourceOK, NEW c \in State
    PROVE  SkipRest(c) \in Onward(c)
<1> DEFINE S == State \X Nat
           more == {x \in S : x[2] > 0 /\ ~Ended(x[1])}
           depth(x) == IF At(x[1], "(") THEN x[2] + 1 ELSE IF At(x[1], ")") THEN x[2] - 1 ELSE x[2]
           body == [x \in S |-> <<Skip(x[1]), depth(x)>>]
           m == [x \in S |-> Ahead(x[1])]
           N == Len(source) + 1
           R == {x \in S : x[1] \in Onward(c)}
<1>1. SkipRest(c) = While(more, body)[<<c, 1>>][1]
  BY DEF SkipRest
<1>2. Len(source) \in Nat
  BY DEF SourceOK
<1>3. ASSUME NEW x \in S PROVE /\ m[x] = Ahead(x[1]) /\ Ahead(x[1]) \in 0 .. N
                               /\ x[1] \in State /\ x[2] \in Nat
  <2>1. x[1] \in State /\ x[2] \in Nat /\ x[1].pos \in Nat
    BY StateIs
  <2> QED BY <1>2, <2>1 DEF Ahead, Ended
<1>4. ASSUME NEW x \in S, x \in more
      PROVE  body[x] \in S /\ m[body[x]] < m[x] /\ body[x][1] = Skip(x[1])
  <2>1. x[1] \in State /\ x[2] \in Nat /\ x[2] > 0 /\ ~Ended(x[1]) /\ x[1].pos \in Nat
    BY <1>3, <1>4, StateIs
  <2>2. Skip(x[1]) \in State /\ Skip(x[1]).pos = x[1].pos + 1
    BY <2>1, SkipGoesOn
  <2>3. depth(x) \in Nat
    BY <2>1
  <2>4. body[x] = <<Skip(x[1]), depth(x)>>
    OBVIOUS
  <2> HIDE DEF depth
  <2>5. body[x] \in S /\ body[x][1] = Skip(x[1])
    BY <2>2, <2>3, <2>4
  <2>6. Ahead(Skip(x[1])) < Ahead(x[1])
    BY <1>2, <2>1, <2>2 DEF Ahead, Ended
  <2>7. m[body[x]] = Ahead(Skip(x[1])) /\ m[x] = Ahead(x[1])
    BY <2>5
  <2> QED BY <2>5, <2>6, <2>7
<1>5. DOMAIN body = S /\ <<c, 1>> \in S
  OBVIOUS
<1>6. R \in SUBSET S /\ <<c, 1>> \in R
  BY StateIs DEF Onward
<1>7. ASSUME NEW x \in R, x \in more PROVE body[x] \in R
  <2>1. x \in S /\ x[1] \in Onward(c) /\ x[1] \in State
    OBVIOUS
  <2>2. body[x] \in S /\ body[x][1] = Skip(x[1])
    BY <1>4, <1>7, <2>1
  <2>3. Skip(x[1]) \in Onward(c)
    BY <2>1, SkipGoesOn, StateIs DEF Onward
  <2> QED BY <2>2, <2>3
<1> HIDE DEF more, body, m
<1>8. Measures(m, S, more, body, N)
  BY <1>2, <1>3, <1>4, <1>5 DEF Measures
<1>9. While(more, body)[<<c, 1>>] \in R
  <2> HIDE DEF R, S
  <2> QED BY <1>6, <1>7, <1>8, WhileEnds
<1> QED BY <1>1, <1>9

\* when and unless go on,
LEMMA OverGoesOn ==
    ASSUME SourceOK, NEW p \in Nat, NEW E, Consumes(E, p), NEW c \in Behind(p), NEW d \in Onward(c),
           NEW op \in {"JEQ", "JNE"}
    PROVE  Over(E, d, op) \in Onward(c)
<1>1. PICK e \in Onward(c) : e = Emit(d, JumpTo(op, 0))
  <2>1. JumpTo(op, 0) \in Seq(Byte)
    BY Jumps9
  <2> QED BY <2>1, StepsGoOn
<1>2. PICK f \in Onward(c) : f = Body(E, e)
  BY StepsGoOn
<1>3. Here(d) + 1 \in Nat /\ Here(f) \in Nat
  BY StepsGoOn
<1>4. Patch(f, {Here(d) + 1}, Here(f)) \in Onward(c)
  BY <1>3, StepsGoOn
<1> QED BY <1>1, <1>2, <1>4 DEF Over

\* an if goes on, also with arguments missing,
LEMMA IfGoesOn ==
    ASSUME SourceOK, NEW p \in Nat, NEW E, Consumes(E, p), NEW c \in Behind(p)
    PROVE  CompileIf(E, c) \in Onward(c)
<1>0. c \in Onward(c)
  BY OnwardBehind
<1>1. PICK test \in Onward(c) : test = E[c]
  BY <1>0, StepsGoOn
<1>2. PICK e \in Onward(c) : e = Emit(test, JumpTo("JEQ", 0))
  <2>1. JumpTo("JEQ", 0) \in Seq(Byte)
    BY Jumps9
  <2> QED BY <2>1, StepsGoOn
<1>3. PICK then \in Onward(c) : then = E[e]
  BY StepsGoOn
<1>4. PICK jump \in Onward(c) : jump = Emit(then, JumpTo("JMP", 0))
  <2>1. JumpTo("JMP", 0) \in Seq(Byte)
    BY Jumps9
  <2> QED BY <2>1, StepsGoOn
<1>5. PICK patched \in Onward(c) : patched = Patch(jump, {Here(test) + 1}, Here(jump))
  <2>1. Here(test) + 1 \in Nat /\ Here(jump) \in Nat
    BY StepsGoOn
  <2> QED BY <2>1, StepsGoOn
<1>6. PICK else \in Onward(c) : else = E[patched]
  BY StepsGoOn
<1>7. Patch(else, {Here(then) + 1}, Here(else)) \in Onward(c)
  <2>1. Here(then) + 1 \in Nat /\ Here(else) \in Nat
    BY StepsGoOn
  <2> QED BY <2>1, StepsGoOn
<1> QED BY <1>1, <1>2, <1>3, <1>4, <1>5, <1>6, <1>7 DEF CompileIf

\* a let goes on,
LEMMA LetGoesOn ==
    ASSUME SourceOK, NEW p \in Nat, NEW E, Consumes(E, p), NEW c \in Behind(p)
    PROVE  CompileLet(E, c) \in Onward(c)
<1>0. c \in Onward(c)
  BY OnwardBehind
<1>1. PICK d \in Onward(c) : d = Skip(c)
  BY <1>0, StepsGoOn
<1>2. PICK e \in Onward(c) : e = Bindings(E, d)
  <2>1. d \in Behind(p)
    BY StepsGoOn
  <2>2. Bindings(E, d) \in Onward(d)
    BY <2>1, BindingsGoOn
  <2> QED BY <2>2, OnwardBehind
<1>3. PICK f \in Onward(c) : f = SkipClose(e)
  BY StepsGoOn
<1>4. Body(E, f) \in Onward(c) /\ Body(E, c) \in Onward(c)
  BY <1>0, StepsGoOn
<1> QED BY <1>1, <1>2, <1>3, <1>4 DEF CompileLet

\* a clause consumes its parenthesis,
LEMMA ClauseGoesOn ==
    ASSUME SourceOK, NEW p \in Nat, NEW E, Consumes(E, p), NEW x \in Clauses(Behind(p))
    PROVE  Clause(E, x) \in Clauses(Behind(p)) /\ Clause(E, x).c \in Onward(Skip(x.c))
<1>1. x.c \in Behind(p) /\ x.ends \in Seq(Nat) /\ x.go \in BOOLEAN
  BY DEF Clauses
<1>2. PICK c \in Behind(p) : c = Skip(x.c)
  <2>1. x.c \in Onward(x.c)
    BY <1>1, OnwardBehind
  <2>2. Skip(x.c) \in Onward(x.c)
    BY <1>1, <2>1, StepsGoOn
  <2> QED BY <1>1, <2>2, OnwardBehind
<1>3. PICK test \in Onward(c) : test = E[c]
  BY OnwardBehind, StepsGoOn
<1>4. PICK e \in Onward(c) : e = Emit(test, JumpTo("JEQ", 0))
  <2>1. JumpTo("JEQ", 0) \in Seq(Byte)
    BY Jumps9
  <2> QED BY <2>1, StepsGoOn
<1>5. PICK body \in Onward(c) : body = Body(E, e)
  BY StepsGoOn
<1>6. PICK jump \in Onward(c) : jump = Emit(body, JumpTo("JMP", 0))
  <2>1. JumpTo("JMP", 0) \in Seq(Byte)
    BY Jumps9
  <2> QED BY <2>1, StepsGoOn
<1>7. PICK patched \in Onward(c) : patched = SkipClose(Patch(jump, {Here(test) + 1}, Here(jump)))
  <2>1. Here(test) + 1 \in Nat /\ Here(jump) \in Nat
    BY StepsGoOn
  <2>2. PICK q \in Onward(c) : q = Patch(jump, {Here(test) + 1}, Here(jump))
    BY <2>1, StepsGoOn
  <2> QED BY <2>2, StepsGoOn
<1>8. PICK last \in Onward(c) : last = SkipClose(Body(E, SkipAtom(c)))
  <2>1. PICK q \in Onward(c) : q = SkipAtom(c)
    BY OnwardBehind, StepsGoOn
  <2>2. PICK r \in Onward(c) : r = Body(E, q)
    BY StepsGoOn
  <2> QED BY <2>1, <2>2, StepsGoOn
<1>9. PICK rest \in Onward(c) : rest = SkipRest(SkipClose(body))
  <2>1. PICK q \in Onward(c) : q = SkipClose(body)
    BY StepsGoOn
  <2>2. q \in State /\ SkipRest(q) \in Onward(q)
    BY StepsGoOn, SkipRestGoesOn
  <2>3. SkipRest(q) \in Onward(c)
    BY <2>2, OnwardBehind
  <2> QED BY <2>1, <2>3
<1>10. Append(x.ends, Here(body) + 1) \in Seq(Nat)
  <2>1. Here(body) + 1 \in Nat
    BY StepsGoOn
  <2> QED BY <1>1, <2>1
<1>11. Clause(E, x) =
         IF AtomAt(c) = "else" THEN [c |-> last, ends |-> x.ends, go |-> FALSE]
         ELSE IF Len(x.ends) < MaxClauses
           THEN [c |-> patched, ends |-> Append(x.ends, Here(body) + 1), go |-> TRUE]
         ELSE [c |-> rest, ends |-> x.ends, go |-> FALSE]
  BY <1>2, <1>3, <1>4, <1>5, <1>6, <1>7, <1>8, <1>9 DEF Clause
<1>12. last \in Behind(p) /\ patched \in Behind(p) /\ rest \in Behind(p)
  BY OnwardBehind
<1>13. Clause(E, x) \in Clauses(Behind(p))
  BY <1>1, <1>10, <1>11, <1>12 DEF Clauses
<1>14. Clause(E, x).c \in {last, patched, rest}
  BY <1>11
<1> QED BY <1>2, <1>13, <1>14

ClausesLoop(E) ==
    While({x \in Clauses(State) : x.go /\ At(x.c, "(")},
          [x \in Clauses(DOMAIN E) |-> Clause(E, x)])

\* so the loop over clauses ends,
LEMMA ClausesGoOn ==
    ASSUME SourceOK, NEW p \in Nat, NEW E, Consumes(E, p), NEW x \in Clauses(Behind(p))
    PROVE  /\ ClausesLoop(E)[x] \in Clauses(Behind(p)) /\ ClausesLoop(E)[x].c \in Onward(x.c)
           /\ ClausesLoop(E)[x] = IF x.go /\ At(x.c, "(") THEN ClausesLoop(E)[Clause(E, x)] ELSE x
<1> DEFINE S == Clauses(Behind(p))
           more == {y \in Clauses(State) : y.go /\ At(y.c, "(")}
           body == [y \in Clauses(DOMAIN E) |-> Clause(E, y)]
           m == [y \in S |-> Ahead(y.c)]
           N == Len(source) + 1
           R == {y \in S : y.c \in Onward(x.c)}
<1>1. DOMAIN body = S /\ DOMAIN E = Behind(p) /\ ClausesLoop(E) = While(more, body)
  BY DEF Consumes, ClausesLoop
<1>2. N \in Nat
  BY DEF SourceOK
<1>3. ASSUME NEW y \in S PROVE /\ y.c \in Behind(p) /\ y.c \in State /\ y.c.pos \in Nat /\ y.c.pos > 0
                               /\ m[y] = Ahead(y.c) /\ Ahead(y.c) \in 0 .. N
                               /\ (y \in more <=> y.go /\ At(y.c, "("))
                               /\ body[y] = Clause(E, y)
  <2>1. y.c \in Behind(p) /\ y \in Clauses(State)
    BY DEF Clauses, Behind
  <2>2. y.c \in State /\ y.c.pos \in Nat /\ y.c.pos > 0
    BY <2>1, StateIs DEF Behind
  <2>3. Ahead(y.c) \in 0 .. N
    BY <2>2, InsideIs
  <2> QED BY <1>1, <2>1, <2>2, <2>3
<1>4. ASSUME NEW y \in S
      PROVE  /\ body[y] \in S /\ body[y].c.pos > y.c.pos /\ body[y].c \in Onward(y.c)
             /\ y \in more => m[body[y]] < m[y]
  <2>1. body[y] \in S /\ body[y].c \in Onward(Skip(y.c))
    BY <1>3, ClauseGoesOn
  <2>2. Skip(y.c) \in State /\ Skip(y.c).pos = y.c.pos + 1
    BY <1>3, SkipGoesOn
  <2>3. PICK d \in State : d = y.c /\ d.pos \in Nat /\ d.pos > 0
    BY <1>3
  <2>4. PICK e \in State : e = body[y].c /\ e.pos \in Nat /\ e.pos > d.pos
    <3>1. body[y].c \in State /\ body[y].c.pos >= Skip(d).pos
      BY <2>1, <2>3 DEF Onward
    <3>2. PICK e \in State : e = body[y].c /\ e.pos >= d.pos + 1
      BY <2>2, <2>3, <3>1
    <3>3. e.pos \in Nat
      BY StateIs
    <3> QED BY <2>3, <3>2, <3>3
  <2>5. y \in more => Ahead(e) < Ahead(d)
    <3>1. y \in more => ~Ended(d)
      BY <1>3, <2>3 DEF At
    <3> QED BY <2>3, <2>4, <3>1, InsideIs
  <2>6. e \in Onward(d)
    BY <2>3, <2>4 DEF Onward
  <2>7. y \in more => m[body[y]] < m[y]
    BY <1>3, <2>1, <2>3, <2>4, <2>5
  <2> QED BY <2>1, <2>3, <2>4, <2>6, <2>7
<1> HIDE DEF more, body, m, N
<1>5. Measures(m, S, more, body, N)
  BY <1>1, <1>2, <1>3, <1>4 DEF Measures
<1>6. R \in SUBSET S /\ x \in R
  BY <1>3, OnwardBehind
<1>7. ASSUME NEW y \in R, y \in more PROVE body[y] \in R
  <2>1. y \in S /\ y.c \in Onward(x.c) /\ x.c \in Behind(p)
    BY <1>3
  <2>2. body[y] \in S /\ body[y].c \in Onward(y.c)
    BY <1>4, <2>1
  <2> QED BY <2>1, <2>2, OnwardBehind
<1>8. While(more, body)[x] \in R
  <2> HIDE DEF R, S
  <2> QED BY <1>5, <1>6, <1>7, WhileEnds
<1>9. While(more, body)[x] = IF x \in more THEN While(more, body)[body[x]] ELSE x
  <2> HIDE DEF S
  <2> QED BY <1>5, WhileTurns, x \in S DEF S
<1> QED BY <1>1, <1>3, <1>8, <1>9

\* and a cond goes on.
LEMMA CondGoesOn ==
    ASSUME SourceOK, NEW p \in Nat, NEW E, Consumes(E, p), NEW c \in Behind(p)
    PROVE  CompileCond(E, c) \in Onward(c)
<1>1. PICK x \in Clauses(Behind(p)) : x = [c |-> c, ends |-> <<>>, go |-> TRUE]
  <2>1. <<>> \in Seq(Nat) /\ TRUE \in BOOLEAN
    OBVIOUS
  <2>2. [c |-> c, ends |-> <<>>, go |-> TRUE] \in [c : Behind(p), ends : Seq(Nat), go : BOOLEAN]
    BY <2>1
  <2> QED BY <2>2 DEF Clauses
<1>2. x.c = c
  BY <1>1
<1>3. PICK r \in Clauses(Behind(p)) : r = ClausesLoop(E)[x] /\ r.c \in Onward(c)
  BY <1>2, ClausesGoOn
<1>4. {r.ends[i] : i \in DOMAIN r.ends} \in SUBSET Nat
  BY DEF Clauses
<1>5. Here(r.c) \in Nat
  BY <1>3, StepsGoOn
<1>6. Patch(r.c, {r.ends[i] : i \in DOMAIN r.ends}, Here(r.c)) \in Onward(c)
  BY <1>3, <1>4, <1>5, StepsGoOn
<1> QED BY <1>1, <1>3, <1>6 DEF CompileCond, ClausesLoop

\* Whatever the head, its form goes on.
LEMMA HeadGoesOn ==
    ASSUME SourceOK, NEW p \in Nat, NEW E, Consumes(E, p), NEW c \in Behind(p), NEW h
    PROVE  CompileHead(E, h, c) \in Onward(c)
<1>a. HeadIs(E, h, c)
  BY CompileArms
<1>0. c \in Onward(c) /\ c \in State
  BY OnwardBehind
<1>1. CASE h \in DOMAIN Forms
  <2>1. Forms[h].args \in Nat /\ Forms[h].op \in DOMAIN OP
    BY <1>1, FormsAre
  <2>2. Exprs(E, Forms[h].args, c) \in Onward(c)
    <3>1. PICK n \in Nat : n = Forms[h].args
      BY <2>1
    <3>2. n \in 0 .. n
      OBVIOUS
    <3>3. ExprsLoop(E, n)[<<c, n>>][1] \in Onward(c)
      <4>1. ExprsTurn(E, n, c, n)
        BY <3>2, ExprsGoOn
      <4> QED BY <4>1 DEF ExprsTurn
    <3> QED BY <3>1, <3>3 DEF Exprs, ExprsLoop
  <2>3. <<OP[Forms[h].op]>> \in Seq(Byte)
    BY <2>1, Opcodes
  <2>4. Emit(Exprs(E, Forms[h].args, c), <<OP[Forms[h].op]>>) \in Onward(c)
    BY <2>2, <2>3, StepsGoOn
  <2> QED BY <1>a, <1>1, <2>4 DEF HeadIs
<1>2. CASE h \in {"jmp", "call"}
  <2>1. PICK d \in Onward(c) : d = SkipAtom(c)
    BY <1>0, StepsGoOn
  <2>2. JumpTo("JMP", OffsetOf(AtomAt(c))) \in Seq(Byte) /\ JumpTo("CALL", OffsetOf(AtomAt(c))) \in Seq(Byte)
    BY Jumps9, OffsetType
  <2>3. /\ Emit(d, JumpTo("JMP", OffsetOf(AtomAt(c)))) \in Onward(c)
        /\ Emit(d, JumpTo("CALL", OffsetOf(AtomAt(c)))) \in Onward(c)
    BY <2>2, StepsGoOn
  <2> QED BY <1>a, <1>2, <2>1, <2>3 DEF HeadIs
<1>3. CASE h = "if"
  BY <1>a, <1>3, IfGoesOn DEF HeadIs
<1>4. CASE h \in {"when", "unless"}
  <2>1. PICK d \in Onward(c) : d = E[c]
    BY <1>0, StepsGoOn
  <2>2. Over(E, d, "JEQ") \in Onward(c) /\ Over(E, d, "JNE") \in Onward(c)
    BY OverGoesOn
  <2> QED BY <1>a, <1>4, <2>1, <2>2 DEF HeadIs
<1>5. CASE h = "cond"
  BY <1>a, <1>5, CondGoesOn DEF HeadIs
<1>6. CASE h = "let"
  BY <1>a, <1>6, LetGoesOn DEF HeadIs
<1>7. CASE h = "define"
  <2>1. PICK d \in Onward(c) : d = SkipAtom(c)
    BY <1>0, StepsGoOn
  <2>2. PICK e \in Onward(c) : e = E[d]
    BY StepsGoOn
  <2>3. <<OP.STORE>> \in Seq(Byte)
    BY DEF OP, Byte
  <2>4. Emit(e, <<OP.STORE>>) \in Onward(c)
    BY <2>3, StepsGoOn
  <2> QED BY <1>a, <1>7, <2>1, <2>2, <2>4 DEF HeadIs
<1>8. CASE h \in {"fn", "lambda", "defun"}
  <2>1. PICK d \in Onward(c) : d = SkipAtom(c)
    BY <1>0, StepsGoOn
  <2>2. SkipParameters(c) \in Onward(c) /\ SkipParameters(d) \in Onward(c)
    BY <1>0, ParametersGoOn, OnwardTrans DEF Onward
  <2>3. Body(E, SkipParameters(c)) \in Onward(c) /\ Body(E, SkipParameters(d)) \in Onward(c)
    BY <2>2, StepsGoOn
  <2>4. <<OP.RET>> \in Seq(Byte)
    BY DEF OP, Byte
  <2>5. /\ Emit(Body(E, SkipParameters(c)), <<OP.RET>>) \in Onward(c)
        /\ Emit(Body(E, SkipParameters(d)), <<OP.RET>>) \in Onward(c)
    BY <2>3, <2>4, StepsGoOn
  <2> QED BY <1>a, <1>8, <2>1, <2>5 DEF HeadIs
<1>9. CASE h = "elbo_module"
  <2>1. PICK d \in Onward(c) : d = SkipAtom(c)
    BY <1>0, StepsGoOn
  <2>2. Body(E, d) \in Onward(c)
    BY StepsGoOn
  <2> QED BY <1>a, <1>9, <2>1, <2>2 DEF HeadIs
<1>10. CASE h \notin DOMAIN Forms \cup Special
  <2>1. Body(E, c) \in Onward(c)
    BY <1>0, StepsGoOn
  <2>2. <<OP.NOP>> \in Seq(Byte)
    BY DEF OP, Byte
  <2>3. Emit(Body(E, c), <<OP.NOP>>) \in Onward(c)
    BY <2>1, <2>2, StepsGoOn
  <2> QED BY <1>a, <1>10, <2>3 DEF HeadIs
<1> QED BY <1>1, <1>2, <1>3, <1>4, <1>5, <1>6, <1>7, <1>8, <1>9, <1>10 DEF Special

-----------------------------------------------------------------------------
(* Recursion over what is left of the source                               *)

LEMMA AheadIs ==
    ASSUME SourceOK, NEW c \in State
    PROVE  /\ Ahead(c) \in 0 .. Len(source) + 1
           /\ ~Ended(c) => \A d \in Behind(c.pos) : d \in State /\ Ahead(d) < Ahead(c)
<1>1. c.pos \in Nat /\ Len(source) \in Nat
  BY StateIs DEF SourceOK
<1>2. Ahead(c) \in 0 .. Len(source) + 1
  BY <1>1 DEF Ahead, Ended
<1>3. ASSUME ~Ended(c), NEW d \in Behind(c.pos) PROVE d \in State /\ Ahead(d) < Ahead(c)
  <2>1. d \in State /\ d.pos \in Nat /\ d.pos > c.pos
    BY StateIs DEF Behind
  <2> QED BY <1>1, <1>3, <2>1 DEF Ahead, Ended
<1> QED BY <1>2, <1>3

\* There is a function with the equation of CompileExpr.
LEMMA CompileExprExists ==
    ASSUME SourceOK
    PROVE  \E g : g = [c \in State |-> CompileAt([d \in Behind(c.pos) |-> g[d]], c)]
<1> DEFINE Is(g, c) == g[c] = CompileAt([d \in Behind(c.pos) |-> g[d]], c)
           N == Len(source) + 2
           T == {k \in 0 .. N : \E g : \A c \in State : Ahead(c) < k => Is(g, c)}
<1>1. N \in Nat /\ (\A c \in State : Ahead(c) \in 0 .. N - 1)
  <2>1. Len(source) \in Nat
    BY DEF SourceOK
  <2> QED BY <2>1, AheadIs
<1>2. 0 \in T
  <2>1. \A c \in State : ~(Ahead(c) < 0)
    BY <1>1
  <2> HIDE DEF Is
  <2> QED BY <1>1, <2>1
<1> HIDE DEF N
<1>3. ASSUME NEW k \in 0 .. N - 1, k \in T PROVE k + 1 \in T
  <2>1. PICK g : \A c \in State : Ahead(c) < k => Is(g, c)
    BY <1>3
  <2> DEFINE h == [c \in State |-> CompileAt([d \in Behind(c.pos) |-> g[d]], c)]
  <2>2. ASSUME NEW c \in State, Ahead(c) < k + 1 PROVE Is(h, c)
    <3>1. CASE Ended(c)
      <4>1. h[c] = c
        BY <3>1 DEF CompileAt
      <4> HIDE DEF h
      <4> QED BY <3>1, <4>1 DEF CompileAt
    <3>2. CASE ~Ended(c)
      <4>1. ASSUME NEW d \in Behind(c.pos) PROVE h[d] = g[d]
        <5>1. d \in State /\ Ahead(d) < k
          BY <1>1, <2>2, <3>2, AheadIs
        <5>2. Is(g, d)
          BY <2>1, <5>1
        <5>3. h[d] = CompileAt([e \in Behind(d.pos) |-> g[e]], d)
          BY <5>1
        <5> HIDE DEF h
        <5> QED BY <5>2, <5>3
      <4>2. h[c] = CompileAt([d \in Behind(c.pos) |-> g[d]], c)
        OBVIOUS
      <4> HIDE DEF h
      <4>3. [d \in Behind(c.pos) |-> h[d]] = [d \in Behind(c.pos) |-> g[d]]
        BY <4>1
      <4> QED BY <4>2, <4>3
    <3> QED BY <3>1, <3>2
  <2>3. \E f : \A c \in State : Ahead(c) < k + 1 => Is(f, c)
    <3> HIDE DEF Is, h
    <3> QED BY <2>2
  <2> HIDE DEF Is
  <2> QED BY <1>1, <2>3, k + 1 \in 0 .. N
<1> HIDE DEF T
<1>4. N \in T
  BY <1>1, <1>2, <1>3, UpTo
<1>5. PICK g : \A c \in State : Ahead(c) < N => Is(g, c)
  BY <1>4 DEF T
<1>6. \A c \in State : Is(g, c)
  <2>1. \A c \in State : Ahead(c) < N
    BY <1>1
  <2> HIDE DEF Is
  <2> QED BY <1>5, <2>1
<1> DEFINE f == [c \in State |-> g[c]]
<1>7. ASSUME NEW c \in State PROVE f[c] = CompileAt([d \in Behind(c.pos) |-> f[d]], c)
  <2>1. f[c] = g[c] /\ (\A d \in Behind(c.pos) : f[d] = g[d])
    BY DEF Behind
  <2> HIDE DEF f
  <2>2. [d \in Behind(c.pos) |-> f[d]] = [d \in Behind(c.pos) |-> g[d]]
    BY <2>1
  <2> QED BY <1>6, <2>1, <2>2
<1>8. f = [c \in State |-> f[c]]
  OBVIOUS
<1> HIDE DEF f
<1>9. f = [c \in State |-> CompileAt([d \in Behind(c.pos) |-> f[d]], c)]
  BY <1>7, <1>8
<1> QED BY <1>9

\* compile_expr, on the states behind c.
Later(c) == [d \in Behind(c.pos) |-> CompileExpr[d]]

\* CompileExpr does what its body says: every recursive call is further on.
LEMMA CompileExprIs ==
    ASSUME SourceOK, NEW c \in State
    PROVE  CompileExpr[c] = CompileAt(Later(c), c)
<1> DEFINE g == CHOOSE g : g = [e \in State |-> CompileAt([d \in Behind(e.pos) |-> g[d]], e)]
<1>1. g = [e \in State |-> CompileAt([d \in Behind(e.pos) |-> g[d]], e)]
  BY CompileExprExists
<1>2. CompileExpr = g
  BY DEF CompileExpr
<1> HIDE DEF g
<1> QED BY <1>1, <1>2 DEF Later

\* compile_expr goes on, and consumes unless it is at a parenthesis that closes.
LEMMA CompileAtGoesOn ==
    ASSUME SourceOK, NEW c \in State, NEW E, Consumes(E, c.pos)
    PROVE  CompileAt(E, c) \in Onward(c) /\ (c.pos > 0 /\ c \in Inside => CompileAt(E, c).pos > c.pos)
<1>0. c \in Onward(c) /\ c.pos \in Nat
  BY StateIs DEF Onward
<1>1. CASE Ended(c)
  BY <1>0, <1>1 DEF CompileAt, Inside
<1>2. CASE ~Ended(c) /\ ~At(c, "(")
  <2>1. PICK d \in Onward(c) : d = SkipAtom(c)
    BY SkipsGoOn
  <2>2. d \in State /\ Constant(AtomAt(c)) \in Seq(Byte)
    BY ConstantType DEF Onward
  <2>3. CompileAt(E, c) = Emit(d, Constant(AtomAt(c)))
    BY <1>2, <2>1 DEF CompileAt
  <2>4. CompileAt(E, c) \in State /\ CompileAt(E, c).pos = d.pos
    BY <2>2, <2>3, EmitGoesOn
  <2>5. c.pos > 0 /\ c \in Inside => d.pos > c.pos
    <3>1. c.pos > 0 /\ c \in Inside => AtomAt(c) # ""
      BY <1>2, InsideIs
    <3>2. AtomAt(c) # "" => SkipAtom(c) = Skip(c)
      BY DEF SkipAtom
    <3>3. Skip(c).pos = c.pos + 1
      BY SkipGoesOn
    <3>4. AtomAt(c) # "" => d.pos = c.pos + 1
      BY <2>1, <3>2, <3>3
    <3>5. c.pos + 1 > c.pos
      BY <1>0
    <3> QED BY <3>1, <3>4, <3>5, Zenon
  <2> QED BY <2>1, <2>4, <2>5 DEF Onward
<1>3. CASE At(c, "(")
  <2>1. PICK d \in Behind(c.pos) : d = Skip(c) /\ d.pos = c.pos + 1
    BY <1>0, SkipGoesOn DEF Behind
  <2>2. d \in Onward(d)
    BY <1>0, OnwardBehind
  <2>3. PICK e \in Onward(d) : e = Skip(d)
    BY <1>0, <2>2, SkipGoesOn, OnwardBehind DEF Onward
  <2>4. PICK f \in Onward(e) : f = CompileHead(E, AtomAt(d), e)
    BY <1>0, HeadGoesOn, OnwardBehind
  <2>5. f \in Onward(d)
    BY <1>0, <2>3, <2>4, OnwardBehind
  <2>6. SkipClose(f) \in Onward(d)
    BY <1>0, <2>5, OnwardBehind, SkipsGoOn
  <2>7. CompileAt(E, c) \in {d, SkipClose(f)}
    BY <1>3, <2>1, <2>3, <2>4 DEF CompileAt, At
  <2>8. CompileAt(E, c) \in Onward(d)
    BY <2>2, <2>6, <2>7
  <2>9. CompileAt(E, c) \in State /\ CompileAt(E, c).pos \in Nat /\ CompileAt(E, c).pos >= d.pos
    BY <2>8, StateIs DEF Onward
  <2> QED BY <1>0, <2>1, <2>9 DEF Onward
<1> QED BY <1>1, <1>2, <1>3

\* compile_expr goes on in every source, and reads what is inside a list.
LEMMA CompileExprGoesOn ==
    ASSUME SourceOK
    PROVE  \A c \in State : /\ CompileExpr[c] \in Onward(c)
                            /\ c.pos > 0 /\ c \in Inside => CompileExpr[c].pos > c.pos
                            /\ ~Ended(c) => Consumes(Later(c), c.pos)
<1> DEFINE Good(c) == /\ CompileExpr[c] \in Onward(c)
                      /\ c.pos > 0 /\ c \in Inside => CompileExpr[c].pos > c.pos
                      /\ ~Ended(c) => Consumes(Later(c), c.pos)
           N == Len(source) + 2
           T == {k \in 0 .. N : \A c \in State : Ahead(c) < k => Good(c)}
<1>1. N \in Nat /\ (\A c \in State : Ahead(c) \in 0 .. N - 1)
  <2>1. Len(source) \in Nat
    BY DEF SourceOK
  <2> QED BY <2>1, AheadIs
<1> HIDE DEF N
<1>2. 0 \in T
  BY <1>1
<1>3. ASSUME NEW k \in 0 .. N - 1, k \in T PROVE k + 1 \in T
  <2>1. ASSUME NEW c \in State, Ahead(c) < k + 1 PROVE Good(c)
    <3>1. CompileExpr[c] = CompileAt(Later(c), c)
      BY CompileExprIs
    <3>2. CASE Ended(c)
      <4>1. CompileExpr[c] = c
        BY <3>1, <3>2 DEF CompileAt
      <4> QED BY <3>2, <4>1, StateIs DEF Onward, Inside
    <3>3. CASE ~Ended(c)
      <4>1. ASSUME NEW d \in Behind(c.pos) PROVE Good(d) /\ d \in State /\ d.pos > 0
        <5>1. d \in State /\ Ahead(d) < k /\ d.pos > c.pos
          BY <1>1, <2>1, <3>3, AheadIs DEF Behind
        <5>2. d.pos > 0
          BY <5>1, StateIs
        <5> HIDE DEF Good
        <5> QED BY <1>3, <5>1, <5>2
      <4>2. ASSUME NEW d \in Behind(c.pos)
            PROVE  /\ CompileExpr[d] \in Behind(c.pos) /\ CompileExpr[d].pos >= d.pos
                   /\ d \in Inside => CompileExpr[d].pos > d.pos
        <5>1. CompileExpr[d] \in Onward(d) /\ d.pos \in Nat /\ d.pos > c.pos /\ c.pos \in Nat
          BY <4>1, StateIs DEF Behind
        <5>2. CompileExpr[d] \in State /\ CompileExpr[d].pos >= d.pos
          BY <5>1 DEF Onward
        <5>3. CompileExpr[d].pos \in Nat
          BY <5>2, StateIs
        <5>4. CompileExpr[d] \in Behind(c.pos)
          BY <5>1, <5>2, <5>3 DEF Behind
        <5> QED BY <4>1, <5>2, <5>4
      <4>3. Consumes(Later(c), c.pos)
        <5>1. \A d \in Behind(c.pos) : Later(c)[d] = CompileExpr[d]
          BY DEF Later
        <5>2. Later(c) \in [Behind(c.pos) -> Behind(c.pos)]
          BY <4>2 DEF Later
        <5> QED BY <4>2, <5>1, <5>2 DEF Consumes
      <4>4. /\ CompileAt(Later(c), c) \in Onward(c)
            /\ c.pos > 0 /\ c \in Inside => CompileAt(Later(c), c).pos > c.pos
        BY <4>3, CompileAtGoesOn
      <4> QED BY <3>1, <4>3, <4>4
    <3> QED BY <3>2, <3>3
  <2> HIDE DEF Good
  <2> QED BY <1>1, <2>1, k + 1 \in 0 .. N
<1> HIDE DEF T
<1>4. N \in T
  BY <1>1, <1>2, <1>3, UpTo
<1> HIDE DEF Good
<1>5. \A c \in State : Good(c)
  BY <1>1, <1>4 DEF T
<1> QED BY <1>5 DEF Good

-----------------------------------------------------------------------------
(* Lists, front to back                                                    *)

LEMMA RestIs ==
    ASSUME NEW B, NEW s \in Seq(B), s # <<>>
    PROVE  /\ s[1] \in B /\ Rest(s) \in Seq(B) /\ Len(s) \in Nat /\ Len(s) >= 1
           /\ Len(Rest(s)) = Len(s) - 1 /\ DOMAIN s = 1 .. Len(s) /\ DOMAIN Rest(s) = 1 .. Len(s) - 1
           /\ \A i \in 1 .. Len(s) - 1 : Rest(s)[i] = s[i + 1]
<1>1. Len(s) \in Nat /\ Len(s) >= 1 /\ s[1] \in B /\ DOMAIN s = 1 .. Len(s)
  OBVIOUS
<1>2. Rest(s) \in Seq(B) /\ Len(Rest(s)) = Len(s) - 1
  BY <1>1 DEF Rest
<1>3. \A i \in 1 .. Len(s) - 1 : Rest(s)[i] = s[i + 1]
  BY <1>1 DEF Rest
<1>4. DOMAIN Rest(s) = 1 .. Len(s) - 1
  BY <1>2
<1> QED BY <1>1, <1>2, <1>3, <1>4

\* Induction on lists, front to back.
LEMMA ListInduction ==
    ASSUME NEW B, NEW Good, <<>> \in Good,
           \A s \in Seq(B) : s # <<>> /\ Rest(s) \in Good => s \in Good
    PROVE  Seq(B) \subseteq Good
<1> SUFFICES ASSUME NEW t \in Seq(B) PROVE t \in Good
  OBVIOUS
<1> DEFINE n == Len(t)
           T == {k \in 0 .. n : \A s \in Seq(B) : Len(s) <= k => s \in Good}
<1>1. n \in Nat
  OBVIOUS
<1>2. 0 \in T
  <2>1. \A s \in Seq(B) : Len(s) <= 0 => s = <<>>
    OBVIOUS
  <2> QED BY <1>1, <2>1
<1> HIDE DEF n
<1>3. ASSUME NEW k \in 0 .. n - 1, k \in T PROVE k + 1 \in T
  <2>1. ASSUME NEW s \in Seq(B), Len(s) <= k + 1 PROVE s \in Good
    <3>1. CASE s = <<>>
      BY <3>1
    <3>2. CASE s # <<>>
      <4>1. Rest(s) \in Seq(B) /\ Len(Rest(s)) = Len(s) - 1 /\ Len(s) \in Nat
        BY <3>2, RestIs
      <4>2. Len(Rest(s)) <= k
        BY <2>1, <4>1
      <4> QED BY <1>3, <3>2, <4>1, <4>2
    <3> QED BY <3>1, <3>2
  <2> QED BY <1>1, <2>1, k + 1 \in 0 .. n
<1> HIDE DEF T
<1>4. n \in T
  BY <1>1, <1>2, <1>3, UpTo
<1> QED BY <1>4 DEF T, n

\* No pieces.
LEMMA NoPieces ==
    ASSUME NEW piece, NEW at \in Nat
    PROVE  Concat(0, piece, at) = <<>>
<1>1. ArePieces([i \in 1 .. 0 |-> piece[i]], 0, Byte)
  BY DEF ArePieces
<1> DEFINE u == [i \in 0 .. 0 |-> <<>>]
<1>2. u = [i \in 0 .. 0 |-> Prefix(u, piece, at, i)]
  BY DEF Prefix
<1> HIDE DEF u
<1>3. ArePrefixes(u, 0, piece, at)
  BY <1>2 DEF ArePrefixes
<1>4. Prefixes(0, piece, at) = CHOOSE v : ArePrefixes(v, 0, piece, at)
  BY DEF Prefixes, ArePrefixes, Prefix
<1>5. ArePrefixes(Prefixes(0, piece, at), 0, piece, at)
  BY <1>3, <1>4
<1>6. Prefixes(0, piece, at)[0] = <<>>
  BY <1>5 DEF ArePrefixes, Prefix
<1> QED BY <1>6 DEF Concat

\* Pieces that are the same everywhere.
LEMMA SameEverywhere ==
    ASSUME NEW S, NEW n \in Nat, NEW piece, ArePieces(piece, n, S),
           \A i \in 1 .. n : \A a, b \in Nat : piece[i][a] = piece[i][b],
           NEW at \in Nat, NEW to \in Nat
    PROVE  Concat(n, piece, at) = Concat(n, piece, to)
<1> DEFINE P == Prefixes(n, piece, at)
           Q == Prefixes(n, piece, to)
           T == {k \in 0 .. n : P[k] = Q[k]}
<1>1. Grows(P, n, piece, at, S) /\ Grows(Q, n, piece, to, S)
  BY PrefixesAre
<1> HIDE DEF P, Q
<1>2. 0 \in T
  BY <1>1 DEF Grows
<1>3. ASSUME NEW k \in 0 .. n - 1, k \in T PROVE k + 1 \in T
  <2>1. P[k + 1] = P[k] \o piece[k + 1][at + Len(P[k])]
    BY <1>1 DEF Grows, Longer
  <2>2. Q[k + 1] = Q[k] \o piece[k + 1][to + Len(Q[k])]
    BY <1>1 DEF Grows, Longer
  <2>3. P[k] \in Seq(S) /\ Q[k] \in Seq(S)
    BY <1>1, k \in 0 .. n DEF Grows
  <2>4. at + Len(P[k]) \in Nat /\ to + Len(Q[k]) \in Nat /\ k + 1 \in 1 .. n /\ k + 1 \in 0 .. n
    BY <2>3
  <2>5. piece[k + 1][at + Len(P[k])] = piece[k + 1][to + Len(Q[k])]
    BY <2>4
  <2> QED BY <1>3, <2>1, <2>2, <2>4, <2>5
<1> HIDE DEF T
<1>4. n \in T
  BY <1>2, <1>3, UpTo
<1> QED BY <1>4 DEF T, P, Q, Concat

\* The tokens of a list, first tree first.
LEMMA AllTokensFirst ==
    ASSUME NEW trees \in Seq(Trees)
    PROVE  /\ AllTokens(Tokens, trees) \in Seq(Token)
           /\ trees = <<>> => AllTokens(Tokens, trees) = <<>>
           /\ trees # <<>> => AllTokens(Tokens, trees)
                                = Tokens[trees[1]] \o AllTokens(Tokens, Rest(trees))
<1>1. AllTokens(Tokens, trees) \in Seq(Token)
  BY TokensType, AllTokensType
<1>2. CASE trees = <<>>
  <2>1. Len(trees) = 0
    BY <1>2
  <2> QED BY <1>1, <1>2, <2>1, NoPieces, 0 \in Nat DEF AllTokens
<1>3. CASE trees # <<>>
  <2>1. /\ trees[1] \in Trees /\ Rest(trees) \in Seq(Trees) /\ Len(trees) \in Nat
        /\ Len(Rest(trees)) = Len(trees) - 1 /\ Len(trees) >= 1
        /\ \A i \in 1 .. Len(trees) - 1 : Rest(trees)[i] = trees[i + 1]
    BY <1>3, RestIs
  <2>2. PICK n \in Nat : n = Len(Rest(trees)) /\ n + 1 = Len(trees)
    BY <2>1
  <2> DEFINE piece == Spelt(Tokens, trees)
             others == Spelt(Tokens, Rest(trees))
  <2>3. ArePieces(piece, n + 1, Token)
    BY <2>2, TokensType, SpeltType, Zenon
  <2>4. ArePieces(others, n, Token)
    BY <2>1, <2>2, TokensType, SpeltType, Zenon
  <2>5. \A i \in 1 .. n : others[i] = piece[i + 1]
    <3>1. \A i \in 1 .. n : Rest(trees)[i] = trees[i + 1] /\ i + 1 \in 1 .. Len(trees)
      BY <2>1, <2>2
    <3>2. \A i \in 1 .. n : others[i] = [a \in Nat |-> Tokens[Rest(trees)[i]]]
      BY <2>2 DEF Spelt
    <3>3. \A j \in 1 .. Len(trees) : piece[j] = [a \in Nat |-> Tokens[trees[j]]]
      BY DEF Spelt
    <3> HIDE DEF piece, others
    <3> QED BY <3>1, <3>2, <3>3
  <2>6. \A a \in Nat : piece[1][a] = Tokens[trees[1]]
    BY <2>1, 1 \in 1 .. Len(trees) DEF Spelt
  <2>7. \A a \in Nat : Concat(n, others, a) = Concat(n, others, 0)
    <3>1. \A i \in 1 .. n : \A a, b \in Nat : others[i][a] = others[i][b]
      BY <2>2 DEF Spelt
    <3> HIDE DEF others
    <3> QED BY <2>4, <3>1, SameEverywhere, 0 \in Nat
  <2> HIDE DEF piece, others
  <2>8. Concat(n + 1, piece, 0) = piece[1][0] \o Concat(n, others, 0 + Len(piece[1][0]))
    <3>1. Behead(piece, others, n, Token)
      BY <2>3, <2>4, <2>5 DEF Behead
    <3>2. FirstThen(piece, others, n, Token, 0)
      BY <3>1, FirstPiece, 0 \in Nat
    <3> QED BY <3>2 DEF FirstThen
  <2>9. 0 + Len(piece[1][0]) \in Nat /\ piece[1][0] = Tokens[trees[1]]
    BY <2>1, <2>6, TokensType
  <2>10. Concat(n + 1, piece, 0) = Tokens[trees[1]] \o Concat(n, others, 0)
    BY <2>7, <2>8, <2>9
  <2>11. AllTokens(Tokens, trees) = Concat(n + 1, piece, 0)
         /\ AllTokens(Tokens, Rest(trees)) = Concat(n, others, 0)
    BY <2>2, Zenon DEF AllTokens, piece, others
  <2> QED BY <1>1, <1>3, <2>10, <2>11
<1> QED BY <1>2, <1>3

AllFirst(G, trees, at) ==
    GenAll(G, trees, at) = G[trees[1]][at] \o GenAll(G, Rest(trees), at + Len(G[trees[1]][at]))

\* The code of a list, first tree first.
LEMMA GenAllFirst ==
    ASSUME NEW B, NEW G, IsCode(G, B), NEW trees \in Seq(B), NEW at \in Nat
    PROVE  /\ trees = <<>> => GenAll(G, trees, at) = <<>>
           /\ trees # <<>> => AllFirst(G, trees, at)
<1>1. CASE trees = <<>>
  <2>1. Len(trees) = 0
    BY <1>1
  <2> QED BY <1>1, <2>1, NoPieces DEF GenAll
<1>2. CASE trees # <<>>
  <2>1. /\ trees[1] \in B /\ Rest(trees) \in Seq(B) /\ Len(trees) \in Nat
        /\ Len(Rest(trees)) = Len(trees) - 1 /\ Len(trees) >= 1
        /\ \A i \in 1 .. Len(trees) - 1 : Rest(trees)[i] = trees[i + 1]
    BY <1>2, RestIs
  <2>2. PICK n \in Nat : n = Len(Rest(trees)) /\ n + 1 = Len(trees)
    BY <2>1
  <2> DEFINE piece == [i \in 1 .. Len(trees) |-> G[trees[i]]]
             others == [i \in 1 .. Len(Rest(trees)) |-> G[Rest(trees)[i]]]
  <2>3. ArePieces(piece, n + 1, Byte)
    <3>1. \A i \in 1 .. n + 1 : G[trees[i]] \in [Nat -> Seq(Byte)]
      BY <2>2 DEF IsCode
    <3> QED BY <2>2, <3>1 DEF ArePieces
  <2>4. ArePieces(others, n, Byte)
    <3>1. \A i \in 1 .. n : G[Rest(trees)[i]] \in [Nat -> Seq(Byte)]
      BY <2>1, <2>2 DEF IsCode
    <3> QED BY <2>2, <3>1 DEF ArePieces
  <2>5. \A i \in 1 .. n : others[i] = piece[i + 1]
    <3>1. \A i \in 1 .. n : Rest(trees)[i] = trees[i + 1] /\ i + 1 \in 1 .. Len(trees)
      BY <2>1, <2>2
    <3>2. \A i \in 1 .. n : others[i] = G[Rest(trees)[i]]
      BY <2>2
    <3>3. \A j \in 1 .. Len(trees) : piece[j] = G[trees[j]]
      OBVIOUS
    <3> HIDE DEF piece, others
    <3> QED BY <3>1, <3>2, <3>3
  <2>6. piece[1] = G[trees[1]]
    BY <2>1, 1 \in 1 .. Len(trees)
  <2>7. GenAll(G, trees, at) = Concat(n + 1, piece, at)
    BY <2>2, Zenon DEF GenAll
  <2>8. \A a \in Nat : GenAll(G, Rest(trees), a) = Concat(n, others, a)
    BY <2>2, Zenon DEF GenAll
  <2> HIDE DEF piece, others
  <2>9. Behead(piece, others, n, Byte)
    BY <2>3, <2>4, <2>5 DEF Behead
  <2>10. FirstThen(piece, others, n, Byte, at)
    BY <2>9, FirstPiece
  <2> QED BY <1>2, <2>6, <2>7, <2>8, <2>10 DEF FirstThen, AllFirst
<1> QED BY <1>1, <1>2

\* The i-th argument of the rest.
LEMMA ArgOfRest ==
    ASSUME NEW B, NEW args \in Seq(B), NEW G, NEW i \in Nat \ {0}, NEW a
    PROVE  GenArg(G, Rest(args), i, a) = GenArg(G, args, i + 1, a)
<1>1. CASE args = <<>>
  <2>1. Rest(args) = <<>> /\ Len(args) = 0
    BY <1>1 DEF Rest
  <2>2. ~(i <= Len(args)) /\ ~(i + 1 <= Len(args)) /\ ~(i <= Len(Rest(args)))
    BY <1>1, <2>1
  <2> QED BY <2>2 DEF GenArg
<1>2. CASE args # <<>>
  <2>1. /\ Len(Rest(args)) = Len(args) - 1 /\ Len(args) \in Nat
        /\ \A j \in 1 .. Len(args) - 1 : Rest(args)[j] = args[j + 1]
    BY <1>2, RestIs
  <2>2. i <= Len(Rest(args)) <=> i + 1 <= Len(args)
    BY <2>1
  <2>3. i <= Len(Rest(args)) => Rest(args)[i] = args[i + 1]
    BY <2>1
  <2> QED BY <2>2, <2>3 DEF GenArg
<1> QED BY <1>1, <1>2

ArgsFirst(G, n, args, at) ==
    GenArgs(G, n + 1, args, at)
      = GenArg(G, args, 1, at) \o GenArgs(G, n, Rest(args), at + Len(GenArg(G, args, 1, at)))

\* The code of n arguments, first argument first.
LEMMA GenArgsFirst ==
    ASSUME NEW B, NEW G, IsCode(G, B), NEW args \in Seq(B), NEW n \in Nat, NEW at \in Nat
    PROVE  GenArgs(G, 0, args, at) = <<>> /\ ArgsFirst(G, n, args, at)
<1>1. GenArgs(G, 0, args, at) = <<>>
  BY NoPieces DEF GenArgs
<1> DEFINE piece == [i \in 1 .. n + 1 |-> [a \in Nat |-> GenArg(G, args, i, a)]]
           others == [i \in 1 .. n |-> [a \in Nat |-> GenArg(G, Rest(args), i, a)]]
<1>2. Rest(args) \in Seq(B)
  BY RestType
<1>3. ArePieces(piece, n + 1, Byte)
  <2>1. PICK m \in Nat : m = n + 1
    OBVIOUS
  <2> QED BY <2>1, GenArgsType
<1>4. ArePieces(others, n, Byte)
  BY <1>2, GenArgsType
<1>5. \A i \in 1 .. n, a \in Nat : GenArg(G, Rest(args), i, a) = GenArg(G, args, i + 1, a)
  BY ArgOfRest, \A i \in 1 .. n : i \in Nat \ {0}
<1>6. \A i \in 1 .. n : others[i] = piece[i + 1]
  <2>1. \A i \in 1 .. n : i + 1 \in 1 .. n + 1
    OBVIOUS
  <2> QED BY <1>5, <2>1
<1>7. piece[1][at] = GenArg(G, args, 1, at)
  BY 1 \in 1 .. n + 1
<1>8. GenArgs(G, n + 1, args, at) = Concat(n + 1, piece, at)
  BY Zenon DEF GenArgs
<1>9. \A a \in Nat : GenArgs(G, n, Rest(args), a) = Concat(n, others, a)
  BY Zenon DEF GenArgs
<1> HIDE DEF piece, others
<1>10. Behead(piece, others, n, Byte)
  BY <1>3, <1>4, <1>6 DEF Behead
<1>11. FirstThen(piece, others, n, Byte, at)
  BY <1>10, FirstPiece
<1> QED BY <1>1, <1>7, <1>8, <1>9, <1>11 DEF FirstThen, ArgsFirst

ClausesFirst(G, clauses, at, end) ==
    GenClauses(G, clauses, at, end)
      = GenClause(G, clauses[1], at, end)
        \o GenClauses(G, Rest(clauses), at + Len(GenClause(G, clauses[1], at, end)), end)

\* The code of clauses, first clause first.
LEMMA GenClausesFirst ==
    ASSUME NEW B, Closed(B), NEW G, IsCode(G, B), NEW clauses \in Seq(B),
           \A i \in 1 .. Len(clauses) : ~IsAtom(clauses[i]), NEW at \in Nat, NEW end \in Nat
    PROVE  /\ clauses = <<>> => GenClauses(G, clauses, at, end) = <<>>
           /\ clauses # <<>> => ClausesFirst(G, clauses, at, end)
<1>1. CASE clauses = <<>>
  <2>1. Len(clauses) = 0
    BY <1>1
  <2> QED BY <1>1, <2>1, NoPieces DEF GenClauses
<1>2. CASE clauses # <<>>
  <2>1. /\ clauses[1] \in B /\ Rest(clauses) \in Seq(B) /\ Len(clauses) \in Nat
        /\ Len(Rest(clauses)) = Len(clauses) - 1 /\ Len(clauses) >= 1
        /\ \A i \in 1 .. Len(clauses) - 1 : Rest(clauses)[i] = clauses[i + 1]
    BY <1>2, RestIs
  <2>2. PICK n \in Nat : n = Len(Rest(clauses)) /\ n + 1 = Len(clauses)
    BY <2>1
  <2> DEFINE piece == [i \in 1 .. Len(clauses) |-> [a \in Nat |-> GenClause(G, clauses[i], a, end)]]
             others == [i \in 1 .. Len(Rest(clauses)) |->
                           [a \in Nat |-> GenClause(G, Rest(clauses)[i], a, end)]]
  <2>3. ArePieces(piece, n + 1, Byte)
    BY <2>2, GenClausesType
  <2>4. ArePieces(others, n, Byte)
    <3>1. \A i \in 1 .. Len(Rest(clauses)) : ~IsAtom(Rest(clauses)[i])
      <4>1. \A i \in 1 .. n : i + 1 \in 1 .. Len(clauses) /\ Rest(clauses)[i] = clauses[i + 1]
        BY <2>1, <2>2
      <4> QED BY <2>2, <4>1
    <3>2. Rest(clauses) \in Seq(B)
      BY <2>1
    <3>3. ArePieces(others, Len(Rest(clauses)), Byte)
      BY <3>1, <3>2, GenClausesType
    <3> HIDE DEF others
    <3> QED BY <2>2, <3>3
  <2>5. \A i \in 1 .. n : others[i] = piece[i + 1]
    <3>1. \A i \in 1 .. n : Rest(clauses)[i] = clauses[i + 1] /\ i + 1 \in 1 .. Len(clauses)
      BY <2>1, <2>2
    <3>2. \A i \in 1 .. n : others[i] = [a \in Nat |-> GenClause(G, Rest(clauses)[i], a, end)]
      BY <2>2
    <3>3. \A j \in 1 .. Len(clauses) : piece[j] = [a \in Nat |-> GenClause(G, clauses[j], a, end)]
      OBVIOUS
    <3> HIDE DEF piece, others
    <3> QED BY <3>1, <3>2, <3>3
  <2>6. piece[1][at] = GenClause(G, clauses[1], at, end)
    BY <2>1, 1 \in 1 .. Len(clauses)
  <2>7. GenClauses(G, clauses, at, end) = Concat(n + 1, piece, at)
    BY <2>2, Zenon DEF GenClauses
  <2>8. \A a \in Nat : GenClauses(G, Rest(clauses), a, end) = Concat(n, others, a)
    BY <2>2, Zenon DEF GenClauses
  <2> HIDE DEF piece, others
  <2>9. Behead(piece, others, n, Byte)
    BY <2>3, <2>4, <2>5 DEF Behead
  <2>10. FirstThen(piece, others, n, Byte, at)
    BY <2>9, FirstPiece
  <2> QED BY <1>2, <2>6, <2>7, <2>8, <2>10 DEF FirstThen, ClausesFirst
<1> QED BY <1>1, <1>2

BindingsFirst(G, bindings, at) ==
    LET code == GenArg(G, bindings[1][2], 1, at) \o <<OP.STORE>>
    IN GenBindings(G, bindings, at) = code \o GenBindings(G, Rest(bindings), at + Len(code))

\* The code of bindings, first binding first.
LEMMA GenBindingsFirst ==
    ASSUME NEW B, Closed(B), NEW G, IsCode(G, B), NEW bindings \in Seq(B),
           \A i \in 1 .. Len(bindings) : ~IsAtom(bindings[i]), NEW at \in Nat
    PROVE  /\ bindings = <<>> => GenBindings(G, bindings, at) = <<>>
           /\ bindings # <<>> => BindingsFirst(G, bindings, at)
<1>1. CASE bindings = <<>>
  <2>1. Len(bindings) = 0
    BY <1>1
  <2> QED BY <1>1, <2>1, NoPieces DEF GenBindings
<1>2. CASE bindings # <<>>
  <2>1. /\ bindings[1] \in B /\ Rest(bindings) \in Seq(B) /\ Len(bindings) \in Nat
        /\ Len(Rest(bindings)) = Len(bindings) - 1 /\ Len(bindings) >= 1
        /\ \A i \in 1 .. Len(bindings) - 1 : Rest(bindings)[i] = bindings[i + 1]
    BY <1>2, RestIs
  <2>2. PICK n \in Nat : n = Len(Rest(bindings)) /\ n + 1 = Len(bindings)
    BY <2>1
  <2> DEFINE code(b, a) == GenArg(G, b[2], 1, a) \o <<OP.STORE>>
             piece == [i \in 1 .. Len(bindings) |-> [a \in Nat |-> code(bindings[i], a)]]
             others == [i \in 1 .. Len(Rest(bindings)) |-> [a \in Nat |-> code(Rest(bindings)[i], a)]]
  <2>3. ArePieces(piece, n + 1, Byte)
    BY <2>2, GenBindingsType
  <2>4. ArePieces(others, n, Byte)
    <3>1. \A i \in 1 .. Len(Rest(bindings)) : ~IsAtom(Rest(bindings)[i])
      <4>1. \A i \in 1 .. n : i + 1 \in 1 .. Len(bindings) /\ Rest(bindings)[i] = bindings[i + 1]
        BY <2>1, <2>2
      <4> QED BY <2>2, <4>1
    <3> QED BY <2>1, <2>2, <3>1, GenBindingsType
  <2>7. GenBindings(G, bindings, at) = Concat(n + 1, piece, at)
    BY <2>2, Zenon DEF GenBindings
  <2>8. \A a \in Nat : GenBindings(G, Rest(bindings), a) = Concat(n, others, a)
    BY <2>2, Zenon DEF GenBindings
  <2> HIDE DEF code
  <2>5. \A i \in 1 .. n : others[i] = piece[i + 1]
    <3>1. \A i \in 1 .. n : Rest(bindings)[i] = bindings[i + 1] /\ i + 1 \in 1 .. Len(bindings)
      BY <2>1, <2>2
    <3>2. \A i \in 1 .. n : others[i] = [a \in Nat |-> code(Rest(bindings)[i], a)]
      BY <2>2
    <3>3. \A j \in 1 .. Len(bindings) : piece[j] = [a \in Nat |-> code(bindings[j], a)]
      OBVIOUS
    <3> HIDE DEF piece, others
    <3> QED BY <3>1, <3>2, <3>3
  <2>6. piece[1][at] = code(bindings[1], at)
    BY <2>1, 1 \in 1 .. Len(bindings)
  <2> HIDE DEF piece, others
  <2>9. Behead(piece, others, n, Byte)
    BY <2>3, <2>4, <2>5 DEF Behead
  <2>10. FirstThen(piece, others, n, Byte, at)
    BY <2>9, FirstPiece
  <2> QED BY <1>2, <2>6, <2>7, <2>8, <2>10 DEF FirstThen, BindingsFirst, code
<1> QED BY <1>1, <1>2

-----------------------------------------------------------------------------
(* What stands in the source                                               *)

Stands(p, token) == p <= Len(source) /\ source[p] = token
Reads(p, s) == \A i \in 1 .. Len(s) : Stands(p + i - 1, s[i])
\* The trees, and a closing parenthesis behind them.
Size(trees) == Len(AllTokens(Tokens, trees))
Listed(p, trees) == Reads(p, AllTokens(Tokens, trees)) /\ Stands(p + Size(trees), ")")

\* What reads as two sequences reads as the one and, behind it, the other.
LEMMA ReadsJoined ==
    ASSUME NEW S, NEW a \in Seq(S), NEW b \in Seq(S), NEW p \in Nat, Reads(p, a \o b)
    PROVE  Reads(p, a) /\ Reads(p + Len(a), b)
<1>1. /\ Len(a \o b) = Len(a) + Len(b) /\ Len(a) \in Nat /\ Len(b) \in Nat
      /\ \A i \in 1 .. Len(a) : (a \o b)[i] = a[i]
      /\ \A i \in 1 .. Len(b) : (a \o b)[Len(a) + i] = b[i]
  BY Joined
<1>2. PICK s : s = a \o b
  OBVIOUS
<1>3. Reads(p, s)
  BY <1>2
<1>4. ASSUME NEW i \in 1 .. Len(a) PROVE Stands(p + i - 1, a[i])
  <2>1. i \in 1 .. Len(s) /\ s[i] = a[i]
    BY <1>1, <1>2
  <2> QED BY <1>3, <2>1 DEF Reads
<1>5. ASSUME NEW i \in 1 .. Len(b) PROVE Stands(p + Len(a) + i - 1, b[i])
  <2>1. Len(a) + i \in 1 .. Len(s) /\ s[Len(a) + i] = b[i]
    BY <1>1, <1>2
  <2>2. Stands(p + (Len(a) + i) - 1, s[Len(a) + i])
    BY <1>3, <2>1 DEF Reads
  <2>3. p + (Len(a) + i) - 1 = p + Len(a) + i - 1
    BY <1>1
  <2> QED BY <2>1, <2>2, <2>3
<1> QED BY <1>4, <1>5 DEF Reads

\* One token.
LEMMA ReadsOne ==
    ASSUME NEW x, NEW p \in Nat, Reads(p, <<x>>)
    PROVE  Stands(p, x)
<1>1. PICK s : s = <<x>> /\ Len(s) = 1 /\ s[1] = x
  OBVIOUS
<1>2. 1 \in 1 .. Len(s) /\ p + 1 - 1 = p
  BY <1>1
<1>3. Reads(p, s)
  BY <1>1
<1>4. Stands(p + 1 - 1, s[1])
  BY <1>2, <1>3 DEF Reads
<1> QED BY <1>1, <1>2, <1>4

\* The number of tokens of a list.
LEMMA SizeType ==
    ASSUME NEW trees \in Seq(Trees)
    PROVE  Size(trees) \in Nat
<1>1. AllTokens(Tokens, trees) \in Seq(Token)
  BY AllTokensFirst
<1> QED BY <1>1 DEF Size

\* Behind an empty list stands its parenthesis.
LEMMA ListedNone ==
    ASSUME NEW p \in Nat, Listed(p, <<>>)
    PROVE  Size(<<>>) = 0 /\ Stands(p, ")")
<1>1. <<>> \in Seq(Trees)
  OBVIOUS
<1>2. AllTokens(Tokens, <<>>) = <<>>
  BY <1>1, AllTokensFirst
<1>3. Size(<<>>) = 0
  BY <1>2 DEF Size
<1>4. p + 0 = p
  OBVIOUS
<1> QED BY <1>3, <1>4 DEF Listed

\* A list stands where its first tree does, the rest behind it.
LEMMA ListedFirst ==
    ASSUME NEW p \in Nat, NEW trees \in Seq(Trees), trees # <<>>, Listed(p, trees)
    PROVE  /\ trees[1] \in Trees /\ Rest(trees) \in Seq(Trees)
           /\ Reads(p, Tokens[trees[1]]) /\ Len(Tokens[trees[1]]) \in Nat
           /\ Listed(p + Len(Tokens[trees[1]]), Rest(trees))
           /\ Size(trees) = Len(Tokens[trees[1]]) + Size(Rest(trees)) /\ Size(Rest(trees)) \in Nat
<1>1. trees[1] \in Trees /\ Rest(trees) \in Seq(Trees)
  BY RestIs
<1>2. PICK a \in Seq(Token) : a = Tokens[trees[1]]
  BY <1>1, TokensType
<1>3. PICK b \in Seq(Token) : b = AllTokens(Tokens, Rest(trees))
  BY <1>1, AllTokensFirst
<1>4. AllTokens(Tokens, trees) = a \o b
  BY <1>2, <1>3, AllTokensFirst
<1>5. Reads(p, a) /\ Reads(p + Len(a), b)
  BY <1>4, ReadsJoined DEF Listed
<1>6. Size(trees) = Len(a) + Len(b) /\ Size(Rest(trees)) = Len(b)
  BY <1>3, <1>4, Joined DEF Size
<1>7. Len(a) \in Nat /\ Len(b) \in Nat /\ p + (Len(a) + Len(b)) = p + Len(a) + Len(b)
  OBVIOUS
<1>8. Stands(p + Len(a) + Len(b), ")")
  BY <1>6, <1>7 DEF Listed
<1> QED BY <1>1, <1>2, <1>3, <1>5, <1>6, <1>7, <1>8 DEF Listed

\* An atom is one token, no parenthesis.
LEMMA AtomRead ==
    ASSUME NEW p \in Nat, NEW t \in Trees, IsAtom(t), Reads(p, Tokens[t])
    PROVE  Stands(p, t[1]) /\ Len(Tokens[t]) = 1 /\ t[1] \notin {"", "(", ")"}
<1>1. Tokens[t] = <<t[1]>>
  BY TokensSpelt DEF TokensAt
<1>2. Stands(p, t[1])
  BY <1>1, ReadsOne
<1> QED BY <1>1, <1>2, TreesAssumption

\* A form with a head, and a list without.
FormRead(p, t) ==
    /\ Stands(p, "(") /\ t[2] \in Seq(Trees) /\ t[2] \in Seq(Below(t)) /\ Size(t[2]) \in Nat
    /\ t[1] # "" => /\ Stands(p + 1, t[1]) /\ t[1] \notin {"(", ")"}
                    /\ Listed(p + 2, t[2]) /\ Len(Tokens[t]) = Size(t[2]) + 3
    /\ t[1] = "" => Listed(p + 1, t[2]) /\ Len(Tokens[t]) = Size(t[2]) + 2

\* A form is a parenthesis, its head, its list and a parenthesis.
LEMMA TreeRead ==
    ASSUME NEW p \in Nat, NEW t \in Trees, ~IsAtom(t), Reads(p, Tokens[t])
    PROVE  FormRead(p, t)
<1>1. t[2] \in Seq(Below(t)) /\ t[2] \in Seq(Trees) /\ t[1] \notin {"(", ")"}
  <2>1. PICK B : B = Below(t) /\ B \subseteq Trees
    BY DEF Below
  <2>2. t[2] \in Seq(B) /\ t[1] \notin {"(", ")"}
    BY <2>1, TreesAssumption
  <2>3. t[2] \in Seq(Trees)
    BY <2>1, <2>2
  <2> QED BY <2>1, <2>2, <2>3
<1>2. PICK args \in Seq(Token) : args = AllTokens(Tokens, t[2])
  BY <1>1, AllTokensFirst
<1>3. PICK open \in Seq(Token) : open = <<"(">> /\ Len(open) = 1
  BY Single, "(" \in Token DEF Token
<1>4. PICK close \in Seq(Token) : close = <<")">> /\ Len(close) = 1
  BY Single, ")" \in Token DEF Token
<1>5. Size(t[2]) = Len(args) /\ Len(args) \in Nat
  BY <1>2 DEF Size
<1>6. CASE t[1] = ""
  <2>1. Tokens[t] = (open \o <<>> \o args) \o close
    BY <1>2, <1>3, <1>4, <1>6, TokensSpelt DEF TokensAt
  <2>2. open \o <<>> = open
    OBVIOUS
  <2>3. Reads(p, (open \o args) \o close)
    BY <2>1, <2>2
  <2>4. open \o args \in Seq(Token)
    OBVIOUS
  <2>5. Reads(p, open \o args) /\ Reads(p + Len(open \o args), close)
    BY <2>3, <2>4, ReadsJoined
  <2>6. Reads(p, open) /\ Reads(p + Len(open), args)
    BY <2>5, ReadsJoined
  <2>7. Len(open \o args) = 1 + Len(args) /\ Len((open \o args) \o close) = Len(args) + 2
    BY <1>3, <1>4
  <2>8. Stands(p, "(")
    BY <1>3, <2>6, ReadsOne
  <2>9. Stands(p + (1 + Len(args)), ")")
    BY <1>4, <1>5, <2>5, <2>7, ReadsOne
  <2>10. p + (1 + Len(args)) = p + 1 + Len(args)
    BY <1>5
  <2>11. Listed(p + 1, t[2])
    BY <1>2, <1>3, <1>5, <2>6, <2>9, <2>10 DEF Listed
  <2> QED BY <1>1, <1>5, <1>6, <2>1, <2>2, <2>7, <2>8, <2>11 DEF FormRead
<1>7. CASE t[1] # ""
  <2>0. PICK head \in Seq(Token) : head = <<t[1]>> /\ Len(head) = 1
    BY <1>7, Single, t[1] \in Token DEF Token
  <2>1. Tokens[t] = ((open \o head) \o args) \o close
    BY <1>2, <1>3, <1>4, <1>7, <2>0, TokensSpelt DEF TokensAt
  <2>2. open \o head \in Seq(Token) /\ (open \o head) \o args \in Seq(Token)
    OBVIOUS
  <2>3. Reads(p, (open \o head) \o args) /\ Reads(p + Len((open \o head) \o args), close)
    BY <2>1, <2>2, ReadsJoined
  <2>4. Reads(p, open \o head) /\ Reads(p + Len(open \o head), args)
    BY <2>2, <2>3, ReadsJoined
  <2>5. Reads(p, open) /\ Reads(p + Len(open), head)
    BY <2>4, ReadsJoined
  <2>6. Len(open \o head) = 2 /\ Len((open \o head) \o args) = 2 + Len(args)
    BY <1>3, <2>0
  <2>7. Len(((open \o head) \o args) \o close) = Len(args) + 3
    BY <1>4, <1>5, <2>2, <2>6
  <2>8. Stands(p, "(") /\ Stands(p + 1, t[1])
    BY <1>3, <2>0, <2>5, ReadsOne, p + 1 \in Nat
  <2>9. Stands(p + (2 + Len(args)), ")")
    BY <1>4, <1>5, <2>3, <2>6, ReadsOne
  <2>10. p + (2 + Len(args)) = p + 2 + Len(args)
    BY <1>5
  <2>11. Listed(p + 2, t[2])
    BY <1>2, <1>5, <2>4, <2>6, <2>9, <2>10 DEF Listed
  <2> QED BY <1>1, <1>5, <1>7, <2>1, <2>7, <2>8, <2>11 DEF FormRead
<1> QED BY <1>6, <1>7

-----------------------------------------------------------------------------
(* States of the compiler                                                  *)

\* n tokens and the bytes of code behind c.
After(c, n, code) == [pos |-> c.pos + n, buf |-> c.buf \o code]

\* What the lexer does at each kind of token.
LEMMA StandsAt ==
    ASSUME SourceOK, NEW c \in State, NEW x, Stands(c.pos, x)
    PROVE  /\ ~Ended(c) /\ At(c, x)
           /\ x = "(" => c \in Inside /\ ~At(c, ")") /\ AtomAt(c) = "" /\ SkipAtom(c) = c
                         /\ SkipClose(c) = c
           /\ x = ")" => /\ c \notin Inside /\ ~At(c, "(") /\ AtomAt(c) = ""
                         /\ SkipClose(c) = Skip(c) /\ SkipAtom(c) = c
           /\ x \notin {"", "(", ")"} =>
                /\ c \in Inside /\ ~At(c, "(") /\ ~At(c, ")") /\ AtomAt(c) = x
                /\ SkipAtom(c) = Skip(c) /\ SkipClose(c) = c
<1>1. c.pos \in Nat /\ Len(source) \in Nat
  BY StateIs DEF SourceOK
<1>2. ~Ended(c) /\ source[c.pos] = x
  BY <1>1 DEF Stands, Ended
<1>3. "(" # ")" /\ "(" # "" /\ ")" # ""
  OBVIOUS
<1> QED BY <1>2, <1>3, Zenon DEF At, AtomAt, SkipAtom, SkipClose, Inside

AfterIs(c, n, a, p) ==
    /\ After(c, n, a) \in Behind(p) /\ After(c, n, a) \in State
    /\ After(c, n, a).pos = c.pos + n
    /\ Here(After(c, n, a)) = Here(c) + Len(a) /\ Here(c) \in Nat /\ c.pos \in Nat
    /\ Skip(After(c, n, a)) = After(c, n + 1, a)
    /\ \A b \in Seq(Byte) : Emit(After(c, n, a), b) = After(c, n, a \o b)
    /\ \A m \in Nat, b \in Seq(Byte) : After(After(c, n, a), m, b) = After(c, n + m, a \o b)

\* Types and places of a state n tokens and some code further on.
LEMMA AfterType ==
    ASSUME NEW p \in Nat, NEW c \in Behind(p), NEW n \in Nat, NEW a \in Seq(Byte)
    PROVE  AfterIs(c, n, a, p)
<1>1. c.pos \in Nat /\ c.pos > p /\ c.buf \in Seq(Byte)
  BY StateIs DEF Behind
<1>2. PICK d : d = After(c, n, a)
  OBVIOUS
<1>3. d.pos = c.pos + n /\ d.buf = c.buf \o a
  BY <1>2 DEF After
<1>4. c.buf \o a \in Seq(Byte) /\ Len(c.buf \o a) = Len(c.buf) + Len(a) /\ Len(c.buf) \in Nat
  BY <1>1, Joined
<1>5. d \in State
  BY <1>1, <1>2, <1>4 DEF State, After
<1>6. d \in Behind(p)
  BY <1>1, <1>3, <1>5 DEF Behind
<1>7. Here(d) = Here(c) + Len(a) /\ Here(c) \in Nat
  BY <1>3, <1>4 DEF Here
<1>8. Skip(d) = After(c, n + 1, a)
  <2>1. \A i, j \in Nat : (i + j) + 1 = i + (j + 1)
    OBVIOUS
  <2>2. d.pos + 1 = c.pos + (n + 1)
    BY <1>1, <1>3, <2>1
  <2> QED BY <1>3, <2>2 DEF Skip, After
<1>9. \A b \in Seq(Byte) : Emit(d, b) = After(c, n, a \o b)
  <2>1. \A q, b \in Seq(Byte) : (q \o a) \o b = q \o (a \o b)
    BY ConcatAssociative
  <2> QED BY <1>1, <1>3, <2>1 DEF Emit, After
<1>10. \A m \in Nat, b \in Seq(Byte) : After(d, m, b) = After(c, n + m, a \o b)
  <2>1. \A q, b \in Seq(Byte) : (q \o a) \o b = q \o (a \o b)
    BY ConcatAssociative
  <2>2. \A m \in Nat : c.pos + n + m = c.pos + (n + m)
    BY <1>1
  <2> QED BY <1>1, <1>3, <2>1, <2>2 DEF After
<1> QED BY <1>1, <1>2, <1>3, <1>5, <1>6, <1>7, <1>8, <1>9, <1>10 DEF AfterIs

\* Skip and Emit lead to such states.
LEMMA AfterNothing ==
    ASSUME NEW c \in State
    PROVE  /\ c = After(c, 0, <<>>) /\ Skip(c) = After(c, 1, <<>>)
           /\ \A b \in Seq(Byte) : Emit(c, b) = After(c, 0, b)
<1>1. c.pos \in Nat /\ c.buf \in Seq(Byte) /\ c = [pos |-> c.pos, buf |-> c.buf]
  BY StateIs
<1>2. c.buf \o <<>> = c.buf /\ c.pos + 0 = c.pos
  BY <1>1
<1> QED BY <1>1, <1>2 DEF After, Skip, Emit
-----------------------------------------------------------------------------
(* Jumps patched                                                           *)

LEMMA PatchNothing ==
    ASSUME NEW c \in State, NEW v
    PROVE  Patch(c, {}, v) = c
<1>1. c.pos \in Nat /\ c.buf \in Seq(Byte) /\ c = [pos |-> c.pos, buf |-> c.buf]
  BY StateIs
<1>2. \A i : Covering({}, i) = {}
  BY DEF Covering
<1>3. Patch(c, {}, v) = [pos |-> c.pos, buf |-> [i \in 1 .. Len(c.buf) |-> c.buf[i]]]
  BY <1>2 DEF Patch
<1>4. [i \in 1 .. Len(c.buf) |-> c.buf[i]] = c.buf
  BY <1>1
<1> QED BY <1>1, <1>3, <1>4

\* Operands that all end at n or before.
EndBy(offsets, n) == offsets \subseteq Nat /\ \A o \in offsets : o + 8 <= n

\* The offset of the next byte is a natural number.
LEMMA HereType ==
    ASSUME NEW c \in State
    PROVE  Here(c) \in Nat
<1>1. c.buf \in Seq(Byte)
  BY StateIs
<1> QED BY <1>1 DEF Here

\* Sequences with the same elements are the same.
LEMMA SameSeq ==
    ASSUME NEW S, NEW a \in Seq(S), NEW b \in Seq(S), Len(a) = Len(b),
           \A i \in 1 .. Len(a) : a[i] = b[i]
    PROVE  a = b
OBVIOUS

\* Of the bytes w from there on, w2 is made.
Patched(w, w2, from, extra, v) ==
    /\ Len(w2) = Len(w)
    /\ \A j \in 1 .. Len(w) : w2[j] = ByteAt(extra, v, w[j], from + j)

Joins(g, a, b) ==
    /\ Len(g) = Len(a) + Len(b) /\ Len(a) \in Nat /\ Len(b) \in Nat
    /\ \A i \in 1 .. Len(a) : g[i] = a[i]
    /\ \A i \in 1 .. Len(b) : g[Len(a) + i] = b[i]

\* What a concatenation is, element by element,
LEMMA JoinedIs ==
    ASSUME NEW S, NEW a \in Seq(S), NEW b \in Seq(S)
    PROVE  a \o b \in Seq(S) /\ Joins(a \o b, a, b)
BY Joined DEF Joins

\* and that nothing else is.
LEMMA SameJoin ==
    ASSUME NEW S, NEW a \in Seq(S), NEW b \in Seq(S), NEW g \in Seq(S), Joins(g, a, b)
    PROVE  g = a \o b
<1>1. PICK h \in Seq(S) : h = a \o b /\ Joins(h, a, b)
  BY JoinedIs
<1>2. Len(g) = Len(h) /\ Len(a) \in Nat /\ Len(b) \in Nat /\ Len(g) = Len(a) + Len(b)
  BY <1>1 DEF Joins
<1>3. ASSUME NEW i \in 1 .. Len(g) PROVE g[i] = h[i]
  <2>1. CASE i <= Len(a)
    <3>1. i \in 1 .. Len(a)
      BY <1>2, <2>1
    <3> QED BY <1>1, <3>1 DEF Joins
  <2>2. CASE i > Len(a)
    <3>1. PICK j \in 1 .. Len(b) : i = Len(a) + j
      <4>1. i - Len(a) \in 1 .. Len(b) /\ i = Len(a) + (i - Len(a))
        BY <1>2, <2>2
      <4> QED BY <4>1
    <3> QED BY <1>1, <3>1 DEF Joins
  <2> QED BY <1>2, <2>1, <2>2
<1> QED BY <1>1, <1>2, <1>3, SameSeq

\* Operands before what was emitted last and operands in it are patched apart.
LEMMA PatchSplit ==
    ASSUME NEW c \in State, NEW offsets, EndBy(offsets, Here(c)), NEW v \in Nat, NEW n \in Nat,
           NEW extra \in SUBSET Nat, \A o \in extra : o >= Here(c),
           NEW w \in Seq(Byte), NEW w2 \in Seq(Byte), Patched(w, w2, Here(c), extra, v)
    PROVE  Patch(After(c, n, w), offsets \cup extra, v) = After(Patch(c, offsets, v), n, w2)
<1>1. PICK k \in Nat : k = Here(c) /\ k = Len(c.buf)
  BY HereType DEF Here
<1>2. PICK q \in Seq(Byte) : q = c.buf /\ Len(q) = k /\ c.pos \in Nat
  BY <1>1, StateIs
<1>3. PICK m \in Nat : m = Len(w) /\ Len(w2) = m
  BY DEF Patched
<1>4. PICK g \in Seq(Byte) : g = q \o w /\ Joins(g, q, w)
  BY JoinedIs
<1>5. /\ Len(g) = k + m
      /\ \A i \in 1 .. k : g[i] = q[i]
      /\ \A j \in 1 .. m : g[k + j] = w[j]
  BY <1>2, <1>3, <1>4 DEF Joins
<1>6. PICK d \in State : d = After(c, n, w) /\ d.pos = c.pos + n /\ d.buf = g
  <2>1. After(c, n, w) = [pos |-> c.pos + n, buf |-> g] /\ c.pos + n \in Nat
    BY <1>2, <1>4 DEF After
  <2>2. [pos |-> c.pos + n, buf |-> g] \in State
    BY <2>1 DEF State
  <2>3. [pos |-> c.pos + n, buf |-> g].pos = c.pos + n /\ [pos |-> c.pos + n, buf |-> g].buf = g
    OBVIOUS
  <2> QED BY <2>1, <2>2, <2>3, Zenon
<1>7. offsets \in SUBSET Nat /\ offsets \cup extra \in SUBSET Nat
  BY DEF EndBy
<1>8. PICK e \in State :
         /\ e = Patch(d, offsets \cup extra, v) /\ e.pos = d.pos /\ e.buf \in Seq(Byte)
         /\ Len(e.buf) = Len(d.buf)
         /\ \A i \in 1 .. Len(d.buf) : e.buf[i] = ByteAt(offsets \cup extra, v, d.buf[i], i)
  BY <1>7, PatchGoesOn
<1>9. PICK f \in State :
         /\ f = Patch(c, offsets, v) /\ f.pos = c.pos /\ f.buf \in Seq(Byte)
         /\ Len(f.buf) = Len(c.buf)
         /\ \A i \in 1 .. Len(c.buf) : f.buf[i] = ByteAt(offsets, v, c.buf[i], i)
  BY <1>7, PatchGoesOn
<1>10. PICK x \in Seq(Byte) : x = e.buf /\ Len(x) = k + m
                             /\ \A i \in 1 .. k + m : x[i] = ByteAt(offsets \cup extra, v, g[i], i)
  BY <1>5, <1>6, <1>8
<1>11. PICK y \in Seq(Byte) : y = f.buf /\ Len(y) = k
                             /\ \A i \in 1 .. k : y[i] = ByteAt(offsets, v, q[i], i)
  BY <1>1, <1>2, <1>9
<1>12. ASSUME NEW i \in 1 .. k PROVE x[i] = y[i]
  <2>1. Covering(offsets \cup extra, i) = Covering(offsets, i)
    <3>1. \A o \in extra : i \notin (o + 1) .. (o + 8)
      BY <1>1
    <3> QED BY <3>1 DEF Covering
  <2>2. i \in 1 .. k + m /\ g[i] = q[i]
    BY <1>5
  <2>3. ByteAt(offsets \cup extra, v, q[i], i) = ByteAt(offsets, v, q[i], i)
    BY <2>1, Zenon DEF ByteAt
  <2> QED BY <1>10, <1>11, <2>2, <2>3
<1>13. ASSUME NEW j \in 1 .. m PROVE x[k + j] = w2[j]
  <2>1. Covering(offsets \cup extra, k + j) = Covering(extra, k + j)
    <3>1. \A o \in offsets : k + j \notin (o + 1) .. (o + 8)
      BY <1>1 DEF EndBy
    <3> QED BY <3>1 DEF Covering
  <2>2. k + j \in 1 .. k + m
    OBVIOUS
  <2>2a. g[k + j] = w[j]
    BY <1>5
  <2>3. ByteAt(offsets \cup extra, v, w[j], k + j) = ByteAt(extra, v, w[j], k + j)
    BY <2>1, Zenon DEF ByteAt
  <2>4. w2[j] = ByteAt(extra, v, w[j], k + j)
    BY <1>1, <1>3 DEF Patched
  <2> QED BY <1>10, <2>2, <2>2a, <2>3, <2>4
<1>14. x = y \o w2
  <2>1. Joins(x, y, w2)
    BY <1>3, <1>10, <1>11, <1>12, <1>13 DEF Joins
  <2> QED BY <2>1, SameJoin
<1>15. e = [pos |-> e.pos, buf |-> e.buf]
  BY StateIs
<1> QED BY <1>6, <1>8, <1>9, <1>10, <1>11, <1>14, <1>15 DEF After

\* Bytes behind the operands are not touched.
LEMMA PatchMore ==
    ASSUME NEW c \in State, NEW offsets, EndBy(offsets, Here(c)), NEW v \in Nat,
           NEW n \in Nat, NEW b \in Seq(Byte)
    PROVE  Patch(After(c, n, b), offsets, v) = After(Patch(c, offsets, v), n, b)
<1>1. \A i : Covering({}, i) = {}
  BY DEF Covering
<1>2. Patched(b, b, Here(c), {}, v)
  BY <1>1 DEF Patched, ByteAt
<1>3. {} \in SUBSET Nat /\ offsets \cup {} = offsets /\ (\A o \in {} : o >= Here(c))
  OBVIOUS
<1> QED BY <1>2, <1>3, PatchSplit

Between(a, op, v, b) == a \o JumpTo(op, v) \o b

\* w is a, the opcode, the operand v, and b.
Framed(w, a, op, v, b) ==
    /\ Len(w) = Len(a) + 9 + Len(b)
    /\ \A i \in 1 .. Len(a) : w[i] = a[i]
    /\ w[Len(a) + 1] = OP[op]
    /\ \A i \in 1 .. 8 : w[Len(a) + 1 + i] = U64(v)[i]
    /\ \A i \in 1 .. Len(b) : w[Len(a) + 9 + i] = b[i]

\* A jump between two pieces of code, byte by byte.
LEMMA BetweenIs ==
    ASSUME NEW a \in Seq(Byte), NEW op \in {"JMP", "JEQ", "JNE"}, NEW v \in Nat, NEW b \in Seq(Byte)
    PROVE  Between(a, op, v, b) \in Seq(Byte) /\ Framed(Between(a, op, v, b), a, op, v, b)
<1>1. PICK j \in Seq(Byte) : j = JumpTo(op, v)
  BY Jumps9
<1>2. Len(j) = 9 /\ j[1] = OP[op] /\ \A i \in 1 .. 8 : j[i + 1] = U64(v)[i]
  <2>1. op \in {"JMP", "CALL", "JEQ", "JNE"}
    OBVIOUS
  <2> QED BY <1>1, <2>1, Jumps9, Zenon
<1>3. PICK aj \in Seq(Byte) : aj = a \o j /\ Joins(aj, a, j)
  BY JoinedIs
<1>4. PICK g \in Seq(Byte) : g = aj \o b /\ Joins(g, aj, b)
  BY JoinedIs
<1>5. g = Between(a, op, v, b)
  BY <1>1, <1>3, <1>4 DEF Between
<1>6. PICK k \in Nat : k = Len(a)
  OBVIOUS
<1>7. PICK m \in Nat : m = Len(b)
  OBVIOUS
<1>8. /\ Len(aj) = k + 9 /\ (\A i \in 1 .. k : aj[i] = a[i])
      /\ \A i \in 1 .. 9 : aj[k + i] = j[i]
  BY <1>2, <1>3, <1>6 DEF Joins
<1>9. /\ Len(g) = k + 9 + m /\ (\A i \in 1 .. k + 9 : g[i] = aj[i])
      /\ \A i \in 1 .. m : g[k + 9 + i] = b[i]
  BY <1>4, <1>7, <1>8 DEF Joins
<1>10. ASSUME NEW i \in 1 .. k PROVE g[i] = a[i]
  <2>1. i \in 1 .. k + 9
    OBVIOUS
  <2> QED BY <1>8, <1>9, <2>1
<1>11. g[k + 1] = OP[op]
  <2>1. 1 \in 1 .. 9 /\ k + 1 \in 1 .. k + 9
    OBVIOUS
  <2> QED BY <1>2, <1>8, <1>9, <2>1
<1>12. ASSUME NEW i \in 1 .. 8 PROVE g[k + 1 + i] = U64(v)[i]
  <2>1. i + 1 \in 1 .. 9 /\ k + (i + 1) = k + 1 + i /\ k + (i + 1) \in 1 .. k + 9
    OBVIOUS
  <2>2. aj[k + (i + 1)] = j[i + 1]
    BY <1>8, <2>1
  <2>3. g[k + (i + 1)] = aj[k + (i + 1)]
    BY <1>9, <2>1
  <2>4. j[i + 1] = U64(v)[i]
    BY <1>2
  <2> QED BY <2>1, <2>2, <2>3, <2>4
<1> QED BY <1>5, <1>6, <1>7, <1>9, <1>10, <1>11, <1>12 DEF Framed

\* The operand of a jump behind c is patched.
HoleFilled(c, offsets, v, n, a, op, b) ==
    Patch(After(c, n, Between(a, op, 0, b)), offsets \cup {Here(c) + Len(a) + 1}, v)
      = After(Patch(c, offsets, v), n, Between(a, op, v, b))

\* Patching the operand of that jump makes the jump with that address.
LEMMA PatchHole ==
    ASSUME NEW c \in State, NEW offsets, EndBy(offsets, Here(c)), NEW v \in Nat, NEW n \in Nat,
           NEW a \in Seq(Byte), NEW op \in {"JMP", "JEQ", "JNE"}, NEW b \in Seq(Byte)
    PROVE  HoleFilled(c, offsets, v, n, a, op, b)
<1>1. PICK k \in Nat : k = Len(a)
  OBVIOUS
<1>2. PICK m \in Nat : m = Len(b)
  OBVIOUS
<1>3. PICK h \in Nat : h = Here(c)
  BY HereType
<1>4. PICK o \in Nat : o = h + k + 1
  OBVIOUS
<1>5. PICK w \in Seq(Byte) : w = Between(a, op, 0, b) /\ Framed(w, a, op, 0, b)
  BY BetweenIs, 0 \in Nat
<1>6. PICK w2 \in Seq(Byte) : w2 = Between(a, op, v, b) /\ Framed(w2, a, op, v, b)
  BY BetweenIs
<1>7. /\ Len(w) = k + 9 + m /\ (\A i \in 1 .. k : w[i] = a[i]) /\ w[k + 1] = OP[op]
      /\ \A i \in 1 .. m : w[k + 9 + i] = b[i]
  BY <1>1, <1>2, <1>5 DEF Framed
<1>8. /\ Len(w2) = k + 9 + m /\ (\A i \in 1 .. k : w2[i] = a[i]) /\ w2[k + 1] = OP[op]
      /\ \A i \in 1 .. 8 : w2[k + 1 + i] = U64(v)[i]
      /\ \A i \in 1 .. m : w2[k + 9 + i] = b[i]
  BY <1>1, <1>2, <1>6 DEF Framed
<1>9. \A i : i \notin (o + 1) .. (o + 8) => \A x : ByteAt({o}, v, x, i) = x
  BY DEF ByteAt, Covering
<1>10. \A i \in 1 .. 8 : \A x : ByteAt({o}, v, x, o + i) = U64(v)[i]
  <2>1. \A i \in 1 .. 8 : Covering({o}, o + i) = {o}
    BY DEF Covering
  <2>2. Only({o}) = o /\ {o} # {}
    BY DEF Only
  <2>3. \A i \in 1 .. 8 : (o + i) - o = i
    OBVIOUS
  <2> QED BY <2>1, <2>2, <2>3 DEF ByteAt
<1>11. ASSUME NEW j \in 1 .. k + 9 + m PROVE w2[j] = ByteAt({o}, v, w[j], h + j)
  <2>1. CASE j <= k + 1
    <3>1. h + j \notin (o + 1) .. (o + 8) /\ j \in 1 .. k + 1
      BY <1>4, <2>1
    <3>2. CASE j = k + 1
      <4>1. w2[j] = w[j]
        BY <1>7, <1>8, <3>2
      <4> QED BY <1>9, <3>1, <4>1
    <3>3. CASE j # k + 1
      <4>1. j \in 1 .. k
        BY <3>1, <3>3
      <4>2. w2[j] = w[j]
        BY <1>7, <1>8, <4>1
      <4> QED BY <1>9, <3>1, <4>2
    <3> QED BY <3>2, <3>3
  <2>2. CASE j \in (k + 2) .. (k + 9)
    <3>1. PICK i \in 1 .. 8 : j = k + 1 + i
      <4>1. j - k - 1 \in 1 .. 8 /\ j = k + 1 + (j - k - 1)
        BY <2>2
      <4> QED BY <4>1
    <3>2. h + j = o + i
      BY <1>4, <3>1
    <3> QED BY <1>8, <1>10, <3>1, <3>2
  <2>3. CASE j > k + 9
    <3>1. PICK i \in 1 .. m : j = k + 9 + i
      <4>1. j - k - 9 \in 1 .. m /\ j = k + 9 + (j - k - 9)
        BY <2>3
      <4> QED BY <4>1
    <3>2. h + j \notin (o + 1) .. (o + 8)
      BY <1>4, <3>1
    <3>3. w2[j] = w[j]
      BY <1>7, <1>8, <3>1
    <3> QED BY <1>9, <3>2, <3>3
  <2> QED BY <2>1, <2>2, <2>3
<1>12. Patched(w, w2, Here(c), {o}, v)
  BY <1>3, <1>7, <1>8, <1>11 DEF Patched
<1>13. PICK X \in SUBSET Nat : X = {o}
  OBVIOUS
<1>14. \A q \in X : q >= Here(c)
  BY <1>3, <1>4, <1>13
<1>15. Patched(w, w2, Here(c), X, v)
  BY <1>12, <1>13
<1>16. Patch(After(c, n, w), offsets \cup X, v) = After(Patch(c, offsets, v), n, w2)
  BY <1>14, <1>15, PatchSplit
<1> QED BY <1>1, <1>3, <1>4, <1>5, <1>6, <1>13, <1>16 DEF HoleFilled

-----------------------------------------------------------------------------
(* The compiler makes of a form the code of the grammar                    *)

\* Behind p, E makes of every expression of B the code G gives, and of a closing
\* parenthesis an OP_NOP.
Right(E, G, B, p) ==
    /\ p \in Nat /\ Closed(B) /\ IsCode(G, B) /\ Consumes(E, p)
    /\ \A d \in Behind(p) : Stands(d.pos, ")") => E[d] = Emit(d, <<OP.NOP>>)
    /\ \A d \in Behind(p), s \in B :
         IsExpr(s) /\ Reads(d.pos, Tokens[s]) => E[d] = After(d, Len(Tokens[s]), G[s][Here(d)])

\* What it is that compile_expr is right on the trees in B.
LEMMA RightIs ==
    ASSUME NEW E, NEW G, NEW B, NEW p, Right(E, G, B, p)
    PROVE  /\ p \in Nat /\ Closed(B) /\ IsCode(G, B) /\ Consumes(E, p) /\ B \subseteq Trees
           /\ \A c \in Behind(p) : c \in State /\ c.pos \in Nat /\ Here(c) \in Nat
           /\ \A trees \in Seq(B) : trees \in Seq(Trees) /\ Size(trees) \in Nat
                                    /\ Rest(trees) \in Seq(B)
<1>1. p \in Nat /\ Closed(B) /\ IsCode(G, B) /\ Consumes(E, p) /\ B \subseteq Trees
  BY DEF Right, Closed
<1>2. \A c \in Behind(p) : c \in State /\ c.pos \in Nat /\ Here(c) \in Nat
  BY HereType, StateIs DEF Behind
<1>3. ASSUME NEW trees \in Seq(B)
      PROVE trees \in Seq(Trees) /\ Size(trees) \in Nat /\ Rest(trees) \in Seq(B)
  <2>1. trees \in Seq(Trees)
    BY <1>1
  <2> QED BY <2>1, SizeType, RestType
<1> QED BY <1>1, <1>2, <1>3

\* The rest of a list of expressions.
LEMMA ExprsRest ==
    ASSUME NEW B, NEW trees \in Seq(B), AreExprs(trees)
    PROVE  AreExprs(Rest(trees)) /\ (trees # <<>> => IsExpr(trees[1]))
<1>1. CASE trees = <<>>
  BY <1>1 DEF Rest, AreExprs
<1>2. CASE trees # <<>>
  <2>1. /\ DOMAIN trees = 1 .. Len(trees) /\ DOMAIN Rest(trees) = 1 .. Len(trees) - 1
        /\ Len(trees) \in Nat /\ Len(trees) >= 1
        /\ \A i \in 1 .. Len(trees) - 1 : Rest(trees)[i] = trees[i + 1]
    BY <1>2, RestIs
  <2>2. \A i \in 1 .. Len(trees) : IsExpr(trees[i])
    BY <2>1 DEF AreExprs
  <2>3. \A i \in 1 .. Len(trees) - 1 : IsExpr(Rest(trees)[i])
    BY <2>1, <2>2
  <2> QED BY <2>1, <2>2, <2>3 DEF AreExprs
<1> QED BY <1>1, <1>2

\* The rest of an empty list.
LEMMA RestOfNone ==
    Rest(<<>>) = <<>> /\ Len(<<>>) = 0
BY DEF Rest

\* Where a tree begins.
LEMMA TreeBegins ==
    ASSUME SourceOK, NEW c \in State, NEW t \in Trees, Reads(c.pos, Tokens[t])
    PROVE  /\ c \in Inside
           /\ IsAtom(t) => /\ AtomAt(c) = t[1] /\ SkipAtom(c) = Skip(c) /\ Len(Tokens[t]) = 1
                           /\ ~At(c, "(") /\ ~Ended(c) /\ t[1] # ""
           /\ ~IsAtom(t) => At(c, "(") /\ FormRead(c.pos, t)
<1>0. c.pos \in Nat
  BY StateIs
<1>1. CASE IsAtom(t)
  <2>1. PICK x : x = t[1] /\ Stands(c.pos, x) /\ x \notin {"", "(", ")"} /\ Len(Tokens[t]) = 1
    BY <1>0, <1>1, AtomRead
  <2>2. ~Ended(c) /\ c \in Inside /\ ~At(c, "(") /\ AtomAt(c) = x /\ SkipAtom(c) = Skip(c)
    BY <2>1, StandsAt
  <2> QED BY <1>1, <2>1, <2>2
<1>2. CASE ~IsAtom(t)
  <2>1. FormRead(c.pos, t)
    BY <1>0, <1>2, TreeRead
  <2>2. Stands(c.pos, "(")
    BY <2>1 DEF FormRead
  <2>3. At(c, "(") /\ c \in Inside
    BY <2>2, StandsAt
  <2> QED BY <1>2, <2>1, <2>3
<1> QED BY <1>1, <1>2

\* The next argument, or an OP_NOP in its place.
NextArg(E, G, c, trees, k, code) ==
    /\ k \in Nat /\ code \in Seq(Byte)
    /\ code = GenArg(G, trees, 1, Here(c))
    /\ E[c] = After(c, k, code)
    /\ Size(trees) = k + Size(Rest(trees)) /\ Listed(c.pos + k, Rest(trees))

\* One argument: its code, or an OP_NOP where the list ends.
LEMMA ArgRight ==
    ASSUME SourceOK, NEW E, NEW G, NEW B, NEW p, Right(E, G, B, p), NEW c \in Behind(p),
           NEW trees \in Seq(B), Listed(c.pos, trees), trees # <<>> => IsExpr(trees[1])
    PROVE  \E k, code : NextArg(E, G, c, trees, k, code)
<1>0. /\ p \in Nat /\ IsCode(G, B) /\ trees \in Seq(Trees) /\ B \subseteq Trees
      /\ c \in State /\ c.pos \in Nat /\ Here(c) \in Nat
  BY RightIs
<1>1. PICK code \in Seq(Byte) : code = GenArg(G, trees, 1, Here(c))
  BY <1>0, GenArgType, 1 \in Nat \ {0}
<1>2. CASE trees = <<>>
  <2>1. Size(trees) = 0 /\ Stands(c.pos, ")")
    BY <1>0, <1>2, ListedNone
  <2>2. E[c] = Emit(c, <<OP.NOP>>)
    BY <2>1 DEF Right
  <2>3. ~(1 <= Len(trees))
    BY <1>2, RestOfNone
  <2>4. code = <<OP.NOP>>
    BY <1>1, <2>3 DEF GenArg
  <2>5. E[c] = After(c, 0, code)
    BY <1>0, <2>2, <2>4, AfterNothing
  <2>6. c.pos + 0 = c.pos /\ 0 = 0 + 0 /\ Rest(trees) = trees
    BY <1>0, <1>2, RestOfNone
  <2> QED BY <1>1, <2>1, <2>5, <2>6, 0 \in Nat DEF NextArg
<1>3. CASE trees # <<>>
  <2>1. trees[1] \in B /\ 1 <= Len(trees)
    BY <1>3, RestIs
  <2>2. /\ Reads(c.pos, Tokens[trees[1]]) /\ Len(Tokens[trees[1]]) \in Nat
        /\ Listed(c.pos + Len(Tokens[trees[1]]), Rest(trees))
        /\ Size(trees) = Len(Tokens[trees[1]]) + Size(Rest(trees))
    BY <1>0, <1>3, ListedFirst
  <2>3. E[c] = After(c, Len(Tokens[trees[1]]), G[trees[1]][Here(c)])
    BY <1>3, <2>1, <2>2 DEF Right
  <2>4. code = G[trees[1]][Here(c)]
    BY <1>1, <2>1 DEF GenArg
  <2> QED BY <1>1, <2>2, <2>3, <2>4 DEF NextArg
<1> QED BY <1>2, <1>3

\* The state behind it.
LEMMA ArgNext ==
    ASSUME NEW E, NEW G, NEW B, NEW p, Right(E, G, B, p), NEW c \in Behind(p),
           NEW trees \in Seq(B), NEW k, NEW code, NextArg(E, G, c, trees, k, code)
    PROVE  /\ k \in Nat /\ code \in Seq(Byte) /\ AfterIs(c, k, code, p)
           /\ E[c] = After(c, k, code) /\ E[c] \in Behind(p) /\ Listed(E[c].pos, Rest(trees))
           /\ Here(E[c]) = Here(c) + Len(code) /\ Size(trees) = k + Size(Rest(trees))
<1>1. k \in Nat /\ code \in Seq(Byte) /\ p \in Nat
  BY RightIs DEF NextArg
<1>2. AfterIs(c, k, code, p)
  BY <1>1, AfterType
<1>3. /\ E[c] = After(c, k, code) /\ Size(trees) = k + Size(Rest(trees))
      /\ Listed(c.pos + k, Rest(trees))
  BY DEF NextArg
<1>4. After(c, k, code) \in Behind(p) /\ After(c, k, code).pos = c.pos + k
      /\ Here(After(c, k, code)) = Here(c) + Len(code)
  BY <1>2 DEF AfterIs
<1> QED BY <1>1, <1>2, <1>3, <1>4

BodyIs(E, G, p, trees) ==
    \A c \in Behind(p) :
        Listed(c.pos, trees) => Body(E, c) = After(c, Size(trees), GenAll(G, trees, Here(c)))

\* The expressions up to the closing parenthesis.
LEMMA BodyRight ==
    ASSUME SourceOK, NEW E, NEW G, NEW B, NEW p, Right(E, G, B, p)
    PROVE  \A trees \in Seq(B) : AreExprs(trees) => BodyIs(E, G, p, trees)
<1>0. p \in Nat /\ IsCode(G, B) /\ B \subseteq Trees /\ Consumes(E, p)
  BY RightIs
<1> DEFINE Good == {trees \in Seq(B) : AreExprs(trees) => BodyIs(E, G, p, trees)}
<1>1. <<>> \in Good
  <2>1. ASSUME NEW c \in Behind(p), Listed(c.pos, <<>>)
        PROVE  Body(E, c) = After(c, Size(<<>>), GenAll(G, <<>>, Here(c)))
    <3>0. c \in State /\ c.pos \in Nat /\ Here(c) \in Nat
      BY RightIs
    <3>1. Size(<<>>) = 0 /\ Stands(c.pos, ")")
      BY <2>1, <3>0, ListedNone
    <3>2. Body(E, c) = c
      <4>1. c \notin Inside
        BY <3>0, <3>1, StandsAt
      <4> QED BY <1>0, <4>1, BodyGoesOn
    <3>3. GenAll(G, <<>>, Here(c)) = <<>>
      <4>1. <<>> \in Seq(B)
        OBVIOUS
      <4> QED BY <1>0, <3>0, <4>1, GenAllFirst
    <3> QED BY <3>0, <3>1, <3>2, <3>3, AfterNothing
  <2> QED BY <2>1 DEF BodyIs
<1>2. ASSUME NEW trees \in Seq(B), trees # <<>>, Rest(trees) \in Good
      PROVE  trees \in Good
  <2> SUFFICES ASSUME AreExprs(trees), NEW c \in Behind(p), Listed(c.pos, trees)
               PROVE  Body(E, c) = After(c, Size(trees), GenAll(G, trees, Here(c)))
    BY DEF BodyIs
  <2>0. c \in State /\ c.pos \in Nat /\ Here(c) \in Nat
    BY RightIs
  <2>1. AreExprs(Rest(trees)) /\ IsExpr(trees[1]) /\ Rest(trees) \in Seq(B)
    BY <1>2, ExprsRest, RestType
  <2>2. PICK k, a : NextArg(E, G, c, trees, k, a)
    BY <2>1, ArgRight
  <2>3. PICK d \in Behind(p) : d = E[c]
    BY <2>2, ArgNext
  <2>4. /\ k \in Nat /\ a \in Seq(Byte) /\ AfterIs(c, k, a, p) /\ d = After(c, k, a)
        /\ Listed(d.pos, Rest(trees)) /\ Here(d) = Here(c) + Len(a)
        /\ Size(trees) = k + Size(Rest(trees))
    BY <2>2, <2>3, ArgNext
  <2>5. Body(E, c) = Body(E, d)
    <3>1. trees[1] \in Trees /\ Reads(c.pos, Tokens[trees[1]])
      <4>1. trees \in Seq(Trees)
        BY <1>0, RightIs
      <4> QED BY <1>2, <2>0, <4>1, ListedFirst
    <3>2. c \in Inside
      BY <2>0, <3>1, TreeBegins
    <3> QED BY <1>0, <2>3, <3>2, BodyGoesOn
  <2>6. PICK b \in Seq(Byte) : b = GenAll(G, Rest(trees), Here(d))
    <3>1. Here(d) \in Nat
      BY RightIs
    <3> QED BY <1>0, <2>1, <3>1, GenAllType
  <2>7. Body(E, d) = After(d, Size(Rest(trees)), b)
    <3>1. BodyIs(E, G, p, Rest(trees))
      BY <1>2, <2>1
    <3> QED BY <2>4, <2>6, <3>1 DEF BodyIs
  <2>8. After(d, Size(Rest(trees)), b) = After(c, k + Size(Rest(trees)), a \o b)
    <3>1. Size(Rest(trees)) \in Nat
      BY <2>1, RightIs
    <3> QED BY <2>4, <3>1 DEF AfterIs
  <2>9. GenAll(G, trees, Here(c)) = a \o b
    <3>1. AllFirst(G, trees, Here(c))
      BY <1>0, <1>2, <2>0, GenAllFirst
    <3>2. a = G[trees[1]][Here(c)]
      <4>1. 1 <= Len(trees)
        BY <1>2, RestIs
      <4>2. a = GenArg(G, trees, 1, Here(c))
        BY <2>2 DEF NextArg
      <4> QED BY <4>1, <4>2 DEF GenArg
    <3> QED BY <2>4, <2>6, <3>1, <3>2 DEF AllFirst
  <2> QED BY <2>4, <2>5, <2>7, <2>8, <2>9
<1> HIDE DEF Good
<1>3. Seq(B) \subseteq Good
  BY <1>1, <1>2, ListInduction
<1> QED BY <1>3 DEF Good

ExprsIs(E, G, p, n, k, trees) ==
    \A c \in Behind(p) :
        Listed(c.pos, trees) =>
            ExprsLoop(E, n)[<<c, k>>][1] = After(c, Size(trees), GenArgs(G, k, trees, Here(c)))

\* A fixed number of expressions, and an OP_NOP for each that is missing.
LEMMA ExprsRight ==
    ASSUME SourceOK, NEW E, NEW G, NEW B, NEW p, Right(E, G, B, p), NEW n \in Nat
    PROVE  \A trees \in Seq(B) : AreExprs(trees) /\ Len(trees) <= n => ExprsIs(E, G, p, n, n, trees)
<1>0. p \in Nat /\ IsCode(G, B) /\ B \subseteq Trees /\ Consumes(E, p)
  BY RightIs
<1> DEFINE T == {k \in 0 .. n :
                   \A trees \in Seq(B) : AreExprs(trees) /\ Len(trees) <= k => ExprsIs(E, G, p, n, k, trees)}
<1>1. 0 \in T
  <2>1. ASSUME NEW trees \in Seq(B), Len(trees) <= 0, NEW c \in Behind(p), Listed(c.pos, trees)
        PROVE  ExprsLoop(E, n)[<<c, 0>>][1] = After(c, Size(trees), GenArgs(G, 0, trees, Here(c)))
    <3>0. c \in State /\ c.pos \in Nat /\ Here(c) \in Nat
      BY RightIs
    <3>1. trees = <<>>
      BY <2>1
    <3>2. Size(trees) = 0
      BY <2>1, <3>0, <3>1, ListedNone
    <3>3. ExprsLoop(E, n)[<<c, 0>>] = <<c, 0>>
      <4>1. ExprsTurn(E, n, c, 0)
        BY <1>0, ExprsGoOn, 0 \in 0 .. n
      <4> QED BY <4>1 DEF ExprsTurn
    <3>4. GenArgs(G, 0, trees, Here(c)) = <<>>
      BY <1>0, <3>0, GenArgsFirst, 0 \in Nat
    <3> QED BY <3>0, <3>2, <3>3, <3>4, AfterNothing
  <2> QED BY <2>1 DEF ExprsIs
<1>2. ASSUME NEW k \in 0 .. n - 1, k \in T PROVE k + 1 \in T
  <2>1. ASSUME NEW trees \in Seq(B), AreExprs(trees), Len(trees) <= k + 1,
               NEW c \in Behind(p), Listed(c.pos, trees)
        PROVE  ExprsLoop(E, n)[<<c, k + 1>>][1]
                 = After(c, Size(trees), GenArgs(G, k + 1, trees, Here(c)))
    <3>0. c \in State /\ c.pos \in Nat /\ Here(c) \in Nat
      BY RightIs
    <3>1. AreExprs(Rest(trees)) /\ (trees # <<>> => IsExpr(trees[1])) /\ Rest(trees) \in Seq(B)
      BY <2>1, ExprsRest, RestType
    <3>2. Len(Rest(trees)) <= k
      <4>1. CASE trees = <<>>
        BY <4>1, RestOfNone
      <4>2. CASE trees # <<>>
        <5>1. Len(Rest(trees)) = Len(trees) - 1 /\ Len(trees) \in Nat
          BY <4>2, RestIs
        <5> QED BY <2>1, <5>1
      <4> QED BY <4>1, <4>2
    <3>3. PICK j, a : NextArg(E, G, c, trees, j, a)
      BY <2>1, <3>1, ArgRight
    <3>4. PICK d \in Behind(p) : d = E[c]
      BY <3>3, ArgNext
    <3>5. /\ j \in Nat /\ a \in Seq(Byte) /\ AfterIs(c, j, a, p) /\ d = After(c, j, a)
          /\ Listed(d.pos, Rest(trees)) /\ Here(d) = Here(c) + Len(a)
          /\ Size(trees) = j + Size(Rest(trees))
      BY <3>3, <3>4, ArgNext
    <3>6. ExprsLoop(E, n)[<<c, k + 1>>] = ExprsLoop(E, n)[<<d, k>>]
      <4>1. PICK m \in 0 .. n : m = k + 1 /\ m > 0 /\ m - 1 = k
        OBVIOUS
      <4>2. ExprsLoop(E, n)[<<c, m>>] = ExprsLoop(E, n)[<<E[c], m - 1>>]
        <5>1. ExprsTurn(E, n, c, m)
          BY <1>0, <4>1, ExprsGoOn
        <5> QED BY <4>1, <5>1 DEF ExprsTurn
      <4> QED BY <3>4, <4>1, <4>2
    <3>7. PICK b \in Seq(Byte) : b = GenArgs(G, k, Rest(trees), Here(d))
      <4>1. Here(d) \in Nat /\ k \in Nat
        BY RightIs
      <4> QED BY <1>0, <3>1, <4>1, GenArgsType
    <3>8. ExprsLoop(E, n)[<<d, k>>][1] = After(d, Size(Rest(trees)), b)
      <4>1. ExprsIs(E, G, p, n, k, Rest(trees))
        BY <1>2, <3>1, <3>2
      <4> QED BY <3>5, <3>7, <4>1 DEF ExprsIs
    <3>9. After(d, Size(Rest(trees)), b) = After(c, j + Size(Rest(trees)), a \o b)
      <4>1. Size(Rest(trees)) \in Nat
        BY <3>1, RightIs
      <4> QED BY <3>5, <4>1 DEF AfterIs
    <3>10. GenArgs(G, k + 1, trees, Here(c)) = a \o b
      <4>1. ArgsFirst(G, k, trees, Here(c))
        BY <1>0, <3>0, GenArgsFirst
      <4>2. a = GenArg(G, trees, 1, Here(c))
        BY <3>3 DEF NextArg
      <4> QED BY <3>5, <3>7, <4>1, <4>2 DEF ArgsFirst
    <3> QED BY <3>5, <3>6, <3>8, <3>9, <3>10
  <2> QED BY <2>1, k + 1 \in 0 .. n DEF ExprsIs
<1> HIDE DEF T
<1>3. n \in T
  BY <1>1, <1>2, UpTo
<1> QED BY <1>3 DEF T
-----------------------------------------------------------------------------
(* The arms of compile_list; what c stands before is the form's arguments  *)

\* What a form is to be compiled to.
FormRight(d, c, args, code) == d = After(c, Size(args), code)

\* The forms that compile a fixed number of arguments and emit one opcode.
LEMMA PlainRight ==
    ASSUME SourceOK, NEW E, NEW G, NEW B, NEW p, Right(E, G, B, p), NEW c \in Behind(p),
           NEW args \in Seq(B), Listed(c.pos, args), NEW h \in DOMAIN Forms, AreExprs(args),
           Len(args) <= Forms[h].args
    PROVE  FormRight(CompileHead(E, h, c), c, args, GenForm(G, h, args, Here(c)))
<1>0. /\ p \in Nat /\ IsCode(G, B) /\ c \in State /\ c.pos \in Nat /\ Here(c) \in Nat
      /\ Size(args) \in Nat
  BY RightIs
<1>1. PICK n \in Nat : n = Forms[h].args
  BY FormsAre
<1>2. PICK op \in Seq(Byte) : op = <<OP[Forms[h].op]>>
  BY FormsAre, Opcodes
<1>3. PICK code \in Seq(Byte) : code = GenArgs(G, n, args, Here(c))
  BY <1>0, GenArgsType
<1>4. Exprs(E, n, c) = After(c, Size(args), code)
  <2>1. ExprsIs(E, G, p, n, n, args)
    BY <1>1, ExprsRight
  <2> QED BY <1>3, <2>1 DEF ExprsIs, Exprs, ExprsLoop
<1>5. AfterIs(c, Size(args), code, p)
  BY <1>0, AfterType
<1>6. Emit(Exprs(E, n, c), op) = After(c, Size(args), code \o op)
  BY <1>4, <1>5 DEF AfterIs
<1>7. CompileHead(E, h, c) = Emit(Exprs(E, n, c), op)
  <2>1. HeadIs(E, h, c)
    BY CompileArms
  <2> QED BY <1>1, <1>2, <2>1 DEF HeadIs
<1>8. GenForm(G, h, args, Here(c)) = code \o op
  <2>1. FormIs(G, h, args, Here(c))
    BY GenFormArms
  <2> QED BY <1>1, <1>2, <1>3, <2>1 DEF FormIs
<1> QED BY <1>6, <1>7, <1>8 DEF FormRight

\* An atom where an argument is: read past it, the list goes on.
LEMMA AtomArg ==
    ASSUME SourceOK, NEW E, NEW G, NEW B, NEW p, Right(E, G, B, p), NEW c \in Behind(p),
           NEW args \in Seq(B), Listed(c.pos, args), args # <<>>, IsAtom(args[1])
    PROVE  /\ AtomAt(c) = args[1][1] /\ SkipAtom(c) = After(c, 1, <<>>)
           /\ AfterIs(c, 1, <<>>, p) /\ After(c, 1, <<>>) \in Behind(p)
           /\ Here(After(c, 1, <<>>)) = Here(c)
           /\ Rest(args) \in Seq(B) /\ Size(args) = 1 + Size(Rest(args))
           /\ Size(Rest(args)) \in Nat /\ Listed(After(c, 1, <<>>).pos, Rest(args))
           /\ \A a \in Seq(Byte) : <<>> \o a = a
<1>0. /\ p \in Nat /\ c \in State /\ c.pos \in Nat /\ Here(c) \in Nat /\ args \in Seq(Trees)
      /\ Rest(args) \in Seq(B)
  BY RightIs
<1>1. /\ args[1] \in Trees /\ Reads(c.pos, Tokens[args[1]])
      /\ Listed(c.pos + Len(Tokens[args[1]]), Rest(args))
      /\ Size(args) = Len(Tokens[args[1]]) + Size(Rest(args)) /\ Size(Rest(args)) \in Nat
  BY <1>0, ListedFirst
<1>2. AtomAt(c) = args[1][1] /\ SkipAtom(c) = Skip(c) /\ Len(Tokens[args[1]]) = 1
  BY <1>0, <1>1, TreeBegins
<1>3. AfterIs(c, 1, <<>>, p)
  <2>1. <<>> \in Seq(Byte)
    OBVIOUS
  <2> QED BY <1>0, <2>1, AfterType
<1>4. /\ After(c, 1, <<>>) \in Behind(p) /\ After(c, 1, <<>>).pos = c.pos + 1
      /\ Here(After(c, 1, <<>>)) = Here(c) + Len(<<>>)
  BY <1>3 DEF AfterIs
<1>5. Here(c) + Len(<<>>) = Here(c)
  BY <1>0
<1>6. Skip(c) = After(c, 1, <<>>)
  BY <1>0, AfterNothing
<1>7. \A a \in Seq(Byte) : <<>> \o a = a
  OBVIOUS
<1> QED BY <1>0, <1>1, <1>2, <1>3, <1>4, <1>5, <1>6, <1>7

\* jmp and call.
LEMMA JumpRight ==
    ASSUME SourceOK, NEW E, NEW G, NEW B, NEW p, Right(E, G, B, p), NEW c \in Behind(p),
           NEW args \in Seq(B), Listed(c.pos, args), NEW h \in {"jmp", "call"},
           Len(args) = 1 /\ IsAtom(args[1])
    PROVE  FormRight(CompileHead(E, h, c), c, args, GenForm(G, h, args, Here(c)))
<1>1. args # <<>> /\ Rest(args) = <<>>
  <2>1. args # <<>>
    BY RestOfNone
  <2>2. Rest(args) \in Seq(B) /\ Len(Rest(args)) = Len(args) - 1
    BY <2>1, RestIs
  <2>3. Len(Rest(args)) = 0
    BY <2>2
  <2>4. \A s \in Seq(B) : Len(s) = 0 => s = <<>>
    OBVIOUS
  <2> QED BY <2>1, <2>2, <2>3, <2>4
<1>2. PICK d \in Behind(p) : d = After(c, 1, <<>>)
  BY <1>1, AtomArg
<1>3. /\ AtomAt(c) = args[1][1] /\ SkipAtom(c) = d /\ AfterIs(c, 1, <<>>, p)
      /\ Size(args) = 1 + Size(<<>>) /\ Listed(d.pos, <<>>)
      /\ \A a \in Seq(Byte) : <<>> \o a = a
  BY <1>1, <1>2, AtomArg
<1>4. Size(args) = 1
  <2>1. d.pos \in Nat
    BY StateIs DEF Behind
  <2>2. Size(<<>>) = 0
    BY <1>3, <2>1, ListedNone
  <2> QED BY <1>3, <2>2
<1>5. PICK off \in Nat : off = OffsetOf(args[1][1])
  BY OffsetType
<1>6. JumpTo("JMP", off) \in Seq(Byte) /\ JumpTo("CALL", off) \in Seq(Byte)
  BY Jumps9
<1>7. \A a \in Seq(Byte) : Emit(d, a) = After(c, 1, a)
  BY <1>2, <1>3 DEF AfterIs
<1>8. HeadIs(E, h, c) /\ FormIs(G, h, args, Here(c))
  BY CompileArms, GenFormArms
<1>9. CASE h = "jmp"
  <2>1. CompileHead(E, h, c) = Emit(d, JumpTo("JMP", off))
    BY <1>3, <1>5, <1>8, <1>9 DEF HeadIs
  <2>2. GenForm(G, h, args, Here(c)) = JumpTo("JMP", off)
    BY <1>5, <1>8, <1>9 DEF FormIs
  <2> QED BY <1>4, <1>6, <1>7, <2>1, <2>2 DEF FormRight
<1>10. CASE h = "call"
  <2>1. CompileHead(E, h, c) = Emit(d, JumpTo("CALL", off))
    BY <1>3, <1>5, <1>8, <1>10 DEF HeadIs
  <2>2. GenForm(G, h, args, Here(c)) = JumpTo("CALL", off)
    BY <1>5, <1>8, <1>10 DEF FormIs
  <2> QED BY <1>4, <1>6, <1>7, <2>1, <2>2 DEF FormRight
<1> QED BY <1>9, <1>10

\* Behind n tokens and the code a comes the next argument's, code.
ThenArg(E, G, B, p, c, n, a, trees, k, code) ==
    /\ k \in Nat /\ code \in Seq(Byte) /\ n + k \in Nat /\ a \o code \in Seq(Byte)
    /\ code = GenArg(G, trees, 1, Here(c) + Len(a))
    /\ E[After(c, n, a)] = After(c, n + k, a \o code)
    /\ AfterIs(c, n + k, a \o code, p)
    /\ Rest(trees) \in Seq(B) /\ AreExprs(Rest(trees)) /\ Listed(c.pos + (n + k), Rest(trees))
    /\ Size(trees) = k + Size(Rest(trees)) /\ Size(Rest(trees)) \in Nat

\* An argument, when some tokens are read and some code is emitted.
LEMMA ArgAfter ==
    ASSUME SourceOK, NEW E, NEW G, NEW B, NEW p, Right(E, G, B, p), NEW c \in Behind(p),
           NEW n \in Nat, NEW a \in Seq(Byte), NEW trees \in Seq(B), AreExprs(trees),
           Listed(c.pos + n, trees)
    PROVE  \E k, code : ThenArg(E, G, B, p, c, n, a, trees, k, code)
<1>0. p \in Nat /\ c.pos \in Nat /\ Here(c) \in Nat /\ AfterIs(c, n, a, p)
  BY RightIs, AfterType
<1>1. PICK d \in Behind(p) : d = After(c, n, a)
  BY <1>0 DEF AfterIs
<1>2. d.pos = c.pos + n /\ Here(d) = Here(c) + Len(a)
  BY <1>0, <1>1 DEF AfterIs
<1>3. AreExprs(Rest(trees)) /\ (trees # <<>> => IsExpr(trees[1])) /\ Rest(trees) \in Seq(B)
  BY ExprsRest, RestType
<1>4. PICK k, code : NextArg(E, G, d, trees, k, code)
  BY <1>2, <1>3, ArgRight
<1>5. /\ k \in Nat /\ code \in Seq(Byte) /\ E[d] = After(d, k, code)
      /\ Size(trees) = k + Size(Rest(trees))
  BY <1>4 DEF NextArg
<1>6. code = GenArg(G, trees, 1, Here(d)) /\ Listed(d.pos + k, Rest(trees))
  BY <1>4 DEF NextArg
<1>7. After(d, k, code) = After(c, n + k, a \o code)
  BY <1>0, <1>1, <1>5 DEF AfterIs
<1>8. n + k \in Nat /\ c.pos + n + k = c.pos + (n + k)
  BY <1>0, <1>5
<1>9. a \o code \in Seq(Byte)
  BY <1>5
<1>10. AfterIs(c, n + k, a \o code, p)
  BY <1>0, <1>8, <1>9, AfterType
<1>11. Size(Rest(trees)) \in Nat
  BY <1>3, RightIs
<1> QED BY <1>1, <1>2, <1>3, <1>5, <1>6, <1>7, <1>8, <1>9, <1>10, <1>11 DEF ThenArg

\* The first argument.
FirstArg(E, G, B, p, c, trees, k, code) ==
    /\ k \in Nat /\ code \in Seq(Byte)
    /\ code = GenArg(G, trees, 1, Here(c))
    /\ E[c] = After(c, k, code)
    /\ AfterIs(c, k, code, p)
    /\ Rest(trees) \in Seq(B) /\ AreExprs(Rest(trees)) /\ Listed(c.pos + k, Rest(trees))
    /\ Size(trees) = k + Size(Rest(trees)) /\ Size(Rest(trees)) \in Nat

\* The first argument.
LEMMA ArgStart ==
    ASSUME SourceOK, NEW E, NEW G, NEW B, NEW p, Right(E, G, B, p), NEW c \in Behind(p),
           NEW trees \in Seq(B), AreExprs(trees), Listed(c.pos, trees)
    PROVE  \E k, code : FirstArg(E, G, B, p, c, trees, k, code)
<1>1. AreExprs(Rest(trees)) /\ (trees # <<>> => IsExpr(trees[1])) /\ Rest(trees) \in Seq(B)
  BY ExprsRest, RestType
<1>2. PICK k, code : NextArg(E, G, c, trees, k, code)
  BY <1>1, ArgRight
<1>3. /\ k \in Nat /\ code \in Seq(Byte) /\ E[c] = After(c, k, code) /\ AfterIs(c, k, code, p)
      /\ Size(trees) = k + Size(Rest(trees))
  BY <1>2, ArgNext
<1>4. code = GenArg(G, trees, 1, Here(c)) /\ Listed(c.pos + k, Rest(trees))
  BY <1>2 DEF NextArg
<1>5. Size(Rest(trees)) \in Nat
  BY <1>1, RightIs
<1> QED BY <1>1, <1>3, <1>4, <1>5 DEF FirstArg

\* And the body of a form behind n tokens and the code a.
ThenBody(E, G, p, c, n, a, trees, code) ==
    /\ code \in Seq(Byte) /\ n + Size(trees) \in Nat /\ a \o code \in Seq(Byte)
    /\ code = GenAll(G, trees, Here(c) + Len(a))
    /\ Body(E, After(c, n, a)) = After(c, n + Size(trees), a \o code)
    /\ AfterIs(c, n + Size(trees), a \o code, p)

\* The rest of the arguments, when some tokens are read and some code is emitted.
LEMMA BodyAfter ==
    ASSUME SourceOK, NEW E, NEW G, NEW B, NEW p, Right(E, G, B, p), NEW c \in Behind(p),
           NEW n \in Nat, NEW a \in Seq(Byte), NEW trees \in Seq(B), AreExprs(trees),
           Listed(c.pos + n, trees)
    PROVE  \E code : ThenBody(E, G, p, c, n, a, trees, code)
<1>0. /\ p \in Nat /\ c.pos \in Nat /\ Here(c) \in Nat /\ AfterIs(c, n, a, p) /\ IsCode(G, B)
      /\ Size(trees) \in Nat
  BY RightIs, AfterType
<1>1. PICK d \in Behind(p) : d = After(c, n, a)
  BY <1>0 DEF AfterIs
<1>2. d.pos = c.pos + n /\ Here(d) = Here(c) + Len(a) /\ Here(d) \in Nat
  BY <1>0, <1>1, RightIs DEF AfterIs
<1>3. PICK code \in Seq(Byte) : code = GenAll(G, trees, Here(d))
  BY <1>0, <1>2, GenAllType
<1>4. Body(E, d) = After(d, Size(trees), code)
  <2>1. BodyIs(E, G, p, trees)
    BY BodyRight
  <2> QED BY <1>2, <1>3, <2>1 DEF BodyIs
<1>5. After(d, Size(trees), code) = After(c, n + Size(trees), a \o code)
  BY <1>0, <1>1 DEF AfterIs
<1>6. n + Size(trees) \in Nat /\ a \o code \in Seq(Byte)
  BY <1>0
<1>7. AfterIs(c, n + Size(trees), a \o code, p)
  BY <1>0, <1>6, AfterType
<1> QED BY <1>1, <1>2, <1>3, <1>4, <1>5, <1>6, <1>7 DEF ThenBody

Associates(x, y, z) == (x \o y) \o z = x \o (y \o z) /\ x \o y \in Seq(Byte)

\* Concatenation is associative.
LEMMA Assoc ==
    \A x, y, z \in Seq(Byte) : Associates(x, y, z)
BY ConcatAssociative DEF Associates

\* Bytes emitted behind n tokens and the code a.
LEMMA EmitAfter ==
    ASSUME NEW p \in Nat, NEW c \in Behind(p), NEW n \in Nat, NEW a \in Seq(Byte), NEW b \in Seq(Byte)
    PROVE  /\ Emit(After(c, n, a), b) = After(c, n, a \o b) /\ a \o b \in Seq(Byte)
           /\ AfterIs(c, n, a \o b, p)
<1>1. AfterIs(c, n, a, p)
  BY AfterType
<1>2. PICK ab \in Seq(Byte) : ab = a \o b
  BY Assoc DEF Associates
<1>3. AfterIs(c, n, ab, p)
  BY AfterType
<1>4. Emit(After(c, n, a), b) = After(c, n, ab)
  BY <1>1, <1>2 DEF AfterIs
<1> QED BY <1>2, <1>3, <1>4

\* Opcodes the forms end with are bytes.
LEMMA OpcodeType ==
    /\ <<OP.STORE>> \in Seq(Byte) /\ <<OP.RET>> \in Seq(Byte) /\ <<OP.NOP>> \in Seq(Byte)
BY DEF OP, Byte

LenIs(x, n) == x \in Seq(Byte) /\ n \in Nat /\ Len(x) = n

\* Every sequence of bytes has a length.
LEMMA LenOf ==
    ASSUME NEW x \in Seq(Byte)
    PROVE  \E n \in Nat : LenIs(x, n)
BY DEF LenIs

\* Lengths add up.
LEMMA LenJoin ==
    ASSUME NEW x, NEW y, NEW n, NEW m, LenIs(x, n), LenIs(y, m)
    PROVE  LenIs(x \o y, n + m) /\ x \o y \in Seq(Byte)
BY Joined DEF LenIs

\* A jump takes 9 bytes.
LEMMA LenJump ==
    ASSUME NEW op \in {"JMP", "CALL", "JEQ", "JNE"}, NEW v \in Nat
    PROVE  LenIs(JumpTo(op, v), 9)
BY Jumps9 DEF LenIs

\* The length of a jump between two pieces of code.
LEMMA LenBetween ==
    ASSUME NEW a, NEW b, NEW n, NEW m, LenIs(a, n), LenIs(b, m),
           NEW op \in {"JMP", "JEQ", "JNE"}, NEW v \in Nat
    PROVE  LenIs(Between(a, op, v, b), n + 9 + m)
<1>1. LenIs(JumpTo(op, v), 9)
  BY LenJump
<1>2. LenIs(a \o JumpTo(op, v), n + 9)
  BY <1>1, LenJoin
<1> QED BY <1>2, LenJoin DEF Between

\* The offset behind n tokens and the code a.
LEMMA HereAfter ==
    ASSUME NEW p \in Nat, NEW c \in Behind(p), NEW n \in Nat, NEW a, NEW k, LenIs(a, k)
    PROVE  Here(After(c, n, a)) = Here(c) + k /\ After(c, n, a) \in State
<1>1. PICK x \in Seq(Byte) : x = a /\ Len(x) = k
  BY DEF LenIs
<1>2. AfterIs(c, n, x, p)
  BY AfterType
<1> QED BY <1>1, <1>2 DEF AfterIs

OnlyHole(c, v, n, a, k, op, b) ==
    Patch(After(c, n, Between(a, op, 0, b)), {Here(c) + k + 1}, v) = After(c, n, Between(a, op, v, b))

\* Patching when the jump's operand is all there is to patch.
LEMMA PatchOnly ==
    ASSUME NEW c \in State, NEW v \in Nat, NEW n \in Nat, NEW a, NEW k, LenIs(a, k),
           NEW op \in {"JMP", "JEQ", "JNE"}, NEW b \in Seq(Byte)
    PROVE  OnlyHole(c, v, n, a, k, op, b)
<1>1. PICK S : S = {}
  OBVIOUS
<1>2. EndBy(S, Here(c))
  BY <1>1 DEF EndBy
<1>3. PICK x \in Seq(Byte) : x = a
  BY DEF LenIs
<1>4. Len(x) = k
  BY <1>3 DEF LenIs
<1>5. HoleFilled(c, S, v, n, x, op, b)
  BY <1>2, PatchHole
<1>6. Patch(c, S, v) = c
  BY <1>1, PatchNothing
<1>7. S \cup {Here(c) + k + 1} = {Here(c) + k + 1}
  BY <1>1
<1> QED BY <1>3, <1>4, <1>5, <1>6, <1>7, Zenon DEF HoleFilled, OnlyHole

\* The rest is shorter.
LEMMA ShorterRest ==
    ASSUME NEW B, NEW trees \in Seq(B), NEW n \in Nat, Len(trees) <= n + 1
    PROVE  Rest(trees) \in Seq(B) /\ Len(Rest(trees)) <= n
<1>0. Rest(trees) \in Seq(B)
  BY RestType
<1>1. CASE trees = <<>>
  <2>1. Rest(trees) = <<>> /\ Len(<<>>) = 0
    BY <1>1, RestOfNone
  <2> QED BY <1>0, <2>1
<1>2. CASE trees # <<>>
  <2>1. Len(Rest(trees)) = Len(trees) - 1 /\ Len(trees) \in Nat
    BY <1>2, RestIs
  <2> QED BY <1>0, <2>1
<1> QED BY <1>1, <1>2

\* A list of no trees.
LEMMA NoTrees ==
    ASSUME NEW p \in Nat, NEW B, NEW trees \in Seq(B), Len(trees) <= 0, Listed(p, trees)
    PROVE  trees = <<>> /\ Size(trees) = 0
<1>1. trees = <<>>
  OBVIOUS
<1> QED BY <1>1, ListedNone
-----------------------------------------------------------------------------
\* if: the else part is where the first jump goes, the end where the second does.
LEMMA IfRight ==
    ASSUME SourceOK, NEW E, NEW G, NEW B, NEW p, Right(E, G, B, p), NEW c \in Behind(p),
           NEW args \in Seq(B), Listed(c.pos, args), AreExprs(args), Len(args) <= 3
    PROVE  FormRight(CompileIf(E, c), c, args, GenIf(G, args, Here(c)))
<1>0. /\ p \in Nat /\ IsCode(G, B) /\ c \in State /\ c.pos \in Nat /\ Here(c) \in Nat
  BY RightIs
<1>0a. PICK h \in Nat : h = Here(c)
  BY <1>0
<1>1. PICK k1, a : FirstArg(E, G, B, p, c, args, k1, a)
  BY ArgStart
<1>2. /\ k1 \in Nat /\ a \in Seq(Byte) /\ a = GenArg(G, args, 1, Here(c)) /\ E[c] = After(c, k1, a)
      /\ AfterIs(c, k1, a, p)
      /\ Rest(args) \in Seq(B) /\ AreExprs(Rest(args)) /\ Listed(c.pos + k1, Rest(args))
      /\ Size(args) = k1 + Size(Rest(args)) /\ Size(Rest(args)) \in Nat
  BY <1>1 DEF FirstArg
<1>3. PICK la \in Nat : LenIs(a, la)
  BY <1>2, LenOf
<1>4. PICK jeq \in Seq(Byte) : jeq = JumpTo("JEQ", 0) /\ LenIs(jeq, 9)
  BY LenJump, Jumps9, 0 \in Nat
<1>5. PICK aj \in Seq(Byte) : aj = a \o jeq /\ LenIs(aj, la + 9)
  BY <1>2, <1>3, <1>4, LenJoin
<1>6. Emit(E[c], jeq) = After(c, k1, aj) /\ AfterIs(c, k1, aj, p)
  BY <1>0, <1>2, <1>5, EmitAfter
<1> DEFINE two == Rest(args)
           three == Rest(two)
<1>7. Here(c) + Len(aj) = h + la + 9
  BY <1>0a, <1>5 DEF LenIs
<1>8. PICK k2, b : ThenArg(E, G, B, p, c, k1, aj, two, k2, b)
  BY <1>2, ArgAfter
<1>9. /\ k2 \in Nat /\ b \in Seq(Byte) /\ aj \o b \in Seq(Byte)
      /\ b = GenArg(G, two, 1, h + la + 9)
      /\ E[After(c, k1, aj)] = After(c, k1 + k2, aj \o b)
      /\ AfterIs(c, k1 + k2, aj \o b, p)
      /\ three \in Seq(B) /\ AreExprs(three) /\ Listed(c.pos + (k1 + k2), three)
      /\ Size(two) = k2 + Size(three) /\ Size(three) \in Nat
  BY <1>7, <1>8 DEF ThenArg
<1>10. PICK n \in Nat : n = k1 + k2
  BY <1>2, <1>9
<1>11. PICK lb \in Nat : LenIs(b, lb)
  BY <1>9, LenOf
<1>12. PICK jmp \in Seq(Byte) : jmp = JumpTo("JMP", 0) /\ LenIs(jmp, 9)
  BY LenJump, Jumps9, 0 \in Nat
<1>13. PICK bj \in Seq(Byte) : bj = b \o jmp /\ LenIs(bj, lb + 9)
  BY <1>9, <1>11, <1>12, LenJoin
<1>14. PICK ajb \in Seq(Byte) : ajb = aj \o b /\ LenIs(ajb, la + 9 + lb)
  BY <1>5, <1>9, <1>11, LenJoin
<1>15. PICK v \in Nat : v = h + la + lb + 18
  OBVIOUS
<1>16. PICK w \in Seq(Byte) : w = Between(a, "JEQ", 0, bj) /\ LenIs(w, la + 9 + (lb + 9))
  <2>1. LenIs(Between(a, "JEQ", 0, bj), la + 9 + (lb + 9))
    BY <1>3, <1>13, LenBetween, 0 \in Nat
  <2> QED BY <2>1 DEF LenIs
<1>17. Emit(After(c, n, ajb), jmp) = After(c, n, w)
  <2>1. Emit(After(c, n, ajb), jmp) = After(c, n, ajb \o jmp)
    BY <1>0, EmitAfter
  <2>2. ajb \o jmp = (a \o jeq) \o bj
    <3>1. (aj \o b) \o jmp = aj \o (b \o jmp)
      <4>1. Associates(aj, b, jmp)
        BY <1>9, Assoc
      <4> QED BY <4>1, Zenon DEF Associates
    <3> QED BY <1>5, <1>13, <1>14, <3>1
  <2> QED BY <1>4, <1>16, <2>1, <2>2 DEF Between
<1>18. PICK jump \in State : jump = After(c, n, w) /\ Here(jump) = v
  <2>1. Here(After(c, n, w)) = Here(c) + (la + 9 + (lb + 9)) /\ After(c, n, w) \in State
    BY <1>0, <1>16, HereAfter
  <2>2. h + (la + 9 + (lb + 9)) = v
    BY <1>15
  <2> QED BY <1>0a, <2>1, <2>2
<1>19. Here(E[c]) = Here(c) + la
  BY <1>0, <1>2, <1>3, HereAfter
<1>20. PICK w2 \in Seq(Byte) : w2 = Between(a, "JEQ", v, bj) /\ LenIs(w2, la + 9 + (lb + 9))
  <2>1. LenIs(Between(a, "JEQ", v, bj), la + 9 + (lb + 9))
    BY <1>3, <1>13, LenBetween
  <2> QED BY <2>1 DEF LenIs
<1>21. Patch(jump, {Here(E[c]) + 1}, Here(jump)) = After(c, n, w2)
  <2>1. OnlyHole(c, v, n, a, la, "JEQ", bj)
    BY <1>0, <1>3, PatchOnly
  <2> QED BY <1>16, <1>18, <1>19, <1>20, <2>1, Zenon DEF OnlyHole
<1>22. Here(c) + Len(w2) = v
  <2>1. Len(w2) = la + 9 + (lb + 9)
    BY <1>20 DEF LenIs
  <2>2. h + (la + 9 + (lb + 9)) = v
    BY <1>15
  <2> QED BY <1>0a, <2>1, <2>2
<1>23. PICK k3, e : ThenArg(E, G, B, p, c, n, w2, three, k3, e)
  BY <1>9, <1>10, ArgAfter
<1>24. /\ k3 \in Nat /\ e \in Seq(Byte) /\ w2 \o e \in Seq(Byte)
       /\ e = GenArg(G, three, 1, v)
       /\ E[After(c, n, w2)] = After(c, n + k3, w2 \o e)
       /\ Rest(three) \in Seq(B) /\ Listed(c.pos + (n + k3), Rest(three))
       /\ Size(three) = k3 + Size(Rest(three))
  BY <1>22, <1>23 DEF ThenArg
<1>25. PICK m \in Nat : m = n + k3
  BY <1>24
<1>26. PICK le \in Nat : LenIs(e, le)
  BY <1>24, LenOf
<1>27. PICK jv \in Seq(Byte) : jv = JumpTo("JEQ", v) /\ LenIs(jv, 9)
  BY LenJump, Jumps9
<1>28. PICK x \in Seq(Byte) : x = (a \o jv) \o b /\ LenIs(x, la + 9 + lb)
  <2>1. LenIs((a \o jv) \o b, la + 9 + lb)
    BY <1>3, <1>11, <1>27, LenJoin
  <2> QED BY <2>1 DEF LenIs
<1>29. PICK w2e \in Seq(Byte) : w2e = Between(x, "JMP", 0, e) /\ w2e = w2 \o e
  <2>1. w2 = (a \o jv) \o (b \o jmp)
    BY <1>13, <1>20, <1>27 DEF Between
  <2>2. ((a \o jv) \o b) \o jmp = (a \o jv) \o (b \o jmp)
    <3>1. PICK ajv \in Seq(Byte) : ajv = a \o jv
      <4>1. Associates(a, jv, b)
        BY <1>2, <1>9, Assoc
      <4> QED BY <4>1 DEF Associates
    <3>2. Associates(ajv, b, jmp)
      BY <1>9, Assoc
    <3> QED BY <3>1, <3>2, Zenon DEF Associates
  <2> QED BY <1>12, <1>24, <1>28, <2>1, <2>2 DEF Between
<1>30. PICK v2 \in Nat : v2 = v + le
  OBVIOUS
<1>31. PICK else \in State : else = After(c, m, w2e) /\ Here(else) = v2
  <2>1. LenIs(w2e, la + 9 + (lb + 9) + le)
    BY <1>20, <1>26, <1>29, LenJoin
  <2>2. Here(After(c, m, w2e)) = Here(c) + (la + 9 + (lb + 9) + le) /\ After(c, m, w2e) \in State
    BY <1>0, <2>1, HereAfter
  <2>3. h + (la + 9 + (lb + 9) + le) = v2
    BY <1>15, <1>30
  <2> QED BY <1>0a, <2>2, <2>3
<1>32. Here(After(c, n, ajb)) = Here(c) + (la + 9 + lb)
  <2>1. PICK lx \in Nat : lx = la + 9 + lb /\ LenIs(ajb, lx)
    BY <1>14
  <2> QED BY <1>0, <2>1, HereAfter
<1>33. Patch(else, {Here(After(c, n, ajb)) + 1}, Here(else)) = After(c, m, Between(x, "JMP", v2, e))
  <2>1. OnlyHole(c, v2, m, x, la + 9 + lb, "JMP", e)
    BY <1>0, <1>24, <1>28, PatchOnly
  <2> QED BY <1>29, <1>31, <1>32, <2>1, Zenon DEF OnlyHole
<1>34. CompileIf(E, c) = After(c, m, Between(x, "JMP", v2, e))
  <2>1. E[Emit(E[c], JumpTo("JEQ", 0))] = After(c, n, ajb)
    BY <1>4, <1>6, <1>9, <1>10, <1>14
  <2>2. Emit(After(c, n, ajb), JumpTo("JMP", 0)) = jump
    BY <1>12, <1>17, <1>18
  <2>3. E[Patch(jump, {Here(E[c]) + 1}, Here(jump))] = else
    BY <1>21, <1>24, <1>25, <1>29, <1>31
  <2> QED BY <1>33, <2>1, <2>2, <2>3, Zenon DEF CompileIf
<1>35. GenIf(G, args, Here(c)) = Between(x, "JMP", v2, e)
  <2>1. b = GenArg(G, args, 2, h + la + 9)
    <3>1. \A at : GenArg(G, two, 1, at) = GenArg(G, args, 1 + 1, at)
      BY ArgOfRest, 1 \in Nat \ {0}
    <3> QED BY <1>9, <3>1, 1 + 1 = 2
  <2>2. e = GenArg(G, args, 3, v)
    <3>1. \A at : GenArg(G, two, 2, at) = GenArg(G, args, 2 + 1, at)
      BY ArgOfRest, 2 \in Nat \ {0}
    <3>2. \A at : GenArg(G, three, 1, at) = GenArg(G, two, 1 + 1, at)
      BY <1>2, ArgOfRest, 1 \in Nat \ {0}
    <3> QED BY <1>24, <3>1, <3>2, 1 + 1 = 2, 2 + 1 = 3
  <2>3. Len(a) = la /\ Len(b) = lb /\ Len(e) = le
    BY <1>3, <1>11, <1>26 DEF LenIs
  <2> HIDE DEF two, three
  <2>4. a = GenArg(G, args, 1, h)
    BY <1>0a, <1>2
  <2>5. GenIf(G, args, h) = a \o JumpTo("JEQ", v) \o b \o JumpTo("JMP", v + le) \o e
    BY <1>15, <2>1, <2>2, <2>3, <2>4, Zenon DEF GenIf
  <2> QED BY <1>0a, <1>27, <1>28, <1>30, <2>5 DEF Between
<1>36. m = Size(args)
  <2>1. Len(two) <= 2
    BY ShorterRest, 2 \in Nat, 2 + 1 = 3
  <2>2. Len(three) <= 1
    BY <1>2, <2>1, ShorterRest, 1 \in Nat, 1 + 1 = 2
  <2>3. Len(Rest(three)) <= 0
    BY <1>9, <2>2, ShorterRest, 0 \in Nat, 0 + 1 = 1
  <2>4. Size(Rest(three)) = 0
    <3>0. k3 \in Nat
      BY <1>24
    <3>1. PICK q \in Nat : q = c.pos + (n + k3)
      BY <1>0, <3>0
    <3> QED BY <1>24, <2>3, <3>1, NoTrees
  <2> HIDE DEF three
  <2> QED BY <1>2, <1>9, <1>10, <1>24, <1>25, <2>4
<1> QED BY <1>34, <1>35, <1>36 DEF FormRight

\* when and unless.
LEMMA OverRight ==
    ASSUME SourceOK, NEW E, NEW G, NEW B, NEW p, Right(E, G, B, p), NEW c \in Behind(p),
           NEW args \in Seq(B), Listed(c.pos, args), AreExprs(args), NEW op \in {"JEQ", "JNE"}
    PROVE  FormRight(Over(E, E[c], op), c, args, GenGuarded(G, op, args, Here(c)))
<1>0. /\ p \in Nat /\ IsCode(G, B) /\ c \in State /\ c.pos \in Nat
      /\ op \in {"JMP", "JEQ", "JNE"} /\ op \in {"JMP", "CALL", "JEQ", "JNE"}
  BY RightIs
<1>0a. PICK h \in Nat : h = Here(c)
  BY RightIs
<1>1. PICK k, a : FirstArg(E, G, B, p, c, args, k, a)
  BY ArgStart
<1>2. /\ k \in Nat /\ a \in Seq(Byte) /\ a = GenArg(G, args, 1, h) /\ E[c] = After(c, k, a)
      /\ Rest(args) \in Seq(B) /\ AreExprs(Rest(args)) /\ Listed(c.pos + k, Rest(args))
      /\ Size(args) = k + Size(Rest(args)) /\ Size(Rest(args)) \in Nat
  BY <1>0a, <1>1 DEF FirstArg
<1>3. PICK la \in Nat : LenIs(a, la)
  BY <1>2, LenOf
<1>4. PICK j \in Seq(Byte) : j = JumpTo(op, 0) /\ LenIs(j, 9)
  BY <1>0, LenJump, 0 \in Nat DEF LenIs
<1>5. PICK aj \in Seq(Byte) : aj = a \o j /\ LenIs(aj, la + 9)
  BY <1>3, <1>4, LenJoin
<1>6. Emit(E[c], j) = After(c, k, aj)
  BY <1>0, <1>2, <1>5, EmitAfter
<1>7. Here(c) + Len(aj) = h + la + 9
  BY <1>0a, <1>5 DEF LenIs
<1>8. PICK b : ThenBody(E, G, p, c, k, aj, Rest(args), b)
  BY <1>2, BodyAfter
<1>9. /\ b \in Seq(Byte) /\ b = GenAll(G, Rest(args), h + la + 9)
      /\ Body(E, After(c, k, aj)) = After(c, k + Size(Rest(args)), aj \o b)
  BY <1>7, <1>8 DEF ThenBody
<1>10. PICK n \in Nat : n = Size(args)
  BY <1>2
<1>11. PICK lb \in Nat : LenIs(b, lb)
  BY <1>9, LenOf
<1>12. PICK v \in Nat : v = h + la + 9 + lb
  OBVIOUS
<1>13. LenIs(Between(a, op, 0, b), la + 9 + lb)
  BY <1>0, <1>3, <1>11, LenBetween, 0 \in Nat
<1>14. PICK f \in State : f = After(c, n, Between(a, op, 0, b)) /\ Here(f) = v
  <2>1. Here(After(c, n, Between(a, op, 0, b))) = Here(c) + (la + 9 + lb)
        /\ After(c, n, Between(a, op, 0, b)) \in State
    BY <1>0, <1>13, HereAfter
  <2>2. h + (la + 9 + lb) = v
    BY <1>12
  <2> QED BY <1>0a, <2>1, <2>2
<1>15. Body(E, Emit(E[c], JumpTo(op, 0))) = f
  BY <1>2, <1>4, <1>5, <1>6, <1>9, <1>10, <1>14 DEF Between
<1>16. Here(E[c]) = Here(c) + la
  BY <1>0, <1>2, <1>3, HereAfter
<1>17. Patch(f, {Here(E[c]) + 1}, Here(f)) = After(c, n, Between(a, op, v, b))
  <2>1. OnlyHole(c, v, n, a, la, op, b)
    BY <1>0, <1>3, <1>9, PatchOnly
  <2> QED BY <1>14, <1>16, <2>1, Zenon DEF OnlyHole
<1>18. GenGuarded(G, op, args, h) = Between(a, op, v, b)
  <2>1. Len(a) = la /\ Len(b) = lb
    BY <1>3, <1>11 DEF LenIs
  <2>2. a = GenArg(G, args, 1, h) /\ b = GenAll(G, Rest(args), h + la + 9)
    BY <1>2, <1>9
  <2> QED BY <1>12, <2>1, <2>2, Zenon DEF GenGuarded, Between
<1> QED BY <1>0a, <1>10, <1>15, <1>17, <1>18 DEF Over, FormRight
-----------------------------------------------------------------------------
(* Arguments that are skipped *)

LEMMA NoCode ==
    <<>> \in Seq(Byte) /\ LenIs(<<>>, 0) /\ \A a \in Seq(Byte) : <<>> \o a = a /\ a \o <<>> = a
<1>1. \A a \in Seq(Byte) : <<>> \o a = a
  OBVIOUS
<1>2. \A a \in Seq(Byte) : a \o <<>> = a
  OBVIOUS
<1>3. <<>> \in Seq(Byte) /\ Len(<<>>) = 0 /\ 0 \in Nat
  OBVIOUS
<1> QED BY <1>1, <1>2, <1>3 DEF LenIs

\* At d, the arguments rest are left of args and nothing is emitted.
Ignored(B, p, c, args, d, rest) ==
    /\ d \in Behind(p) /\ Here(d) = Here(c) /\ rest \in Seq(B) /\ Listed(d.pos, rest)
    /\ \A m \in Nat, code \in Seq(Byte) :
         m = Size(rest) => After(d, m, code) = After(c, Size(args), code)

\* Arguments passed over leave the rest of the list, and no code.
LEMMA IgnoredIs ==
    ASSUME NEW p \in Nat, NEW c \in Behind(p), NEW B, NEW args, NEW k \in Nat, NEW rest \in Seq(B),
           Size(rest) \in Nat, Size(args) = k + Size(rest), Listed(c.pos + k, rest)
    PROVE  Ignored(B, p, c, args, After(c, k, <<>>), rest)
<1>1. PICK none \in Seq(Byte) : none = <<>> /\ LenIs(none, 0) /\ \A a \in Seq(Byte) : none \o a = a
  BY NoCode
<1>2. AfterIs(c, k, none, p)
  BY AfterType
<1>3. PICK d \in Behind(p) : d = After(c, k, none)
  BY <1>2 DEF AfterIs
<1>4. Here(d) = Here(c) /\ d.pos = c.pos + k
  <2>1. Here(d) = Here(c) + 0 /\ Here(c) \in Nat
    BY <1>1, <1>2, <1>3, HereAfter DEF AfterIs
  <2>2. d.pos = c.pos + k
    BY <1>2, <1>3 DEF AfterIs
  <2> QED BY <2>1, <2>2
<1>5. ASSUME NEW m \in Nat, NEW code \in Seq(Byte), m = Size(rest)
      PROVE  After(d, m, code) = After(c, Size(args), code)
  <2>1. After(d, m, code) = After(c, k + m, none \o code)
    BY <1>2, <1>3 DEF AfterIs
  <2> QED BY <1>1, <1>5, <2>1
<1> QED BY <1>1, <1>3, <1>4, <1>5 DEF Ignored

\* An atom passed over: the name of a module, a function or a variable.
LEMMA IgnoredAtom ==
    ASSUME SourceOK, NEW E, NEW G, NEW B, NEW p, Right(E, G, B, p), NEW c \in Behind(p),
           NEW args \in Seq(B), Listed(c.pos, args), args # <<>>, IsAtom(args[1])
    PROVE  Ignored(B, p, c, args, SkipAtom(c), Rest(args))
<1>1. /\ SkipAtom(c) = After(c, 1, <<>>) /\ Size(args) = 1 + Size(Rest(args))
      /\ Size(Rest(args)) \in Nat /\ Listed(After(c, 1, <<>>).pos, Rest(args))
      /\ Rest(args) \in Seq(B) /\ AfterIs(c, 1, <<>>, p) /\ p \in Nat
  BY AtomArg, RightIs
<1>2. After(c, 1, <<>>).pos = c.pos + 1
  BY <1>1 DEF AfterIs
<1>3. Listed(c.pos + 1, Rest(args))
  BY <1>1, <1>2
<1> QED BY <1>1, <1>3, IgnoredIs, 1 \in Nat

\* A list of atoms.
WordsAre(atoms) ==
    \A c \in State : c.pos > 0 /\ Listed(c.pos, atoms) => WordsLoop[c] = After(c, Size(atoms), <<>>)

\* The loop over the atoms of a list of parameters stops at its parenthesis.
LEMMA WordsRight ==
    ASSUME SourceOK
    PROVE  \A atoms \in Seq(Trees) : (\A i \in DOMAIN atoms : IsAtom(atoms[i])) => WordsAre(atoms)
<1> DEFINE Good == {s \in Seq(Trees) : (\A i \in DOMAIN s : IsAtom(s[i])) => WordsAre(s)}
<1>1. <<>> \in Good
  <2>1. ASSUME NEW c \in State, Listed(c.pos, <<>>)
        PROVE  WordsLoop[c] = After(c, Size(<<>>), <<>>)
    <3>1. Size(<<>>) = 0 /\ Stands(c.pos, ")")
      BY <2>1, ListedNone, StateIs
    <3>2. AtomAt(c) = ""
      BY <3>1, StandsAt
    <3>3. WordsLoop[c] = c
      BY <3>2, WordsGoOn
    <3> QED BY <3>1, <3>3, AfterNothing
  <2> QED BY <2>1 DEF WordsAre
<1>2. ASSUME NEW s \in Seq(Trees), s # <<>>, Rest(s) \in Good
      PROVE  s \in Good
  <2> SUFFICES ASSUME \A i \in DOMAIN s : IsAtom(s[i]), NEW c \in State, c.pos > 0, Listed(c.pos, s)
               PROVE  WordsLoop[c] = After(c, Size(s), <<>>)
    BY DEF WordsAre
  <2>1. /\ s[1] \in Trees /\ DOMAIN s = 1 .. Len(s) /\ DOMAIN Rest(s) = 1 .. Len(s) - 1
        /\ Len(s) \in Nat /\ Len(s) >= 1 /\ \A i \in 1 .. Len(s) - 1 : Rest(s)[i] = s[i + 1]
    BY <1>2, RestIs
  <2>2. IsAtom(s[1]) /\ \A i \in DOMAIN Rest(s) : IsAtom(Rest(s)[i])
    BY <2>1
  <2>3. /\ Reads(c.pos, Tokens[s[1]]) /\ Listed(c.pos + Len(Tokens[s[1]]), Rest(s))
        /\ Size(s) = Len(Tokens[s[1]]) + Size(Rest(s)) /\ Size(Rest(s)) \in Nat
    BY <1>2, ListedFirst, StateIs
  <2>4. AtomAt(c) = s[1][1] /\ Len(Tokens[s[1]]) = 1 /\ s[1][1] # ""
    BY <2>1, <2>2, <2>3, TreeBegins
  <2>5. Skip(c) \in State /\ Skip(c).pos = c.pos + 1 /\ c.pos \in Nat
    BY SkipGoesOn, StateIs
  <2>6. WordsLoop[c] = WordsLoop[Skip(c)]
    BY <2>4, WordsGoOn
  <2>7. WordsLoop[Skip(c)] = After(Skip(c), Size(Rest(s)), <<>>)
    <3>1. WordsAre(Rest(s))
      BY <1>2, <2>2
    <3>2. Skip(c).pos > 0
      BY <2>5
    <3> QED BY <2>3, <2>4, <2>5, <3>1, <3>2 DEF WordsAre
  <2>8. After(Skip(c), Size(Rest(s)), <<>>) = After(c, Size(s), <<>>)
    <3>0. Size(s) = 1 + Size(Rest(s)) /\ Size(Rest(s)) \in Nat
      BY <2>3, <2>4
    <3>1. c.pos + 1 + Size(Rest(s)) = c.pos + Size(s)
      BY <2>5, <3>0
    <3>2. Skip(c).buf = c.buf
      BY SkipGoesOn
    <3> QED BY <2>5, <3>1, <3>2 DEF After
  <2> QED BY <2>6, <2>7, <2>8
<1> HIDE DEF Good
<1>3. Seq(Trees) \subseteq Good
  BY <1>1, <1>2, ListInduction
<1> QED BY <1>3 DEF Good

\* A list of parameters passed over.
LEMMA IgnoredParameters ==
    ASSUME SourceOK, NEW E, NEW G, NEW B, NEW p, Right(E, G, B, p), NEW c \in Behind(p),
           NEW args \in Seq(B), Listed(c.pos, args), args # <<>>, AreParameters(args[1])
    PROVE  Ignored(B, p, c, args, SkipParameters(c), Rest(args))
<1>0. /\ p \in Nat /\ c \in State /\ c.pos \in Nat /\ args \in Seq(Trees) /\ Rest(args) \in Seq(B)
  BY RightIs
<1>1. PICK t \in Trees : t = args[1] /\ Reads(c.pos, Tokens[t])
  BY <1>0, ListedFirst
<1>2. /\ Listed(c.pos + Len(Tokens[t]), Rest(args)) /\ Size(Rest(args)) \in Nat
      /\ Size(args) = Len(Tokens[t]) + Size(Rest(args)) /\ Len(Tokens[t]) \in Nat
  BY <1>0, <1>1, ListedFirst
<1>3. ~IsAtom(t) /\ t[1] = "" /\ \A i \in DOMAIN t[2] : IsAtom(t[2][i])
  BY <1>1 DEF AreParameters, IsList
<1>4. At(c, "(") /\ FormRead(c.pos, t)
  BY <1>0, <1>1, <1>3, TreeBegins
<1>5. /\ t[2] \in Seq(Trees) /\ Size(t[2]) \in Nat /\ Listed(c.pos + 1, t[2])
      /\ Len(Tokens[t]) = Size(t[2]) + 2
  BY <1>3, <1>4 DEF FormRead
<1>6. PICK none \in Seq(Byte) : none = <<>> /\ none \o none = none
  BY NoCode
<1>7. PICK d \in State : d = Skip(c) /\ d = After(c, 1, none) /\ d.pos = c.pos + 1
  BY <1>0, <1>6, SkipGoesOn, AfterNothing
<1>8. PICK k \in Nat : k = Size(t[2])
  BY <1>5
<1>9. WordsLoop[d] = After(d, k, none)
  <2>1. WordsAre(t[2])
    BY <1>3, <1>5, WordsRight
  <2>2. d.pos > 0 /\ Listed(d.pos, t[2])
    BY <1>0, <1>5, <1>7
  <2> QED BY <1>6, <1>8, <2>1, <2>2 DEF WordsAre
<1>10. AfterIs(c, 1, none, p) /\ AfterIs(c, 1 + k, none, p)
  BY <1>0, AfterType
<1>11. PICK e \in State : e = WordsLoop[d] /\ e = After(c, 1 + k, none)
  <2>1. After(d, k, none) = After(c, 1 + k, none)
    BY <1>6, <1>7, <1>10 DEF AfterIs
  <2> QED BY <1>9, <1>10, <2>1 DEF AfterIs
<1>12. e.pos = c.pos + (1 + k) /\ Skip(e) = After(c, 1 + k + 1, none)
  BY <1>10, <1>11 DEF AfterIs
<1>13. SkipClose(e) = Skip(e)
  <2>1. Stands(c.pos + 1 + k, ")")
    BY <1>5, <1>8 DEF Listed
  <2>2. c.pos + 1 + k = c.pos + (1 + k)
    BY <1>0
  <2>3. Stands(e.pos, ")")
    BY <1>12, <2>1, <2>2
  <2> QED BY <2>3, StandsAt
<1>14. SkipParameters(c) = After(c, Len(Tokens[t]), none)
  <2>1. 1 + k + 1 = Len(Tokens[t])
    BY <1>5, <1>8
  <2> QED BY <1>4, <1>7, <1>11, <1>12, <1>13, <2>1 DEF SkipParameters, WordsLoop
<1> QED BY <1>0, <1>2, <1>6, <1>14, IgnoredIs

\* The forms that pass over an atom or parameters, and those that are only expressions.
LEMMA BodyBehind ==
    ASSUME SourceOK, NEW E, NEW G, NEW B, NEW p, Right(E, G, B, p), NEW c \in Behind(p),
           NEW args, NEW d, NEW rest, Ignored(B, p, c, args, d, rest), AreExprs(rest),
           NEW op \in {"RET", "NOP"}
    PROVE  /\ FormRight(Body(E, d), c, args, GenAll(G, rest, Here(c)))
           /\ FormRight(Emit(Body(E, d), <<OP[op]>>), c, args, GenAll(G, rest, Here(c)) \o <<OP[op]>>)
<1>0. /\ p \in Nat /\ IsCode(G, B) /\ d \in Behind(p) /\ Here(d) = Here(c) /\ rest \in Seq(B)
      /\ Listed(d.pos, rest) /\ Here(c) \in Nat
  BY RightIs DEF Ignored
<1>1. PICK m \in Nat : m = Size(rest)
  BY <1>0, RightIs
<1>2. PICK code \in Seq(Byte) : code = GenAll(G, rest, Here(c))
  BY <1>0, GenAllType
<1>3. Body(E, d) = After(d, m, code)
  <2>1. BodyIs(E, G, p, rest)
    BY <1>0, BodyRight
  <2> QED BY <1>0, <1>1, <1>2, <2>1 DEF BodyIs
<1>4. PICK o \in Seq(Byte) : o = <<OP[op]>>
  <2>1. op \in DOMAIN OP
    BY DEF OP
  <2> QED BY <2>1, Opcodes
<1>5. Emit(After(d, m, code), o) = After(d, m, code \o o) /\ code \o o \in Seq(Byte)
  BY <1>0, EmitAfter
<1>6. \A x \in Seq(Byte) : After(d, m, x) = After(c, Size(args), x)
  BY <1>1 DEF Ignored
<1> QED BY <1>2, <1>3, <1>4, <1>5, <1>6 DEF FormRight

\* Nothing passed over.
LEMMA IgnoredNothing ==
    ASSUME NEW B, NEW p, NEW c \in Behind(p), NEW args \in Seq(B), Listed(c.pos, args)
    PROVE  Ignored(B, p, c, args, c, args)
BY DEF Ignored

\* An unknown head: all arguments, then OP_NOP.
LEMMA OtherRight ==
    ASSUME SourceOK, NEW E, NEW G, NEW B, NEW p, Right(E, G, B, p), NEW c \in Behind(p),
           NEW args \in Seq(B), Listed(c.pos, args), AreExprs(args)
    PROVE  FormRight(Emit(Body(E, c), <<OP.NOP>>), c, args, GenAll(G, args, Here(c)) \o <<OP.NOP>>)
<1>1. Ignored(B, p, c, args, c, args)
  BY IgnoredNothing
<1>2. "NOP" \in {"RET", "NOP"} /\ OP["NOP"] = OP.NOP
  OBVIOUS
<1> QED BY <1>1, <1>2, BodyBehind

\* elbo_module: the arguments behind the name.
LEMMA ModuleRight ==
    ASSUME SourceOK, NEW E, NEW G, NEW B, NEW p, Right(E, G, B, p), NEW c \in Behind(p),
           NEW args \in Seq(B), Listed(c.pos, args), AreExprs(args), args # <<>>, IsAtom(args[1])
    PROVE  FormRight(Body(E, SkipAtom(c)), c, args, GenAll(G, Rest(args), Here(c)))
<1>1. Ignored(B, p, c, args, SkipAtom(c), Rest(args))
  BY IgnoredAtom
<1>2. AreExprs(Rest(args)) /\ "NOP" \in {"RET", "NOP"}
  BY ExprsRest
<1> QED BY <1>1, <1>2, BodyBehind

\* fn and lambda: the arguments behind the parameters, then OP_RET.
LEMMA FnRight ==
    ASSUME SourceOK, NEW E, NEW G, NEW B, NEW p, Right(E, G, B, p), NEW c \in Behind(p),
           NEW args \in Seq(B), Listed(c.pos, args), args # <<>>, AreParameters(args[1]),
           AreExprs(Rest(args))
    PROVE  FormRight(Emit(Body(E, SkipParameters(c)), <<OP.RET>>), c, args,
                     GenAll(G, Rest(args), Here(c)) \o <<OP.RET>>)
<1>1. Ignored(B, p, c, args, SkipParameters(c), Rest(args))
  BY IgnoredParameters
<1>2. "RET" \in {"RET", "NOP"} /\ OP["RET"] = OP.RET
  OBVIOUS
<1> QED BY <1>1, <1>2, BodyBehind

\* Passing over twice.
LEMMA IgnoredTwice ==
    ASSUME NEW B, NEW p, NEW c, NEW args, NEW d, NEW rest, NEW e, NEW last,
           Ignored(B, p, c, args, d, rest), Ignored(B, p, d, rest, e, last), Size(rest) \in Nat
    PROVE  Ignored(B, p, c, args, e, last)
<1>1. /\ e \in Behind(p) /\ Here(e) = Here(d) /\ last \in Seq(B) /\ Listed(e.pos, last)
      /\ Here(d) = Here(c)
  BY DEF Ignored
<1>2. ASSUME NEW m \in Nat, NEW code \in Seq(Byte), m = Size(last)
      PROVE  After(e, m, code) = After(c, Size(args), code)
  <2>1. After(e, m, code) = After(d, Size(rest), code)
    BY <1>2 DEF Ignored
  <2>2. After(d, Size(rest), code) = After(c, Size(args), code)
    BY <1>2 DEF Ignored
  <2> QED BY <2>1, <2>2
<1> QED BY <1>1, <1>2 DEF Ignored

\* defun: the arguments behind name and parameters, then OP_RET.
LEMMA DefunRight ==
    ASSUME SourceOK, NEW E, NEW G, NEW B, NEW p, Right(E, G, B, p), NEW c \in Behind(p),
           NEW args \in Seq(B), Listed(c.pos, args), Len(args) >= 2, IsAtom(args[1]),
           AreParameters(args[2]), AreExprs(Rest(Rest(args)))
    PROVE  FormRight(Emit(Body(E, SkipParameters(SkipAtom(c))), <<OP.RET>>), c, args,
                     GenAll(G, Rest(Rest(args)), Here(c)) \o <<OP.RET>>)
<1>1. args # <<>>
  BY RestOfNone
<1>2. /\ Rest(args) \in Seq(B) /\ Len(Rest(args)) = Len(args) - 1 /\ Len(args) \in Nat
      /\ \A i \in 1 .. Len(args) - 1 : Rest(args)[i] = args[i + 1]
  BY <1>1, RestIs
<1>3. Rest(args) # <<>> /\ Rest(args)[1] = args[2]
  <2>1. Len(Rest(args)) >= 1 /\ 1 \in 1 .. Len(args) - 1 /\ 1 + 1 = 2
    BY <1>2
  <2> QED BY <1>2, <2>1, RestOfNone
<1>4. Ignored(B, p, c, args, SkipAtom(c), Rest(args))
  BY <1>1, IgnoredAtom
<1>5. PICK d \in Behind(p) : d = SkipAtom(c) /\ Listed(d.pos, Rest(args))
  BY <1>4 DEF Ignored
<1>6. Ignored(B, p, d, Rest(args), SkipParameters(d), Rest(Rest(args)))
  BY <1>2, <1>3, <1>5, IgnoredParameters
<1>7. Size(Rest(args)) \in Nat
  BY <1>2, RightIs
<1>8. Ignored(B, p, c, args, SkipParameters(d), Rest(Rest(args)))
  BY <1>4, <1>5, <1>6, <1>7, IgnoredTwice
<1>9. "RET" \in {"RET", "NOP"} /\ OP["RET"] = OP.RET
  OBVIOUS
<1> QED BY <1>5, <1>8, <1>9, BodyBehind

\* define: the argument behind the name, then OP_STORE.
LEMMA DefineRight ==
    ASSUME SourceOK, NEW E, NEW G, NEW B, NEW p, Right(E, G, B, p), NEW c \in Behind(p),
           NEW args \in Seq(B), Listed(c.pos, args), Len(args) \in 1 .. 2, IsAtom(args[1]),
           AreExprs(args)
    PROVE  FormRight(Emit(E[SkipAtom(c)], <<OP.STORE>>), c, args,
                     GenArg(G, args, 2, Here(c)) \o <<OP.STORE>>)
<1>1. args # <<>>
  BY RestOfNone
<1>2. Ignored(B, p, c, args, SkipAtom(c), Rest(args))
  BY <1>1, IgnoredAtom
<1>3. PICK d \in Behind(p) : d = SkipAtom(c) /\ Listed(d.pos, Rest(args)) /\ Here(d) = Here(c)
  BY <1>2 DEF Ignored
<1>4. AreExprs(Rest(args)) /\ Rest(args) \in Seq(B) /\ Size(Rest(args)) \in Nat /\ p \in Nat
  BY ExprsRest, RightIs
<1>5. PICK k, a : FirstArg(E, G, B, p, d, Rest(args), k, a)
  BY <1>3, <1>4, ArgStart
<1>6. /\ k \in Nat /\ a \in Seq(Byte) /\ a = GenArg(G, Rest(args), 1, Here(c))
      /\ E[d] = After(d, k, a) /\ Rest(Rest(args)) \in Seq(B)
      /\ Size(Rest(args)) = k + Size(Rest(Rest(args))) /\ Listed(d.pos + k, Rest(Rest(args)))
  BY <1>3, <1>5 DEF FirstArg
<1>7. k = Size(Rest(args))
  <2>1. Len(args) <= 1 + 1
    <3>1. \A k2 \in 1 .. 2 : k2 <= 1 + 1
      OBVIOUS
    <3> QED BY <3>1
  <2>2. Rest(args) \in Seq(B) /\ Len(Rest(args)) <= 1
    BY <2>1, ShorterRest, 1 \in Nat
  <2>3. Len(Rest(Rest(args))) <= 0
    BY <2>2, ShorterRest, 0 \in Nat, 0 + 1 = 1
  <2>4. PICK q \in Nat : q = d.pos + k
    BY <1>4, <1>6, RightIs
  <2>5. Size(Rest(Rest(args))) = 0
    BY <1>6, <2>3, <2>4, NoTrees
  <2> QED BY <1>6, <2>5
<1>8. a = GenArg(G, args, 2, Here(c))
  <2>1. \A at : GenArg(G, Rest(args), 1, at) = GenArg(G, args, 1 + 1, at)
    BY ArgOfRest, 1 \in Nat \ {0}
  <2> QED BY <1>6, <2>1, 1 + 1 = 2
<1>9. PICK o \in Seq(Byte) : o = <<OP.STORE>>
  BY OpcodeType
<1>10. Emit(After(d, k, a), o) = After(d, k, a \o o) /\ a \o o \in Seq(Byte)
  BY <1>4, <1>6, EmitAfter
<1>11. After(d, k, a \o o) = After(c, Size(args), a \o o)
  BY <1>2, <1>3, <1>6, <1>7, <1>10 DEF Ignored
<1> QED BY <1>3, <1>6, <1>8, <1>9, <1>10, <1>11 DEF FormRight

\* At c begins the form t, whose arguments begin at d.
Opens(p, c, t, d) ==
    /\ d \in Behind(p) /\ Here(d) = Here(c) /\ Listed(d.pos, t[2]) /\ At(c, "(")
    /\ \A x, code : code \in Seq(Byte) /\ FormRight(x, d, t[2], code)
                      => SkipClose(x) = After(c, Len(Tokens[t]), code)

\* Behind the opening tokens of a form stands its list.
LEMMA OpensIs ==
    ASSUME SourceOK, NEW p \in Nat, NEW c \in Behind(p), NEW t \in Trees, At(c, "("),
           NEW k \in Nat, Size(t[2]) \in Nat, Listed(c.pos + k, t[2]),
           Len(Tokens[t]) = Size(t[2]) + k + 1
    PROVE  Opens(p, c, t, After(c, k, <<>>))
<1>0. PICK none \in Seq(Byte) : none = <<>> /\ LenIs(none, 0) /\ \A a \in Seq(Byte) : none \o a = a
  BY NoCode
<1>1. AfterIs(c, k, none, p)
  BY AfterType
<1>2. PICK d \in Behind(p) : d = After(c, k, none)
  BY <1>1 DEF AfterIs
<1>3. Here(d) = Here(c) /\ d.pos = c.pos + k /\ c.pos \in Nat
  <2>1. Here(d) = Here(c) + 0 /\ Here(c) \in Nat
    BY <1>0, <1>1, <1>2, HereAfter DEF AfterIs
  <2>2. d.pos = c.pos + k /\ c.pos \in Nat
    BY <1>1, <1>2 DEF AfterIs
  <2> QED BY <2>1, <2>2
<1>4. PICK n \in Nat : n = Size(t[2])
  OBVIOUS
<1>5. ASSUME NEW x, NEW code \in Seq(Byte), FormRight(x, d, t[2], code)
      PROVE  SkipClose(x) = After(c, Len(Tokens[t]), code)
  <2>1. x = After(d, n, code)
    BY <1>4, <1>5 DEF FormRight
  <2>2. After(d, n, code) = After(c, k + n, none \o code)
    BY <1>1, <1>2 DEF AfterIs
  <2>3. x = After(c, k + n, code)
    BY <1>0, <2>1, <2>2
  <2>4. AfterIs(c, k + n, code, p)
    BY AfterType
  <2>5. x \in State /\ x.pos = c.pos + (k + n) /\ Skip(x) = After(c, k + n + 1, code)
    BY <2>3, <2>4 DEF AfterIs
  <2>6. Stands(x.pos, ")")
    <3>1. Stands(c.pos + k + n, ")")
      BY <1>4 DEF Listed
    <3>2. c.pos + k + n = c.pos + (k + n)
      BY <1>3
    <3> QED BY <2>5, <3>1, <3>2
  <2>7. SkipClose(x) = Skip(x)
    BY <2>5, <2>6, StandsAt
  <2>8. k + n + 1 = Len(Tokens[t])
    BY <1>4
  <2> QED BY <2>5, <2>7, <2>8
<1> QED BY <1>0, <1>2, <1>3, <1>5 DEF Opens

\* Two skips.
LEMMA SkipsAre ==
    ASSUME NEW c \in State
    PROVE  Skip(c) = After(c, 1, <<>>) /\ Skip(Skip(c)) = After(c, 2, <<>>) /\ Skip(c) \in State
           /\ Skip(c).pos = c.pos + 1 /\ c.pos \in Nat
<1>1. c.pos \in Nat /\ c.pos + 1 + 1 = c.pos + 2 /\ c.buf \in Seq(Byte)
  BY StateIs
<1>2. c.buf \o <<>> = c.buf
  BY <1>1
<1> QED BY <1>1, <1>2, SkipGoesOn DEF Skip, After

\* The tokens of a form besides its list.
LEMMA TwoAndOne ==
    \A s \in Nat : s + 3 = s + 2 + 1 /\ 2 \in Nat
OBVIOUS

\* A form with a head begins with two tokens,
LEMMA HeadBegins ==
    ASSUME SourceOK, NEW p \in Nat, NEW c \in Behind(p), NEW t \in Trees, ~IsAtom(t), t[1] # "",
           Reads(c.pos, Tokens[t])
    PROVE  /\ Opens(p, c, t, Skip(Skip(c))) /\ AtomAt(Skip(c)) = t[1]
           /\ SkipAtom(Skip(c)) = Skip(Skip(c)) /\ ~Ended(c)
<1>0. c \in State
  BY DEF Behind
<1>1. At(c, "(") /\ FormRead(c.pos, t)
  BY <1>0, TreeBegins
<1>2. /\ Size(t[2]) \in Nat /\ Stands(c.pos + 1, t[1]) /\ t[1] \notin {"(", ")"}
      /\ Listed(c.pos + 2, t[2]) /\ Len(Tokens[t]) = Size(t[2]) + 3
  BY <1>1 DEF FormRead
<1>3. /\ Skip(Skip(c)) = After(c, 2, <<>>) /\ Skip(c) \in State /\ Skip(c).pos = c.pos + 1
  BY <1>0, SkipsAre
<1>4. AtomAt(Skip(c)) = t[1] /\ SkipAtom(Skip(c)) = Skip(Skip(c))
  <2>1. PICK x : x = t[1] /\ x \notin {"", "(", ")"}
    BY <1>2
  <2>2. PICK d \in State : d = Skip(c) /\ Stands(d.pos, x)
    BY <1>2, <1>3, <2>1
  <2>3. AtomAt(d) = x /\ SkipAtom(d) = Skip(d)
    BY <2>1, <2>2, StandsAt
  <2> QED BY <2>1, <2>2, <2>3
<1>5. Len(Tokens[t]) = Size(t[2]) + 2 + 1 /\ 2 \in Nat
  <2>1. \A s \in Nat : s + 3 = s + 2 + 1 /\ 2 \in Nat
    BY TwoAndOne
  <2> QED BY <1>2, <2>1, Zenon
<1>6. Opens(p, c, t, After(c, 2, <<>>))
  BY <1>1, <1>2, <1>5, OpensIs
<1> QED BY <1>1, <1>3, <1>4, <1>6 DEF At

\* a list without one with one token.
LEMMA ListBegins ==
    ASSUME SourceOK, NEW p \in Nat, NEW c \in Behind(p), NEW t \in Trees, IsList(t),
           Reads(c.pos, Tokens[t])
    PROVE  Opens(p, c, t, Skip(c))
<1>0. c \in State
  BY DEF Behind
<1>1. At(c, "(") /\ FormRead(c.pos, t) /\ t[1] = ""
  BY <1>0, TreeBegins DEF IsList
<1>2. Size(t[2]) \in Nat /\ Listed(c.pos + 1, t[2]) /\ Len(Tokens[t]) = Size(t[2]) + 2
  BY <1>1 DEF FormRead
<1>3. Skip(c) = After(c, 1, <<>>)
  BY <1>0, SkipsAre
<1>5. Len(Tokens[t]) = Size(t[2]) + 1 + 1 /\ 1 \in Nat
  BY <1>2
<1>6. Opens(p, c, t, After(c, 1, <<>>))
  BY <1>1, <1>2, <1>5, OpensIs
<1> QED BY <1>3, <1>6
-----------------------------------------------------------------------------
\* What is part of a tree of B.
LEMMA PartsIn ==
    ASSUME NEW B, Closed(B), NEW t \in B, ~IsAtom(t)
    PROVE  t \in Trees /\ t[2] \in Seq(B)
<1>1. t \in Trees /\ Below(t) \subseteq B
  BY DEF Closed
<1>2. t[2] \in Seq(Below(t))
  BY <1>1, TreesAssumption
<1> QED BY <1>1, <1>2

\* The rest of a list of one tree is empty.
LEMMA OneTree ==
    ASSUME NEW B, NEW trees \in Seq(B), Len(trees) <= 1, NEW q \in Nat, Listed(q, Rest(trees))
    PROVE  Size(Rest(trees)) = 0
<1>1. Len(trees) <= 0 + 1
  OBVIOUS
<1>2. Rest(trees) \in Seq(B) /\ Len(Rest(trees)) <= 0
  BY <1>1, ShorterRest, 0 \in Nat
<1> QED BY <1>2, NoTrees

BindingIs(E, G, c, t, code) ==
    /\ code \in Seq(Byte) /\ code = GenArg(G, t[2], 1, Here(c)) \o <<OP.STORE>>
    /\ Binding(E, c) = After(c, Len(Tokens[t]), code)

\* A binding: its value, then OP_STORE.
LEMMA BindingRight ==
    ASSUME SourceOK, NEW E, NEW G, NEW B, NEW p, Right(E, G, B, p), NEW c \in Behind(p),
           NEW t \in B, IsBinding(t), Reads(c.pos, Tokens[t])
    PROVE  /\ At(c, "(")
           /\ \E code : BindingIs(E, G, c, t, code)
<1>0. /\ p \in Nat /\ Closed(B) /\ t \in Trees /\ ~IsAtom(t) /\ t[1] # "" /\ Len(t[2]) <= 1
      /\ AreExprs(t[2])
  BY RightIs DEF IsBinding, Closed
<1>1. Opens(p, c, t, Skip(Skip(c))) /\ SkipAtom(Skip(c)) = Skip(Skip(c))
  BY <1>0, HeadBegins
<1>2. PICK d \in Behind(p) : d = Skip(Skip(c)) /\ Listed(d.pos, t[2]) /\ Here(d) = Here(c)
  BY <1>1 DEF Opens
<1>3. t[2] \in Seq(B)
  BY <1>0, PartsIn
<1>4. PICK k, a : FirstArg(E, G, B, p, d, t[2], k, a)
  BY <1>0, <1>2, <1>3, ArgStart
<1>5. /\ k \in Nat /\ a \in Seq(Byte) /\ a = GenArg(G, t[2], 1, Here(c))
      /\ E[d] = After(d, k, a) /\ Rest(t[2]) \in Seq(B)
      /\ Size(t[2]) = k + Size(Rest(t[2])) /\ Listed(d.pos + k, Rest(t[2]))
  BY <1>2, <1>4 DEF FirstArg
<1>6. k = Size(t[2])
  <2>2. PICK q \in Nat : q = d.pos + k
    BY <1>5, RightIs
  <2>3. Size(Rest(t[2])) = 0
    BY <1>0, <1>3, <1>5, <2>2, OneTree
  <2> QED BY <1>5, <2>3
<1>7. PICK o \in Seq(Byte) : o = <<OP.STORE>>
  BY OpcodeType
<1>8. Emit(E[d], o) = After(d, k, a \o o) /\ a \o o \in Seq(Byte)
  <2>1. k \in Nat /\ a \in Seq(Byte) /\ E[d] = After(d, k, a) /\ p \in Nat
    BY <1>0, <1>5
  <2>2. Emit(After(d, k, a), o) = After(d, k, a \o o) /\ a \o o \in Seq(Byte)
    BY <2>1, EmitAfter
  <2> QED BY <2>1, <2>2
<1>9. PICK code \in Seq(Byte) : code = a \o o
  BY <1>8
<1>10. FormRight(Emit(E[d], o), d, t[2], code)
  BY <1>6, <1>8, <1>9 DEF FormRight
<1>11. SkipClose(Emit(E[d], o)) = After(c, Len(Tokens[t]), code)
  BY <1>1, <1>2, <1>10 DEF Opens
<1>12. Binding(E, c) = After(c, Len(Tokens[t]), code)
  BY <1>1, <1>2, <1>7, <1>11 DEF Binding
<1>13. At(c, "(")
  BY <1>1 DEF Opens
<1>14. BindingIs(E, G, c, t, code)
  BY <1>5, <1>7, <1>9, <1>12 DEF BindingIs
<1> QED BY <1>13, <1>14

BindingsAre(E, G, p, s) ==
    \A c \in Behind(p) : Listed(c.pos, s) =>
        /\ GenBindings(G, s, Here(c)) \in Seq(Byte)
        /\ FormRight(Bindings(E, c), c, s, GenBindings(G, s, Here(c)))

\* All bindings.
LEMMA BindingsRight ==
    ASSUME SourceOK, NEW E, NEW G, NEW B, NEW p, Right(E, G, B, p)
    PROVE  \A s \in Seq(B) : (\A i \in DOMAIN s : IsBinding(s[i])) => BindingsAre(E, G, p, s)
<1>0. p \in Nat /\ IsCode(G, B) /\ B \subseteq Trees /\ Closed(B) /\ Consumes(E, p)
  BY RightIs
<1> DEFINE Good == {s \in Seq(B) : (\A i \in DOMAIN s : IsBinding(s[i])) => BindingsAre(E, G, p, s)}
<1>1. <<>> \in Good
  <2>1. ASSUME NEW c \in Behind(p), Listed(c.pos, <<>>)
        PROVE  /\ GenBindings(G, <<>>, Here(c)) \in Seq(Byte)
               /\ FormRight(Bindings(E, c), c, <<>>, GenBindings(G, <<>>, Here(c)))
    <3>0. c \in State /\ c.pos \in Nat /\ Here(c) \in Nat
      BY RightIs
    <3>1. Size(<<>>) = 0 /\ Stands(c.pos, ")")
      BY <2>1, <3>0, ListedNone
    <3>2. Bindings(E, c) = c
      <4>1. ~At(c, "(")
        BY <3>0, <3>1, StandsAt
      <4> QED BY <1>0, <4>1, BindingsGoOn
    <3>3. GenBindings(G, <<>>, Here(c)) = <<>>
      <4>1. <<>> \in Seq(B) /\ \A i \in 1 .. Len(<<>>) : ~IsAtom(<<>>[i])
        OBVIOUS
      <4> QED BY <1>0, <3>0, <4>1, GenBindingsFirst
    <3> QED BY <3>0, <3>1, <3>2, <3>3, AfterNothing, NoCode DEF FormRight
  <2> QED BY <2>1 DEF BindingsAre
<1>2. ASSUME NEW s \in Seq(B), s # <<>>, Rest(s) \in Good
      PROVE  s \in Good
  <2> SUFFICES ASSUME \A i \in DOMAIN s : IsBinding(s[i]), NEW c \in Behind(p), Listed(c.pos, s)
               PROVE  /\ GenBindings(G, s, Here(c)) \in Seq(Byte)
                      /\ FormRight(Bindings(E, c), c, s, GenBindings(G, s, Here(c)))
    BY DEF BindingsAre
  <2>0. c \in State /\ c.pos \in Nat /\ Here(c) \in Nat
    BY RightIs
  <2>1. /\ s[1] \in B /\ DOMAIN s = 1 .. Len(s) /\ DOMAIN Rest(s) = 1 .. Len(s) - 1
        /\ Len(s) \in Nat /\ Len(s) >= 1 /\ \A i \in 1 .. Len(s) - 1 : Rest(s)[i] = s[i + 1]
    BY <1>2, RestIs
  <2>2. IsBinding(s[1]) /\ \A i \in DOMAIN Rest(s) : IsBinding(Rest(s)[i])
    BY <2>1
  <2>3. /\ Reads(c.pos, Tokens[s[1]]) /\ Listed(c.pos + Len(Tokens[s[1]]), Rest(s))
        /\ Size(s) = Len(Tokens[s[1]]) + Size(Rest(s)) /\ Size(Rest(s)) \in Nat
        /\ Len(Tokens[s[1]]) \in Nat
    <3>1. s \in Seq(Trees)
      BY RightIs
    <3> QED BY <1>2, <2>0, <3>1, ListedFirst
  <2>4. PICK k \in Nat : k = Len(Tokens[s[1]])
    BY <2>3
  <2>5. PICK a \in Seq(Byte) : a = GenArg(G, s[1][2], 1, Here(c)) \o <<OP.STORE>>
                              /\ Binding(E, c) = After(c, k, a)
    <3>1. PICK a : BindingIs(E, G, c, s[1], a)
      BY <2>1, <2>2, <2>3, BindingRight
    <3> QED BY <2>4, <3>1 DEF BindingIs
  <2>6. At(c, "(")
    BY <2>1, <2>2, <2>3, BindingRight
  <2>7. AfterIs(c, k, a, p)
    BY <1>0, AfterType
  <2>8. PICK d \in Behind(p) : d = After(c, k, a) /\ d.pos = c.pos + k /\ Here(d) = Here(c) + Len(a)
    BY <2>7 DEF AfterIs
  <2>9. Bindings(E, c) = Bindings(E, d)
    BY <1>0, <2>5, <2>6, <2>8, BindingsGoOn
  <2>10. PICK b \in Seq(Byte) : b = GenBindings(G, Rest(s), Here(d))
                               /\ FormRight(Bindings(E, d), d, Rest(s), b)
    <3>1. BindingsAre(E, G, p, Rest(s))
      BY <1>2, <2>2
    <3>2. Listed(d.pos, Rest(s))
      BY <2>3, <2>4, <2>8
    <3> QED BY <3>1, <3>2 DEF BindingsAre
  <2>11. Bindings(E, d) = After(c, k + Size(Rest(s)), a \o b)
    BY <2>3, <2>7, <2>8, <2>10 DEF FormRight, AfterIs
  <2>12. GenBindings(G, s, Here(c)) = a \o b
    <3>1. \A i \in 1 .. Len(s) : ~IsAtom(s[i])
      BY <2>1 DEF IsBinding
    <3>2. BindingsFirst(G, s, Here(c))
      BY <1>0, <1>2, <2>0, <3>1, GenBindingsFirst
    <3> QED BY <2>5, <2>8, <2>10, <3>2 DEF BindingsFirst
  <2>13. a \o b \in Seq(Byte)
    OBVIOUS
  <2> QED BY <2>3, <2>4, <2>9, <2>11, <2>12, <2>13 DEF FormRight
<1> HIDE DEF Good
<1>3. Seq(B) \subseteq Good
  BY <1>1, <1>2, ListInduction
<1> QED BY <1>3 DEF Good

\* let: its bindings, then its body behind them.
LEMMA LetRight ==
    ASSUME SourceOK, NEW E, NEW G, NEW B, NEW p, Right(E, G, B, p), NEW c \in Behind(p),
           NEW args \in Seq(B), Listed(c.pos, args), args # <<>>, AreExprs(Rest(args)),
           IsList(args[1]), \A i \in DOMAIN args[1][2] : IsBinding(args[1][2][i])
    PROVE  FormRight(CompileLet(E, c), c, args,
               GenBindings(G, args[1][2], Here(c))
                 \o GenAll(G, Rest(args), Here(c) + Len(GenBindings(G, args[1][2], Here(c)))))
<1>0. /\ p \in Nat /\ c \in State /\ c.pos \in Nat /\ args \in Seq(Trees) /\ Rest(args) \in Seq(B)
      /\ Closed(B)
  BY RightIs
<1>1. PICK t \in B : t = args[1]
  BY RestIs
<1>2. /\ t \in Trees /\ Reads(c.pos, Tokens[t]) /\ Listed(c.pos + Len(Tokens[t]), Rest(args))
      /\ Size(Rest(args)) \in Nat
      /\ Size(args) = Len(Tokens[t]) + Size(Rest(args)) /\ Len(Tokens[t]) \in Nat
  BY <1>0, <1>1, ListedFirst
<1>3. PICK k \in Nat : k = Len(Tokens[t])
  BY <1>2
<1>4. Opens(p, c, t, Skip(c))
  BY <1>0, <1>1, <1>2, ListBegins
<1>5. PICK d \in Behind(p) : d = Skip(c) /\ Here(d) = Here(c) /\ Listed(d.pos, t[2])
  BY <1>4 DEF Opens
<1>6. t[2] \in Seq(B) /\ \A i \in DOMAIN t[2] : IsBinding(t[2][i])
  BY <1>0, <1>1, PartsIn DEF IsList
<1>7. PICK a \in Seq(Byte) : a = GenBindings(G, t[2], Here(c))
                            /\ FormRight(Bindings(E, d), d, t[2], a)
  <2>1. BindingsAre(E, G, p, t[2])
    BY <1>6, BindingsRight
  <2> QED BY <1>5, <2>1 DEF BindingsAre
<1>8. SkipClose(Bindings(E, d)) = After(c, k, a)
  BY <1>3, <1>4, <1>5, <1>7 DEF Opens
<1>9. At(c, "(")
  BY <1>4 DEF Opens
<1>10. CompileLet(E, c) = Body(E, After(c, k, a))
  BY <1>5, <1>8, <1>9 DEF CompileLet
<1>11. PICK b : ThenBody(E, G, p, c, k, a, Rest(args), b)
  BY <1>0, <1>2, <1>3, BodyAfter
<1>12. /\ b = GenAll(G, Rest(args), Here(c) + Len(a))
       /\ Body(E, After(c, k, a)) = After(c, k + Size(Rest(args)), a \o b)
  BY <1>11 DEF ThenBody
<1> QED BY <1>1, <1>2, <1>3, <1>7, <1>10, <1>12 DEF FormRight

\* A clause whose test is not the atom else is not taken for the last one.
LEMMA NotElse ==
    ASSUME SourceOK, NEW c \in State, NEW args \in Seq(Trees), Listed(c.pos, args),
           args # <<>> => args[1] # <<"else">>
    PROVE  AtomAt(c) # "else"
<1>0. c.pos \in Nat
  BY StateIs
<1>1. CASE args = <<>>
  <2>1. Stands(c.pos, ")")
    BY <1>0, <1>1, ListedNone
  <2>2. AtomAt(c) = ""
    BY <2>1, StandsAt
  <2> QED BY <2>2
<1>2. CASE args # <<>>
  <2>1. PICK t \in Trees : t = args[1] /\ Reads(c.pos, Tokens[t])
    BY <1>0, <1>2, ListedFirst
  <2>2. CASE IsAtom(t)
    <3>1. AtomAt(c) = t[1]
      BY <2>1, <2>2, TreeBegins
    <3>2. t = <<t[1]>> /\ t # <<"else">>
      BY <1>2, <2>1, <2>2 DEF IsAtom
    <3> QED BY <3>1, <3>2, Zenon
  <2>3. CASE ~IsAtom(t)
    <3>1. At(c, "(")
      BY <2>1, <2>3, TreeBegins
    <3>2. AtomAt(c) = ""
      BY <3>1 DEF AtomAt
    <3> QED BY <3>2
  <2> QED BY <2>2, <2>3
<1> QED BY <1>1, <1>2

\* A clause is compiled to the code z and a jump, whose operand is 0 until the end
\* of the cond is known.
ClauseIs(E, G, p, c, t, z) ==
    /\ z \in Seq(Byte) /\ At(c, "(")
    /\ \A v \in Nat : GenClause(G, t, Here(c), v) = Between(z, "JMP", v, <<>>)
    /\ \A x \in Clauses(Behind(p)) : x.c = c /\ Len(x.ends) < MaxClauses =>
         Clause(E, x) = [c |-> After(c, Len(Tokens[t]), Between(z, "JMP", 0, <<>>)),
                         ends |-> Append(x.ends, Here(c) + Len(z) + 1), go |-> TRUE]

\* A clause: its jump on failure goes to the next clause, the one behind it is still open.
LEMMA ClauseRight ==
    ASSUME SourceOK, NEW E, NEW G, NEW B, NEW p, Right(E, G, B, p), NEW c \in Behind(p),
           NEW t \in B, IsClause(t), Reads(c.pos, Tokens[t])
    PROVE  \E z : ClauseIs(E, G, p, c, t, z)
<1>0. p \in Nat /\ Closed(B) /\ t \in Trees /\ c \in State
  BY RightIs DEF Closed
<1>0a. IsList(t) /\ AreExprs(t[2]) /\ (t[2] # <<>> => t[2][1] # <<"else">>)
  BY DEF IsClause
<1>0b. PICK h \in Nat : h = Here(c)
  BY RightIs
<1>1. PICK args \in Seq(B) : args = t[2]
  BY <1>0, <1>0a, PartsIn DEF IsList
<1>2. Opens(p, c, t, Skip(c))
  BY <1>0, <1>0a, ListBegins
<1>3. PICK d \in Behind(p) : d = Skip(c) /\ Here(d) = h /\ Listed(d.pos, args)
  BY <1>0b, <1>1, <1>2 DEF Opens
<1>4. AtomAt(d) # "else"
  <2>1. d \in State /\ args \in Seq(Trees)
    BY RightIs
  <2>2. args # <<>> => args[1] # <<"else">>
    BY <1>0a, <1>1
  <2> QED BY <1>3, <2>1, <2>2, NotElse
<1>5. AreExprs(args)
  BY <1>0a, <1>1
<1>6. PICK k, a : FirstArg(E, G, B, p, d, args, k, a)
  BY <1>3, <1>5, ArgStart
<1>7. /\ k \in Nat /\ a \in Seq(Byte) /\ a = GenArg(G, args, 1, h) /\ E[d] = After(d, k, a)
      /\ Rest(args) \in Seq(B) /\ AreExprs(Rest(args)) /\ Listed(d.pos + k, Rest(args))
      /\ Size(args) = k + Size(Rest(args)) /\ Size(Rest(args)) \in Nat
  BY <1>3, <1>6 DEF FirstArg
<1>8. PICK la \in Nat : LenIs(a, la)
  BY <1>7, LenOf
<1>9. PICK jeq \in Seq(Byte) : jeq = JumpTo("JEQ", 0) /\ LenIs(jeq, 9)
  BY LenJump, Jumps9, 0 \in Nat
<1>10. PICK jmp \in Seq(Byte) : jmp = JumpTo("JMP", 0) /\ LenIs(jmp, 9)
  BY LenJump, Jumps9, 0 \in Nat
<1>11. PICK aj \in Seq(Byte) : aj = a \o jeq /\ LenIs(aj, la + 9)
  BY <1>8, <1>9, LenJoin
<1>12. Emit(E[d], jeq) = After(d, k, aj)
  <2>1. k \in Nat /\ a \in Seq(Byte) /\ E[d] = After(d, k, a)
    BY <1>7
  <2>2. Emit(After(d, k, a), jeq) = After(d, k, a \o jeq)
    BY <1>0, <2>1, EmitAfter
  <2> QED BY <1>11, <2>1, <2>2
<1>13. PICK b : ThenBody(E, G, p, d, k, aj, Rest(args), b)
  BY <1>7, BodyAfter
<1>14. Here(d) + Len(aj) = h + la + 9
  BY <1>3, <1>11 DEF LenIs
<1>15. PICK n \in Nat : n = Size(args)
  BY <1>7
<1>16. PICK ajb \in Seq(Byte) : ajb = aj \o b /\ b \in Seq(Byte) /\ b = GenAll(G, Rest(args), h + la + 9)
                               /\ Body(E, After(d, k, aj)) = After(d, n, ajb)
  BY <1>7, <1>13, <1>14, <1>15 DEF ThenBody
<1>17. PICK lb \in Nat : LenIs(b, lb)
  BY <1>16, LenOf
<1>18. LenIs(ajb, la + 9 + lb)
  BY <1>11, <1>16, <1>17, LenJoin
<1>19. PICK bj \in Seq(Byte) : bj = b \o jmp /\ LenIs(bj, lb + 9)
  BY <1>10, <1>17, LenJoin
<1>20. Emit(After(d, n, ajb), jmp) = After(d, n, Between(a, "JEQ", 0, bj))
  <2>1. Emit(After(d, n, ajb), jmp) = After(d, n, ajb \o jmp)
    BY <1>0, EmitAfter
  <2>2. Associates(aj, b, jmp)
    BY <1>16, Assoc
  <2> QED BY <1>9, <1>11, <1>16, <1>19, <2>1, <2>2 DEF Between, Associates
<1>21. PICK v \in Nat : v = h + la + lb + 18
  OBVIOUS
<1>22. PICK jump \in State : jump = After(d, n, Between(a, "JEQ", 0, bj)) /\ Here(jump) = v
  <2>1. LenIs(Between(a, "JEQ", 0, bj), la + 9 + (lb + 9))
    BY <1>8, <1>19, LenBetween, 0 \in Nat
  <2>2. /\ Here(After(d, n, Between(a, "JEQ", 0, bj))) = Here(d) + (la + 9 + (lb + 9))
        /\ After(d, n, Between(a, "JEQ", 0, bj)) \in State
    BY <1>0, <2>1, HereAfter
  <2>3. h + (la + 9 + (lb + 9)) = v
    BY <1>21
  <2> QED BY <1>3, <2>2, <2>3
<1>23. Here(E[d]) = Here(d) + la
  <2>1. k \in Nat /\ E[d] = After(d, k, a)
    BY <1>7
  <2> QED BY <1>0, <1>8, <2>1, HereAfter
<1>24. Patch(jump, {Here(E[d]) + 1}, Here(jump)) = After(d, n, Between(a, "JEQ", v, bj))
  <2>1. d \in State
    BY RightIs
  <2>2. OnlyHole(d, v, n, a, la, "JEQ", bj)
    BY <1>8, <2>1, PatchOnly
  <2> QED BY <1>22, <1>23, <2>2, Zenon DEF OnlyHole
<1>25. PICK z \in Seq(Byte) : z = Between(a, "JEQ", v, b) /\ LenIs(z, la + 9 + lb)
  <2>1. LenIs(Between(a, "JEQ", v, b), la + 9 + lb)
    BY <1>8, <1>17, LenBetween
  <2> QED BY <2>1 DEF LenIs
<1>26. PICK w \in Seq(Byte) : w = Between(z, "JMP", 0, <<>>) /\ w = Between(a, "JEQ", v, bj)
  <2>1. PICK jv \in Seq(Byte) : jv = JumpTo("JEQ", v)
    BY Jumps9
  <2>2. PICK ajv \in Seq(Byte) : ajv = a \o jv
    <3>1. Associates(a, jv, b)
      BY <1>7, <1>16, Assoc
    <3> QED BY <3>1 DEF Associates
  <2>3. Associates(ajv, b, jmp)
    BY <1>16, Assoc
  <2>4. z \o jmp = ajv \o bj
    BY <1>19, <1>25, <2>1, <2>2, <2>3, Zenon DEF Between, Associates
  <2>5. z \o jmp \in Seq(Byte) /\ (z \o jmp) \o <<>> = z \o jmp
    <3>1. Associates(z, jmp, jmp)
      BY Assoc
    <3> QED BY <3>1, NoCode DEF Associates
  <2> QED BY <1>10, <2>1, <2>2, <2>4, <2>5 DEF Between
<1>27. SkipClose(Patch(jump, {Here(E[d]) + 1}, Here(jump))) = After(c, Len(Tokens[t]), w)
  <2>1. FormRight(Patch(jump, {Here(E[d]) + 1}, Here(jump)), d, t[2], w)
    BY <1>1, <1>15, <1>24, <1>26 DEF FormRight
  <2> QED BY <1>2, <1>3, <2>1 DEF Opens
<1>28. Here(After(d, n, ajb)) = Here(c) + Len(z)
  <2>1. Here(After(d, n, ajb)) = Here(d) + (la + 9 + lb)
    BY <1>0, <1>18, HereAfter
  <2>2. Len(z) = la + 9 + lb
    BY <1>25 DEF LenIs
  <2> QED BY <1>0b, <1>3, <2>1, <2>2
<1>29. ASSUME NEW x \in Clauses(Behind(p)), x.c = c, Len(x.ends) < MaxClauses
       PROVE  Clause(E, x) = [c |-> After(c, Len(Tokens[t]), w),
                              ends |-> Append(x.ends, Here(c) + Len(z) + 1), go |-> TRUE]
  <2>1. Emit(E[Skip(x.c)], JumpTo("JEQ", 0)) = After(d, k, aj)
    BY <1>3, <1>9, <1>12, <1>29
  <2>2. Body(E, Emit(E[Skip(x.c)], JumpTo("JEQ", 0))) = After(d, n, ajb)
    BY <1>16, <2>1
  <2>3. Emit(After(d, n, ajb), JumpTo("JMP", 0)) = jump
    BY <1>10, <1>20, <1>22
  <2> QED BY <1>3, <1>4, <1>27, <1>28, <1>29, <2>2, <2>3, Zenon DEF Clause
<1>30. ASSUME NEW end \in Nat
       PROVE  GenClause(G, t, Here(c), end) = Between(z, "JMP", end, <<>>)
  <2>1. Len(a) = la /\ Len(b) = lb
    BY <1>8, <1>17 DEF LenIs
  <2>2. t[1] # "else"
    BY <1>0a DEF IsList
  <2>3. GenClause(G, t, h, end) = a \o JumpTo("JEQ", v) \o b \o JumpTo("JMP", end)
    BY <1>1, <1>7, <1>16, <1>21, <2>1, <2>2, Zenon DEF GenClause
  <2>4. z \o JumpTo("JMP", end) \o <<>> = z \o JumpTo("JMP", end)
    <3>1. PICK j \in Seq(Byte) : j = JumpTo("JMP", end)
      BY Jumps9
    <3>2. Associates(z, j, j)
      BY Assoc
    <3> QED BY <3>1, <3>2, NoCode DEF Associates
  <2> QED BY <1>0b, <1>25, <2>3, <2>4 DEF Between
<1>31. At(c, "(")
  BY <1>2 DEF Opens
<1> QED BY <1>26, <1>29, <1>30, <1>31 DEF ClauseIs

Ends(x) == {x.ends[i] : i \in DOMAIN x.ends}

\* The clauses that follow k others.
CondOK(s, k) ==
    /\ \A i \in DOMAIN s : IsClause(s[i]) \/ (i = Len(s) /\ IsElse(s[i]))
    /\ k + Len(s) > MaxClauses => k + Len(s) = MaxClauses + 1 /\ IsElse(s[Len(s)])

\* The clauses of a well-formed cond, first clause first.
LEMMA CondFirst ==
    ASSUME NEW B, NEW s \in Seq(B), s # <<>>, NEW k \in Nat, CondOK(s, k)
    PROVE  \/ IsClause(s[1]) /\ k < MaxClauses /\ CondOK(Rest(s), k + 1)
           \/ IsElse(s[1]) /\ Rest(s) = <<>>
<1>1. /\ DOMAIN s = 1 .. Len(s) /\ Len(s) \in Nat /\ Len(s) >= 1
      /\ Rest(s) \in Seq(B) /\ Len(Rest(s)) = Len(s) - 1 /\ DOMAIN Rest(s) = 1 .. Len(s) - 1
      /\ \A i \in 1 .. Len(s) - 1 : Rest(s)[i] = s[i + 1]
  BY RestIs
<1>2. PICK n \in Nat : n = Len(s) /\ n >= 1
  BY <1>1
<1>3. PICK M \in Nat : M = MaxClauses
  BY BytesAssumption
<1>4. /\ \A i \in 1 .. n : IsClause(s[i]) \/ (i = n /\ IsElse(s[i]))
      /\ k + n > M => k + n = M + 1 /\ IsElse(s[n])
  BY <1>1, <1>2, <1>3 DEF CondOK
<1>5. CASE IsClause(s[1])
  <2>1. ~IsElse(s[1])
    <3>1. s[1][1] = ""
      BY <1>5 DEF IsClause, IsList
    <3>2. "" # "else"
      OBVIOUS
    <3> QED BY <3>1, <3>2, Zenon DEF IsElse
  <2>2. k + n > M => n > 1 /\ k + n = M + 1
    <3>1. n = 1 => ~(k + n > M)
      BY <1>4, <2>1
    <3> QED BY <1>2, <1>4, <3>1
  <2>3. k < M
    BY <1>2, <2>2
  <2>4. \A i \in DOMAIN Rest(s) : IsClause(Rest(s)[i]) \/ (i = Len(Rest(s)) /\ IsElse(Rest(s)[i]))
    <3>1. \A i \in 1 .. n - 1 : i + 1 \in 1 .. n /\ Rest(s)[i] = s[i + 1]
      BY <1>1, <1>2
    <3>2. \A i \in 1 .. n - 1 : i + 1 = n => i = n - 1
      OBVIOUS
    <3>3. DOMAIN Rest(s) = 1 .. n - 1 /\ Len(Rest(s)) = n - 1
      BY <1>1, <1>2
    <3> QED BY <1>4, <3>1, <3>2, <3>3
  <2>5. ASSUME k + 1 + Len(Rest(s)) > MaxClauses
        PROVE  k + 1 + Len(Rest(s)) = MaxClauses + 1 /\ IsElse(Rest(s)[Len(Rest(s))])
    <3>1. Len(Rest(s)) = n - 1 /\ k + 1 + (n - 1) = k + n
      BY <1>1, <1>2
    <3>2. k + n > M
      BY <1>3, <2>5, <3>1
    <3>3. n - 1 \in 1 .. n - 1 /\ (n - 1) + 1 = n
      BY <2>2, <3>2
    <3>4. Rest(s)[n - 1] = s[n]
      BY <1>1, <1>2, <3>3
    <3> QED BY <1>3, <1>4, <3>1, <3>2, <3>4
  <2> QED BY <1>3, <1>5, <2>3, <2>4, <2>5 DEF CondOK
<1>6. CASE ~IsClause(s[1])
  <2>1. n = 1 /\ IsElse(s[1])
    BY <1>2, <1>4, <1>6
  <2>2. Len(Rest(s)) = 0
    BY <1>1, <1>2, <2>1
  <2>3. \A q \in Seq(B) : Len(q) = 0 => q = <<>>
    OBVIOUS
  <2> QED BY <1>1, <2>1, <2>2, <2>3
<1> QED BY <1>5, <1>6

\* The else clause is compiled to the code z.
ElseIs(E, G, x, t, z) ==
    /\ z \in Seq(Byte) /\ At(x.c, "(") /\ \A v : GenClause(G, t, Here(x.c), v) = z
    /\ Clause(E, x) = [c |-> After(x.c, Len(Tokens[t]), z), ends |-> x.ends, go |-> FALSE]

\* The last clause leaves the loop.
LEMMA ElseRight ==
    ASSUME SourceOK, NEW E, NEW G, NEW B, NEW p, Right(E, G, B, p), NEW x \in Clauses(Behind(p)),
           NEW t \in B, IsElse(t), Reads(x.c.pos, Tokens[t])
    PROVE  \E z : ElseIs(E, G, x, t, z)
<1>0. p \in Nat /\ Closed(B) /\ t \in Trees
  BY RightIs DEF Closed
<1>0a. ~IsAtom(t) /\ t[1] = "else" /\ AreExprs(t[2])
  BY DEF IsElse
<1>1. PICK c \in Behind(p) : c = x.c
  BY DEF Clauses
<1>2. PICK args \in Seq(B) : args = t[2]
  BY <1>0, <1>0a, PartsIn
<1>3. /\ Opens(p, c, t, Skip(Skip(c))) /\ AtomAt(Skip(c)) = "else"
      /\ SkipAtom(Skip(c)) = Skip(Skip(c))
  <2>1. t[1] # "" /\ Reads(c.pos, Tokens[t])
    BY <1>0a, <1>1
  <2> QED BY <1>0, <1>0a, <2>1, HeadBegins
<1>4. PICK d \in Behind(p) : d = Skip(Skip(c)) /\ Here(d) = Here(c) /\ Listed(d.pos, args)
  BY <1>2, <1>3 DEF Opens
<1>5. PICK z \in Seq(Byte) : z = GenAll(G, args, Here(c))
  BY <1>1, RightIs, GenAllType
<1>6. FormRight(Body(E, d), d, t[2], z)
  <2>1. AreExprs(args)
    BY <1>0a, <1>2
  <2>2. BodyIs(E, G, p, args)
    BY <2>1, BodyRight
  <2> QED BY <1>2, <1>4, <1>5, <2>2 DEF BodyIs, FormRight
<1>7. SkipClose(Body(E, d)) = After(c, Len(Tokens[t]), z)
  BY <1>3, <1>4, <1>6 DEF Opens
<1>8. Clause(E, x) = [c |-> After(x.c, Len(Tokens[t]), z), ends |-> x.ends, go |-> FALSE]
  BY <1>1, <1>3, <1>4, <1>7, Zenon DEF Clause
<1>9. \A v : GenClause(G, t, Here(x.c), v) = z
  BY <1>0a, <1>1, <1>2, <1>5, Zenon DEF GenClause
<1>10. At(x.c, "(")
  BY <1>1, <1>3 DEF Opens
<1> QED BY <1>8, <1>9, <1>10 DEF ElseIs

\* What the operands of the jumps to the end of the cond are patched to does not
\* matter before.
Jumped(E, G, x, s, v) ==
    /\ GenClauses(G, s, Here(x.c), v) \in Seq(Byte)
    /\ Patch(ClausesLoop(E)[x].c, Ends(ClausesLoop(E)[x]), v)
         = After(Patch(x.c, Ends(x), v), Size(s), GenClauses(G, s, Here(x.c), v))

ClausesAre(E, G, p, s) ==
    \A x \in Clauses(Behind(p)), v \in Nat :
        x.go /\ Listed(x.c.pos, s) /\ CondOK(s, Len(x.ends)) /\ EndBy(Ends(x), Here(x.c))
          => Jumped(E, G, x, s, v)

\* A state patched.
LEMMA PatchIn ==
    ASSUME NEW p \in Nat, NEW c \in Behind(p), NEW offsets, EndBy(offsets, Here(c)), NEW v \in Nat
    PROVE  /\ Patch(c, offsets, v) \in Behind(p) /\ Patch(c, offsets, v).pos = c.pos
           /\ Here(Patch(c, offsets, v)) = Here(c)
<1>1. c \in State /\ c.pos > p /\ offsets \in SUBSET Nat
  BY DEF Behind, EndBy
<1>2. /\ Patch(c, offsets, v) \in State /\ Patch(c, offsets, v).pos = c.pos
      /\ Len(Patch(c, offsets, v).buf) = Len(c.buf)
  BY <1>1, PatchGoesOn
<1> QED BY <1>1, <1>2 DEF Behind, Here

EndsJoin(c, ends, o, go) ==
    /\ Append(ends, o) \in Seq(Nat) /\ Len(Append(ends, o)) = Len(ends) + 1
    /\ Ends([c |-> c, ends |-> Append(ends, o), go |-> go])
         = Ends([c |-> c, ends |-> ends, go |-> go]) \cup {o}

\* One jump more to the end.
LEMMA EndsMore ==
    ASSUME NEW ends \in Seq(Nat), NEW o \in Nat, NEW c, NEW go
    PROVE  EndsJoin(c, ends, o, go)
<1>1. PICK n \in Nat : n = Len(ends)
  OBVIOUS
<1>2. PICK e \in Seq(Nat) : e = Append(ends, o) /\ Len(e) = n + 1
                          /\ (\A i \in 1 .. n : e[i] = ends[i]) /\ e[n + 1] = o
  BY <1>1, AppendProperties
<1>3. DOMAIN e = 1 .. n + 1 /\ DOMAIN ends = 1 .. n
  BY <1>1, <1>2
<1>4. {e[i] : i \in 1 .. n + 1} = {ends[i] : i \in 1 .. n} \cup {o}
  <2>1. 1 .. n + 1 = 1 .. n \cup {n + 1}
    OBVIOUS
  <2> QED BY <1>2, <2>1
<1> QED BY <1>1, <1>2, <1>3, <1>4 DEF Ends, EndsJoin

\* All clauses: patching the open jumps together gives the code with the address.
LEMMA ClausesRight ==
    ASSUME SourceOK, NEW E, NEW G, NEW B, NEW p, Right(E, G, B, p)
    PROVE  \A s \in Seq(B) : ClausesAre(E, G, p, s)
<1>0. p \in Nat /\ IsCode(G, B) /\ B \subseteq Trees /\ Closed(B) /\ Consumes(E, p)
  BY RightIs
<1> DEFINE Good == {s \in Seq(B) : ClausesAre(E, G, p, s)}
<1>1. <<>> \in Good
  <2>1. ASSUME NEW x \in Clauses(Behind(p)), NEW v \in Nat, Listed(x.c.pos, <<>>),
               EndBy(Ends(x), Here(x.c))
        PROVE  Jumped(E, G, x, <<>>, v)
    <3>0. PICK c \in Behind(p) : c = x.c /\ c \in State /\ c.pos \in Nat /\ Here(c) \in Nat
      BY RightIs DEF Clauses
    <3>1. Size(<<>>) = 0 /\ Stands(c.pos, ")")
      BY <2>1, <3>0, ListedNone
    <3>2. ClausesLoop(E)[x] = x
      <4>1. ~At(c, "(")
        BY <3>0, <3>1, StandsAt
      <4> QED BY <1>0, <3>0, <4>1, ClausesGoOn
    <3>3. GenClauses(G, <<>>, Here(c), v) = <<>>
      <4>1. <<>> \in Seq(B) /\ \A i \in 1 .. Len(<<>>) : ~IsAtom(<<>>[i])
        OBVIOUS
      <4> QED BY <1>0, <3>0, <4>1, GenClausesFirst
    <3>4. PICK P \in State : P = Patch(x.c, Ends(x), v)
      <4>1. Patch(c, Ends(x), v) \in Behind(p)
        BY <1>0, <2>1, <3>0, PatchIn
      <4> QED BY <3>0, <4>1 DEF Behind
    <3>5. P = After(P, 0, <<>>)
      BY AfterNothing
    <3> QED BY <3>0, <3>1, <3>2, <3>3, <3>4, <3>5, NoCode DEF Jumped
  <2> QED BY <2>1 DEF ClausesAre
<1>2. ASSUME NEW s \in Seq(B), s # <<>>, Rest(s) \in Good
      PROVE  s \in Good
  <2> SUFFICES ASSUME NEW x \in Clauses(Behind(p)), NEW v \in Nat, x.go, Listed(x.c.pos, s),
                      CondOK(s, Len(x.ends)), EndBy(Ends(x), Here(x.c))
               PROVE  Jumped(E, G, x, s, v)
    BY DEF ClausesAre
  <2>0. PICK c \in Behind(p) : c = x.c /\ c \in State /\ c.pos \in Nat /\ Here(c) \in Nat
    BY RightIs DEF Clauses
  <2>0a. x.ends \in Seq(Nat) /\ Len(x.ends) \in Nat
    BY DEF Clauses
  <2>1. PICK t \in B : t = s[1]
    BY <1>2, RestIs
  <2>2. Rest(s) \in Seq(B)
    BY RestType
  <2>3. /\ Reads(c.pos, Tokens[t]) /\ Listed(c.pos + Len(Tokens[t]), Rest(s))
        /\ Size(s) = Len(Tokens[t]) + Size(Rest(s)) /\ Size(Rest(s)) \in Nat
        /\ Len(Tokens[t]) \in Nat
    <3>1. s \in Seq(Trees)
      BY RightIs
    <3> QED BY <1>2, <2>0, <2>1, <3>1, ListedFirst
  <2>4. PICK k \in Nat : k = Len(Tokens[t])
    BY <2>3
  <2>5. PICK m \in Nat : m = Size(Rest(s))
    BY <2>3
  <2>6. PICK P \in Behind(p) : P = Patch(c, Ends(x), v) /\ Here(P) = Here(c)
    BY <1>0, <2>0, PatchIn
  <2>7. ClausesFirst(G, s, Here(c), v)
    <3>1. \A i \in 1 .. Len(s) : ~IsAtom(s[i])
      BY RestIs, <1>2 DEF CondOK, IsClause, IsElse, IsList
    <3> QED BY <1>0, <1>2, <2>0, <3>1, GenClausesFirst
  <2>8. CASE IsClause(t) /\ Len(x.ends) < MaxClauses /\ CondOK(Rest(s), Len(x.ends) + 1)
    <3>1. PICK z \in Seq(Byte) : ClauseIs(E, G, p, c, t, z)
      <4>1. PICK z : ClauseIs(E, G, p, c, t, z)
        BY <2>3, <2>8, ClauseRight
      <4> QED BY <4>1 DEF ClauseIs
    <3>2. PICK lz \in Nat : LenIs(z, lz)
      BY LenOf
    <3>3. PICK h \in Nat : h = Here(c)
      BY <2>0
    <3>4. PICK o \in Nat : o = h + lz + 1
      OBVIOUS
    <3>5. PICK w \in Seq(Byte) : w = Between(z, "JMP", 0, <<>>) /\ LenIs(w, lz + 9)
      <4>1. LenIs(Between(z, "JMP", 0, <<>>), lz + 9 + 0)
        BY <3>2, NoCode, LenBetween, 0 \in Nat
      <4>2. lz + 9 + 0 = lz + 9
        OBVIOUS
      <4> QED BY <4>1, <4>2 DEF LenIs
    <3>6. PICK wv \in Seq(Byte) : wv = Between(z, "JMP", v, <<>>) /\ LenIs(wv, lz + 9)
      <4>1. LenIs(Between(z, "JMP", v, <<>>), lz + 9 + 0)
        BY <3>2, NoCode, LenBetween
      <4>2. lz + 9 + 0 = lz + 9
        OBVIOUS
      <4> QED BY <4>1, <4>2 DEF LenIs
    <3>7. AfterIs(c, k, w, p)
      BY <1>0, AfterType
    <3>8. PICK d \in Behind(p) : d = After(c, k, w) /\ d.pos = c.pos + k
      BY <3>7 DEF AfterIs
    <3>9. Here(d) = h + (lz + 9)
      BY <1>0, <3>3, <3>5, <3>8, HereAfter
    <3>10. PICK y : y = [c |-> d, ends |-> Append(x.ends, o), go |-> TRUE]
      OBVIOUS
    <3>11. /\ y \in Clauses(Behind(p)) /\ Ends(y) = Ends(x) \cup {o}
           /\ Len(y.ends) = Len(x.ends) + 1 /\ y.go /\ y.c = d
      <4>1. /\ Append(x.ends, o) \in Seq(Nat) /\ Len(Append(x.ends, o)) = Len(x.ends) + 1
            /\ Ends(y) = Ends([c |-> d, ends |-> x.ends, go |-> TRUE]) \cup {o}
        <5>1. EndsJoin(d, x.ends, o, TRUE)
          BY <2>0a, EndsMore
        <5> QED BY <3>10, <5>1, Zenon DEF EndsJoin
      <4>2. Ends([c |-> d, ends |-> x.ends, go |-> TRUE]) = Ends(x)
        BY DEF Ends
      <4> QED BY <3>10, <4>1, <4>2 DEF Clauses
    <3>12. Clause(E, x) = y
      <4>1. Len(z) = lz
        BY <3>2 DEF LenIs
      <4> QED BY <2>0, <2>4, <2>8, <3>1, <3>3, <3>4, <3>5, <3>8, <3>10, <4>1 DEF ClauseIs
    <3>13. ClausesLoop(E)[x] = ClausesLoop(E)[y]
      <4>1. At(x.c, "(")
        BY <2>0, <3>1 DEF ClauseIs
      <4> QED BY <1>0, <3>12, <4>1, ClausesGoOn
    <3>14. EndBy(Ends(y), Here(d))
      <4>1. \A i \in Ends(x) : i \in Nat /\ i + 8 <= h
        BY <2>0, <3>3 DEF EndBy
      <4>2. \A i \in Ends(x) \cup {o} : i \in Nat /\ i + 8 <= h + (lz + 9)
        BY <3>4, <4>1
      <4> QED BY <3>9, <3>11, <4>2 DEF EndBy
    <3>15. Jumped(E, G, y, Rest(s), v)
      <4>1. Listed(d.pos, Rest(s))
        BY <2>3, <2>4, <3>8
      <4>2. CondOK(Rest(s), Len(y.ends))
        BY <2>8, <3>11
      <4>3. ClausesAre(E, G, p, Rest(s))
        BY <1>2
      <4> QED BY <3>11, <3>14, <4>1, <4>2, <4>3 DEF ClausesAre
    <3>16. PICK g \in Seq(Byte) : g = GenClauses(G, Rest(s), Here(d), v)
      BY <3>11, <3>15 DEF Jumped
    <3>17. Patch(d, Ends(y), v) = After(P, k, wv)
      <4>1. HoleFilled(c, Ends(x), v, k, z, "JMP", <<>>)
        BY <2>0, NoCode, PatchHole
      <4>2. Here(c) + Len(z) + 1 = o
        BY <3>2, <3>3, <3>4 DEF LenIs
      <4> QED BY <2>6, <3>5, <3>6, <3>8, <3>11, <4>1, <4>2, Zenon DEF HoleFilled
    <3>18. After(After(P, k, wv), m, g) = After(P, k + m, wv \o g)
      <4>1. AfterIs(P, k, wv, p)
        BY <1>0, AfterType
      <4> QED BY <4>1 DEF AfterIs
    <3>19. GenClauses(G, s, Here(c), v) = wv \o g
      <4>1. GenClause(G, t, Here(c), v) = wv
        BY <3>1, <3>6 DEF ClauseIs
      <4>2. Here(c) + Len(wv) = Here(d)
        BY <3>3, <3>6, <3>9 DEF LenIs
      <4> QED BY <2>1, <2>7, <3>16, <4>1, <4>2 DEF ClausesFirst
    <3>20. wv \o g \in Seq(Byte)
      BY Assoc DEF Associates
    <3>21. Size(s) = k + m
      BY <2>3, <2>4, <2>5
    <3> QED BY <2>0, <2>5, <2>6, <3>11, <3>13, <3>15, <3>16, <3>17, <3>18, <3>19, <3>20, <3>21
            DEF Jumped
  <2>9. CASE IsElse(t) /\ Rest(s) = <<>>
    <3>1. PICK z \in Seq(Byte) :
            /\ At(x.c, "(") /\ GenClause(G, t, Here(c), v) = z
            /\ Clause(E, x) = [c |-> After(c, k, z), ends |-> x.ends, go |-> FALSE]
      <4>1. Reads(x.c.pos, Tokens[t]) /\ IsElse(t)
        BY <2>0, <2>3, <2>9
      <4>2. PICK z : ElseIs(E, G, x, t, z)
        BY <4>1, ElseRight
      <4> QED BY <2>0, <2>4, <4>2 DEF ElseIs
    <3>2. AfterIs(c, k, z, p)
      BY <1>0, AfterType
    <3>3. PICK d \in Behind(p) : d = After(c, k, z) /\ Here(d) = Here(c) + Len(z)
      BY <3>2 DEF AfterIs
    <3>4. PICK y : y = [c |-> d, ends |-> x.ends, go |-> FALSE]
      OBVIOUS
    <3>5. y \in Clauses(Behind(p)) /\ Ends(y) = Ends(x) /\ ~y.go /\ y.c = d
      BY <2>0a, <3>4 DEF Clauses, Ends
    <3>6. ClausesLoop(E)[x] = y
      <4>1. ClausesLoop(E)[x] = ClausesLoop(E)[Clause(E, x)]
        <5>1. At(x.c, "(") /\ x.go
          BY <3>1
        <5> QED BY <1>0, <5>1, ClausesGoOn
      <4>2. ClausesLoop(E)[y] = y
        BY <1>0, <3>5, ClausesGoOn
      <4> QED BY <3>1, <3>3, <3>4, <4>1, <4>2
    <3>7. Patch(d, Ends(x), v) = After(P, k, z)
      BY <2>0, <2>6, <3>3, PatchMore
    <3>8. GenClauses(G, s, Here(c), v) = z
      <4>1. GenClauses(G, <<>>, Here(d), v) = <<>>
        <5>1. <<>> \in Seq(B) /\ \A i \in 1 .. Len(<<>>) : ~IsAtom(<<>>[i])
          OBVIOUS
        <5>2. Here(d) \in Nat
          BY RightIs
        <5> QED BY <1>0, <5>1, <5>2, GenClausesFirst
      <4> QED BY <2>1, <2>7, <2>9, <3>1, <3>3, <4>1, NoCode DEF ClausesFirst
    <3>9. Size(s) = k
      <4>1. PICK q \in Nat : q = c.pos + k
        BY <2>0
      <4>2. Listed(q, <<>>)
        BY <2>3, <2>4, <2>9, <4>1
      <4>3. Size(<<>>) = 0
        BY <4>2, ListedNone
      <4> QED BY <2>3, <2>4, <2>9, <4>3
    <3> QED BY <2>0, <2>6, <3>5, <3>6, <3>7, <3>8, <3>9 DEF Jumped
  <2> QED BY <1>2, <2>0a, <2>1, <2>8, <2>9, CondFirst
<1> HIDE DEF Good
<1>3. Seq(B) \subseteq Good
  BY <1>1, <1>2, ListInduction
<1> QED BY <1>3 DEF Good

\* cond: the open jumps are patched to the address behind the last clause.
LEMMA CondRight ==
    ASSUME SourceOK, NEW E, NEW G, NEW B, NEW p, Right(E, G, B, p), NEW c \in Behind(p),
           NEW args \in Seq(B), Listed(c.pos, args), CondOK(args, 0)
    PROVE  FormRight(CompileCond(E, c), c, args,
               GenClauses(G, args, Here(c), Here(c) + Len(GenClauses(G, args, Here(c), 0))))
<1>0. /\ p \in Nat /\ c \in State /\ c.pos \in Nat /\ Here(c) \in Nat /\ Consumes(E, p)
      /\ Size(args) \in Nat
  BY RightIs
<1>1. PICK x : x = [c |-> c, ends |-> <<>>, go |-> TRUE]
  OBVIOUS
<1>2. x \in Clauses(Behind(p)) /\ x.c = c /\ x.go /\ x.ends = <<>> /\ Ends(x) = {}
  BY <1>1 DEF Clauses, Ends
<1>3. Len(x.ends) = 0 /\ EndBy(Ends(x), Here(c))
  BY <1>2 DEF EndBy
<1>4. ASSUME NEW v \in Nat
      PROVE  /\ GenClauses(G, args, Here(c), v) \in Seq(Byte)
             /\ Patch(ClausesLoop(E)[x].c, Ends(ClausesLoop(E)[x]), v)
                  = After(c, Size(args), GenClauses(G, args, Here(c), v))
  <2>1. ClausesAre(E, G, p, args)
    BY ClausesRight
  <2>2. Jumped(E, G, x, args, v)
    BY <1>2, <1>3, <2>1 DEF ClausesAre
  <2>3. Patch(x.c, Ends(x), v) = c
    BY <1>0, <1>2, PatchNothing
  <2> QED BY <1>2, <2>2, <2>3 DEF Jumped
<1>5. PICK r \in Clauses(Behind(p)) : r = ClausesLoop(E)[x]
  BY <1>0, <1>2, ClausesGoOn
<1>6. PICK g \in Seq(Byte) : g = GenClauses(G, args, Here(c), 0)
  BY <1>4, 0 \in Nat
<1>7. Here(r.c) = Here(c) + Len(g)
  <2>1. r.c \in State /\ Ends(r) \in SUBSET Nat
    BY DEF Clauses, Behind, Ends
  <2>2. Len(Patch(r.c, Ends(r), 0).buf) = Len(r.c.buf)
    BY <2>1, PatchGoesOn, 0 \in Nat
  <2>3. Patch(r.c, Ends(r), 0) = After(c, Size(args), g)
    BY <1>4, <1>5, <1>6, 0 \in Nat
  <2>4. AfterIs(c, Size(args), g, p)
    BY <1>0, AfterType
  <2> QED BY <2>2, <2>3, <2>4 DEF AfterIs, Here
<1>8. PICK v \in Nat : v = Here(r.c)
  BY <1>0, <1>7
<1>9. CompileCond(E, c) = Patch(r.c, Ends(r), v)
  BY <1>1, <1>5, <1>8 DEF CompileCond, ClausesLoop, Ends
<1> QED BY <1>4, <1>5, <1>6, <1>7, <1>8, <1>9 DEF FormRight

\* Behind nothing.
LEMMA NoneBefore == \A B : \A s \in Seq(B) : 0 + Len(s) = Len(s)
OBVIOUS

\* Whatever the head, its form is compiled to the code of the grammar.
LEMMA HeadRight ==
    ASSUME SourceOK, NEW E, NEW G, NEW B, NEW p, Right(E, G, B, p), NEW c \in Behind(p),
           NEW args \in Seq(B), Listed(c.pos, args), NEW h, h # "", WellFormed(h, args)
    PROVE  FormRight(CompileHead(E, h, c), c, args, GenForm(G, h, args, Here(c)))
<1>1. HeadIs(E, h, c) /\ FormIs(G, h, args, Here(c)) /\ ArgsAre(h, args)
  BY CompileArms, GenFormArms, WellFormedArms
<1>2. CASE h \in DOMAIN Forms
  <2>1. AreExprs(args) /\ Len(args) <= Forms[h].args
    BY <1>1, <1>2 DEF ArgsAre
  <2> QED BY <1>2, <2>1, PlainRight
<1>3. CASE h \in {"jmp", "call"}
  <2>1. Len(args) = 1 /\ IsAtom(args[1])
    BY <1>1, <1>3 DEF ArgsAre
  <2> QED BY <1>3, <2>1, JumpRight
<1>4. CASE h = "if"
  <2>1. Len(args) <= 3 /\ AreExprs(args)
    BY <1>1, <1>4 DEF ArgsAre
  <2>2. FormRight(CompileIf(E, c), c, args, GenIf(G, args, Here(c)))
    BY <2>1, IfRight
  <2> QED BY <1>1, <1>4, <2>2, Zenon DEF HeadIs, FormIs
<1>5. CASE h \in {"when", "unless"}
  <2>1. AreExprs(args)
    BY <1>1, <1>5 DEF ArgsAre
  <2>2. /\ FormRight(Over(E, E[c], "JEQ"), c, args, GenGuarded(G, "JEQ", args, Here(c)))
        /\ FormRight(Over(E, E[c], "JNE"), c, args, GenGuarded(G, "JNE", args, Here(c)))
    BY <2>1, OverRight
  <2>3. CASE h = "when"
    BY <1>1, <2>2, <2>3, Zenon DEF HeadIs, FormIs
  <2>4. CASE h = "unless"
    BY <1>1, <2>2, <2>4, Zenon DEF HeadIs, FormIs
  <2> QED BY <1>5, <2>3, <2>4
<1>6. CASE h = "cond"
  <2>1. CondOK(args, 0)
    <3>1. /\ \A i \in DOMAIN args : IsClause(args[i]) \/ (i = Len(args) /\ IsElse(args[i]))
          /\ Len(args) > MaxClauses => Len(args) = MaxClauses + 1 /\ IsElse(args[Len(args)])
      BY <1>1, <1>6 DEF ArgsAre
    <3>2. 0 + Len(args) = Len(args)
      BY NoneBefore, Zenon
    <3> QED BY <3>1, <3>2, Zenon DEF CondOK
  <2>2. FormRight(CompileCond(E, c), c, args,
            GenClauses(G, args, Here(c), Here(c) + Len(GenClauses(G, args, Here(c), 0))))
    BY <2>1, CondRight
  <2> QED BY <1>1, <1>6, <2>2, Zenon DEF HeadIs, FormIs
<1>7. CASE h = "let"
  <2>1. /\ args # <<>> /\ AreExprs(Rest(args)) /\ IsList(args[1])
        /\ \A i \in DOMAIN args[1][2] : IsBinding(args[1][2][i])
    BY <1>1, <1>7, Zenon DEF ArgsAre
  <2>2. FormRight(CompileLet(E, c), c, args,
            GenBindings(G, args[1][2], Here(c))
              \o GenAll(G, Rest(args), Here(c) + Len(GenBindings(G, args[1][2], Here(c)))))
    BY <2>1, LetRight, Zenon
  <2> QED BY <1>1, <1>7, <2>2, Zenon DEF HeadIs, FormIs
<1>8. CASE h = "define"
  <2>1. Len(args) \in 1 .. 2 /\ IsAtom(args[1]) /\ AreExprs(args)
    BY <1>1, <1>8 DEF ArgsAre
  <2>2. FormRight(Emit(E[SkipAtom(c)], <<OP.STORE>>), c, args,
                  GenArg(G, args, 2, Here(c)) \o <<OP.STORE>>)
    BY <2>1, DefineRight
  <2> QED BY <1>1, <1>8, <2>2, Zenon DEF HeadIs, FormIs
<1>9. CASE h \in {"fn", "lambda"}
  <2>1. args # <<>> /\ AreParameters(args[1]) /\ AreExprs(Rest(args))
    BY <1>1, <1>9 DEF ArgsAre
  <2>2. FormRight(Emit(Body(E, SkipParameters(c)), <<OP.RET>>), c, args,
                  GenAll(G, Rest(args), Here(c)) \o <<OP.RET>>)
    BY <2>1, FnRight
  <2> QED BY <1>1, <1>9, <2>2, Zenon DEF HeadIs, FormIs
<1>10. CASE h = "defun"
  <2>1. /\ Len(args) >= 2 /\ IsAtom(args[1]) /\ AreParameters(args[2])
        /\ AreExprs(Rest(Rest(args)))
    BY <1>1, <1>10 DEF ArgsAre
  <2>2. FormRight(Emit(Body(E, SkipParameters(SkipAtom(c))), <<OP.RET>>), c, args,
                  GenAll(G, Rest(Rest(args)), Here(c)) \o <<OP.RET>>)
    BY <2>1, DefunRight
  <2> QED BY <1>1, <1>10, <2>2, Zenon DEF HeadIs, FormIs
<1>11. CASE h = "elbo_module"
  <2>1. args # <<>> /\ IsAtom(args[1]) /\ AreExprs(args)
    BY <1>1, <1>11 DEF ArgsAre
  <2>2. FormRight(Body(E, SkipAtom(c)), c, args, GenAll(G, Rest(args), Here(c)))
    BY <2>1, ModuleRight
  <2> QED BY <1>1, <1>11, <2>2, Zenon DEF HeadIs, FormIs
<1>12. CASE h \notin DOMAIN Forms \cup Special
  <2>1. AreExprs(args)
    BY <1>1, <1>12 DEF ArgsAre
  <2>2. FormRight(Emit(Body(E, c), <<OP.NOP>>), c, args, GenAll(G, args, Here(c)) \o <<OP.NOP>>)
    BY <2>1, OtherRight
  <2> QED BY <1>1, <1>12, <2>2, Zenon DEF HeadIs, FormIs
<1> QED BY <1>2, <1>3, <1>4, <1>5, <1>6, <1>7, <1>8, <1>9, <1>10, <1>11, <1>12 DEF Special

\* An expression at which the compiler stands.
LEMMA ExprRight ==
    ASSUME SourceOK, NEW E, NEW G, NEW t \in Trees, NEW c \in State, c.pos > 0, IsExpr(t),
           Right(E, G, Below(t), c.pos), Reads(c.pos, Tokens[t])
    PROVE  CompileAt(E, c) = After(c, Len(Tokens[t]), GenAt(G, t, Here(c)))
<1>1. CASE IsAtom(t)
  <2>1. /\ AtomAt(c) = t[1] /\ SkipAtom(c) = Skip(c) /\ Len(Tokens[t]) = 1 /\ ~At(c, "(")
        /\ ~Ended(c)
    BY <1>1, TreeBegins
  <2>2. PICK code \in Seq(Byte) : code = Constant(t[1])
    BY ConstantType
  <2>3. CompileAt(E, c) = Emit(Skip(c), code)
    BY <2>1, <2>2, Zenon DEF CompileAt
  <2>4. Emit(Skip(c), code) = After(c, 1, code)
    BY SkipGoesOn DEF Emit, After
  <2>5. GenAt(G, t, Here(c)) = code
    BY <1>1, <2>2 DEF GenAt
  <2> QED BY <2>1, <2>3, <2>4, <2>5
<1>2. CASE ~IsAtom(t)
  <2>0. t[1] # "" /\ WellFormed(t[1], t[2]) /\ t[2] \in Seq(Below(t))
    BY <1>2, TreesAssumption DEF IsExpr
  <2>1. PICK p \in Nat : p = 0 /\ c \in Behind(p)
    BY StateIs DEF Behind
  <2>2. /\ Opens(p, c, t, Skip(Skip(c))) /\ AtomAt(Skip(c)) = t[1] /\ ~Ended(c)
    <3>1. t[1] # ""
      BY <2>0
    <3> QED BY <1>2, <2>1, <3>1, HeadBegins
  <2>3. PICK d : d = Skip(Skip(c)) /\ Here(d) = Here(c) /\ Listed(d.pos, t[2]) /\ At(c, "(")
    BY <2>2 DEF Opens
  <2>4. d \in Behind(c.pos)
    <3>1. PICK e \in State : e = Skip(c) /\ e.pos = c.pos + 1
      BY SkipGoesOn
    <3>2. d \in State /\ d.pos = e.pos + 1
      BY <2>3, <3>1, SkipGoesOn
    <3>3. c.pos \in Nat
      BY StateIs
    <3> QED BY <3>1, <3>2, <3>3 DEF Behind
  <2>5. PICK h : h = t[1] /\ h # ""
    BY <2>0
  <2>6. PICK args \in Seq(Below(t)) : args = t[2]
    BY <2>0
  <2>7. WellFormed(h, args) /\ Listed(d.pos, args)
    BY <2>0, <2>3, <2>5, <2>6
  <2>8. FormRight(CompileHead(E, h, d), d, args, GenForm(G, h, args, Here(d)))
    BY <2>4, <2>5, <2>7, HeadRight
  <2>9. PICK code \in Seq(Byte) : code = GenForm(G, h, args, Here(c))
    <3>1. Closed(Below(t)) /\ IsCode(G, Below(t)) /\ Here(c) \in Nat
      BY HereType DEF Right
    <3> QED BY <2>7, <3>1, GenFormType
  <2>10. SkipClose(CompileHead(E, h, d)) = After(c, Len(Tokens[t]), code)
    <3>1. FormRight(CompileHead(E, h, d), d, t[2], code)
      BY <2>3, <2>6, <2>8, <2>9
    <3> QED BY <2>2, <2>3, <3>1 DEF Opens
  <2>11. CompileAt(E, c) = SkipClose(CompileHead(E, h, d))
    BY <2>2, <2>3, <2>5, Zenon DEF CompileAt
  <2>12. GenAt(G, t, Here(c)) = code
    BY <1>2, <2>5, <2>6, <2>9, Zenon DEF GenAt
  <2> QED BY <2>10, <2>11, <2>12
<1> QED BY <1>1, <1>2

TreeRight(t) ==
    \A c \in State : c.pos > 0 /\ Reads(c.pos, Tokens[t])
                       => CompileExpr[c] = After(c, Len(Tokens[t]), Gen[t][Here(c)])

\* compile_expr makes of every expression the code of the grammar.
LEMMA CompileExprRight ==
    ASSUME SourceOK
    PROVE  \A t \in Trees : IsExpr(t) => TreeRight(t)
<1> DEFINE Good == {t \in Trees : IsExpr(t) => TreeRight(t)}
<1>1. ASSUME NEW t \in Trees, Below(t) \subseteq Good PROVE t \in Good
  <2> SUFFICES ASSUME IsExpr(t), NEW c \in State, c.pos > 0, Reads(c.pos, Tokens[t])
               PROVE  CompileExpr[c] = After(c, Len(Tokens[t]), Gen[t][Here(c)])
    BY DEF TreeRight
  <2>0. c.pos \in Nat /\ Here(c) \in Nat
    BY StateIs, HereType
  <2> DEFINE G == [s \in Below(t) |-> Gen[s]]
             E == Later(c)
  <2>1. \A s \in Below(t) : G[s] = Gen[s] /\ s \in Trees
    BY DEF Below
  <2>2. \A d \in Behind(c.pos) : E[d] = CompileExpr[d] /\ d \in State /\ d.pos > 0
    BY <2>0, StateIs DEF Later, Behind
  <2> HIDE DEF G, E
  <2>3. Closed(Below(t)) /\ IsCode(G, Below(t))
    BY <2>1, BelowClosed, GenType DEF IsCode
  <2>4. Consumes(E, c.pos)
    <3>1. ~Ended(c)
      <4>1. c \in Inside
        BY TreeBegins
      <4> QED BY <4>1 DEF Inside
    <3> QED BY <3>1, CompileExprGoesOn DEF E
  <2>5. ASSUME NEW d \in Behind(c.pos), Stands(d.pos, ")")
        PROVE  E[d] = Emit(d, <<OP.NOP>>)
    <3>1. d \in State /\ E[d] = CompileAt(Later(d), d)
      BY <2>2, CompileExprIs
    <3>2. ~Ended(d) /\ ~At(d, "(") /\ AtomAt(d) = "" /\ SkipAtom(d) = d
      BY <2>5, <3>1, StandsAt
    <3>3. Constant("") = <<OP.NOP>>
      BY BytesAssumption DEF Constant
    <3> QED BY <3>1, <3>2, <3>3, Zenon DEF CompileAt
  <2>6. ASSUME NEW d \in Behind(c.pos), NEW s \in Below(t), IsExpr(s), Reads(d.pos, Tokens[s])
        PROVE  E[d] = After(d, Len(Tokens[s]), G[s][Here(d)])
    <3>1. TreeRight(s)
      BY <1>1, <2>6
    <3> QED BY <2>1, <2>2, <2>6, <3>1 DEF TreeRight
  <2>7. Right(E, G, Below(t), c.pos)
    BY <2>0, <2>3, <2>4, <2>5, <2>6 DEF Right
  <2>8. CompileAt(E, c) = After(c, Len(Tokens[t]), GenAt(G, t, Here(c)))
    BY <2>7, ExprRight
  <2>9. CompileExpr[c] = CompileAt(E, c)
    BY CompileExprIs DEF E
  <2>10. Gen[t][Here(c)] = GenAt(G, t, Here(c))
    <3>1. Gen[t] = GenTree(G, t)
      BY GenAre DEF G
    <3> QED BY <2>0, <3>1 DEF GenTree
  <2> QED BY <2>8, <2>9, <2>10
<1> HIDE DEF Good
<1>2. Trees \subseteq Good
  BY <1>1, TreeInduction
<1> QED BY <1>2 DEF Good

-----------------------------------------------------------------------------
(* A whole source                                                          *)

\* The compiler stands before trees, the source ends behind them, and what it has
\* emitted is the code of the program but for theirs.
Left(trees) ==
    /\ trees \in Seq(Trees) /\ AreExprs(trees)
    /\ Reads(compiler.pos, AllTokens(Tokens, trees))
    /\ compiler.pos + Size(trees) = Len(source) + 1
    /\ compiler.buf \o GenAll(Gen, trees, Here(compiler)) = <<OP.HALT>> \o GenAll(Gen, program, 1)

\* CompiledAsGrammar is not inductive: it says nothing of a compiler half way.
ElboInv ==
    /\ phase \in {"compile", "run"}
    /\ compiler \in State /\ compiler.pos > 0
    /\ phase = "compile" => SourceOK /\ program \in Programs /\ \E trees : Left(trees)
    /\ CompiledAsGrammar

\* At the start the whole program is left and nothing is emitted.
LEMMA ElboStart == InitElbo => ElboInv
<1> SUFFICES ASSUME InitElbo PROVE ElboInv
  OBVIOUS
<1>1. compiler = [pos |-> 1, buf |-> <<OP.HALT>>] /\ compiler \in State /\ compiler.pos = 1
      /\ Here(compiler) = 1
  <2>1. <<OP.HALT>> \in Seq(Byte) /\ Len(<<OP.HALT>>) = 1
    BY DEF OP, Byte
  <2> QED BY <2>1 DEF InitElbo, State, Here
<1>2. CASE phase = "run" /\ program = <<>>
  BY <1>1, <1>2 DEF ElboInv, CompiledAsGrammar
<1>3. CASE program \in Programs /\ source = AllTokens(Tokens, program) /\ phase = "compile"
  <2>1. program \in Seq(Trees) /\ AreExprs(program)
    BY <1>3, ProgramsAssumption
  <2>2. SourceOK /\ Len(source) \in Nat
    <3>1. AllTokens(Tokens, program) \in Seq(Token)
      BY <2>1, AllTokensFirst
    <3> QED BY <1>3, <3>1 DEF SourceOK
  <2>3. Reads(1, source)
    <3>1. \A i \in 1 .. Len(source) : 1 + i - 1 = i /\ i <= Len(source)
      BY <2>2
    <3> QED BY <3>1 DEF Reads, Stands
  <2>4. 1 + Size(program) = Len(source) + 1
    BY <1>3, <2>2 DEF Size
  <2>5. compiler.buf = <<OP.HALT>>
    BY <1>1
  <2>6. Left(program)
    BY <1>1, <1>3, <2>1, <2>3, <2>4, <2>5, Zenon DEF Left
  <2> QED BY <1>1, <1>3, <2>1, <2>2, <2>6 DEF ElboInv, CompiledAsGrammar
<1> QED BY <1>2, <1>3 DEF InitElbo

\* The end of the source is the end of the program.
LEMMA NoneLeft ==
    ASSUME SourceOK, compiler \in State, compiler.pos > 0, NEW trees, Left(trees)
    PROVE  /\ trees = <<>> <=> Ended(compiler)
           /\ trees # <<>> => compiler \in Inside /\ Reads(compiler.pos, Tokens[trees[1]])
<1>0. /\ compiler.pos \in Nat /\ Len(source) \in Nat /\ trees \in Seq(Trees)
      /\ Reads(compiler.pos, AllTokens(Tokens, trees))
      /\ compiler.pos + Size(trees) = Len(source) + 1
  BY StateIs DEF SourceOK, Left
<1>1. CASE trees = <<>>
  <2>1. AllTokens(Tokens, trees) = <<>>
    BY <1>0, <1>1, AllTokensFirst
  <2>2. Size(trees) = 0
    BY <2>1 DEF Size
  <2>3. Ended(compiler)
    BY <1>0, <2>2 DEF Ended
  <2> QED BY <1>1, <2>3
<1>2. CASE trees # <<>>
  <2>1. trees[1] \in Trees /\ Rest(trees) \in Seq(Trees)
    BY <1>0, <1>2, RestIs
  <2>2. PICK a \in Seq(Token) : a = Tokens[trees[1]]
    BY <2>1, TokensType
  <2>3. PICK b \in Seq(Token) : b = AllTokens(Tokens, Rest(trees))
    BY <2>1, AllTokensFirst
  <2>4. AllTokens(Tokens, trees) = a \o b
    BY <1>0, <1>2, <2>2, <2>3, AllTokensFirst
  <2>5. Reads(compiler.pos, Tokens[trees[1]])
    BY <1>0, <2>2, <2>4, ReadsJoined
  <2>6. compiler \in Inside
    BY <2>1, <2>5, TreeBegins
  <2> QED BY <1>2, <2>5, <2>6 DEF Inside
<1> QED BY <1>1, <1>2

\* A turn of the loop compiles the next form, whole.
LEMMA FormStep == ElboInv /\ CompileForm => ElboInv' /\ compiler'.pos > compiler.pos
<1> SUFFICES ASSUME ElboInv, CompileForm PROVE ElboInv' /\ compiler'.pos > compiler.pos
  OBVIOUS
<1>1. /\ SourceOK /\ compiler \in State /\ compiler.pos > 0 /\ phase = "compile"
      /\ ~Ended(compiler) /\ compiler' = CompileExpr[compiler]
      /\ program' = program /\ source' = source /\ phase' = phase /\ program \in Seq(Trees)
  BY ProgramsAssumption DEF CompileForm, ElboInv
<1>2. PICK trees : Left(trees)
  BY <1>1 DEF ElboInv
<1>3. trees \in Seq(Trees) /\ trees # <<>> /\ compiler \in Inside
      /\ Reads(compiler.pos, Tokens[trees[1]])
  BY <1>1, <1>2, NoneLeft DEF Left
<1>4. PICK c \in State : c = compiler /\ c.pos \in Nat /\ c.pos > 0 /\ Here(c) \in Nat
  BY <1>1, StateIs, HereType
<1>5. PICK t \in Trees : t = trees[1]
  BY <1>3, RestIs
<1>6. PICK rest \in Seq(Trees) : rest = Rest(trees)
  BY <1>3, RestIs
<1>7. IsExpr(t) /\ AreExprs(rest)
  <2>1. AreExprs(trees)
    BY <1>2 DEF Left
  <2> QED BY <1>3, <1>5, <1>6, <2>1, ExprsRest
<1>8. PICK a \in Seq(Token) : a = Tokens[t] /\ Len(a) \in Nat
  BY TokensType
<1>9. PICK b \in Seq(Token) : b = AllTokens(Tokens, rest) /\ Len(b) \in Nat
  BY AllTokensFirst
<1>10. AllTokens(Tokens, trees) = a \o b
  BY <1>3, <1>5, <1>6, <1>8, <1>9, AllTokensFirst
<1>11. PICK code \in Seq(Byte) : code = Gen[t][Here(c)]
  <2>1. Gen[t] \in [Nat -> Seq(Byte)]
    BY GenType DEF IsCode
  <2> QED BY <1>4, <2>1
<1>12. compiler' = After(c, Len(a), code)
  <2>1. TreeRight(t)
    BY <1>1, <1>7, CompileExprRight
  <2> QED BY <1>1, <1>3, <1>4, <1>5, <1>8, <1>11, <2>1 DEF TreeRight
<1>13. PICK d \in State : d = compiler' /\ d.pos = c.pos + Len(a) /\ d.buf = c.buf \o code
                          /\ Here(d) = Here(c) + Len(code)
  <2>0. PICK p \in Nat : p = 0 /\ c \in Behind(p)
    BY <1>4 DEF Behind
  <2>1. AfterIs(c, Len(a), code, p)
    BY <1>8, <2>0, AfterType
  <2>2. After(c, Len(a), code).buf = c.buf \o code
    BY DEF After
  <2> QED BY <1>12, <2>1, <2>2 DEF AfterIs
<1>14. d.pos > c.pos
  <2>1. CompileExpr[c].pos > c.pos
    BY <1>1, <1>3, <1>4, CompileExprGoesOn
  <2> QED BY <1>1, <1>4, <1>13, <2>1
<1>15. Reads(d.pos, b)
  <2>1. Reads(c.pos, a \o b)
    BY <1>2, <1>4, <1>10 DEF Left
  <2> QED BY <1>4, <1>13, <2>1, ReadsJoined
<1>16. d.pos + Size(rest) = Len(source) + 1
  <2>1. Size(rest) = Len(b) /\ Size(trees) = Len(a) + Len(b)
    BY <1>9, <1>10, Joined DEF Size
  <2>2. c.pos + Size(trees) = Len(source) + 1
    BY <1>2, <1>4 DEF Left
  <2>3. \A i, j, k \in Nat : i + (j + k) = (i + j) + k
    OBVIOUS
  <2>4. c.pos + (Len(a) + Len(b)) = (c.pos + Len(a)) + Len(b)
    BY <1>4, <1>8, <1>9, <2>3
  <2> QED BY <1>13, <2>1, <2>2, <2>4
<1>17. d.buf \o GenAll(Gen, rest, Here(d)) = <<OP.HALT>> \o GenAll(Gen, program, 1)
  <2>1. PICK g \in Seq(Byte) : g = GenAll(Gen, rest, Here(d))
    BY GenType, HereType, GenAllType
  <2>2. GenAll(Gen, trees, Here(c)) = code \o g
    <3>1. AllFirst(Gen, trees, Here(c))
      BY <1>3, <1>4, GenType, GenAllFirst
    <3> QED BY <1>5, <1>6, <1>11, <1>13, <2>1, <3>1 DEF AllFirst
  <2>3. c.buf \o (code \o g) = <<OP.HALT>> \o GenAll(Gen, program, 1)
    BY <1>2, <1>4, <2>2 DEF Left
  <2>4. (c.buf \o code) \o g = c.buf \o (code \o g)
    <3>1. c.buf \in Seq(Byte)
      BY StateIs
    <3> QED BY <3>1, Assoc, Zenon DEF Associates
  <2> QED BY <1>13, <2>1, <2>3, <2>4
<1>18. Left(rest)'
  <2>1. Reads(compiler.pos, AllTokens(Tokens, rest))'
    BY <1>1, <1>9, <1>13, <1>15 DEF Reads, Stands
  <2>2. (compiler.pos + Size(rest) = Len(source) + 1)'
    BY <1>1, <1>13, <1>16
  <2>3. (compiler.buf \o GenAll(Gen, rest, Here(compiler)) = <<OP.HALT>> \o GenAll(Gen, program, 1))'
    BY <1>1, <1>13, <1>17 DEF Here
  <2> QED BY <1>7, <2>1, <2>2, <2>3 DEF Left
<1>19. d.pos > 0
  BY <1>4, <1>14, StateIs
<1>20. SourceOK' /\ CompiledAsGrammar'
  BY <1>1 DEF SourceOK, CompiledAsGrammar
<1> QED BY <1>1, <1>4, <1>13, <1>14, <1>18, <1>19, <1>20 DEF ElboInv

\* The file between compiler and kernel loses nothing.
LEMMA FileKeeps ==
    ASSUME NEW buf \in Seq(Byte)
    PROVE  /\ Compiled(buf) \in Package /\ ElmLoadFile(ElmSave(Compiled(buf))) = Compiled(buf)
           /\ Compiled(buf).code = buf \o <<OP.HALT, OP.HALT>>
<1>1. PICK code \in Seq(Byte) : code = buf \o <<OP.HALT, OP.HALT>>
  <2>1. PICK halts \in Seq(Byte) : halts = <<OP.HALT, OP.HALT>>
    <3>1. <<OP.HALT, OP.HALT>> \in Seq(Byte)
      BY DEF OP, Byte
    <3> QED BY <3>1
  <2> QED BY <2>1, Joined
<1>2. SubSeq(code, 1, Len(code)) = code
  OBVIOUS
<1>3. Compiled(buf) = [name |-> TypeName, code |-> code, ep_init |-> 0, ep_on_message |-> 1,
                       ep_on_gc |-> Len(buf) + 1]
  BY <1>1 DEF Compiled
<1>4. Compiled(buf) \in Package
  <2>1. code \in Seq(0 .. 255)
    BY <1>1 DEF Byte
  <2>2. Len(buf) + 1 \in Nat /\ 0 \in Nat /\ 1 \in Nat
    OBVIOUS
  <2>3. PICK s \in Seq(0 .. 255), e \in Nat : s = code /\ e = Len(buf) + 1
    BY <2>1, <2>2
  <2>4. TypeName \in STRING
    BY BytesAssumption
  <2> QED BY <1>3, <2>2, <2>3, <2>4 DEF Package
<1>5. ElmLoadFile(ElmSave(Compiled(buf))) = Compiled(buf)
  BY <1>2, <1>3 DEF ElmLoadFile, ElmSave
<1> QED BY <1>1, <1>3, <1>4, <1>5

\* With no source left the code is the grammar's, and the file keeps it.
LEMMA EndStep == ElboInv /\ CompileEnd => ElboInv'
<1> SUFFICES ASSUME ElboInv, CompileEnd PROVE ElboInv'
  OBVIOUS
<1>1. /\ SourceOK /\ compiler \in State /\ compiler.pos > 0 /\ program \in Programs
      /\ Ended(compiler) /\ pkg' = ElmLoadFile(ElmSave(Compiled(compiler.buf)))
      /\ phase' = "run" /\ compiler' = compiler /\ program' = program
  BY DEF CompileEnd, ElboInv
<1>2. PICK trees : Left(trees)
  BY DEF CompileEnd, ElboInv
<1>3. trees = <<>>
  BY <1>1, <1>2, NoneLeft
<1>4. compiler.buf \in Seq(Byte) /\ Here(compiler) \in Nat
  BY <1>1, StateIs, HereType
<1>5. compiler.buf = <<OP.HALT>> \o GenAll(Gen, program, 1)
  <2>1. trees \in Seq(Trees)
    BY <1>2 DEF Left
  <2>2. GenAll(Gen, trees, Here(compiler)) = <<>>
    BY <1>3, <1>4, <2>1, GenType, GenAllFirst
  <2>3. compiler.buf \o <<>> = compiler.buf
    BY <1>4
  <2>4. compiler.buf \o GenAll(Gen, trees, Here(compiler)) = <<OP.HALT>> \o GenAll(Gen, program, 1)
    BY <1>2 DEF Left
  <2> QED BY <2>2, <2>3, <2>4
<1>6. pkg'.code = compiler.buf \o <<OP.HALT, OP.HALT>>
  BY <1>1, <1>4, FileKeeps
<1>7. GenAll(Gen, program, 1) \in Seq(Byte)
  BY <1>1, ProgramsAssumption, GenType, GenAllType, 1 \in Nat
<1>7a. OP.HALT \in Byte
  BY DEF OP, Byte
<1>8. (<<OP.HALT>> \o GenAll(Gen, program, 1)) \o <<OP.HALT, OP.HALT>>
        = <<OP.HALT>> \o GenAll(Gen, program, 1) \o <<OP.HALT, OP.HALT>>
  OBVIOUS
<1>9. CompiledAsGrammar'
  BY <1>1, <1>5, <1>6, <1>8 DEF CompiledAsGrammar, Grammatical
<1> QED BY <1>1, <1>9 DEF ElboInv

\* The VM leaves its package alone.
LEMMA RunStep == ElboInv /\ (RunElbo(Next) \/ UNCHANGED elboVars) => ElboInv'
<1> SUFFICES ASSUME ElboInv, RunElbo(Next) \/ UNCHANGED elboVars PROVE ElboInv'
  OBVIOUS
<1>1. CASE RunElbo(Next)
  <2>1. /\ program' = program /\ source' = source /\ compiler' = compiler /\ phase' = phase
        /\ phase = "run" /\ Next
    BY <1>1 DEF RunElbo
  <2>2. pkg' = pkg
    BY <2>1 DEF Next, Run, Others, Instruction, ExecInit, ExecMsg, Halt, Deliver, SetTv, Attend,
       Preload, Announced, Taken, PoolLock, Nop, Jump, Arith, Branch, Call, Ret, Load, Store, Push, Pop, Send, Recv, Spawn,
       EcanSpread, EcanSend, GetTv, SetTvFromRegs, GetSti, SetSti, Pln
  <2>3. CompiledAsGrammar'
    BY <2>1, <2>2 DEF ElboInv, CompiledAsGrammar
  <2> QED BY <2>1, <2>3 DEF ElboInv
<1>2. CASE UNCHANGED elboVars
  <2>1. /\ program' = program /\ source' = source /\ compiler' = compiler /\ phase' = phase
        /\ pkg' = pkg
    BY <1>2 DEF elboVars, vars
  <2>2. CompiledAsGrammar' /\ SourceOK' = SourceOK
    BY <2>1 DEF ElboInv, CompiledAsGrammar, SourceOK
  <2>3. \A trees : Left(trees)' <=> Left(trees)
    BY <2>1 DEF Left, Reads, Stands, Here
  <2> QED BY <2>1, <2>2, <2>3 DEF ElboInv
<1> QED BY <1>1, <1>2

\* Every step keeps ElboInv, and every turn of the compiler consumes.
LEMMA ElboStep ==
    ElboInv /\ [NextElbo]_elboVars =>
        ElboInv' /\ (phase = "compile" /\ compiler' # compiler => compiler'.pos > compiler.pos)
<1> SUFFICES ASSUME ElboInv, [NextElbo]_elboVars
    PROVE ElboInv' /\ (phase = "compile" /\ compiler' # compiler => compiler'.pos > compiler.pos)
  OBVIOUS
<1>1. CASE CompileForm
  BY <1>1, FormStep
<1>2. CASE CompileEnd
  BY <1>2, EndStep DEF CompileEnd
<1>3. CASE RunElbo(Next) \/ UNCHANGED elboVars
  <2>1. compiler' = compiler
    BY <1>3 DEF RunElbo, elboVars
  <2> QED BY <1>3, <2>1, RunStep
<1> QED BY <1>1, <1>2, <1>3 DEF NextElbo
-----------------------------------------------------------------------------
\* elbo_compile and elbo_compile_file make of every program of the grammar, however
\* long and however deeply nested, the code the grammar gives it.
THEOREM ProgramsCompile == SpecElbo => []CompiledAsGrammar
<1>1. ElboInv => CompiledAsGrammar
  BY DEF ElboInv
<1> QED BY <1>1, ElboStart, ElboStep, PTL DEF SpecElbo

\* Every turn of the loop of elbo_compile consumes a token.
THEOREM TurnsConsume == SpecElbo => FormsConsume
<1>1. ElboInv /\ [NextElbo]_elboVars
        => [phase = "compile" /\ compiler' # compiler => compiler'.pos > compiler.pos]_elboVars
  BY ElboStep
<1> QED BY <1>1, ElboStart, ElboStep, PTL DEF SpecElbo, FormsConsume
-----------------------------------------------------------------------------
(* The VM and the compiler                                                 *)

\* Of a builtin package IInv holds, of the others the types; while the compiler
\* runs, the VM does not.
VmInv ==
    /\ TypeOK
    /\ phase = "compile" => status = "idle"
    /\ pkg \in Packages => StaysInSection /\ StillRead

\* The VM is idle at the start.
LEMMA VmStart == InitElbo => VmInv
<1> SUFFICES ASSUME InitElbo PROVE VmInv
  OBVIOUS
<1>1. pkg \in Package
  <2>1. <<OP.HALT>> \in Seq(Byte)
    BY DEF OP, Byte
  <2>2. Compiled(<<OP.HALT>>) \in Package
    BY <2>1, FileKeeps
  <2> QED BY <2>2, PackagesAssumption DEF InitElbo
<1>2. TypeOK /\ status = "idle"
  BY <1>1, InitTypes DEF InitElbo, InitVm
<1> QED BY <1>2 DEF VmInv, StaysInSection, StillRead, Running

\* The VM's invariant, with compiled packages beside the straight ones.
LEMMA VmStep ==
    ElboInv /\ VmInv /\ [NextElbo]_elboVars
        => VmInv' /\ (Running /\ pkg \in Packages => tv' = tv)
<1> SUFFICES ASSUME ElboInv, VmInv, [NextElbo]_elboVars
             PROVE  VmInv' /\ (Running /\ pkg \in Packages => tv' = tv)
  OBVIOUS
<1>0. TypeOK
  BY DEF VmInv
<1>1. CASE [Next]_vars /\ phase' = phase /\ (phase = "run" \/ UNCHANGED vars)
  <2>1. TypeOK' /\ pkg' = pkg
    BY <1>0, <1>1, TypeStep
  <2>2. pkg \in Packages => IInv' /\ (Running => tv' = tv)
    BY <1>1, IInvStep DEF VmInv, IInv
  <2>3. phase' = "compile" => status' = "idle"
    BY <1>1 DEF VmInv, vars, vm
  <2> QED BY <2>1, <2>2, <2>3 DEF VmInv, IInv
<1>2. CASE CompileForm
  <2>1. UNCHANGED vars /\ phase' = phase
    BY <1>2 DEF CompileForm
  <2> QED BY <1>1, <2>1
<1>3. CASE CompileEnd
  <2>1. status = "idle" /\ compiler.buf \in Seq(Byte)
    BY <1>3, StateIs DEF CompileEnd, VmInv, ElboInv
  <2>2. pkg' \in Package
    BY <1>3, <2>1, FileKeeps DEF CompileEnd
  <2>3. UNCHANGED <<status, regs, stack, heap, atom, world>> /\ pc' = 0 /\ phase' = "run"
    BY <1>3 DEF CompileEnd
  <2>4. TypeOK'
    BY <1>0, <2>2, <2>3 DEF TypeOK, ControlOK, RegsOK, StackOK, HeapOK, AtomOK, InboxOK,
       OutgoingOK, BoundsOK, atom, world, outgoing
  <2> QED BY <2>1, <2>3, <2>4 DEF VmInv, StaysInSection, StillRead, Running
<1>4. CASE RunElbo(Next)
  BY <1>1, <1>4 DEF RunElbo
<1>5. CASE UNCHANGED elboVars
  BY <1>1, <1>5 DEF elboVars
<1> QED BY <1>2, <1>3, <1>4, <1>5 DEF NextElbo

\* Whatever program is compiled, with jumps, calls and returns of any depth, its
\* stack never outgrows the array disvm_init allocated, and the address check of
\* OP_LOAD and OP_STORE cannot wrap.
THEOREM CompiledTypeCorrect == SpecElbo => []TypeOK
<1>1. VmInv => TypeOK
  BY DEF VmInv
<1> QED BY <1>1, ElboStart, ElboStep, VmStart, VmStep, PTL DEF SpecElbo

\* An atom of a builtin package keeps its truth value also beside the compiler.
THEOREM TvIsKeptElbo == SpecElbo => PackagesKeepTv
<1>1. ElboInv /\ VmInv /\ [NextElbo]_elboVars => [Running /\ pkg \in Packages => tv' = tv]_vars
  BY VmStep
<1> QED BY <1>1, ElboStart, ElboStep, VmStart, VmStep, PTL DEF SpecElbo, PackagesKeepTv

=============================================================================
