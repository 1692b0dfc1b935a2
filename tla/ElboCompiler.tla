---------------------------- MODULE ElboCompiler ----------------------------
(***************************************************************************)
(* elbo_compile (src/src/elbo/elbo_compiler.c) and the VM that runs what   *)
(* it makes: a source is compiled one top-level form per step, the package *)
(* goes through a file (elbo_compile_file, cogdiod_load_package) and the   *)
(* VM of DisVM runs it.                                                    *)
(*                                                                         *)
(* A source is the sequence of its tokens: parentheses and atoms, without  *)
(* blanks and comments.  Literal gives the four bytes of each atom that    *)
(* reads as a number, Offset the value of each atom strtoull converts.     *)
(* The compiler's state c is the place of the next token, c.pos, and the   *)
(* ByteBuffer c.buf, whose offset of the next byte is Len(c.buf).  A list  *)
(* of parameters holds atoms only.  A 63-character limit on atoms, the     *)
(* failure of realloc, and offsets of 2^32 and more are left out.          *)
(*                                                                         *)
(* A program is a list of trees, which its tokens spell: an atom is <<a>>, *)
(* a form <<head, list of trees>>, "" being the head of a list of          *)
(* bindings, clauses or parameters.                                        *)
(***************************************************************************)
EXTENDS DisVM

CONSTANTS
    Trees,          \* the programs' trees and all that is part of them
    Depth,          \* how deep the forms in a tree are nested
    MaxDepth,
    Programs,       \* the programs compiled
    Literal,        \* number atom -> its 4 bytes, least significant first
    Offset,         \* atom -> the value strtoull gives it
    MaxClauses,     \* ELBO_MAX_COND_CLAUSES
    TypeName,       \* what elbo_compile_file makes of the file's name
    MaxBytes        \* bound on the bytes compiled

VARIABLES
    program,    \* the source compiled, as a list of trees
    source,     \* and as tokens
    compiler,   \* the Lexer and the ByteBuffer: [pos, buf]
    phase       \* "compile", then "run"

elboVars == <<vars, program, source, compiler, phase>>
-----------------------------------------------------------------------------
(* Lexer and emitter                                                       *)

Byte == 0..255
State == [pos : Nat, buf : Seq(Byte)]

Ended(c) == c.pos > Len(source)
At(c, token) == ~Ended(c) /\ source[c.pos] = token
\* lex_atom: "" at a parenthesis or at the end.
AtomAt(c) == IF Ended(c) \/ At(c, "(") \/ At(c, ")") THEN "" ELSE source[c.pos]
Skip(c) == [pos |-> c.pos + 1, buf |-> c.buf]
SkipAtom(c) == IF AtomAt(c) = "" THEN c ELSE Skip(c)
\* Mutant: the closing parenthesis of a form stays.
SkipNothing(c) == c
SkipClose(c) == IF At(c, ")") THEN Skip(c) ELSE c

Emit(c, bytes) == [pos |-> c.pos, buf |-> c.buf \o bytes]
U64(v) == <<v % 256, (v \div 256) % 256, (v \div 65536) % 256, (v \div 16777216) % 256, 0, 0, 0, 0>>
JumpTo(op, to) == <<OP[op]>> \o U64(to)
\* bb_patch_u64 at the offsets of operands emitted before.
Covering(offsets, i) == {o \in offsets : i \in (o + 1)..(o + 8)}
Only(S) == CHOOSE x \in S : TRUE
Patch(c, offsets, v) ==
    [pos |-> c.pos,
     buf |-> [i \in 1..Len(c.buf) |->
        LET over == Covering(offsets, i)
        IN IF over = {} THEN c.buf[i] ELSE U64(v)[i - Only(over)]]]
Here(c) == Len(c.buf)
OffsetOf(a) == IF a \in DOMAIN Offset THEN Offset[a] ELSE 0

\* The forms that compile their arguments and emit one opcode: [args, op].
Plain(n, op) == [args |-> n, op |-> op]
Forms == [halt |-> Plain(0, "HALT"), nop |-> Plain(0, "NOP"),
    get_tv |-> Plain(0, "GET_TV"), set_tv |-> Plain(2, "SET_TV"),
    get_sti |-> Plain(0, "GET_STI"), set_sti |-> Plain(1, "SET_STI"),
    pln_ded |-> Plain(4, "PLN_DED"), pln_rev |-> Plain(4, "PLN_REV"),
    pln_abd |-> Plain(6, "PLN_ABD"), pln_ind |-> Plain(4, "PLN_IND"),
    pln_tmp |-> Plain(6, "PLN_TMP"), ecan_sp |-> Plain(0, "ECAN_SP"),
    send |-> Plain(1, "SEND"), recv |-> Plain(0, "RECV"), spawn |-> Plain(0, "SPAWN"),
    add |-> Plain(2, "ADD"), sub |-> Plain(2, "SUB"), mul |-> Plain(2, "MUL"),
    div |-> Plain(2, "DIV"), ret |-> Plain(0, "RET"), push |-> Plain(0, "PUSH"),
    pop |-> Plain(0, "POP")]
-----------------------------------------------------------------------------
(* compile_expr and compile_list.  E stands for compile_expr, as a         *)
(* function on the states behind the one where the list began.             *)

\* while (x is in more) x = body(x)
While(more, body) ==
    LET loop[x \in DOMAIN body] == IF x \in more THEN loop[body[x]] ELSE x IN loop

\* n expressions.
Exprs(E, n, c) ==
    While({x \in State \X (0..n) : x[2] > 0},
          [x \in (DOMAIN E) \X (0..n) |-> <<E[x[1]], x[2] - 1>>])[<<c, n>>][1]

\* Expressions up to the closing parenthesis.
Inside == {d \in State : ~Ended(d) /\ ~At(d, ")")}
Body(E, c) == While(Inside, E)[c]

AtWord == {d \in State : AtomAt(d) # ""}
SkipParameters(c) ==
    IF At(c, "(") THEN SkipClose(While(AtWord, [d \in State |-> Skip(d)])[Skip(c)]) ELSE c

\* A forward jump over the expressions that follow: op, operand, the operand
\* patched behind them.
Over(E, c, op) ==
    LET d == Body(E, Emit(c, JumpTo(op, 0))) IN Patch(d, {Here(c) + 1}, Here(d))

\* Mutant: the else address is patched before the jump over it is emitted.
CompileIfPatchedEarly(E, c) ==
    LET test == E[c]
        then == E[Emit(test, JumpTo("JEQ", 0))]
        jump == Emit(Patch(then, {Here(test) + 1}, Here(then)), JumpTo("JMP", 0))
        else == E[jump]
    IN Patch(else, {Here(then) + 1}, Here(else))

CompileIf(E, c) ==
    LET test == E[c]
        then == E[Emit(test, JumpTo("JEQ", 0))]
        jump == Emit(then, JumpTo("JMP", 0))
        else == E[Patch(jump, {Here(test) + 1}, Here(jump))]
    IN Patch(else, {Here(then) + 1}, Here(else))

\* What is left of a cond, past its closing parenthesis.
SkipRest(c) ==
    While({x \in State \X Nat : x[2] > 0 /\ ~Ended(x[1])},
          [x \in State \X Nat |->
              <<Skip(x[1]), IF At(x[1], "(") THEN x[2] + 1
                            ELSE IF At(x[1], ")") THEN x[2] - 1 ELSE x[2]>>])[<<c, 1>>][1]

\* A clause of a cond; ends are the operands of the jumps to its end, and go
\* says whether the loop was left.  The clause after the MaxClauses-th keeps its
\* jump to address 0.
Clause(E, x) ==
    LET c == Skip(x.c)
        test == E[c]
        body == Body(E, Emit(test, JumpTo("JEQ", 0)))
        jump == Emit(body, JumpTo("JMP", 0))
    IN IF AtomAt(c) = "else"
         THEN [c |-> SkipClose(Body(E, SkipAtom(c))), ends |-> x.ends, go |-> FALSE]
       ELSE IF Len(x.ends) < MaxClauses
         THEN [c |-> SkipClose(Patch(jump, {Here(test) + 1}, Here(jump))),
               ends |-> Append(x.ends, Here(body) + 1), go |-> TRUE]
       ELSE [c |-> SkipRest(SkipClose(body)), ends |-> x.ends, go |-> FALSE]

Clauses(S) == [c : S, ends : Seq(Nat), go : BOOLEAN]
CompileCond(E, c) ==
    LET r == While({x \in Clauses(State) : x.go /\ At(x.c, "(")},
                   [x \in Clauses(DOMAIN E) |-> Clause(E, x)])[[c |-> c, ends |-> <<>>, go |-> TRUE]]
    IN Patch(r.c, {r.ends[i] : i \in DOMAIN r.ends}, Here(r.c))

AtOpen == {d \in State : At(d, "(")}
Binding(E, d) == SkipClose(Emit(E[SkipAtom(Skip(d))], <<OP.STORE>>))
Bindings(E, c) == While(AtOpen, [d \in DOMAIN E |-> Binding(E, d)])[c]

CompileLet(E, c) ==
    Body(E, IF At(c, "(") THEN SkipClose(Bindings(E, Skip(c))) ELSE c)

\* What is done for the head h, c being past it.
CompileHead(E, h, c) ==
    CASE h \in DOMAIN Forms -> Emit(Exprs(E, Forms[h].args, c), <<OP[Forms[h].op]>>)
      [] h = "jmp" -> Emit(SkipAtom(c), JumpTo("JMP", OffsetOf(AtomAt(c))))
      [] h = "call" -> Emit(SkipAtom(c), JumpTo("CALL", OffsetOf(AtomAt(c))))
      [] h = "if" -> CompileIf(E, c)
      [] h = "when" -> Over(E, E[c], "JEQ")
      [] h = "unless" -> Over(E, E[c], "JNE")
      [] h = "cond" -> CompileCond(E, c)
      [] h = "let" -> CompileLet(E, c)
      [] h = "define" -> Emit(E[SkipAtom(c)], <<OP.STORE>>)
      [] h \in {"fn", "lambda"} -> Emit(Body(E, SkipParameters(c)), <<OP.RET>>)
      [] h = "defun" -> Emit(Body(E, SkipParameters(SkipAtom(c))), <<OP.RET>>)
      [] h = "elbo_module" -> Body(E, SkipAtom(c))
      [] OTHER -> Emit(Body(E, c), <<OP.NOP>>)

Constant(a) == IF a \in DOMAIN Literal THEN <<OP.LOAD>> \o Literal[a] ELSE <<OP.NOP>>
\* An atom at a closing parenthesis is empty: an OP_NOP, and no progress.
CompileAt(E, c) ==
    IF Ended(c) THEN c
    ELSE IF ~At(c, "(") THEN Emit(SkipAtom(c), Constant(AtomAt(c)))
    ELSE IF AtomAt(Skip(c)) = "" THEN Skip(c)
    ELSE SkipClose(CompileHead(E, AtomAt(Skip(c)), Skip(Skip(c))))

Behind(p) == {d \in State : d.pos > p}
CompileExpr[c \in State] == CompileAt([d \in Behind(c.pos) |-> CompileExpr[d]], c)
-----------------------------------------------------------------------------
(* The source and the bytecode of a tree: the grammar.  G stands for Gen,  *)
(* on the trees that are part of one: G[t][at] is the code of t at at.     *)

\* n pieces one behind the other, the first at address at.
Prefixes(n, piece, at) ==
    LET upTo[i \in 0..n] ==
            IF i = 0 THEN <<>> ELSE upTo[i - 1] \o piece[i][at + Len(upTo[i - 1])]
    IN upTo
Concat(n, piece, at) == Prefixes(n, piece, at)[n]

IsAtom(t) == t = <<t[1]>>
Below(t) == {s \in Trees : Depth[s] < Depth[t]}

Spelt(T, trees) == [i \in 1..Len(trees) |-> [a \in Nat |-> T[trees[i]]]]
AllTokens(T, trees) == Concat(Len(trees), Spelt(T, trees), 0)
TokensAt(T, t) ==
    IF IsAtom(t) THEN <<t[1]>>
    ELSE <<"(">> \o (IF t[1] = "" THEN <<>> ELSE <<t[1]>>) \o AllTokens(T, t[2]) \o <<")">>
Tokens[t \in Trees] == TokensAt([s \in Below(t) |-> Tokens[s]], t)

Rest(args) == SubSeq(args, 2, Len(args))
GenAll(G, trees, at) == Concat(Len(trees), [i \in 1..Len(trees) |-> G[trees[i]]], at)

\* The i-th argument: an OP_NOP where there is none.
GenArg(G, args, i, at) == IF i <= Len(args) THEN G[args[i]][at] ELSE <<OP.NOP>>
GenArgs(G, n, args, at) ==
    Concat(n, [i \in 1..n |-> [a \in Nat |-> GenArg(G, args, i, a)]], at)

\* The first argument, and the others jumped over on it.
GenGuarded(G, op, args, at) ==
    LET test == GenArg(G, args, 1, at)
        body == GenAll(G, Rest(args), at + Len(test) + 9)
    IN test \o JumpTo(op, at + Len(test) + 9 + Len(body)) \o body

GenIf(G, args, at) ==
    LET test == GenArg(G, args, 1, at)
        then == GenArg(G, args, 2, at + Len(test) + 9)
        other == at + Len(test) + Len(then) + 18
        else == GenArg(G, args, 3, other)
    IN test \o JumpTo("JEQ", other) \o then \o JumpTo("JMP", other + Len(else)) \o else

GenClause(G, clause, at, end) ==
    LET test == GenArg(G, clause[2], 1, at)
        body == GenAll(G, Rest(clause[2]), at + Len(test) + 9)
        next == at + Len(test) + Len(body) + 18
    IN IF clause[1] = "else" THEN GenAll(G, clause[2], at)
       ELSE test \o JumpTo("JEQ", next) \o body \o JumpTo("JMP", end)
GenClauses(G, clauses, at, end) ==
    Concat(Len(clauses),
           [i \in 1..Len(clauses) |-> [a \in Nat |-> GenClause(G, clauses[i], a, end)]], at)

GenBindings(G, bindings, at) ==
    Concat(Len(bindings), [i \in 1..Len(bindings) |->
        [a \in Nat |-> GenArg(G, bindings[i][2], 1, a) \o <<OP.STORE>>]], at)

GenForm(G, h, args, at) ==
    CASE h \in DOMAIN Forms -> GenArgs(G, Forms[h].args, args, at) \o <<OP[Forms[h].op]>>
      [] h = "jmp" -> JumpTo("JMP", OffsetOf(args[1][1]))
      [] h = "call" -> JumpTo("CALL", OffsetOf(args[1][1]))
      [] h = "if" -> GenIf(G, args, at)
      [] h = "when" -> GenGuarded(G, "JEQ", args, at)
      [] h = "unless" -> GenGuarded(G, "JNE", args, at)
      [] h = "cond" -> GenClauses(G, args, at, at + Len(GenClauses(G, args, at, 0)))
      [] h = "let" -> LET b == GenBindings(G, args[1][2], at) IN
                        b \o GenAll(G, Rest(args), at + Len(b))
      [] h = "define" -> GenArg(G, args, 2, at) \o <<OP.STORE>>
      [] h \in {"fn", "lambda"} -> GenAll(G, Rest(args), at) \o <<OP.RET>>
      [] h = "defun" -> GenAll(G, Rest(Rest(args)), at) \o <<OP.RET>>
      [] h = "elbo_module" -> GenAll(G, Rest(args), at)
      [] OTHER -> GenAll(G, args, at) \o <<OP.NOP>>
GenAt(G, t, at) == IF IsAtom(t) THEN Constant(t[1]) ELSE GenForm(G, t[1], t[2], at)
GenTree(G, t) == [at \in Nat |-> GenAt(G, t, at)]
Gen[t \in Trees] == GenTree([s \in Below(t) |-> Gen[s]], t)

\* Which trees the grammar has: an expression has a head, a form no more arguments
\* than its head takes, and lists are where they belong.
IsExpr(t) == t[1] # ""
AreExprs(trees) == \A i \in DOMAIN trees : IsExpr(trees[i])
IsList(t) == ~IsAtom(t) /\ t[1] = ""
AreParameters(t) == IsList(t) /\ \A i \in DOMAIN t[2] : IsAtom(t[2][i])
IsBinding(t) == ~IsAtom(t) /\ t[1] # "" /\ Len(t[2]) <= 1 /\ AreExprs(t[2])
IsClause(t) == IsList(t) /\ AreExprs(t[2]) /\ (t[2] # <<>> => t[2][1] # <<"else">>)
IsElse(t) == ~IsAtom(t) /\ t[1] = "else" /\ AreExprs(t[2])
WellFormed(h, args) ==
    CASE h \in DOMAIN Forms -> Len(args) <= Forms[h].args /\ AreExprs(args)
      [] h \in {"jmp", "call"} -> Len(args) = 1 /\ IsAtom(args[1])
      [] h = "if" -> Len(args) <= 3 /\ AreExprs(args)
      [] h = "cond" ->
           /\ \A i \in DOMAIN args : IsClause(args[i]) \/ (i = Len(args) /\ IsElse(args[i]))
           /\ Len(args) > MaxClauses => Len(args) = MaxClauses + 1 /\ IsElse(args[Len(args)])
      [] h = "let" ->
           /\ args # <<>> /\ AreExprs(Rest(args))
           /\ IsList(args[1]) /\ \A i \in DOMAIN args[1][2] : IsBinding(args[1][2][i])
      [] h = "define" -> Len(args) \in 1..2 /\ IsAtom(args[1]) /\ AreExprs(args)
      [] h \in {"fn", "lambda"} -> args # <<>> /\ AreParameters(args[1]) /\ AreExprs(Rest(args))
      [] h = "defun" -> Len(args) >= 2 /\ IsAtom(args[1]) /\ AreParameters(args[2])
                          /\ AreExprs(Rest(Rest(args)))
      [] h = "elbo_module" -> args # <<>> /\ IsAtom(args[1]) /\ AreExprs(args)
      [] h = "" -> TRUE
      [] OTHER -> AreExprs(args)

ASSUME DepthAssumption == MaxDepth \in Nat /\ Depth \in [Trees -> 0..MaxDepth]
ASSUME TreesAssumption == \A t \in Trees :
    /\ t[1] \notin {"(", ")"}
    /\ IF IsAtom(t) THEN t[1] # ""
       ELSE t[2] \in Seq(Below(t)) /\ WellFormed(t[1], t[2])
ASSUME ProgramsAssumption == \A p \in Programs : p \in Seq(Trees) /\ AreExprs(p)
ASSUME BytesAssumption ==
    /\ \A a \in DOMAIN Literal : a # "" /\ Literal[a] \in Seq(Byte)
    /\ \A a \in DOMAIN Offset : Offset[a] \in Nat
    /\ TypeName \in STRING /\ MaxClauses \in Nat /\ MaxBytes \in Nat
-----------------------------------------------------------------------------
(* elbo_compile, elbo_compile_file                                         *)

\* One turn of the loop over the top-level forms.
CompileForm ==
    /\ phase = "compile"
    /\ ~Ended(compiler) /\ Len(compiler.buf) < MaxBytes
    /\ compiler' = CompileExpr[compiler]
    /\ UNCHANGED <<vars, program, source, phase>>

Compiled(buf) ==
    [name |-> TypeName, code |-> buf \o <<OP.HALT, OP.HALT>>, ep_init |-> 0,
     ep_on_message |-> 1, ep_on_gc |-> Len(buf) + 1]

CompileEnd ==
    /\ phase = "compile"
    /\ Ended(compiler)
    /\ pkg' = ElmLoadFile(ElmSave(Compiled(compiler.buf)))
    /\ pc' = 0
    /\ phase' = "run"
    /\ UNCHANGED <<status, regs, stack, heap, atom, world, program, source, compiler>>

\* A builtin package is there from the start, a program is compiled first.
InitElbo ==
    /\ \/ /\ pkg \in Packages
          /\ program = <<>> /\ source = <<>> /\ phase = "run"
       \/ /\ pkg = Compiled(<<OP.HALT>>)
          /\ program \in Programs /\ source = AllTokens(Tokens, program) /\ phase = "compile"
    /\ compiler = [pos |-> 1, buf |-> <<OP.HALT>>]
    /\ InitVm

RunElbo(A) == phase = "run" /\ A /\ UNCHANGED <<program, source, compiler, phase>>

NextElbo == CompileForm \/ CompileEnd \/ RunElbo(Next)

SpecElbo == InitElbo /\ [][NextElbo]_elboVars /\ WF_elboVars(RunElbo(Run))
-----------------------------------------------------------------------------
(* Properties                                                              *)

\* The code of each program.
Grammatical == [p \in Programs |-> <<OP.HALT>> \o GenAll(Gen, p, 1) \o <<OP.HALT, OP.HALT>>]

\* The one-pass compiler, its jumps patched backwards, makes of a well-formed
\* source the code the grammar gives: every jump ends where its branch does,
\* every form consumes its own parenthesis and no other (elbo_compile), and
\* the file between compiler and kernel loses nothing (elm_save, elm_load_file).
CompiledAsGrammar ==
    phase = "run" /\ program # <<>> => pkg.code = Grammatical[program]

\* The loop over the top-level forms ends: every turn consumes a token, also
\* when a form has fewer arguments than its head takes (elbo_compile).
FormsConsume ==
    [][phase = "compile" /\ compiler' # compiler => compiler'.pos > compiler.pos]_elboVars
=============================================================================
