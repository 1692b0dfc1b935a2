------------------------------- MODULE MCElbo -------------------------------
(* Elbo sources of every form, with the builtin packages beside them. *)
EXTENDS ElboCompiler, TLC, FiniteSetsExt

A(a) == <<a>>
F(head, trees) == <<head, trees>>
Do(head) == F(head, <<>>)

\* Five sources: a truth value update, nested conditionals, bindings and
\* functions (as in tests/test_elm_loader.c), a subroutine, and forms with
\* fewer arguments than their heads take.
MCPrograms == {
    <<F("set_tv", <<A("0.5"), A("8.0")>>), F("if", <<Do("get_tv"), Do("pop"),
        F("when", <<A("x"), F("unless", <<Do("recv"), Do("ecan_sp"), F("send", <<A("0.5")>>)>>)>>)>>),
      Do("get_sti")>>,
    <<F("cond", <<F("", <<Do("get_tv"), Do("push"), Do("pop"), Do("push")>>),
                  F("", <<A("x"), F("add", <<A("x"), A("y")>>)>>),
                  F("else", <<F("cond", <<F("", <<A("x")>>)>>), Do("spawn")>>)>>),
      F("set_sti", <<A("0.5")>>)>>,
    <<F("elbo_module", <<A("MyAtom"),
        F("defun", <<A("init"), Do(""), F("let", <<F("", <<F("x", <<A("0.5")>>)>>), A("x")>>)>>),
        F("on_message", <<F("fn", <<F("", <<A("m")>>), F("define", <<A("y"), Do("get_tv")>>)>>),
                          F("pln_rev", <<A("0.5"), A("x"), A("x"), A("x")>>)>>)>>)>>,
    <<F("call", <<A("20")>>), F("jmp", <<A("22")>>), Do("halt"), Do("get_tv"), Do("ret"),
      F("pln_ded", <<A("x"), A("x"), A("x"), A("x")>>), F("mul", <<Do("recv"), A("x")>>)>>,
    <<F("if", <<Do("get_tv"), Do("when")>>), F("cond", <<Do(""), Do("else")>>),
      F("set_tv", <<F("define", <<A("x")>>)>>)>>}

\* All trees of the programs, and how deep each is.
RECURSIVE Within(_), Nesting(_)
Within(t) == {t} \cup (IF Len(t) = 1 THEN {} ELSE UNION {Within(t[2][i]) : i \in DOMAIN t[2]})
Nesting(t) == IF Len(t) = 1 \/ t[2] = <<>> THEN 0
              ELSE 1 + Max({Nesting(t[2][i]) : i \in DOMAIN t[2]})
MCTrees == UNION {UNION {Within(p[i]) : i \in DOMAIN p} : p \in MCPrograms}
MCDepth == [t \in MCTrees |-> Nesting(t)]

MCLiteral == "0.5" :> <<0, 0, 0, 63>> @@ "8.0" :> <<0, 0, 0, 65>>
MCOffset == "20" :> 20 @@ "22" :> 22
MCTruthValues == {<<0, 2>>, <<3, 4>>}
MCGifts == {-8, 8}
MCPreloads == {<<3, 4>>}
\* The package whose comments say most of what its code is to do.
Evaluation == {EvaluationLink}
=============================================================================
