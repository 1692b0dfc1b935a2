----------------------------- MODULE ElmPackages -----------------------------
(***************************************************************************)
(* The .elm packages: how elm_build_stub lays a package out, what elm_save *)
(* and elm_load_file keep of it, and the bytecode of the builders under    *)
(* src/packages/.                                                          *)
(*                                                                         *)
(* Bytecode is a sequence of bytes, the byte at address p being code[p+1]. *)
(* A package is its bytecode, the three entry points into it and its name  *)
(* (the type_id is a hash of the name).                                    *)
(***************************************************************************)
EXTENDS Naturals, Sequences

\* The opcode of each instruction.
OP == [NOP |-> 0, ADD |-> 1, SUB |-> 2, MUL |-> 3, DIV |-> 4,
       JMP |-> 16, JEQ |-> 17, JNE |-> 18, CALL |-> 19, RET |-> 20,
       LOAD |-> 32, STORE |-> 33, PUSH |-> 34, POP |-> 35,
       SEND |-> 48, RECV |-> 49, SPAWN |-> 50,
       GET_TV |-> 64, SET_TV |-> 65, GET_STI |-> 66, SET_STI |-> 67,
       PLN_DED |-> 68, PLN_REV |-> 69, ECAN_SP |-> 70,
       PLN_ABD |-> 71, PLN_IND |-> 72, PLN_TMP |-> 73, HALT |-> 255]

Bytes(instructions) == [i \in 1..Len(instructions) |-> OP[instructions[i]]]

\* elm_build_stub: the three sections one after the other, entry points at
\* their starts.
BuildStub(name, init, msg, gc) ==
    [name |-> name,
     code |-> Bytes(init) \o Bytes(msg) \o Bytes(gc),
     ep_init |-> 0,
     ep_on_message |-> Len(init),
     ep_on_gc |-> Len(init) + Len(msg)]

\* elm_save: the header and the bytecode section of the file.
ElmSave(pkg) ==
    [type_name |-> pkg.name, ep_init |-> pkg.ep_init,
     ep_on_message |-> pkg.ep_on_message, ep_on_gc |-> pkg.ep_on_gc,
     bytecode_size |-> Len(pkg.code), bytecode |-> pkg.code]

\* elm_load_file on a file that holds the bytecode section entire.
ElmLoadFile(file) ==
    [name |-> file.type_name,
     code |-> SubSeq(file.bytecode, 1, file.bytecode_size),
     ep_init |-> file.ep_init, ep_on_message |-> file.ep_on_message,
     ep_on_gc |-> file.ep_on_gc]

-----------------------------------------------------------------------------
(* The builders of src/packages/: init, on-message and on-gc sections.     *)

GcSection == <<"NOP", "HALT">>

AndLink == BuildStub("AndLink", <<"GET_TV", "HALT">>,
    <<"GET_TV", "PLN_REV", "SET_TV", "ECAN_SP", "HALT">>, GcSection)

AtTimeLink == BuildStub("AtTimeLink", <<"GET_TV", "SET_TV", "GET_STI", "HALT">>,
    <<"GET_TV", "PLN_REV", "SET_TV", "ECAN_SP", "HALT">>, GcSection)

BindLink == BuildStub("BindLink", <<"GET_TV", "HALT">>,
    <<"GET_TV", "ECAN_SP", "HALT">>, GcSection)

ConceptNode == BuildStub("ConceptNode", <<"GET_TV", "SET_TV", "HALT">>,
    <<"GET_TV", "PLN_REV", "SET_TV", "ECAN_SP", "HALT">>, GcSection)

ContextLink == BuildStub("ContextLink", <<"GET_TV", "SET_TV", "HALT">>,
    <<"GET_TV", "PLN_REV", "SET_TV", "ECAN_SP", "HALT">>, GcSection)

EquivalenceLink == BuildStub("EquivalenceLink", <<"GET_TV", "HALT">>,
    <<"GET_TV", "PLN_REV", "SET_TV", "ECAN_SP", "HALT">>, GcSection)

EvaluationLink == BuildStub("EvaluationLink", <<"GET_TV", "HALT">>,
    <<"GET_TV", "PLN_REV", "SET_TV", "ECAN_SP", "HALT">>, GcSection)

ExecutionLink == BuildStub("ExecutionLink", <<"GET_TV", "SET_TV", "HALT">>,
    <<"GET_TV", "SEND", "ECAN_SP", "HALT">>, GcSection)

GroundedPredicateNode == BuildStub("GroundedPredicateNode",
    <<"GET_TV", "SET_TV", "HALT">>,
    <<"GET_TV", "NOP", "SET_TV", "SEND", "HALT">>, GcSection)

GroundedSchemaNode == BuildStub("GroundedSchemaNode",
    <<"GET_TV", "SET_TV", "HALT">>,
    <<"GET_TV", "NOP", "SET_TV", "SEND", "HALT">>, GcSection)

ImplicationLink == BuildStub("ImplicationLink", <<"GET_TV", "HALT">>,
    <<"GET_TV", "PLN_DED", "ECAN_SP", "HALT">>, GcSection)

InheritanceLink == BuildStub("InheritanceLink", <<"GET_TV", "HALT">>,
    <<"GET_TV", "PLN_DED", "ECAN_SP", "HALT">>, GcSection)

ListLink == BuildStub("ListLink", <<"GET_TV", "HALT">>,
    <<"GET_TV", "ECAN_SP", "HALT">>, GcSection)

MemberLink == BuildStub("MemberLink", <<"GET_TV", "HALT">>,
    <<"GET_TV", "PLN_ABD", "ECAN_SP", "HALT">>, GcSection)

NotLink == BuildStub("NotLink", <<"GET_TV", "HALT">>,
    <<"GET_TV", "SET_TV", "ECAN_SP", "HALT">>, GcSection)

NumberNode == BuildStub("NumberNode", <<"LOAD", "GET_TV", "HALT">>,
    <<"LOAD", "ADD", "STORE", "ECAN_SP", "HALT">>, GcSection)

OrLink == BuildStub("OrLink", <<"GET_TV", "HALT">>,
    <<"GET_TV", "PLN_REV", "SET_TV", "ECAN_SP", "HALT">>, GcSection)

PredicateNode == BuildStub("PredicateNode", <<"GET_TV", "HALT">>,
    <<"GET_TV", "PLN_REV", "SET_TV", "ECAN_SP", "HALT">>, GcSection)

PredictiveImplicationLink == BuildStub("PredictiveImplicationLink",
    <<"GET_TV", "SET_TV", "HALT">>,
    <<"GET_TV", "PLN_TMP", "SET_TV", "SEND", "ECAN_SP", "HALT">>, GcSection)

SimilarityLink == BuildStub("SimilarityLink", <<"GET_TV", "HALT">>,
    <<"GET_TV", "PLN_REV", "SET_TV", "ECAN_SP", "HALT">>, GcSection)

TimeNode == BuildStub("TimeNode", <<"GET_TV", "SET_TV", "HALT">>,
    <<"GET_TV", "HALT">>, GcSection)

VariableNode == BuildStub("VariableNode", <<"NOP", "HALT">>,
    <<"GET_TV", "ECAN_SP", "HALT">>, GcSection)

Builtin == {AndLink, AtTimeLink, BindLink, ConceptNode, ContextLink,
    EquivalenceLink, EvaluationLink, ExecutionLink, GroundedPredicateNode,
    GroundedSchemaNode, ImplicationLink, InheritanceLink, ListLink, MemberLink,
    NotLink, NumberNode, OrLink, PredicateNode, PredictiveImplicationLink,
    SimilarityLink, TimeNode, VariableNode}
=============================================================================
