--------------------------- MODULE MCPropagation ---------------------------
(***************************************************************************)
(* Propagation for TLC.  Two graphs: a pair (1 -> 2), and a fan-in and a   *)
(* fan-out in one (1 -> 2, 1 -> 3, 2 -> 3).  The atoms' programs stand for *)
(* the packages: none reaches outside (variable_node), one sets its truth  *)
(* value and spreads (concept_node), one also sends (execution_link), and  *)
(* one spawns, as compiled Elbo can.                                       *)
(***************************************************************************)
EXTENDS Propagation

CONSTANTS t1, t2

PairSrc == [c \in {1} |-> 1]
PairDst == [c \in {1} |-> 2]
FanSrc == [c \in 1 .. 3 |-> IF c = 3 THEN 2 ELSE 1]
FanDst == [c \in 1 .. 3 |-> IF c = 1 THEN 2 ELSE 3]

\* Who calls what.
SetsOwn == [t \in Clients |-> IF t = t1 THEN {1} ELSE {2}]
SetsFirst == [t \in Clients |-> {1}]
SetsNone == [t \in Clients |-> {}]
InfersNone == [t \in Clients |-> {}]
InfersFirst == [t \in Clients |-> {1}]

SetsChain == [t \in Clients |-> {1, 2}]

Quiet == [a \in Atom |-> <<>>]
Spreading == [a \in Atom |-> <<"ECAN_SP">>]
Setting == [a \in Atom |-> <<"SET_TV">>]
Mixed == [a \in Atom |-> IF a = 2 THEN <<"SET_TV", "SEND", "ECAN_SP">> ELSE <<"ECAN_SP">>]
Local == [a \in Atom |-> IF a = 3 THEN <<"SPAWN">> ELSE <<"SET_TV">>]
Spawning == [a \in Atom |-> <<"SPAWN">>]

\* The hypothesis of HeardStaysCurrent: what PropagationAll.cfg checks satisfies it,
\* and the two configurations in which HeardIsCurrent fails do not.
ASSUME VoiceAssumption ==
    /\ Program = Mixed /\ Sets = SetsFirst /\ Cardinality(Clients \cup Workers) = 2 => OneVoice
    /\ Cardinality(Workers) > 1 => ~OneVoice
    /\ Program = Setting /\ Sets = SetsChain => ~OneVoice
=============================================================================
