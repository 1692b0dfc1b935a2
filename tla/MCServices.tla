----------------------------- MODULE MCServices -----------------------------
(***************************************************************************)
(* The four services that programs reach beside the kernel's own calls,    *)
(* for TLC.  A behaviour has one of them: they share no state, and the     *)
(* bridge and DisTyx serve the same clients in the same way.               *)
(*                                                                         *)
(* The pattern matcher has three variables and room for two bindings, two  *)
(* nodes of one type of which one has no name, two links with up to two    *)
(* targets each, a link of links, and a BindLink.                          *)
(***************************************************************************)
EXTENDS Bridge, DisTyx, LlmTable, PatternMatch

CONSTANTS c1, c2     \* the clients

VARIABLE service

services == <<service, lineVars, bridgeVars, distyxVars, llmVars, matchVars>>

Pairs == Level \X Level
Zeros == <<0, 0>>
Ones == <<1, 1>>
NoVersion == <<>>
Digits(u) == IF u < 2 THEN 1 ELSE 2
HomeOf(a) == IF a = "third" THEN 1 ELSE 0

MCAtom == 1 .. 9
MCKind(a) == IF a <= 3 THEN "VariableNode" ELSE IF a <= 5 THEN "ConceptNode"
             ELSE IF a <= 8 THEN "ListLink" ELSE "BindLink"
MCName(a) == IF a = 4 THEN "cat" ELSE ""

Short == SeqOf({1, 3, 4, 5}, 2)
OneTarget == [a \in MCAtom |-> IF a = 9 THEN <<6>> ELSE <<>>]
MCGraphs ==
    {[a \in MCAtom |-> CASE a = 6 -> s [] a = 7 -> t [] a = 8 -> u [] a = 9 -> <<1, body>>
                         [] OTHER -> <<>>] :
        s \in {<<1, 2>>, <<1, 1>>, <<3>>, <<1, 5>>}, t \in Short,
        u \in {<<6, 7>>, <<7, 6>>}, body \in {2, 5, 6, 8}}
    \cup {OneTarget}
MCPools == {MCAtom, MCAtom \ {2}}
MCSleepers == {{}, {7, 8}}

\* Where another service is looked at there is one matcher, with nothing to do.
NoMatch == Bodies = {} /\ pool = Atom /\ alive = pool

Init ==
    /\ service \in {"bridge", "distyx", "llm", "match"}
    /\ LineInit /\ BridgeInit /\ DisTyxInit /\ LlmInit
    /\ MatchInit /\ (service = "match" \/ NoMatch)

AtBridge(c) ==
    /\ service = "bridge"
    /\ BridgeConnection(c)
    /\ UNCHANGED <<service, distyxVars, llmVars, matchVars>>

AtDisTyx(c) ==
    /\ service = "distyx"
    /\ DisTyxConnection(c)
    /\ UNCHANGED <<service, bridgeVars, llmVars, matchVars>>

AtHost ==
    /\ service = "distyx"
    /\ HostCall
    /\ UNCHANGED <<service, bridgeVars, llmVars, matchVars>>

AtLlm(t) ==
    /\ service = "llm"
    /\ LlmCall(t)
    /\ UNCHANGED <<service, lineVars, bridgeVars, distyxVars, matchVars>>

AtMatcher ==
    /\ service = "match"
    /\ MatchNext
    /\ UNCHANGED <<service, lineVars, bridgeVars, distyxVars, llmVars>>

Next ==
    \/ \E c \in Client : AtBridge(c) \/ AtDisTyx(c)
    \/ AtHost
    \/ \E t \in Caller : AtLlm(t)
    \/ AtMatcher

\* The thread of a connection takes in what has arrived and gets done with what
\* it handles: no request waits for another client.
Done(c) == line[c] # 0 /\ line' = [line EXCEPT ![c] = 0]

Fairness == \A c \in Client :
    /\ WF_services(Receive(c) /\ UNCHANGED <<service, bridgeVars, distyxVars, llmVars, matchVars>>)
    /\ WF_line(Done(c))

Spec == Init /\ [][Next]_services /\ Fairness

TypeOK == LineTypeOK /\ BridgeTypeOK /\ DisTyxTypeOK /\ LlmTypeOK

\* No array outgrows its room (the atoms and links of cogdiod_bridge.c among them),
\* and every connection is answered in order.
ServersOK == TypeOK /\ AnswersInOrder
=============================================================================
