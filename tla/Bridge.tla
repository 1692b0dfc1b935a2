------------------------------- MODULE Bridge -------------------------------
(***************************************************************************)
(* cogdiod-lang/bridge/cogdiod_bridge.c: the flat store that programs in   *)
(* other languages share.  handle() runs every request under store_lock,   *)
(* from the parsing of the line to its reply, so a request is one step;    *)
(* connections interleave between requests.                                *)
(*                                                                         *)
(* alloc_atom, find_atom, push_history and the json_ functions are not in  *)
(* the repository: they are modelled from how handle uses them.  Uuids are *)
(* given in order and slots are not used twice, so an atom's uuid is its   *)
(* place in atoms.  A strength or confidence is one of the levels 0 .. Top *)
(* (Top stands for 1.0); a field that is missing reads as 0.               *)
(***************************************************************************)
EXTENDS Integers, LineServer, TvHistory

CONSTANTS
    MaxAtoms,       \* slots of the store
    MaxLinks,       \* MAX_LINKS
    Top,            \* the highest level of a strength
    AtomType,       \* types of atoms
    MaxSti          \* bound: the STI of an atom stays within

Level == 0 .. Top

ASSUME BridgeAssumption ==
    /\ Tv = Level \X Level /\ Blank = <<0, 0>>
    /\ MaxAtoms \in Nat /\ MaxLinks \in Nat /\ MaxSti \in Nat /\ Top \in Nat \ {0}

VARIABLES
    atoms,      \* atoms[u]: the atom whose uuid is u, dead ones too
    overwritten \* overwritten[u]: the value u was made with and those that requests
                \* replaced, in order

bridgeVars == <<atoms, overwritten>>

BridgeInit == atoms = <<>> /\ overwritten = <<>>

Uuids == 1 .. MaxAtoms + 1

BridgeTypeOK ==
    /\ Len(atoms) <= MaxAtoms
    /\ \A u \in DOMAIN atoms :
        /\ atoms[u].alive \in BOOLEAN /\ atoms[u].type \in AtomType /\ atoms[u].tv \in Tv
        /\ atoms[u].sti \in -MaxSti .. MaxSti
        /\ Len(atoms[u].links) <= MaxLinks
        /\ \A i \in DOMAIN atoms[u].links : atoms[u].links[i] \in Uuids
    /\ DOMAIN overwritten = DOMAIN atoms

\* find_atom.
Found(u) == u \in DOMAIN atoms /\ atoms[u].alive

\* alloc_atom, and what spawn makes of the zeroed slot.
Spawned(type, tv) ==
    [alive |-> TRUE, type |-> type, tv |-> tv, sti |-> 0, links |-> <<>>,
     hist |-> BridgeRecord(BridgeNew, tv)]

\* push_history before a change, and the same in the log.
WithHistory(a) == [a EXCEPT !.hist = BridgeRecord(a.hist, a.tv)]
Logged(u) == overwritten' = [overwritten EXCEPT ![u] = Append(@, atoms[u].tv)]

Error(c, what) == Answer(c, what) /\ UNCHANGED bridgeVars

BridgeSpawn(c, type, tv) ==
    \/ /\ Len(atoms) = MaxAtoms
       /\ Error(c, "full")
    \/ /\ Len(atoms) < MaxAtoms
       /\ atoms' = Append(atoms, Spawned(type, tv))
       /\ overwritten' = Append(overwritten, <<tv>>)
       /\ Answer(c, "ok")

\* get_tv, get_sti, and pln_deduce with a second atom.
BridgeRead(c, us) ==
    /\ UNCHANGED bridgeVars
    /\ IF \A u \in us : Found(u) THEN Answer(c, "ok") ELSE Answer(c, "not_found")

\* get_links: of an atom that is not there the list is empty.
BridgeGetLinks(c) == Answer(c, "ok") /\ UNCHANGED bridgeVars

\* set_tv, and pln_revise, whose tv is what the revision yields.
BridgeSetTv(c, u, tv) ==
    /\ Found(u)
    /\ atoms' = [atoms EXCEPT ![u] = [WithHistory(@) EXCEPT !.tv = tv]]
    /\ Logged(u)
    /\ Answer(c, "ok")

\* Mutant: the room for links is not looked at.
BridgeLinkPastTheEnd(c, from, to) ==
    IF Found(from)
    THEN /\ atoms' = [atoms EXCEPT ![from].links = Append(@, to)]
         /\ UNCHANGED overwritten
         /\ Answer(c, "ok")
    ELSE Error(c, "link_failed")
\* The end of the link is not looked up.
BridgeLink(c, from, to) ==
    IF Found(from) /\ Len(atoms[from].links) < MaxLinks
    THEN /\ atoms' = [atoms EXCEPT ![from].links = Append(@, to)]
         /\ UNCHANGED overwritten
         /\ Answer(c, "ok")
    ELSE Error(c, "link_failed")

\* The first of the links that end there goes, the ones behind it move up.
BridgeUnlink(c, from, to) ==
    /\ Found(from)
    /\ LET links == atoms[from].links
           hits == {i \in DOMAIN links : links[i] = to}
       IN IF hits = {} THEN Error(c, "ok")
          ELSE \E i \in hits :
              /\ \A j \in hits : i <= j
              /\ atoms' = [atoms EXCEPT ![from].links =
                              SubSeq(links, 1, i - 1) \o SubSeq(links, i + 1, Len(links))]
              /\ UNCHANGED overwritten
              /\ Answer(c, "ok")

BridgeDestroy(c, u) ==
    /\ Found(u)
    /\ atoms' = [atoms EXCEPT ![u].alive = FALSE]
    /\ UNCHANGED overwritten
    /\ Answer(c, "ok")

BridgeAttend(c, u, delta) ==
    /\ Found(u)
    /\ atoms[u].sti + delta \in -MaxSti .. MaxSti
    /\ atoms' = [atoms EXCEPT ![u].sti = @ + delta]
    /\ UNCHANGED overwritten
    /\ Answer(c, "ok")

\* Mutant: an atom that is not there is no reason to answer.
BridgeMissingUnanswered(c, u) ==
    /\ ~ Found(u)
    /\ line[c] # 0
    /\ line' = [line EXCEPT ![c] = 0]
    /\ UNCHANGED <<asked, received, answers, reply, bridgeVars>>
\* What set_tv, pln_revise, unlink, destroy, attend and episodic say of an atom
\* that is not there.
BridgeMissing(c, u) ==
    /\ ~ Found(u)
    /\ Error(c, "not_found")

\* episodic: the reply is the value, or that there is none.
BridgeEpisodic(c, u, version) ==
    /\ Found(u)
    /\ LET tv == BridgeVersion(atoms[u].hist, version)
       IN Answer(c, IF tv = Absent THEN "no_history" ELSE "ok")
    /\ UNCHANGED bridgeVars

\* What rewrite_rule makes of a truth value.
Scaled(tv, boost) == <<IF tv[1] * boost < Top THEN tv[1] * boost ELSE Top, tv[2]>>
Replaced(tv, new) == <<IF new[1] > 0 THEN new[1] ELSE tv[1],
                       IF new[2] > 0 THEN new[2] ELSE tv[2]>>

\* Mutant: only the first atom that the rule changes is saved before.
BridgeRewriteSavesOne(c, type, new, boost) ==
    LET hit(u) == atoms[u].alive /\ atoms[u].type = type
        first(u) == hit(u) /\ \A v \in 1 .. u - 1 : ~ hit(v)
        next(tv) == IF boost > 0 THEN Scaled(tv, boost) ELSE Replaced(tv, new)
    IN /\ atoms' = [u \in DOMAIN atoms |->
             IF first(u) THEN [WithHistory(atoms[u]) EXCEPT !.tv = next(@)]
             ELSE IF hit(u) THEN [atoms[u] EXCEPT !.tv = next(@)] ELSE atoms[u]]
       /\ overwritten' = [u \in DOMAIN atoms |->
             IF hit(u) THEN Append(overwritten[u], atoms[u].tv) ELSE overwritten[u]]
       /\ Answer(c, "ok")
\* rewrite_rule: every living atom of the type, each with its history.
BridgeRewrite(c, type, new, boost) ==
    LET hit(u) == atoms[u].alive /\ atoms[u].type = type
        next(tv) == IF boost > 0 THEN Scaled(tv, boost) ELSE Replaced(tv, new)
    IN /\ atoms' = [u \in DOMAIN atoms |->
             IF hit(u) THEN [WithHistory(atoms[u]) EXCEPT !.tv = next(@)] ELSE atoms[u]]
       /\ overwritten' = [u \in DOMAIN atoms |->
             IF hit(u) THEN Append(overwritten[u], atoms[u].tv) ELSE overwritten[u]]
       /\ Answer(c, "ok")

\* snapshot, stats and operations that there are not.
BridgeOverview(c) ==
    \E said \in {"ok", "unknown_op"} : Answer(c, said) /\ UNCHANGED bridgeVars

BridgeHandle(c) ==
    \/ BridgeOverview(c)
    \/ BridgeGetLinks(c)
    \/ \E type \in AtomType, tv \in Tv : BridgeSpawn(c, type, tv)
    \/ \E us \in {{u} : u \in Uuids} \cup {{u, v} : u, v \in Uuids} : BridgeRead(c, us)
    \/ \E u \in Uuids, tv \in Tv : BridgeSetTv(c, u, tv)
    \/ \E u, v \in Uuids : BridgeLink(c, u, v) \/ BridgeUnlink(c, u, v)
    \/ \E u \in Uuids : BridgeDestroy(c, u) \/ BridgeMissing(c, u)
    \/ \E u \in Uuids : BridgeAttend(c, u, 1)
    \/ \E u \in Uuids, version \in -1 .. Slots : BridgeEpisodic(c, u, version)
    \/ \E type \in AtomType, new \in Tv, boost \in {0, 2} : BridgeRewrite(c, type, new, boost)

BridgeConnection(c) ==
    \/ Ask(c) /\ UNCHANGED bridgeVars
    \/ Receive(c) /\ UNCHANGED bridgeVars
    \/ PassOver(c) /\ UNCHANGED bridgeVars
    \/ BridgeHandle(c)

-----------------------------------------------------------------------------

\* Of every atom, dead ones too, "episodic" answers with the last Slots values
\* that a request overwrote, version 0 the oldest, and refuses every other version:
\* the comment on the request says so of hist_head and hist_count.  Whatever one
\* rule changes at once, no value is lost and none saved twice.
EpisodicRecallsLast == \A u \in DOMAIN atoms :
    \A version \in -1 .. Slots :
        BridgeVersion(atoms[u].hist, version) = Recall(overwritten[u], version)

=============================================================================
