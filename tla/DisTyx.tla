------------------------------- MODULE DisTyx -------------------------------
(***************************************************************************)
(* src/p9/distyx.c: requests on paths below /ai, dispatched to the kernel, *)
(* by threads that serve one TCP connection each and by programs that call *)
(* distyx_dispatch themselves (the host).                                  *)
(*                                                                         *)
(* Kernel calls are whole steps here: what happens inside spawn, link,     *)
(* destroy and set_tv, and between two threads in them, is in AtomStore,   *)
(* Topology and Propagation.  Of an atom only what requests read is kept:  *)
(* its truth value and the ring of them, and where its channels end.       *)
(* Destroying an atom leaves the channels of the others as they are.       *)
(*                                                                         *)
(* A path is its number of segments and what dispatch looks at of them:    *)
(* the second segment (area), the third as a number (uuid, 0 when it is    *)
(* none) or as the name of a type, the fourth (leaf) and the fifth (to).   *)
(* distyx_parse_path cuts it up with strtok, whose state the threads of    *)
(* all connections share: two that parse at once can mix their paths up.   *)
(* So the request a thread handles is any request, whatever was sent; that *)
(* strtok walks off the end of the other's buffer is not modelled.         *)
(***************************************************************************)
EXTENDS Integers, SequencesExt, LineServer, TvHistory

CONSTANTS
    Host,           \* the caller that is not behind a connection
    MaxUuid,        \* bound: the uuids that are given out
    MaxOut,         \* bound: the channels that leave one atom
    MaxCalls,       \* bound: the calls of the host that change something
    Room,           \* characters in a reply (DISTYX_MSIZE)
    Width(_),       \* characters of a uuid
    NewTv           \* the truth value of a new atom

ASSUME DisTyxAssumption ==
    /\ Host \notin Client /\ Room \in Nat /\ Room > 2 /\ NewTv \in Tv
    /\ MaxUuid \in Nat /\ MaxOut \in Nat /\ MaxCalls \in Nat

VARIABLES
    kernel,     \* kernel[u]: tv, hist and out of the atom u, for each atom there is
    nextUuid,
    recorded,   \* recorded[u]: every value set_tv was given for u, in order
    calls       \* the calls of the host that changed something

distyxVars == <<kernel, nextUuid, recorded, calls>>

DisTyxInit ==
    /\ kernel = <<>>
    /\ nextUuid = 1
    /\ recorded = <<>>
    /\ calls = 0

There == DOMAIN kernel

DisTyxTypeOK ==
    /\ nextUuid \in 1 .. MaxUuid + 1 /\ calls \in 0 .. MaxCalls
    /\ There \subseteq 1 .. nextUuid - 1 /\ DOMAIN recorded = There
    /\ \A u \in There :
        /\ kernel[u].tv \in Tv /\ Len(kernel[u].out) <= MaxOut
        /\ \A i \in DOMAIN kernel[u].out : kernel[u].out[i] \in 1 .. nextUuid - 1

-----------------------------------------------------------------------------
(* Paths and requests. *)

Path(depth, area, third, leaf, to) ==
    [depth |-> depth, area |-> area, third |-> third, leaf |-> leaf, to |-> to]

NoType == 0
AType == -1     \* the name of a type that has a package; as a number it is 0
UuidOf(third) == IF third = AType THEN 0 ELSE third

Thirds == {NoType, AType} \cup 1 .. MaxUuid
Leaves == {"tv", "lti", "type", "links", "sti", "ctl", "name"}

Paths ==
    {Path(2, area, NoType, "", 0) : area \in {"stats", "atoms", "other"}} \cup
    {Path(3, area, third, "", 0) : area \in {"stats", "atoms", "query"}, third \in Thirds} \cup
    {Path(4, "atoms", third, leaf, 0) : third \in Thirds, leaf \in Leaves} \cup
    {Path(5, "atoms", third, "out", to) : third \in 1 .. MaxUuid, to \in 1 .. MaxUuid}

TcpOps == {"read", "stat", "create", "remove"}
HostOps == {"write", "link"}    \* that no connection can ask for

-----------------------------------------------------------------------------
(* Replies.  A reply that ends with the end of a line is sent as text, any  *)
(* other only as its length.                                                *)

Err == "err"
Bytes == "len"
Text == "text"

\* What is written of a list: "[", the uuids with commas between them, "]" and
\* the end of the line, as far as there is room: where it ends (pos), the uuids,
\* and whether one of them was cut.
Written(us) ==
    LET Put(s, u) ==
            LET next == s.pos + (IF s.uuids = <<>> THEN 0 ELSE 1) + Width(u)
            IN IF s.cut \/ next >= Room
               THEN [s EXCEPT !.cut = TRUE]
               ELSE [s EXCEPT !.pos = next, !.uuids = Append(@, u)]
    IN FoldLeft(Put, [pos |-> 1, uuids |-> <<>>, cut |-> FALSE], us)

\* Mutant: the list is closed where it was cut.
ClosedAnyway(w) == w.pos + 2 < Room
\* distyx_handle_list_atoms and distyx_handle_read_links: the bracket is closed
\* and the line ended only behind the whole list.
Closed(w) == ~ w.cut /\ w.pos + 2 < Room

ListReply(us) == IF Closed(Written(us)) THEN Text ELSE Bytes

\* A connection is answered, the host returns; a request that changes something,
\* and one that changes nothing.
Reply(who, said) ==
    \/ who = Host /\ calls < MaxCalls /\ calls' = calls + 1 /\ UNCHANGED lineVars
    \/ who # Host /\ Answer(who, said) /\ UNCHANGED calls
Replies(who, said) ==
    /\ \/ who = Host /\ UNCHANGED lineVars
       \/ who # Host /\ Answer(who, said)
    /\ UNCHANGED distyxVars

-----------------------------------------------------------------------------
(* The handlers: who asks, the operation, the path. *)

\* Any operation on /ai/stats.
Stats(who, op, p) ==
    /\ p.depth = 2 /\ p.area = "stats"
    /\ Replies(who, Text)

ListAtoms(who, op, p) ==
    /\ op = "read" /\ p.depth = 2 /\ p.area = "atoms"
    /\ \E order \in SetToSeqs(There) : Replies(who, ListReply(order))

\* The type and the name are the third and the fourth segment, whatever they are.
CreateAtom(who, op, p) ==
    /\ op = "create" /\ p.depth = 4 /\ p.area = "atoms"
    /\ IF p.third = AType
       THEN /\ nextUuid <= MaxUuid
            /\ kernel' = [u \in There \cup {nextUuid} |->
                  IF u = nextUuid THEN [tv |-> NewTv, hist |-> KernelNew, out |-> <<>>]
                  ELSE kernel[u]]
            /\ recorded' = [u \in There \cup {nextUuid} |->
                  IF u = nextUuid THEN <<>> ELSE recorded[u]]
            /\ nextUuid' = nextUuid + 1
            /\ Reply(who, Bytes)
       ELSE Replies(who, Err)

StatAtom(who, op, p) ==
    /\ op = "stat" /\ p.depth = 3 /\ p.area = "atoms"
    /\ Replies(who, IF UuidOf(p.third) \in There THEN Text ELSE Err)

\* An atom that is not there has a truth value too, of zeros.
ReadTv(who, op, p) ==
    /\ op = "read" /\ p.depth = 4 /\ p.area = "atoms" /\ p.leaf = "tv"
    /\ Replies(who, Bytes)

ReadLtiOrType(who, op, p) ==
    /\ op = "read" /\ p.depth = 4 /\ p.area = "atoms" /\ p.leaf \in {"lti", "type"}
    /\ Replies(who, IF UuidOf(p.third) \notin There THEN Err
                    ELSE IF p.leaf = "lti" THEN Bytes ELSE Text)

ReadLinks(who, op, p) ==
    /\ op = "read" /\ p.depth = 4 /\ p.area = "atoms" /\ p.leaf = "links"
    /\ LET u == UuidOf(p.third)
       IN Replies(who, IF u \notin There THEN Err
                       ELSE ListReply(kernel[u].out))

\* cogdiod_set_tv: the new value is stored and recorded.
WriteTv(who, op, p) ==
    /\ op = "write" /\ p.depth = 4 /\ p.area = "atoms" /\ p.leaf = "tv"
    /\ LET u == UuidOf(p.third)
       IN IF u \in There
          THEN \E tv \in Tv :
              /\ kernel' = [kernel EXCEPT ![u].tv = tv, ![u].hist = KernelRecord(@, tv)]
              /\ recorded' = [recorded EXCEPT ![u] = Append(@, tv)]
              /\ UNCHANGED nextUuid
              /\ Reply(who, Bytes)
          ELSE Replies(who, Err)

\* cogdiod_attend on sti, "infer" on ctl: they reach state that no request reads
\* back here.
WriteStiOrCtl(who, op, p) ==
    /\ op = "write" /\ p.depth = 4 /\ p.area = "atoms" /\ p.leaf \in {"sti", "ctl"}
    /\ Replies(who, IF UuidOf(p.third) \in There THEN Bytes ELSE Err)

\* cogdiod_link puts the new channel first.
LinkAtoms(who, op, p) ==
    /\ op = "link" /\ p.depth = 5 /\ p.area = "atoms" /\ p.leaf = "out"
    /\ IF {p.third, p.to} \subseteq There
       THEN /\ Len(kernel[p.third].out) < MaxOut
            /\ kernel' = [kernel EXCEPT ![p.third].out = <<p.to>> \o @]
            /\ UNCHANGED <<nextUuid, recorded>>
            /\ Reply(who, Bytes)
       ELSE Replies(who, Err)

RemoveAtom(who, op, p) ==
    /\ op = "remove" /\ p.depth = 3 /\ p.area = "atoms"
    /\ LET u == UuidOf(p.third)
       IN IF u \in There
          THEN /\ kernel' = [v \in There \ {u} |-> kernel[v]]
               /\ recorded' = [v \in There \ {u} |-> recorded[v]]
               /\ UNCHANGED nextUuid
               /\ Reply(who, Bytes)
          ELSE Replies(who, Err)

\* cogdiod_match is not called: there are 0 matches.
Query(who, op, p) ==
    /\ op = "read" /\ p.depth = 3 /\ p.area = "query"
    /\ Replies(who, Text)

\* What the tests of distyx_dispatch, in their order, let through to the end.
Known(op, p) ==
    \/ p.depth = 2 /\ p.area = "stats"
    \/ p.area = "atoms" /\
        \/ op = "read" /\ (p.depth = 2 \/ (p.depth = 4 /\ p.leaf \in {"tv", "lti", "type", "links"}))
        \/ op = "create" /\ p.depth = 4
        \/ op \in {"stat", "remove"} /\ p.depth = 3
        \/ op = "write" /\ p.depth = 4 /\ p.leaf \in {"tv", "sti", "ctl"}
        \/ op = "link" /\ p.depth = 5 /\ p.leaf = "out"
    \/ op = "read" /\ p.depth = 3 /\ p.area = "query"

UnknownPath(who, op, p) == ~ Known(op, p) /\ Replies(who, Err)

Dispatch(who, op, p) ==
    \/ Stats(who, op, p)      \/ ListAtoms(who, op, p)     \/ CreateAtom(who, op, p)
    \/ StatAtom(who, op, p)   \/ ReadTv(who, op, p)        \/ ReadLtiOrType(who, op, p)
    \/ ReadLinks(who, op, p)  \/ WriteTv(who, op, p)       \/ WriteStiOrCtl(who, op, p)
    \/ LinkAtoms(who, op, p)  \/ RemoveAtom(who, op, p)    \/ Query(who, op, p)
    \/ UnknownPath(who, op, p)

\* The requests that no test lets through all end alike: one stands for them.
Requests(ops) ==
    {r \in ops \X Paths : Known(r[1], r[2])} \cup {<<"read", Path(2, "other", NoType, "", 0)>>}
TcpRequests == Requests(TcpOps)
HostRequests == Requests(HostOps)

\* A line of a connection: a word that is no operation, or a request.
DisTyxHandle(c) ==
    \/ Answer(c, Err) /\ UNCHANGED distyxVars
    \/ \E r \in TcpRequests : Dispatch(c, r[1], r[2])

HostCall == \E r \in HostRequests : Dispatch(Host, r[1], r[2])

DisTyxConnection(c) ==
    \/ Ask(c) /\ UNCHANGED distyxVars
    \/ Receive(c) /\ UNCHANGED distyxVars
    \/ PassOver(c) /\ UNCHANGED distyxVars
    \/ DisTyxHandle(c)

-----------------------------------------------------------------------------

\* cogdiod_get_tv_history answers with the last Slots values that were recorded,
\* version 0 the oldest of them, before and after the ring wraps.  What set_tv
\* records is the value it was given.
HistoryRecallsLast == \A u \in There :
    \A version \in -1 .. Slots + 1 :
        KernelVersion(kernel[u].hist, version) = Recall(recorded[u], version)

\* What the comment on push_tv_history says of cogdiod_set_tv, as the bridge does
\* it (EpisodicRecallsLast): the versions are the values that were overwritten,
\* the one an atom is made with the first of them and its present one not yet.
Overwritten(u) == SubSeq(<<NewTv>> \o recorded[u], 1, Len(recorded[u]))
HistoryIsOfThePast == \A u \in There :
    \A version \in -1 .. Slots + 1 :
        KernelVersion(kernel[u].hist, version) = Recall(Overwritten(u), version)

\* A list that a connection is sent as text is the whole list: when the buffer is
\* too small for it, at whatever place, the client is not sent a part of it that
\* reads like the whole.  It is checked of the lists that would be sent now.
ListsAreWhole ==
    /\ \A order \in SetToSeqs(There) :
        ListReply(order) = Text => Written(order).uuids = order
    /\ \A u \in There :
        ListReply(kernel[u].out) = Text => Written(kernel[u].out).uuids = kernel[u].out
=============================================================================
