------------------------------ MODULE Topology ------------------------------
(***************************************************************************)
(* The atom pool and the channel lists of src/kernel/cogdiod_kernel.c, at  *)
(* the granularity of its locks: who may free an atom or a channel while   *)
(* somebody else still holds a pointer to it.                              *)
(*                                                                         *)
(* A LimboChannel is on two intrusive lists, the outgoing list of its      *)
(* source (out_next) and the incoming list of its target (in_next).  They  *)
(* are changed under the lock of the one atom whose list it is, in two     *)
(* separate sections; cogdiod_set_tv, the workers and cogdiod_gc_sweep     *)
(* walk them with no lock.  The pool is changed under pool_lock, which is  *)
(* released before the atom is used or freed.                              *)
(*                                                                         *)
(* Each section under a lock is one action, and so is each use of a        *)
(* pointer outside one.  A thread about to touch freed memory goes no      *)
(* further (what follows is undefined).  The code lets threads get there:   *)
(* an unlink or a destruction beside a walk frees what the walk is about   *)
(* to read, which NoUseAfterFree would forbid.  What it does promise, to   *)
(* threads that do anything beside each other, is FreedOnce.  A freed      *)
(* channel or atom is not allocated again.                                 *)
(*                                                                         *)
(* Sharings gives the operations each thread may perform, so that a run    *)
(* can say which of them overlap.  Weights are "weak" or "strong" (below or *)
(* above the pruning threshold), messages are in Propagation.              *)
(*                                                                         *)
(* A definition named like another with a suffix (LinkInUncounted...) is a *)
(* faulty variant of it that no action uses: the properties are shown to   *)
(* tell the two apart.                                                     *)
(***************************************************************************)
EXTENDS Naturals, FiniteSets

CONSTANTS
    Atom,       \* the atoms that are ever spawned
    Channel,    \* the channel objects that are ever allocated
    Nil,        \* the null pointer
    Thread,     \* client, worker and maintenance threads
    Sharings    \* the ways in which threads may share the operations among them

Operations == {"spawn", "link", "unlink", "destroy", "gc", "prune", "hebbian",
               "decay", "attend", "set_tv", "work"}

ASSUME NilAssumption == Nil \notin Atom /\ Nil \notin Channel
ASSUME ChannelAssumption == IsFiniteSet(Channel)
ASSUME SharingsAssumption == Sharings \subseteq [Thread -> SUBSET Operations]

\* What one thread may do beside another without harm.  Whoever unlinks or prunes
\* shares the lists with nobody but those who work under the locks; whoever
\* destroys shares the atoms with nobody, and leaves none in the run queue for a
\* worker.
Disciplined(o) == \A t \in Thread :
    /\ o[t] \cap {"unlink", "prune"} # {} =>
          \A u \in Thread \ {t} : o[u] \subseteq {"spawn", "hebbian", "decay", "attend"}
    /\ o[t] \cap {"destroy", "gc"} # {} =>
          "work" \notin o[t] /\ \A u \in Thread \ {t} : o[u] \subseteq {"spawn", "decay"}

VARIABLES
    ops,        \* ops[t]: the operations thread t performs, from the start
    mem,        \* an atom's life: unborn, pooled, unhashed (out of the pool), freed
    state,      \* a->state
    queued,     \* the atoms in the run queue
    outHead, inHead,    \* a->outgoing, a->incoming
    outCount, inCount,  \* a->outgoing_count, a->incoming_count
    cmem,       \* a channel's life: unborn, live, freed
    ends,       \* ends[c]: [src, dst], the uuids in the channel
    outNext, inNext,    \* ch->out_next, ch->in_next
    weight,     \* ch->weight
    notice,     \* notice[c]: the atoms whose MSG_DESTROY is in the channel
    pc,         \* control of each thread
    src, dst,   \* the atom pointers each thread holds
    ch,         \* the channel pointer each thread holds
    pruneList,  \* the weak channels cogdiod_prune_weak_channels has yet to prune
    gcList      \* the atoms cogdiod_gc_sweep has yet to collect

atoms == <<mem, state, queued>>
lists == <<outHead, inHead, outCount, inCount, outNext, inNext>>
channels == <<cmem, ends, weight, notice>>
locals == <<pc, src, dst, ch, pruneList, gcList>>
vars == <<ops, atoms, lists, channels, locals>>

Controls == {"idle", "linkFind", "linkOut", "linkIn",
             "unlinkFind", "unlinkOut", "unlinkIn", "unlinkFree",
             "destroyFree", "attend", "hebbian", "gcWalk",
             "setTv", "firstOut", "walk", "wake", "examine", "drain"}

TypeOK ==
    /\ ops \in Sharings
    /\ mem \in [Atom -> {"unborn", "pooled", "unhashed", "freed"}]
    /\ state \in [Atom -> {"ALIVE", "SLEEPING", "DYING"}]
    /\ queued \subseteq Atom
    /\ outHead \in [Atom -> Channel \cup {Nil}]
    /\ inHead \in [Atom -> Channel \cup {Nil}]
    /\ outCount \in [Atom -> 0 .. Cardinality(Channel)]
    /\ inCount \in [Atom -> 0 .. Cardinality(Channel)]
    /\ cmem \in [Channel -> {"unborn", "live", "freed"}]
    /\ ends \in [Channel -> [src : Atom \cup {Nil}, dst : Atom \cup {Nil}]]
    /\ outNext \in [Channel -> Channel \cup {Nil}]
    /\ inNext \in [Channel -> Channel \cup {Nil}]
    /\ weight \in [Channel -> {"weak", "strong"}]
    /\ notice \in [Channel -> SUBSET Atom]
    /\ pc \in [Thread -> Controls]
    /\ src \in [Thread -> Atom \cup {Nil}]
    /\ dst \in [Thread -> Atom \cup {Nil}]
    /\ ch \in [Thread -> Channel \cup {Nil}]
    /\ pruneList \in [Thread -> SUBSET Channel]
    /\ gcList \in [Thread -> SUBSET Atom]

Init ==
    /\ ops \in Sharings
    /\ mem = [a \in Atom |-> "unborn"]
    /\ state = [a \in Atom |-> "SLEEPING"]
    /\ queued = {}
    /\ outHead = [a \in Atom |-> Nil]
    /\ inHead = [a \in Atom |-> Nil]
    /\ outCount = [a \in Atom |-> 0]
    /\ inCount = [a \in Atom |-> 0]
    /\ cmem = [c \in Channel |-> "unborn"]
    /\ ends = [c \in Channel |-> [src |-> Nil, dst |-> Nil]]
    /\ outNext = [c \in Channel |-> Nil]
    /\ inNext = [c \in Channel |-> Nil]
    /\ weight = [c \in Channel |-> "strong"]
    /\ notice = [c \in Channel |-> {}]
    /\ pc = [t \in Thread |-> "idle"]
    /\ src = [t \in Thread |-> Nil]
    /\ dst = [t \in Thread |-> Nil]
    /\ ch = [t \in Thread |-> Nil]
    /\ pruneList = [t \in Thread |-> {}]
    /\ gcList = [t \in Thread |-> {}]

-----------------------------------------------------------------------------
(* Lists. *)

\* The channels on the list that starts at h and goes on with nxt.
OnList(h, nxt) ==
    LET reach[n \in 0 .. Cardinality(Channel)] ==
          IF n = 0 THEN {h} \ {Nil}
          ELSE reach[n - 1] \cup ({nxt[c] : c \in reach[n - 1]} \ {Nil})
    IN reach[Cardinality(Channel)]

Outgoing(a) == OnList(outHead[a], outNext)
Incoming(a) == OnList(inHead[a], inNext)

\* c is taken off the list: its predecessor, or the head, skips it.
SkipHead(h, c, nxt) == IF h = c THEN nxt[c] ELSE h
SkipNext(list, c, nxt) ==
    [p \in Channel |-> IF p \in list /\ nxt[p] = c THEN nxt[c] ELSE nxt[p]]

\* The first channel to d on the outgoing list of a, or Nil.
FirstTo(a, d) ==
    LET first[n \in 0 .. Cardinality(Channel)] ==
          IF n = 0 THEN outHead[a]
          ELSE LET c == first[n - 1]
               IN IF c = Nil \/ (c # Nil /\ ends[c].dst = d) THEN c ELSE outNext[c]
    IN first[Cardinality(Channel)]

Pooled(a) == mem[a] = "pooled"

-----------------------------------------------------------------------------
(* Threads. *)

\* The atoms and channels a thread's next step touches, or may touch when it
\* searches a list.
AtomsInUse(t) ==
    CASE pc[t] \in {"linkOut", "unlinkOut", "attend", "hebbian", "setTv", "firstOut",
                    "examine", "drain", "destroyFree"} -> {src[t]}
      [] pc[t] \in {"linkIn", "unlinkIn", "wake"} -> {dst[t]}
      [] OTHER -> {}

ChannelsInUse(t) ==
    CASE pc[t] \in {"linkOut", "linkIn", "unlinkFree", "gcWalk", "walk", "wake",
                    "drain"} -> {ch[t]} \ {Nil}
      [] pc[t] \in {"unlinkOut", "hebbian"} -> Outgoing(src[t])
      [] pc[t] = "unlinkIn" -> Incoming(dst[t]) \cup {ch[t]}
      [] OTHER -> {}

Intact(t) ==
    /\ \A a \in AtomsInUse(t) : mem[a] # "freed"
    /\ \A c \in ChannelsInUse(t) : cmem[c] # "freed"

At(t, control) == pc[t] = control /\ Intact(t)

\* Between two calls; inside a sweep or a pruning the thread goes on with it.
Free(t) == pc[t] = "idle" /\ pruneList[t] = {} /\ gcList[t] = {}

Calls(t, op) == Free(t) /\ op \in ops[t]

Goto(t, control) == pc' = [pc EXCEPT ![t] = control]

Hold(t, s, d, c) ==
    /\ src' = [src EXCEPT ![t] = s]
    /\ dst' = [dst EXCEPT ![t] = d]
    /\ ch' = [ch EXCEPT ![t] = c]

\* Drop the pointers and return to the caller.
Return(t) == Goto(t, "idle") /\ Hold(t, Nil, Nil, Nil)

-----------------------------------------------------------------------------
(* cogdiod_spawn: the atom enters the pool under the write lock. *)

Spawn(t, a) ==
    /\ Calls(t, "spawn")
    /\ mem[a] = "unborn"
    /\ mem' = [mem EXCEPT ![a] = "pooled"]
    /\ UNCHANGED <<ops, state, queued, lists, channels, locals>>

-----------------------------------------------------------------------------
(* cogdiod_link. *)

\* The source is found; of the target there is only the uuid yet.
LinkCall(t, s, d) ==
    /\ Calls(t, "link")
    /\ Pooled(s)
    /\ Goto(t, "linkFind") /\ Hold(t, s, d, Nil)
    /\ UNCHANGED <<ops, atoms, lists, channels, pruneList, gcList>>

\* The target is found in a second look at the pool and the channel allocated, with
\* weight 1; or there is no such atom, or no memory.
LinkFind(t) ==
    /\ At(t, "linkFind")
    /\ \/ /\ Pooled(dst[t])
          /\ \E c \in Channel :
                /\ cmem[c] = "unborn"
                /\ cmem' = [cmem EXCEPT ![c] = "live"]
                /\ ends' = [ends EXCEPT ![c] = [src |-> src[t], dst |-> dst[t]]]
                /\ Goto(t, "linkOut") /\ Hold(t, src[t], dst[t], c)
       \/ /\ ~ Pooled(dst[t]) \/ \A c \in Channel : cmem[c] # "unborn"
          /\ Return(t)
          /\ UNCHANGED <<cmem, ends>>
    /\ UNCHANGED <<ops, atoms, lists, weight, notice, pruneList, gcList>>

\* Under src->lock.
LinkOut(t) ==
    /\ At(t, "linkOut")
    /\ outNext' = [outNext EXCEPT ![ch[t]] = outHead[src[t]]]
    /\ outHead' = [outHead EXCEPT ![src[t]] = ch[t]]
    /\ outCount' = [outCount EXCEPT ![src[t]] = @ + 1]
    /\ Goto(t, "linkIn")
    /\ UNCHANGED <<ops, atoms, inHead, inCount, inNext, channels, src, dst, ch,
                   pruneList, gcList>>

LinkInUncounted(t) ==
    /\ At(t, "linkIn")
    /\ inNext' = [inNext EXCEPT ![ch[t]] = inHead[dst[t]]]
    /\ inHead' = [inHead EXCEPT ![dst[t]] = ch[t]]
    /\ Return(t)
    /\ UNCHANGED <<ops, atoms, outHead, outCount, outNext, inCount, channels,
                   pruneList, gcList>>

\* Under dst->lock.
LinkIn(t) ==
    /\ At(t, "linkIn")
    /\ inNext' = [inNext EXCEPT ![ch[t]] = inHead[dst[t]]]
    /\ inHead' = [inHead EXCEPT ![dst[t]] = ch[t]]
    /\ inCount' = [inCount EXCEPT ![dst[t]] = @ + 1]
    /\ Return(t)
    /\ UNCHANGED <<ops, atoms, outHead, outCount, outNext, channels, pruneList, gcList>>

-----------------------------------------------------------------------------
(* cogdiod_unlink. *)

\* Two looks at the pool, as in cogdiod_link.
UnlinkCall(t, s, d) ==
    /\ Calls(t, "unlink")
    /\ Pooled(s)
    /\ Goto(t, "unlinkFind") /\ Hold(t, s, d, Nil)
    /\ UNCHANGED <<ops, atoms, lists, channels, pruneList, gcList>>

UnlinkFind(t) ==
    /\ At(t, "unlinkFind")
    /\ IF Pooled(dst[t])
       THEN Goto(t, "unlinkOut") /\ Hold(t, src[t], dst[t], Nil)
       ELSE Return(t)
    /\ UNCHANGED <<ops, atoms, lists, channels, pruneList, gcList>>

UnlinkOutNotHead(t) ==
    LET s == src[t]  c == FirstTo(s, dst[t]) IN
    /\ At(t, "unlinkOut")
    /\ IF c = Nil
       THEN /\ Return(t)
            /\ UNCHANGED <<outNext, outCount>>
       ELSE /\ outNext' = SkipNext(Outgoing(s), c, outNext)
            /\ outCount' = [outCount EXCEPT ![s] = @ - 1]
            /\ Goto(t, "unlinkIn") /\ Hold(t, s, dst[t], c)
    /\ UNCHANGED <<ops, atoms, outHead, inHead, inCount, inNext, channels, pruneList,
                   gcList>>

UnlinkOutAlwaysCounts(t) ==
    LET s == src[t]  c == FirstTo(s, dst[t]) IN
    /\ At(t, "unlinkOut")
    /\ outCount' = [outCount EXCEPT ![s] = @ - 1]
    /\ IF c = Nil
       THEN Return(t) /\ UNCHANGED <<outHead, outNext>>
       ELSE /\ outHead' = [outHead EXCEPT ![s] = SkipHead(@, c, outNext)]
            /\ outNext' = SkipNext(Outgoing(s), c, outNext)
            /\ Goto(t, "unlinkIn") /\ Hold(t, s, dst[t], c)
    /\ UNCHANGED <<ops, atoms, inHead, inCount, inNext, channels, pruneList, gcList>>

\* Under src->lock: the first channel to dst comes off the outgoing list.
UnlinkOut(t) ==
    LET s == src[t]  c == FirstTo(s, dst[t]) IN
    /\ At(t, "unlinkOut")
    /\ IF c = Nil
       THEN /\ Return(t)
            /\ UNCHANGED <<outHead, outNext, outCount>>
       ELSE /\ outHead' = [outHead EXCEPT ![s] = SkipHead(@, c, outNext)]
            /\ outNext' = SkipNext(Outgoing(s), c, outNext)
            /\ outCount' = [outCount EXCEPT ![s] = @ - 1]
            /\ Goto(t, "unlinkIn") /\ Hold(t, s, dst[t], c)
    /\ UNCHANGED <<ops, atoms, inHead, inCount, inNext, channels, pruneList, gcList>>

UnlinkInSkipped(t) ==
    /\ At(t, "unlinkIn")
    /\ Goto(t, "unlinkFree")
    /\ UNCHANGED <<ops, atoms, lists, channels, src, dst, ch, pruneList, gcList>>

\* Under dst->lock: the same channel comes off the incoming list, if it is there.
UnlinkIn(t) ==
    LET d == dst[t]  c == ch[t] IN
    /\ At(t, "unlinkIn")
    /\ IF c \in Incoming(d)
       THEN /\ inHead' = [inHead EXCEPT ![d] = SkipHead(@, c, inNext)]
            /\ inNext' = SkipNext(Incoming(d), c, inNext)
            /\ inCount' = [inCount EXCEPT ![d] = @ - 1]
       ELSE UNCHANGED <<inHead, inNext, inCount>>
    /\ Goto(t, "unlinkFree")
    /\ UNCHANGED <<ops, atoms, outHead, outCount, outNext, channels, src, dst, ch,
                   pruneList, gcList>>

\* No lock: free(found).
UnlinkFree(t) ==
    /\ At(t, "unlinkFree")
    /\ cmem' = [cmem EXCEPT ![ch[t]] = "freed"]
    /\ Return(t)
    /\ UNCHANGED <<ops, atoms, lists, ends, weight, notice, pruneList, gcList>>

-----------------------------------------------------------------------------
(* cogdiod_destroy_atom. *)

UnhashAnyBorn(t, a) ==
    /\ mem[a] # "unborn"
    /\ mem' = [mem EXCEPT ![a] = "unhashed"]
    /\ Goto(t, "destroyFree") /\ Hold(t, a, Nil, Nil)

\* Under the write lock: found in the pool and taken out of it.
Unhash(t, a) ==
    /\ Pooled(a)
    /\ mem' = [mem EXCEPT ![a] = "unhashed"]
    /\ Goto(t, "destroyFree") /\ Hold(t, a, Nil, Nil)

DestroyCall(t, a) ==
    /\ Calls(t, "destroy")
    /\ Unhash(t, a)
    /\ UNCHANGED <<ops, state, queued, lists, channels, pruneList, gcList>>

\* No lock: ATOM_DYING, then free.  Its channels stay where they are.
DestroyFree(t) ==
    /\ At(t, "destroyFree")
    /\ state' = [state EXCEPT ![src[t]] = "DYING"]
    /\ mem' = [mem EXCEPT ![src[t]] = "freed"]
    /\ Return(t)
    /\ UNCHANGED <<ops, queued, lists, channels, pruneList, gcList>>

-----------------------------------------------------------------------------
(* cogdiod_attend with a positive amount. *)

AttendCall(t, a) ==
    /\ Calls(t, "attend")
    /\ Pooled(a)
    /\ Goto(t, "attend") /\ Hold(t, a, Nil, Nil)
    /\ UNCHANGED <<ops, atoms, lists, channels, pruneList, gcList>>

\* Under a->lock.
AttendLock(t) ==
    /\ At(t, "attend")
    /\ state' = [state EXCEPT ![src[t]] = "ALIVE"]
    /\ Return(t)
    /\ UNCHANGED <<ops, mem, queued, lists, channels, pruneList, gcList>>

-----------------------------------------------------------------------------
(* cogdiod_set_tv: send on every outgoing channel and wake its target.  The *)
(* list is walked with no lock.                                            *)

SetTvCall(t, a) ==
    /\ Calls(t, "set_tv")
    /\ Pooled(a)
    /\ Goto(t, "setTv") /\ Hold(t, a, Nil, Nil)
    /\ UNCHANGED <<ops, atoms, lists, channels, pruneList, gcList>>

\* Under a->lock: the value and its history, which are in Propagation and DisTyx.
SetTvLock(t) ==
    /\ At(t, "setTv")
    /\ Goto(t, "firstOut") /\ Hold(t, src[t], Nil, Nil)
    /\ UNCHANGED <<ops, atoms, lists, channels, pruneList, gcList>>

\* No lock: a->outgoing.
FirstOut(t) ==
    /\ At(t, "firstOut")
    /\ Goto(t, "walk") /\ Hold(t, src[t], Nil, outHead[src[t]])
    /\ UNCHANGED <<ops, atoms, lists, channels, pruneList, gcList>>

WalkUnchecked(t) ==
    /\ At(t, "walk")
    /\ IF ch[t] = Nil
       THEN Return(t)
       ELSE Goto(t, "wake") /\ Hold(t, src[t], ends[ch[t]].dst, ch[t])
    /\ UNCHANGED <<ops, atoms, lists, channels, pruneList, gcList>>

\* cogdiod_send on the channel, then the target is looked up in the pool.
Walk(t) ==
    /\ At(t, "walk")
    /\ IF ch[t] = Nil
       THEN Return(t)
       ELSE LET d == ends[ch[t]].dst IN
            IF Pooled(d)
            THEN Goto(t, "wake") /\ Hold(t, src[t], d, ch[t])
            ELSE Goto(t, "walk") /\ Hold(t, src[t], Nil, outNext[ch[t]])
    /\ UNCHANGED <<ops, atoms, lists, channels, pruneList, gcList>>

WakeTargetAsleep(t) ==
    /\ At(t, "wake")
    /\ queued' = queued \cup {dst[t]}
    /\ Goto(t, "walk") /\ Hold(t, src[t], Nil, outNext[ch[t]])
    /\ UNCHANGED <<ops, mem, state, lists, channels, pruneList, gcList>>

\* dst->state = ATOM_ALIVE; cogdiod_enqueue(dst); ch = ch->out_next.
WakeTarget(t) ==
    /\ At(t, "wake")
    /\ state' = [state EXCEPT ![dst[t]] = "ALIVE"]
    /\ queued' = queued \cup {dst[t]}
    /\ Goto(t, "walk") /\ Hold(t, src[t], Nil, outNext[ch[t]])
    /\ UNCHANGED <<ops, mem, lists, channels, pruneList, gcList>>

-----------------------------------------------------------------------------
(* A worker: pop, test the state, walk the incoming list with no lock and   *)
(* run the VM of the atom under its lock.                                   *)

WorkPop(t, a) ==
    /\ Calls(t, "work")
    /\ a \in queued
    /\ queued' = queued \ {a}
    /\ Goto(t, "examine") /\ Hold(t, a, Nil, Nil)
    /\ UNCHANGED <<ops, mem, state, lists, channels, pruneList, gcList>>

WorkExamine(t) ==
    /\ At(t, "examine")
    /\ IF state[src[t]] = "ALIVE"
       THEN Goto(t, "drain") /\ Hold(t, src[t], Nil, inHead[src[t]])
       ELSE Return(t)
    /\ UNCHANGED <<ops, atoms, lists, channels, pruneList, gcList>>

WorkDrain(t) ==
    /\ At(t, "drain")
    /\ IF ch[t] = Nil
       THEN Return(t)
       ELSE Goto(t, "drain") /\ Hold(t, src[t], Nil, inNext[ch[t]])
    /\ UNCHANGED <<ops, atoms, lists, channels, pruneList, gcList>>

-----------------------------------------------------------------------------
(* cogdiod_gc_sweep.  An atom is a candidate while it is ATOM_SLEEPING: STI *)
(* above the threshold would have woken it, and nothing but cogdiod_load   *)
(* (which loads atoms ATOM_ALIVE) ever raises LTI above 0.                  *)

GcCandidates == {a \in Atom : Pooled(a) /\ state[a] = "SLEEPING"}

\* Phase 1, under the read lock and one a->lock after the other.
GcMark(t) ==
    /\ Calls(t, "gc")
    /\ GcCandidates # {}
    /\ gcList' = [gcList EXCEPT ![t] = GcCandidates]
    /\ state' = [a \in Atom |-> IF a \in GcCandidates THEN "DYING" ELSE state[a]]
    /\ UNCHANGED <<ops, mem, queued, lists, channels, pc, src, dst, ch, pruneList>>

\* Phase 2: the next candidate, if it is still in the pool.
GcNext(t) ==
    /\ pc[t] = "idle"
    /\ \E a \in gcList[t] :
          /\ gcList' = [gcList EXCEPT ![t] = @ \ {a}]
          /\ IF Pooled(a)
             THEN Goto(t, "gcWalk") /\ Hold(t, a, Nil, inHead[a])
             ELSE UNCHANGED <<pc, src, dst, ch>>
    /\ UNCHANGED <<ops, atoms, lists, channels, pruneList>>

\* MSG_DESTROY into the incoming channel if its source is in the pool and alive.
GcWalk(t) ==
    LET c == ch[t] IN
    /\ At(t, "gcWalk")
    /\ c # Nil
    /\ LET s == ends[c].src IN
          notice' = IF Pooled(s) /\ state[s] = "ALIVE"
                    THEN [notice EXCEPT ![c] = @ \cup {src[t]}] ELSE notice
    /\ Hold(t, src[t], Nil, inNext[c])
    /\ UNCHANGED <<ops, atoms, lists, cmem, ends, weight, pc, pruneList, gcList>>

\* cogdiod_destroy_atom, which fails when somebody else was faster.
GcDestroy(t) ==
    /\ At(t, "gcWalk")
    /\ ch[t] = Nil
    /\ \/ Unhash(t, src[t])
       \/ ~Pooled(src[t]) /\ Return(t) /\ UNCHANGED mem
    /\ UNCHANGED <<ops, state, queued, lists, channels, pruneList, gcList>>

-----------------------------------------------------------------------------
(* Hebbian weights and cogdiod_prune_weak_channels. *)

HebbianCall(t, s, d) ==
    /\ Calls(t, "hebbian")
    /\ Pooled(s)
    /\ Goto(t, "hebbian") /\ Hold(t, s, d, Nil)
    /\ UNCHANGED <<ops, atoms, lists, channels, pruneList, gcList>>

\* Under src->lock: the first channel to dst is strengthened, no other.
HebbianLock(t) ==
    LET c == FirstTo(src[t], dst[t]) IN
    /\ At(t, "hebbian")
    /\ weight' = IF c = Nil THEN weight ELSE [weight EXCEPT ![c] = "strong"]
    /\ Return(t)
    /\ UNCHANGED <<ops, atoms, lists, cmem, ends, notice, pruneList, gcList>>

\* Under the read lock: any of the linked channels may not have fired recently.
Linked == UNION {Outgoing(a) : a \in {b \in Atom : Pooled(b)}}

Decay(t) ==
    /\ Calls(t, "decay")
    /\ \E stale \in (SUBSET Linked) \ {{}} :
          weight' = [c \in Channel |-> IF c \in stale THEN "weak" ELSE weight[c]]
    /\ UNCHANGED <<ops, atoms, lists, cmem, ends, notice, locals>>

\* Phase 1, under the read lock.
PruneMark(t) ==
    /\ Calls(t, "prune")
    /\ pruneList' = [pruneList EXCEPT ![t] = {c \in Linked : weight[c] = "weak"}]
    /\ UNCHANGED <<ops, atoms, lists, channels, pc, src, dst, ch, gcList>>

\* Phase 2: cogdiod_unlink for the two uuids of each, in any order of atoms.
PruneNext(t) ==
    /\ pc[t] = "idle"
    /\ \E c \in pruneList[t] :
          /\ pruneList' = [pruneList EXCEPT ![t] = @ \ {c}]
          /\ IF Pooled(ends[c].src)
             THEN Goto(t, "unlinkFind") /\ Hold(t, ends[c].src, ends[c].dst, Nil)
             ELSE UNCHANGED <<pc, src, dst, ch>>
    /\ UNCHANGED <<ops, atoms, lists, channels, gcList>>

-----------------------------------------------------------------------------
Links(t) ==
    \/ \E s, d \in Atom : LinkCall(t, s, d) \/ UnlinkCall(t, s, d)
    \/ LinkFind(t) \/ LinkOut(t) \/ LinkIn(t)
    \/ UnlinkFind(t) \/ UnlinkOut(t) \/ UnlinkIn(t) \/ UnlinkFree(t)

Lifecycle(t) ==
    \/ \E a \in Atom : Spawn(t, a) \/ DestroyCall(t, a) \/ AttendCall(t, a)
    \/ DestroyFree(t) \/ AttendLock(t)
    \/ GcMark(t) \/ GcNext(t) \/ GcWalk(t) \/ GcDestroy(t)

Signals(t) ==
    \/ \E a \in Atom : SetTvCall(t, a) \/ WorkPop(t, a)
    \/ SetTvLock(t) \/ FirstOut(t) \/ Walk(t) \/ WakeTarget(t) \/ WorkExamine(t) \/ WorkDrain(t)

Weights(t) ==
    \/ \E s, d \in Atom : HebbianCall(t, s, d)
    \/ HebbianLock(t) \/ Decay(t) \/ PruneMark(t) \/ PruneNext(t)

Next == \E t \in Thread : Links(t) \/ Lifecycle(t) \/ Signals(t) \/ Weights(t)

Spec == Init /\ [][Next]_vars

-----------------------------------------------------------------------------
\* What a thread frees is there, out of everybody's reach in the pool or on the
\* outgoing list, and nobody else is about to free it, whatever the threads do
\* beside each other: two calls of cogdiod_destroy_atom, a sweep of the collector
\* and a call, two unlinks, an unlink and a pruning.  The lookup and the removal of
\* cogdiod_destroy_atom are in one section of pool_lock (cogdiod_kernel.c:513-523),
\* those of cogdiod_unlink in one of src->lock (616-627).
FreedOnce ==
    \A t \in Thread :
      /\ pc[t] = "destroyFree" =>
            /\ mem[src[t]] = "unhashed"
            /\ \A u \in Thread \ {t} : pc[u] = "destroyFree" => src[u] # src[t]
      /\ pc[t] \in {"unlinkIn", "unlinkFree"} =>
            /\ cmem[ch[t]] = "live"
            /\ \A a \in Atom : ch[t] \notin Outgoing(a)
            /\ \A u \in Thread \ {t} :
                  pc[u] \in {"unlinkIn", "unlinkFree"} => ch[u] # ch[t]

\* No thread dereferences, locks or frees an atom or a channel that has been
\* freed.  The code keeps to it only where the threads are Disciplined.
NoUseAfterFree == \A t \in Thread : Intact(t)

\* Between operations a channel whose two ends are in the pool is on the
\* outgoing list of its source exactly if it is on the incoming list of its
\* target, and the counts are the lengths of the lists: the two separate
\* sections of cogdiod_link and cogdiod_unlink leave no half-made link behind.
Quiet == \A t \in Thread : pc[t] = "idle"

ListsAgree ==
    Quiet =>
      /\ \A c \in {l \in Channel : cmem[l] = "live"} :
            Pooled(ends[c].src) /\ Pooled(ends[c].dst) =>
            (c \in Outgoing(ends[c].src) <=> c \in Incoming(ends[c].dst))
      /\ \A a \in Atom : Pooled(a) =>
            /\ outCount[a] = Cardinality(Outgoing(a))
            /\ inCount[a] = Cardinality(Incoming(a))

\* A channel that has been freed is on no list of an atom in the pool: "Both
\* refs removed; free the channel" (cogdiod_kernel.c:644).
NoFreedChannelListed ==
    \A a \in Atom : Pooled(a) =>
        \A c \in Outgoing(a) \cup Incoming(a) : cmem[c] # "freed"

\* Objects are of their types, and what every operation of a single thread, or of
\* several that link, leaves behind are two lists and two counts that agree and no
\* freed channel on a list (cogdiod_link, cogdiod_unlink, cogdiod_destroy_atom,
\* cogdiod_gc_sweep).
ListsOK == TypeOK /\ (Disciplined(ops) => ListsAgree /\ NoFreedChannelListed)

\* The collector frees an atom only while it is marked ("Atoms with lti <
\* LTI_THRESHOLD and sti == 0.0 ... are marked ATOM_DYING and destroyed",
\* cogdiod_kernel.c:901): one that attention has reached since is not collected.
CollectsOnlyMarked ==
    [][\A t \in Thread : GcDestroy(t) /\ Pooled(src[t])
          => state[src[t]] = "DYING"]_vars

\* "Prune channels with weight below threshold" (cogdiod_kernel.c:813): a
\* thread that only prunes unlinks no channel above it.
PrunesOnlyWeak ==
    [][\A c \in Channel : weight[c] = "strong" =>
          \A a \in Atom : c \in Outgoing(a) => c \in Outgoing(a)']_vars

\* "Send MSG_DESTROY to all neighbours before reclamation"
\* (cogdiod_kernel.c:902): when the collector takes an atom out of the pool,
\* each live atom with a channel into it finds the message on a channel that it
\* reads, one of its own incoming ones.
CollectorTellsNeighbours ==
    [][\A t \in Thread : GcDestroy(t) /\ Pooled(src[t]) =>
          \A c \in Incoming(src[t]) :
             LET b == ends[c].src IN
             b # src[t] /\ Pooled(b) /\ state[b] = "ALIVE"
                => \E i \in Incoming(b) : src[t] \in notice[i]]_vars

\* "Both refs removed; free the channel" (cogdiod_kernel.c:644): no other
\* thread holds a pointer to the channel that is freed.
FreesOnlyUnreferenced ==
    [][\A t \in Thread : UnlinkFree(t) =>
          \A u \in Thread \ {t} : ch[u] # ch[t]]_vars

\* "If the Atom's AttentionValue drops to zero and it loses all structural
\* links ... the isolate is instantly reclaimed"
\* (docs/CogDiod_Architecture.md:76): an atom that is collected has no links.
CollectsOnlyUnlinked ==
    [][\A t \in Thread : GcDestroy(t) /\ Pooled(src[t])
          => Outgoing(src[t]) = {} /\ Incoming(src[t]) = {}]_vars

\* "CogDiod closes the Limbo channels" when an atom is reclaimed
\* (docs/CogDiod_Formal_Specification.md:117): no atom left in the pool keeps a
\* channel from or to one that has been freed.
DestroyClosesChannels ==
    \A a \in Atom : Pooled(a) =>
        \A c \in Outgoing(a) \cup Incoming(a) :
            mem[ends[c].src] # "freed" /\ mem[ends[c].dst] # "freed"
=============================================================================
