----------------------------- MODULE AtomStore ------------------------------
(***************************************************************************)
(* What the kernel of src/kernel/cogdiod_kernel.c keeps, and what of it    *)
(* survives a restart: the package cache with its reference counts, the    *)
(* atom pool, and the file that cogdiod_save writes and cogdiod_load       *)
(* reads.                                                                  *)
(*                                                                         *)
(* A thread finds a package under pkg_lock and takes its reference later,  *)
(* under ref_lock; it takes an atom out of the pool under pool_lock and    *)
(* gives the reference back later.  cogdiod_save reads atom_count before   *)
(* it locks the pool, and an atom's outgoing_count before it walks the     *)
(* atom's channels.  Each section under one lock is one action.  The hash  *)
(* chains are one list each: a lookup finds the newest match either way.   *)
(*                                                                         *)
(* Of an atom's saved fields the model keeps the truth value: the name,    *)
(* the STI and the LTI are written and read beside it.  cogdiod_load       *)
(* makes atoms of uninitialised variables when the file ends early, and of *)
(* other bytes when a record is not where it looks: a Restart is modelled  *)
(* from a Readable file only, and the properties say when a file is one.   *)
(*                                                                         *)
(* Ops gives the operations each thread performs.  disturbed is a history  *)
(* variable.  A definition named like another with a suffix is a faulty    *)
(* variant of it that no action uses.                                      *)
(***************************************************************************)
EXTENDS Naturals, FiniteSets, Sequences

CONSTANTS
    Type,       \* the type ids
    Package,    \* the package objects that are ever allocated
    Tv,         \* truth values
    SpawnTv,    \* the truth value of a new atom, (0.5, 0.1)
    Nil,        \* the null pointer
    Thread,
    Ops,        \* Ops[t]: the operations thread t performs
    MaxUuid,    \* bound: the last uuid given to an atom
    MaxLinks    \* bound: the channels of one atom

Operations == {"package", "unload", "spawn", "destroy", "link", "set_tv", "save"}
Uuid == 1 .. MaxUuid

ASSUME NilAssumption == Nil \notin Package \cup Type
ASSUME TvAssumption == SpawnTv \in Tv
ASSUME BoundsAssumption == MaxUuid \in Nat /\ MaxLinks \in Nat
ASSUME OpsAssumption ==
    /\ Ops \in [Thread -> SUBSET Operations]
    /\ \A s, t \in Thread : "save" \in Ops[s] /\ "save" \in Ops[t] => s = t  \* one file, one writer

VARIABLES
    pmem,       \* a package's life: unborn, live, freed
    ptype,      \* pkg->type_id
    refs,       \* pkg->ref_count
    cache,      \* k->pkg_cache, the newest first
    pool,       \* the uuids in k->atom_pool
    nextUuid,   \* k->next_uuid
    type,       \* a->type_id
    package,    \* a->package
    links,      \* the number of channels on a->outgoing, a->outgoing_count
    tv,         \* a->tv
    file,       \* the saved file: [count, words]
    saving,     \* the uuids cogdiod_save has yet to write
    disturbed,  \* the pool or a list changed between its count and its walk, or
                \* an atom after it was written
    pc, uuid, pkg   \* each thread's control, atom and package

packages == <<pmem, ptype, refs, cache>>
atoms == <<pool, nextUuid, type, package, links, tv>>
disk == <<file, saving, disturbed>>
locals == <<pc, uuid, pkg>>
vars == <<packages, atoms, disk, locals>>

Controls == {"idle", "spawnRef", "spawnInsert", "drop", "saveLock", "saveHead", "saveLinks"}
Words == [kind : {"atom"}, uuid : Uuid, type : Type \cup {Nil}, tv : Tv, count : 0 .. MaxLinks]
           \cup [kind : {"link"}]
NoFile == [count |-> 0, words |-> <<>>]

PackagesOK ==
    /\ pmem \in [Package -> {"unborn", "live", "freed"}]
    /\ ptype \in [Package -> Type \cup {Nil}]
    /\ refs \in [Package -> Nat]
    /\ cache \in Seq(Package)
AtomsOK ==
    /\ pool \subseteq Uuid
    /\ nextUuid \in 1 .. MaxUuid + 1
    /\ type \in [Uuid -> Type \cup {Nil}]
    /\ package \in [Uuid -> Package \cup {Nil}]
    /\ links \in [Uuid -> 0 .. MaxLinks]
    /\ tv \in [Uuid -> Tv]
DiskOK ==
    /\ file \in [count : Nat, words : Seq(Words)]
    /\ saving \subseteq Uuid
    /\ disturbed \in BOOLEAN
LocalsOK ==
    /\ pc \in [Thread -> Controls]
    /\ uuid \in [Thread -> Uuid \cup {0}]
    /\ pkg \in [Thread -> Package \cup {Nil}]
TypeOK == PackagesOK /\ AtomsOK /\ DiskOK /\ LocalsOK

\* cogdiod_create: no package, no atom.
Init ==
    /\ pmem = [p \in Package |-> "unborn"]
    /\ ptype = [p \in Package |-> Nil]
    /\ refs = [p \in Package |-> 0]
    /\ cache = <<>>
    /\ pool = {}
    /\ nextUuid = 1
    /\ type = [u \in Uuid |-> Nil]
    /\ package = [u \in Uuid |-> Nil]
    /\ links = [u \in Uuid |-> 0]
    /\ tv = [u \in Uuid |-> SpawnTv]
    /\ file = NoFile
    /\ saving = {}
    /\ disturbed = FALSE
    /\ pc = [t \in Thread |-> "idle"]
    /\ uuid = [t \in Thread |-> 0]
    /\ pkg = [t \in Thread |-> Nil]

-----------------------------------------------------------------------------
(* The package cache. *)

Goto(t, c) == pc' = [pc EXCEPT ![t] = c]
May(t, op) == pc[t] = "idle" /\ op \in Ops[t]

\* Where in the cache a search of the chain stops: the newest package of the
\* type, if there is one.
Cached(ty) == {i \in DOMAIN cache : ptype[cache[i]] = ty}
Found(ty) == {i \in Cached(ty) : \A j \in Cached(ty) : i <= j}
Without(i) == SubSeq(cache, 1, i - 1) \o SubSeq(cache, i + 1, Len(cache))

\* cogdiod_load_package: a package read from a file goes first on its chain.
LoadPackage(t, p, ty) ==
    /\ May(t, "package")
    /\ pmem[p] = "unborn"
    /\ pmem' = [pmem EXCEPT ![p] = "live"]
    /\ ptype' = [ptype EXCEPT ![p] = ty]
    /\ cache' = <<p>> \o cache
    /\ UNCHANGED <<refs, atoms, disk, locals>>

\* Mutant: the count is never asked for.
UnloadUsed(t, ty) ==
    /\ May(t, "unload")
    /\ \E i \in Found(ty) :
        /\ pmem' = [pmem EXCEPT ![cache[i]] = "freed"]
        /\ cache' = Without(i)
    /\ UNCHANGED <<ptype, refs, atoms, disk, locals>>
\* cogdiod_unload_package: nothing is freed while an atom holds a reference.
Unload(t, ty) ==
    /\ May(t, "unload")
    /\ \E i \in Found(ty) :
        /\ refs[cache[i]] = 0
        /\ pmem' = [pmem EXCEPT ![cache[i]] = "freed"]
        /\ cache' = Without(i)
    /\ UNCHANGED <<ptype, refs, atoms, disk, locals>>

-----------------------------------------------------------------------------
(* Atoms. *)

\* The pool is write-locked by nobody while cogdiod_save reads it.
PoolFree == \A t \in Thread : pc[t] \notin {"saveHead", "saveLinks"}
\* The pool changes between the count in the file's header and the lock.
Opened == \E t \in Thread : pc[t] = "saveLock"

\* cogdiod_spawn: the package is found under pkg_lock.
SpawnFind(t, ty) ==
    /\ May(t, "spawn")
    /\ \E i \in Found(ty) : pkg' = [pkg EXCEPT ![t] = cache[i]]
    /\ Goto(t, "spawnRef")
    /\ UNCHANGED <<packages, atoms, disk, uuid>>

\* Mutant: no reference is taken.
NotTaken(n) == n
Taken(n) == n + 1

\* The atom is made and numbered, and the reference taken under ref_lock.  Nobody
\* asks whether the package is still there: of one that was unloaded since, the
\* count that goes up is in freed memory.
SpawnRef(t) ==
    /\ pc[t] = "spawnRef"
    /\ nextUuid \in Uuid
    /\ uuid' = [uuid EXCEPT ![t] = nextUuid]
    /\ nextUuid' = nextUuid + 1
    /\ type' = [type EXCEPT ![nextUuid] = ptype[pkg[t]]]
    /\ package' = [package EXCEPT ![nextUuid] = pkg[t]]
    /\ refs' = [refs EXCEPT ![pkg[t]] = Taken(refs[pkg[t]])]
    /\ tv' = [tv EXCEPT ![nextUuid] = SpawnTv]
    /\ links' = [links EXCEPT ![nextUuid] = 0]
    /\ pkg' = [pkg EXCEPT ![t] = Nil]
    /\ Goto(t, "spawnInsert")
    /\ UNCHANGED <<pmem, ptype, cache, pool, disk>>

\* The atom joins the pool under pool_lock.
SpawnInsert(t) ==
    /\ pc[t] = "spawnInsert"
    /\ PoolFree
    /\ pool' = pool \cup {uuid[t]}
    /\ disturbed' = (disturbed \/ Opened)
    /\ uuid' = [uuid EXCEPT ![t] = 0]
    /\ Goto(t, "idle")
    /\ UNCHANGED <<packages, nextUuid, type, package, links, tv, file, saving, pkg>>

\* cogdiod_destroy_atom: out of the pool under pool_lock...
Unhash(t, u) ==
    /\ May(t, "destroy")
    /\ PoolFree
    /\ u \in pool
    /\ pool' = pool \ {u}
    /\ disturbed' = (disturbed \/ Opened)
    /\ uuid' = [uuid EXCEPT ![t] = u]
    /\ Goto(t, "drop")
    /\ UNCHANGED <<packages, nextUuid, type, package, links, tv, file, saving, pkg>>

\* Mutant: the reference is kept.
DropUncounted(t) ==
    /\ pc[t] = "drop"
    /\ package[uuid[t]] # Nil
    /\ package' = [package EXCEPT ![uuid[t]] = Nil]
    /\ type' = [type EXCEPT ![uuid[t]] = Nil]
    /\ tv' = [tv EXCEPT ![uuid[t]] = SpawnTv]
    /\ links' = [links EXCEPT ![uuid[t]] = 0]
    /\ uuid' = [uuid EXCEPT ![t] = 0]
    /\ Goto(t, "idle")
    /\ UNCHANGED <<packages, pool, nextUuid, disk, pkg>>
\* ...and its reference given back under ref_lock.  An atom that was loaded has
\* no package: the thread is about to follow the null pointer and stops here.
Drop(t) ==
    /\ pc[t] = "drop"
    /\ package[uuid[t]] # Nil
    /\ refs' = [refs EXCEPT ![package[uuid[t]]] = refs[package[uuid[t]]] - 1]
    /\ package' = [package EXCEPT ![uuid[t]] = Nil]
    /\ type' = [type EXCEPT ![uuid[t]] = Nil]
    /\ tv' = [tv EXCEPT ![uuid[t]] = SpawnTv]
    /\ links' = [links EXCEPT ![uuid[t]] = 0]
    /\ uuid' = [uuid EXCEPT ![t] = 0]
    /\ Goto(t, "idle")
    /\ UNCHANGED <<pmem, ptype, cache, pool, nextUuid, disk, pkg>>

\* A reader that has written u's outgoing_count and has its list to walk.
Walking(u) == \E t \in Thread : pc[t] = "saveLinks" /\ uuid[t] = u

\* cogdiod_link puts a channel on the list of its source (the rest of what it
\* does is in Topology).
Link(t, u) ==
    /\ May(t, "link")
    /\ u \in pool
    /\ links[u] < MaxLinks
    /\ links' = [links EXCEPT ![u] = links[u] + 1]
    /\ disturbed' = (disturbed \/ Walking(u))
    /\ UNCHANGED <<packages, pool, nextUuid, type, package, tv, file, saving, locals>>

\* The atom was written by the save that is going on.
Written(u) == u \notin saving /\ \E t \in Thread : pc[t] \in {"saveHead", "saveLinks"}

\* cogdiod_set_tv, under the atom's lock (what it sends is in Propagation, the
\* history it keeps in TvHistory).
SetTv(t, u, v) ==
    /\ May(t, "set_tv")
    /\ u \in pool
    /\ tv' = [tv EXCEPT ![u] = v]
    /\ disturbed' = (disturbed \/ Written(u))
    /\ UNCHANGED <<packages, pool, nextUuid, type, package, links, file, saving, locals>>

-----------------------------------------------------------------------------
(* cogdiod_save and cogdiod_load. *)

\* The file is emptied and the number of atoms written, with no lock held.
SaveOpen(t) ==
    /\ May(t, "save")
    /\ file' = [count |-> Cardinality(pool), words |-> <<>>]
    /\ disturbed' = FALSE
    /\ Goto(t, "saveLock")
    /\ UNCHANGED <<packages, atoms, saving, uuid, pkg>>

SaveLock(t) ==
    /\ pc[t] = "saveLock"
    /\ saving' = pool
    /\ Goto(t, "saveHead")
    /\ UNCHANGED <<packages, atoms, file, disturbed, uuid, pkg>>

\* The buckets are walked in order, which is the order of the uuids as long as
\* there are fewer than ATOM_POOL_BUCKETS.  An atom's fields go first...
SaveHead(t) ==
    /\ pc[t] = "saveHead"
    /\ \E u \in saving :
        /\ \A v \in saving : u <= v
        /\ file' = [file EXCEPT !.words = Append(@,
               [kind |-> "atom", uuid |-> u, type |-> type[u], tv |-> tv[u],
                count |-> links[u]])]
        /\ saving' = saving \ {u}
        /\ uuid' = [uuid EXCEPT ![t] = u]
    /\ Goto(t, "saveLinks")
    /\ UNCHANGED <<packages, atoms, disturbed, pkg>>

\* ...then the targets of its channels.
LinkWords(u) == [i \in 1 .. links[u] |-> [kind |-> "link"]]
SaveLinks(t) ==
    /\ pc[t] = "saveLinks"
    /\ file' = [file EXCEPT !.words = @ \o LinkWords(uuid[t])]
    /\ uuid' = [uuid EXCEPT ![t] = 0]
    /\ Goto(t, "saveHead")
    /\ UNCHANGED <<packages, atoms, saving, disturbed, pkg>>

\* The packages' names and type ids are written (cogdiod_load skips them) and
\* the file closed.
SaveClose(t) ==
    /\ pc[t] = "saveHead"
    /\ saving = {}
    /\ disturbed' = FALSE
    /\ Goto(t, "idle")
    /\ UNCHANGED <<packages, atoms, file, saving, uuid, pkg>>

\* Mutant: the channels are not skipped.
PlaceUnskipped(f, n) == n
\* Where cogdiod_load looks after it looked at p: past the atom and as many
\* channels as the atom says it has.
After(f, p) ==
    IF p \in DOMAIN f.words /\ f.words[p].kind = "atom" THEN p + 1 + f.words[p].count ELSE p
\* Where it looks for the n-th atom.
PlaceOf(f, n) ==
    LET place[i \in 1 .. n] == IF i = 1 THEN 1 ELSE After(f, place[i - 1]) IN place[n]

\* There is an atom wherever cogdiod_load looks for one.
Readable(f) == \A n \in 1 .. f.count :
    PlaceOf(f, n) \in DOMAIN f.words /\ f.words[PlaceOf(f, n)].kind = "atom"
ReadAtoms(f) == {f.words[PlaceOf(f, n)] : n \in 1 .. f.count}

\* Mutant: next_uuid moves to the largest number itself.
NextIsLargest(read, n) ==
    /\ \A w \in read : w.uuid <= n
    /\ n = 1 \/ \E w \in read : w.uuid = n
\* next_uuid starts at 1 and moves past every number that is read.
NextAfter(read, n) ==
    /\ \A w \in read : w.uuid < n
    /\ n = 1 \/ \E w \in read : w.uuid = n - 1

\* The process ends, at any moment, and a new one calls cogdiod_load: a new
\* kernel, with no package, gets the atoms of the file.  It does not get their
\* channels, and its package is looked for in the empty cache.  With no file the
\* new process begins with cogdiod_create.
Restart ==
    /\ Readable(file)
    /\ pmem' = [p \in Package |-> "unborn"]
    /\ ptype' = [p \in Package |-> Nil]
    /\ refs' = [p \in Package |-> 0]
    /\ cache' = <<>>
    /\ LET read == ReadAtoms(file)
           Of(u) == CHOOSE w \in read : w.uuid = u
       IN /\ pool' = {w.uuid : w \in read}
          /\ nextUuid' \in 1 .. MaxUuid + 1
          /\ NextAfter(read, nextUuid')
          /\ type' = [u \in Uuid |-> IF u \in pool' THEN Of(u).type ELSE Nil]
          /\ tv' = [u \in Uuid |-> IF u \in pool' THEN Of(u).tv ELSE SpawnTv]
    /\ package' = [u \in Uuid |-> Nil]
    /\ links' = [u \in Uuid |-> 0]
    /\ saving' = {}
    /\ pc' = [t \in Thread |-> "idle"]
    /\ uuid' = [t \in Thread |-> 0]
    /\ pkg' = [t \in Thread |-> Nil]
    /\ disturbed' = FALSE
    /\ UNCHANGED file

-----------------------------------------------------------------------------
(* The specification. *)

StepPackage(t) ==
    \/ \E p \in Package, ty \in Type : LoadPackage(t, p, ty)
    \/ \E ty \in Type : Unload(t, ty)
StepAtom(t) ==
    \/ \E ty \in Type : SpawnFind(t, ty)
    \/ SpawnRef(t) \/ SpawnInsert(t)
    \/ \E u \in Uuid : Unhash(t, u)
    \/ Drop(t)
    \/ \E u \in Uuid : Link(t, u)
    \/ \E u \in Uuid, v \in Tv : SetTv(t, u, v)
StepSave(t) ==
    SaveOpen(t) \/ SaveLock(t) \/ SaveHead(t) \/ SaveLinks(t) \/ SaveClose(t)

Next ==
    \/ \E t \in Thread : StepPackage(t) \/ StepAtom(t) \/ StepSave(t)
    \/ Restart

Spec == Init /\ [][Next]_vars

-----------------------------------------------------------------------------
(* Properties. *)

\* The count of a package that was not freed is the number of the atoms, pooled
\* or on their way into or out of the pool, that were given it (cogdiod_spawn and
\* cogdiod_destroy_atom count under another lock than they use the pool under).
RefsCounted == \A p \in Package : pmem[p] # "freed" =>
    refs[p] = Cardinality({u \in Uuid : package[u] = p})

\* No package is freed under an atom: one that was there when the atom took its
\* reference stays until the atom gives it back, whatever is spawned, destroyed,
\* unloaded and loaded again meanwhile (cogdiod_unload_package asks for the count,
\* which cogdiod_spawn raises before the atom joins the pool).
UsedAreKept ==
    [][\A u \in Uuid : package[u] # Nil /\ pmem[package[u]] = "live" =>
         pmem'[package[u]] = "live" \/ package'[u] = Nil]_vars

\* A number about to be given is that of no atom, pooled, being inserted or
\* being destroyed, after any restart (cogdiod_load moves next_uuid).
Unpooled == {uuid[t] : t \in {s \in Thread : pc[s] \in {"spawnInsert", "drop"}}}
NextUuidIsFresh == \A u \in pool \cup Unpooled : u < nextUuid

\* A save that nothing disturbed leaves a file that reads back as the whole
\* pool, every atom with its type and its truth value, whatever was loaded,
\* unloaded, linked, set or on its way into the pool meanwhile.
SaveIsWhole ==
    [][\A t \in Thread :
         pc[t] = "saveHead" /\ saving = {} /\ pc'[t] = "idle" /\ ~disturbed =>
           /\ Readable(file)
           /\ {[uuid |-> w.uuid, type |-> w.type, tv |-> w.tv] : w \in ReadAtoms(file)}
                = {[uuid |-> u, type |-> type[u], tv |-> tv[u]] : u \in pool}]_vars

-----------------------------------------------------------------------------
(* What the kernel does not promise; each has a configuration that shows it. *)

\* No atom has a package that was freed: "Shared bytecode (ref-counted)",
\* include/cogdiod.h:165.  It can be unloaded between the lookup and the reference.
PackagesOutliveAtoms == \A u \in Uuid : package[u] # Nil => pmem[package[u]] = "live"

\* Every atom that is destroyed has a package whose count goes down, loaded atoms
\* too: cogdiod_load, "packages must be pre-loaded".
DestroyedHavePackages == \A t \in Thread : pc[t] = "drop" => package[uuid[t]] # Nil

\* Whenever the process ends there is a file to come back to.
FileIsReadable == Readable(file)
=============================================================================
