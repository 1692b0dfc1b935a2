--------------------------- MODULE AtomStoreProofs ---------------------------
(***************************************************************************)
(* The package cache and the pool, for any number of threads, packages,    *)
(* types and atoms, whatever operations overlap and wherever the process   *)
(* is restarted: types, the reference counts, that no package is freed     *)
(* under an atom, that a new number is nobody's, and that a save which     *)
(* nothing disturbed is read back whole.                                   *)
(***************************************************************************)
EXTENDS AtomStore, FiniteSetTheorems, WellFoundedInduction, TLAPS

\* The atoms that hold a reference to p.
Users(p) == {u \in Uuid : package[u] = p}

\* A thread in the middle of an operation has the atom or package it works on.
HoldsWhatItUses == \A t \in Thread :
    /\ pc[t] = "spawnRef" => pkg[t] \in Package
    /\ pc[t] \in {"spawnInsert", "drop", "saveLinks"} => uuid[t] \in Uuid

\* Only a number that was given has a package: the reference a new atom takes
\* is one more, not the same again.
UsersHaveNumbers == \A u \in Uuid : package[u] # Nil => u < nextUuid

\* A count goes on in freed memory: it is right of every package object.
AllCounted == \A p \in Package : refs[p] = Cardinality({u \in Uuid : package[u] = p})

IInv ==
    /\ TypeOK
    /\ HoldsWhatItUses
    /\ UsersHaveNumbers
    /\ AllCounted
    /\ NextUuidIsFresh

USE DEF Uuid
-----------------------------------------------------------------------------
(* Counting                                                                *)

\* A set of uuids is finite.
LEMMA UuidsAreFinite == \A S \in SUBSET Uuid : IsFiniteSet(S)
<1>1. IsFiniteSet(Uuid)
  BY FS_Interval, BoundsAssumption
<1> QED
  BY <1>1, FS_Subset

\* One more user, one reference more; one user less, one reference less.
LEMMA OneMore ==
    ASSUME NEW S \in SUBSET Uuid, NEW u \in Uuid, u \notin S
    PROVE  Cardinality(S \cup {u}) = Cardinality(S) + 1
BY UuidsAreFinite, FS_AddElement

LEMMA OneLess ==
    ASSUME NEW S \in SUBSET Uuid, NEW u \in S
    PROVE  Cardinality(S \ {u}) = Cardinality(S) - 1
BY UuidsAreFinite, FS_RemoveElement

LEMMA CountOfNone ==
    ASSUME NEW S \in SUBSET Uuid, Cardinality(S) = 0
    PROVE  S = {}
BY UuidsAreFinite, FS_EmptySet

-----------------------------------------------------------------------------
(* The steps                                                               *)

\* cogdiod_create starts with nothing.
LEMMA InitIInv == Init => IInv
<1> SUFFICES ASSUME Init PROVE IInv
  OBVIOUS
<1>1. TypeOK
  <2>1. PackagesOK /\ LocalsOK
    BY DEF Init, PackagesOK, LocalsOK, Controls
  <2>2. AtomsOK
    BY BoundsAssumption, TvAssumption DEF Init, AtomsOK
  <2>3. <<>> \in Seq(Words)
    OBVIOUS
  <2>4. DiskOK
    BY <2>3 DEF Init, DiskOK, NoFile
  <2> QED
    BY <2>1, <2>2, <2>4 DEF TypeOK
<1>2. AllCounted
  <2> SUFFICES ASSUME NEW p \in Package PROVE refs[p] = Cardinality({u \in Uuid : package[u] = p})
    BY DEF AllCounted
  <2>1. {u \in Uuid : package[u] = p} = {}
    BY NilAssumption DEF Init
  <2> QED
    BY <2>1, FS_EmptySet DEF Init
<1> QED
  BY <1>1, <1>2 DEF Init, IInv, HoldsWhatItUses, UsersHaveNumbers, NextUuidIsFresh, Unpooled

\* A step that gives and takes no package keeps everything about packages.
LEMMA PackagesUntouched ==
    ASSUME IInv, UNCHANGED <<refs, package>>
    PROVE  AllCounted'
BY DEF IInv, AllCounted

LEMMA LoadPackageIInv ==
    ASSUME IInv, NEW t \in Thread, NEW p \in Package, NEW ty \in Type, LoadPackage(t, p, ty)
    PROVE  IInv'
<1>1. TypeOK'
  BY DEF IInv, LoadPackage, TypeOK, PackagesOK, AtomsOK, DiskOK, LocalsOK, atoms, disk, locals
<1> QED
  BY <1>1 DEF IInv, LoadPackage, HoldsWhatItUses, UsersHaveNumbers, AllCounted, NextUuidIsFresh, Unpooled,
     atoms, disk, locals

LEMMA UnloadIInv ==
    ASSUME IInv, NEW t \in Thread, NEW ty \in Type, Unload(t, ty)
    PROVE  IInv'
<1> PICK i \in Found(ty) :
        /\ refs[cache[i]] = 0
        /\ pmem' = [pmem EXCEPT ![cache[i]] = "freed"]
        /\ cache' = Without(i)
  BY DEF Unload
<1>0. cache \in Seq(Package) /\ i \in 1 .. Len(cache) /\ cache[i] \in Package
  BY DEF IInv, TypeOK, PackagesOK, Found, Cached
<1>1. cache' \in Seq(Package)
  <2>1. SubSeq(cache, 1, i - 1) \in Seq(Package) /\ SubSeq(cache, i + 1, Len(cache)) \in Seq(Package)
    BY <1>0
  <2> QED
    BY <2>1 DEF Without
<1>2. TypeOK'
  BY <1>0, <1>1 DEF Unload, IInv, TypeOK, PackagesOK, AtomsOK, DiskOK, LocalsOK, atoms, disk, locals
<1> QED
  BY <1>2 DEF IInv, Unload, HoldsWhatItUses, UsersHaveNumbers, AllCounted, NextUuidIsFresh, Unpooled,
     atoms, disk, locals

LEMMA SpawnFindIInv ==
    ASSUME IInv, NEW t \in Thread, NEW ty \in Type, SpawnFind(t, ty)
    PROVE  IInv'
<1> PICK i \in Found(ty) : pkg' = [pkg EXCEPT ![t] = cache[i]]
  BY DEF SpawnFind
<1>0. cache[i] \in Package
  BY DEF IInv, TypeOK, PackagesOK, Found, Cached
<1>1. TypeOK'
  BY <1>0 DEF SpawnFind, Goto, Controls, IInv, TypeOK, PackagesOK, AtomsOK, DiskOK, LocalsOK, packages, atoms, disk
<1>2. HoldsWhatItUses'
  BY <1>0 DEF SpawnFind, Goto, IInv, TypeOK, LocalsOK, HoldsWhatItUses
<1>3. NextUuidIsFresh'
  BY DEF SpawnFind, Goto, IInv, TypeOK, LocalsOK, NextUuidIsFresh, Unpooled, atoms
<1> QED
  BY <1>1, <1>2, <1>3, PackagesUntouched DEF IInv, SpawnFind, UsersHaveNumbers, packages, atoms

\* The reference is taken by an atom that had none.
LEMMA SpawnRefIInv ==
    ASSUME IInv, NEW t \in Thread, SpawnRef(t)
    PROVE  IInv'
<1> DEFINE n == nextUuid
           q == pkg[t]
<1>0. n \in Uuid /\ q \in Package /\ package[n] = Nil /\ q # Nil
  BY NilAssumption DEF SpawnRef, IInv, HoldsWhatItUses, UsersHaveNumbers, TypeOK, AtomsOK
<1>1. refs' = [refs EXCEPT ![q] = refs[q] + 1] /\ package' = [package EXCEPT ![n] = q]
  BY DEF SpawnRef, Taken
<1>2. TypeOK'
  <2>1. PackagesOK'
    BY <1>0, <1>1 DEF SpawnRef, IInv, TypeOK, PackagesOK
  <2>2. AtomsOK'
    BY <1>0, BoundsAssumption, TvAssumption DEF SpawnRef, IInv, TypeOK, PackagesOK, AtomsOK
  <2>3. DiskOK' /\ LocalsOK'
    BY <1>0 DEF SpawnRef, Goto, Controls, IInv, TypeOK, DiskOK, LocalsOK, disk
  <2> QED
    BY <2>1, <2>2, <2>3 DEF TypeOK
<1>3. AllCounted'
  <2> SUFFICES ASSUME NEW p \in Package PROVE refs'[p] = Cardinality({u \in Uuid : package'[u] = p})
    BY DEF AllCounted
  <2>0. refs[p] = Cardinality(Users(p)) /\ Users(p) \in SUBSET Uuid
    BY DEF IInv, AllCounted, Users
  <2>1. CASE p = q
    <3>1. {u \in Uuid : package'[u] = p} = Users(p) \cup {n}
      BY <2>1, <1>0, <1>1 DEF Users, IInv, TypeOK, AtomsOK
    <3>2. n \notin Users(p)
      BY <2>1, <1>0 DEF Users
    <3>3. refs'[p] = refs[p] + 1
      BY <2>1, <1>1 DEF IInv, TypeOK, PackagesOK
    <3> QED
      BY <3>1, <3>2, <3>3, <2>0, <1>0, OneMore
  <2>2. CASE p # q
    <3>1. {u \in Uuid : package'[u] = p} = Users(p)
      BY <2>2, <1>0, <1>1, NilAssumption DEF Users, IInv, TypeOK, AtomsOK
    <3>2. refs'[p] = refs[p]
      BY <2>2, <1>1 DEF IInv, TypeOK, PackagesOK
    <3> QED
      BY <3>1, <3>2, <2>0
  <2> QED
    BY <2>1, <2>2
<1>5. HoldsWhatItUses'
  BY <1>0 DEF SpawnRef, Goto, IInv, TypeOK, LocalsOK, HoldsWhatItUses
<1>6. nextUuid' = n + 1 /\ n \in Nat
  BY <1>0, BoundsAssumption DEF SpawnRef
<1>7. UsersHaveNumbers'
  BY <1>0, <1>1, <1>6 DEF IInv, TypeOK, AtomsOK, UsersHaveNumbers
<1>8. NextUuidIsFresh'
  BY <1>0, <1>6 DEF SpawnRef, Goto, IInv, TypeOK, AtomsOK, LocalsOK, HoldsWhatItUses, NextUuidIsFresh, Unpooled
<1> QED
  BY <1>2, <1>3, <1>5, <1>7, <1>8 DEF IInv

\* Of the steps on the pool and on one atom's fields.
LEMMA SpawnInsertIInv ==
    ASSUME IInv, NEW t \in Thread, SpawnInsert(t)
    PROVE  IInv'
<1>0. uuid[t] \in Uuid
  BY DEF SpawnInsert, IInv, HoldsWhatItUses
<1>1. TypeOK'
  BY <1>0 DEF SpawnInsert, Goto, Controls, Opened, IInv, TypeOK, PackagesOK, AtomsOK, DiskOK, LocalsOK, packages
<1>2. HoldsWhatItUses'
  BY DEF SpawnInsert, Goto, IInv, TypeOK, LocalsOK, HoldsWhatItUses
<1>3. NextUuidIsFresh'
  BY DEF SpawnInsert, Goto, IInv, TypeOK, LocalsOK, NextUuidIsFresh, Unpooled
<1> QED
  BY <1>1, <1>2, <1>3, PackagesUntouched DEF IInv, SpawnInsert, UsersHaveNumbers, packages

LEMMA UnhashIInv ==
    ASSUME IInv, NEW t \in Thread, NEW u \in Uuid, Unhash(t, u)
    PROVE  IInv'
<1>1. TypeOK'
  BY DEF Unhash, Goto, Controls, Opened, IInv, TypeOK, PackagesOK, AtomsOK, DiskOK, LocalsOK, packages
<1>2. HoldsWhatItUses'
  BY DEF Unhash, May, Goto, IInv, TypeOK, LocalsOK, HoldsWhatItUses
<1>3. NextUuidIsFresh'
  BY DEF Unhash, May, Goto, IInv, TypeOK, LocalsOK, NextUuidIsFresh, Unpooled
<1> QED
  BY <1>1, <1>2, <1>3, PackagesUntouched DEF IInv, Unhash, UsersHaveNumbers, packages

\* The reference is given back by an atom that had it.
LEMMA DropIInv ==
    ASSUME IInv, NEW t \in Thread, Drop(t)
    PROVE  IInv'
<1> DEFINE n == uuid[t]
           q == package[n]
<1>0. n \in Uuid /\ q \in Package /\ q # Nil
  BY DEF Drop, IInv, HoldsWhatItUses, TypeOK, AtomsOK
<1>1. refs' = [refs EXCEPT ![q] = refs[q] - 1] /\ package' = [package EXCEPT ![n] = Nil]
  BY DEF Drop
<1>2. \A p \in Package : refs[p] \in Nat /\ refs[p] = Cardinality(Users(p)) /\ Users(p) \in SUBSET Uuid
  BY DEF IInv, TypeOK, PackagesOK, AllCounted, Users
<1>3. n \in Users(q)
  BY <1>0 DEF Users
<1>4. refs[q] # 0
  BY <1>0, <1>2, <1>3, CountOfNone
<1>5. refs[q] - 1 \in Nat
  BY <1>0, <1>2, <1>4
<1>6. TypeOK'
  <2>1. PackagesOK'
    BY <1>0, <1>1, <1>5 DEF Drop, IInv, TypeOK, PackagesOK
  <2>2. AtomsOK'
    BY <1>0, BoundsAssumption, TvAssumption DEF Drop, IInv, TypeOK, AtomsOK
  <2>3. DiskOK' /\ LocalsOK'
    BY <1>0 DEF Drop, Goto, Controls, IInv, TypeOK, DiskOK, LocalsOK, disk
  <2> QED
    BY <2>1, <2>2, <2>3 DEF TypeOK
<1>7. AllCounted'
  <2> SUFFICES ASSUME NEW p \in Package PROVE refs'[p] = Cardinality({u \in Uuid : package'[u] = p})
    BY DEF AllCounted
  <2>0. p # Nil
    BY NilAssumption
  <2>1. CASE p = q
    <3>1. {u \in Uuid : package'[u] = p} = Users(p) \ {n}
      BY <2>0, <2>1, <1>0, <1>1 DEF Users, IInv, TypeOK, AtomsOK
    <3>2. refs'[p] = refs[p] - 1
      BY <2>1, <1>1 DEF IInv, TypeOK, PackagesOK
    <3>3. Cardinality(Users(p) \ {n}) = Cardinality(Users(p)) - 1
      BY <2>1, <1>2, <1>3, OneLess
    <3> QED
      BY <3>1, <3>2, <3>3, <1>2
  <2>2. CASE p # q
    <3>1. {u \in Uuid : package'[u] = p} = Users(p)
      BY <2>0, <2>2, <1>0, <1>1 DEF Users, IInv, TypeOK, AtomsOK
    <3>2. refs'[p] = refs[p]
      BY <2>2, <1>1 DEF IInv, TypeOK, PackagesOK
    <3> QED
      BY <3>1, <3>2, <1>2
  <2> QED
    BY <2>1, <2>2
<1>9. HoldsWhatItUses'
  BY DEF Drop, Goto, IInv, TypeOK, LocalsOK, HoldsWhatItUses
<1>10. UsersHaveNumbers'
  BY <1>0, <1>1 DEF Drop, IInv, TypeOK, AtomsOK, UsersHaveNumbers
<1>11. NextUuidIsFresh'
  BY DEF Drop, Goto, IInv, TypeOK, LocalsOK, NextUuidIsFresh, Unpooled
<1> QED
  BY <1>6, <1>7, <1>9, <1>10, <1>11 DEF IInv

LEMMA LinkIInv ==
    ASSUME IInv, NEW t \in Thread, NEW u \in Uuid, Link(t, u)
    PROVE  IInv'
<1>1. TypeOK'
  BY BoundsAssumption DEF Link, Walking, IInv, TypeOK, PackagesOK, AtomsOK, DiskOK, LocalsOK, packages, locals
<1> QED
  BY <1>1, PackagesUntouched DEF IInv, Link, HoldsWhatItUses, UsersHaveNumbers, NextUuidIsFresh, Unpooled, packages, locals

LEMMA SetTvIInv ==
    ASSUME IInv, NEW t \in Thread, NEW u \in Uuid, NEW v \in Tv, SetTv(t, u, v)
    PROVE  IInv'
<1>1. TypeOK'
  BY DEF SetTv, Written, IInv, TypeOK, PackagesOK, AtomsOK, DiskOK, LocalsOK, packages, locals
<1> QED
  BY <1>1, PackagesUntouched DEF IInv, SetTv, HoldsWhatItUses, UsersHaveNumbers, NextUuidIsFresh, Unpooled, packages, locals

\* A saver reads the pool and writes the file: only types are at stake.
LEMMA SaveIInv ==
    ASSUME IInv, NEW t \in Thread, StepSave(t)
    PROVE  IInv'
<1>1. TypeOK'
  <2>1. CASE SaveOpen(t)
    <3>1. Cardinality(pool) \in Nat
      BY UuidsAreFinite, FS_CardinalityType DEF IInv, TypeOK, AtomsOK
    <3>2. file' \in [count : Nat, words : Seq(Words)]
      BY <3>1, <2>1 DEF SaveOpen
    <3> QED
      BY <2>1, <3>2 DEF SaveOpen, Goto, Controls, IInv, TypeOK, PackagesOK, AtomsOK, DiskOK, LocalsOK, packages, atoms
  <2>2. CASE SaveLock(t)
    BY <2>2 DEF SaveLock, Goto, Controls, IInv, TypeOK, PackagesOK, AtomsOK, DiskOK, LocalsOK, packages, atoms
  <2>3. CASE SaveHead(t)
    <3> DEFINE Word(u) == [kind |-> "atom", uuid |-> u, type |-> type[u], tv |-> tv[u], count |-> links[u]]
    <3>1. PICK u \in saving :
            /\ file' = [file EXCEPT !.words = Append(file.words, Word(u))]
            /\ saving' = saving \ {u}
            /\ uuid' = [uuid EXCEPT ![t] = u]
      BY <2>3 DEF SaveHead
    <3>2. u \in Uuid /\ Word(u) \in Words
      BY DEF IInv, TypeOK, DiskOK, AtomsOK, Words
    <3> HIDE DEF Word
    <3>3. Append(file.words, Word(u)) \in Seq(Words)
      BY <3>2 DEF IInv, TypeOK, DiskOK
    <3>4. file' \in [count : Nat, words : Seq(Words)]
      BY <3>1, <3>3 DEF IInv, TypeOK, DiskOK
    <3> QED
      BY <2>3, <3>1, <3>2, <3>4 DEF SaveHead, Goto, Controls, IInv, TypeOK, PackagesOK, AtomsOK, DiskOK, LocalsOK, packages, atoms
  <2>4. CASE SaveLinks(t)
    <3>1. uuid[t] \in Uuid
      BY <2>4 DEF SaveLinks, IInv, HoldsWhatItUses
    <3>2. links[uuid[t]] \in Nat
      BY <3>1, BoundsAssumption DEF IInv, TypeOK, AtomsOK
    <3>3. LinkWords(uuid[t]) \in Seq(Words)
      BY <3>2 DEF LinkWords, Words
    <3>4. file.words \o LinkWords(uuid[t]) \in Seq(Words)
      BY <3>3 DEF IInv, TypeOK, DiskOK
    <3>5. file' = [file EXCEPT !.words = file.words \o LinkWords(uuid[t])]
      BY <2>4 DEF SaveLinks
    <3>6. file' \in [count : Nat, words : Seq(Words)]
      BY <3>4, <3>5 DEF IInv, TypeOK, DiskOK
    <3> QED
      BY <2>4, <3>6 DEF SaveLinks, Goto, Controls, IInv, TypeOK, PackagesOK, AtomsOK, DiskOK, LocalsOK, packages, atoms
  <2>5. CASE SaveClose(t)
    BY <2>5 DEF SaveClose, Goto, Controls, IInv, TypeOK, PackagesOK, AtomsOK, DiskOK, LocalsOK, packages, atoms
  <2> QED
    BY <2>1, <2>2, <2>3, <2>4, <2>5 DEF StepSave
<1>2. UNCHANGED <<packages, atoms>>
  BY DEF StepSave, SaveOpen, SaveLock, SaveHead, SaveLinks, SaveClose
<1>3. HoldsWhatItUses'
  <2>1. CASE SaveHead(t)
    <3>1. \E u \in Uuid : uuid' = [uuid EXCEPT ![t] = u]
      BY <2>1 DEF SaveHead, IInv, TypeOK, DiskOK
    <3> QED
      BY <2>1, <3>1 DEF SaveHead, Goto, IInv, TypeOK, LocalsOK, HoldsWhatItUses
  <2>2. CASE SaveOpen(t) \/ SaveLock(t) \/ SaveLinks(t) \/ SaveClose(t)
    BY <2>2 DEF SaveOpen, SaveLock, SaveLinks, SaveClose, Goto, IInv, TypeOK, LocalsOK, HoldsWhatItUses
  <2> QED
    BY <2>1, <2>2 DEF StepSave
<1>4. NextUuidIsFresh'
  <2>1. \A s \in Thread : pc'[s] \in {"spawnInsert", "drop"} => pc'[s] = pc[s] /\ uuid'[s] = uuid[s]
    <3>1. pc'[t] \notin {"spawnInsert", "drop"} /\ (\A s \in Thread \ {t} : pc'[s] = pc[s])
      BY DEF StepSave, SaveOpen, SaveLock, SaveHead, SaveLinks, SaveClose, May, Goto, IInv, TypeOK, LocalsOK
    <3>2. \A s \in Thread \ {t} : uuid'[s] = uuid[s]
      BY DEF StepSave, SaveOpen, SaveLock, SaveHead, SaveLinks, SaveClose, IInv, TypeOK, LocalsOK
    <3> QED
      BY <3>1, <3>2
  <2> QED
    BY <1>2, <2>1 DEF IInv, NextUuidIsFresh, Unpooled, atoms
<1> QED
  BY <1>1, <1>2, <1>3, <1>4, PackagesUntouched DEF IInv, UsersHaveNumbers, packages, atoms

\* What is read from a file is the atoms that were written to it.
LEMMA ReadAtomsType ==
    ASSUME IInv, Readable(file), NEW w \in ReadAtoms(file)
    PROVE  w.uuid \in Uuid /\ w.type \in Type \cup {Nil} /\ w.tv \in Tv
<1>1. PICK n \in 1 .. file.count : w = file.words[PlaceOf(file, n)]
  BY DEF ReadAtoms
<1>2. PlaceOf(file, n) \in DOMAIN file.words /\ w.kind = "atom"
  BY <1>1 DEF Readable
<1>3. file.words \in Seq(Words)
  BY DEF IInv, TypeOK, DiskOK
<1>4. w \in Words
  BY <1>1, <1>2, <1>3
<1>5. CASE w \in [kind : {"link"}]
  BY <1>2, <1>5
<1> QED
  BY <1>2, <1>4, <1>5 DEF Words

\* The new kernel has no package, its atoms those of the file.
LEMMA RestartIInv == IInv /\ Restart => IInv'
<1> SUFFICES ASSUME IInv, Restart PROVE IInv'
  OBVIOUS
<1> DEFINE read == ReadAtoms(file)
           Of(u) == CHOOSE w \in read : w.uuid = u
<1>1. /\ pool' = {w.uuid : w \in read}
      /\ nextUuid' \in 1 .. MaxUuid + 1
      /\ NextAfter(read, nextUuid')
      /\ type' = [u \in Uuid |-> IF u \in pool' THEN Of(u).type ELSE Nil]
      /\ tv' = [u \in Uuid |-> IF u \in pool' THEN Of(u).tv ELSE SpawnTv]
  BY DEF Restart
<1>2. \A w \in read : w.uuid \in Uuid /\ w.type \in Type \cup {Nil} /\ w.tv \in Tv
  BY ReadAtomsType DEF Restart
<1>3. \A u \in pool' : Of(u) \in read
  BY <1>1
<1>4. TypeOK'
  <2>1. PackagesOK' /\ LocalsOK' /\ DiskOK'
    <3>1. PackagesOK'
      BY DEF Restart, PackagesOK
    <3>2. LocalsOK'
      BY DEF Restart, Controls, LocalsOK
    <3>3. DiskOK'
      BY DEF Restart, IInv, TypeOK, DiskOK
    <3> QED
      BY <3>1, <3>2, <3>3
  <2>2. pool' \subseteq Uuid
    BY <1>1, <1>2
  <2>3. type' \in [Uuid -> Type \cup {Nil}]
    <3>1. \A u \in pool' : Of(u).type \in Type \cup {Nil}
      BY <1>2, <1>3
    <3> HIDE DEF Of
    <3> QED
      BY <1>1, <3>1
  <2>4. tv' \in [Uuid -> Tv]
    <3>1. \A u \in pool' : Of(u).tv \in Tv
      BY <1>2, <1>3
    <3> HIDE DEF Of
    <3> QED
      BY <1>1, <3>1, TvAssumption
  <2>5. AtomsOK'
    <3>1. nextUuid' \in 1 .. MaxUuid + 1
      BY <1>1
    <3>2. package' \in [Uuid -> Package \cup {Nil}] /\ links' \in [Uuid -> 0 .. MaxLinks]
      BY BoundsAssumption DEF Restart
    <3> QED
      BY <2>2, <2>3, <2>4, <3>1, <3>2 DEF AtomsOK
  <2> QED
    BY <2>1, <2>5 DEF TypeOK
<1>5. NextUuidIsFresh'
  <2>1. \A u \in pool' : u < nextUuid'
    BY <1>1 DEF NextAfter
  <2>2. {t \in Thread : pc'[t] \in {"spawnInsert", "drop"}} = {}
    BY DEF Restart
  <2> QED
    BY <2>1, <2>2 DEF NextUuidIsFresh, Unpooled
<1>6. AllCounted'
  <2> SUFFICES ASSUME NEW p \in Package PROVE refs'[p] = Cardinality({u \in Uuid : package'[u] = p})
    BY DEF AllCounted
  <2>1. {u \in Uuid : package'[u] = p} = {}
    BY NilAssumption DEF Restart
  <2> QED
    BY <2>1, FS_EmptySet DEF Restart
<1> QED
  BY <1>4, <1>5, <1>6 DEF Restart, IInv, HoldsWhatItUses, UsersHaveNumbers

-----------------------------------------------------------------------------
(* The theorems                                                            *)

LEMMA NextIInv == IInv /\ [Next]_vars => IInv'
<1> SUFFICES ASSUME IInv, [Next]_vars PROVE IInv'
  OBVIOUS
<1>1. CASE UNCHANGED vars
  BY <1>1 DEF vars, packages, atoms, disk, locals, IInv, TypeOK, PackagesOK, AtomsOK, DiskOK, LocalsOK,
     HoldsWhatItUses, UsersHaveNumbers, AllCounted, NextUuidIsFresh, Unpooled
<1>2. CASE Restart
  BY <1>2, RestartIInv
<1>3. ASSUME NEW t \in Thread, StepPackage(t) PROVE IInv'
  BY <1>3, LoadPackageIInv, UnloadIInv DEF StepPackage
<1>4. ASSUME NEW t \in Thread, StepAtom(t) PROVE IInv'
  BY <1>4, SpawnFindIInv, SpawnRefIInv, SpawnInsertIInv, UnhashIInv, DropIInv, LinkIInv, SetTvIInv DEF StepAtom
<1> QED
  BY <1>1, <1>2, <1>3, <1>4, SaveIInv DEF Next

LEMMA Invariance == Spec => []IInv
BY InitIInv, NextIInv, PTL DEF Spec

\* Every field keeps its type, the reference counts stay above zero, and what
\* is read from a file is what can be written to one.
THEOREM StoreTypeCorrect == Spec => []TypeOK
<1>1. IInv => TypeOK
  BY DEF IInv
<1> QED
  BY <1>1, Invariance, PTL

\* cogdiod_spawn, cogdiod_destroy_atom and cogdiod_load keep every package's
\* count equal to the number of atoms that refer to it.
THEOREM ReferencesAreCounted == Spec => []RefsCounted
<1>1. IInv => RefsCounted
  BY DEF IInv, AllCounted, RefsCounted
<1> QED
  BY <1>1, Invariance, PTL

\* No step frees a package that an atom refers to: the count that
\* cogdiod_unload_package asks for is zero only when nobody does.
LEMMA StepKeepsUsed ==
    ASSUME IInv, [Next]_vars, NEW u \in Uuid, package[u] # Nil, pmem[package[u]] = "live"
    PROVE  pmem'[package[u]] = "live" \/ package'[u] = Nil
<1> DEFINE q == package[u]
<1>0. q \in Package /\ pmem \in [Package -> {"unborn", "live", "freed"}]
  BY DEF IInv, TypeOK, PackagesOK, AtomsOK
<1>1. CASE UNCHANGED pmem
  BY <1>1
<1>2. CASE Restart
  BY <1>2 DEF Restart
<1>3. ASSUME NEW t \in Thread, NEW p \in Package, NEW ty \in Type, LoadPackage(t, p, ty)
      PROVE  pmem'[q] = "live"
  BY <1>0, <1>3 DEF LoadPackage
<1>4. ASSUME NEW t \in Thread, NEW ty \in Type, Unload(t, ty) PROVE pmem'[q] = "live"
  <2>1. PICK i \in Found(ty) : refs[cache[i]] = 0 /\ pmem' = [pmem EXCEPT ![cache[i]] = "freed"]
    BY <1>4 DEF Unload
  <2>2. cache[i] \in Package
    BY DEF IInv, TypeOK, PackagesOK, Found, Cached
  <2>3. {v \in Uuid : package[v] = cache[i]} = {}
    BY <2>1, <2>2, CountOfNone DEF IInv, AllCounted
  <2> QED
    BY <1>0, <2>1, <2>2, <2>3
<1>5. ASSUME NEW t \in Thread, StepAtom(t) \/ StepSave(t) PROVE UNCHANGED pmem
  BY <1>5 DEF StepAtom, StepSave, SpawnFind, SpawnRef, SpawnInsert, Unhash, Drop, Link, SetTv,
     SaveOpen, SaveLock, SaveHead, SaveLinks, SaveClose, packages
<1>6. UNCHANGED vars => UNCHANGED pmem
  BY DEF vars, packages
<1> QED
  BY <1>1, <1>2, <1>3, <1>4, <1>5, <1>6 DEF Next, StepPackage

\* A package that was there when an atom took its reference is freed under no
\* atom, whatever other threads are in the middle of.  Nothing is assumed of a
\* package that is unloaded between the lookup and the reference.
THEOREM PackagesAreKept == Spec => UsedAreKept
<1>1. IInv /\ [Next]_vars =>
        [\A u \in Uuid : package[u] # Nil /\ pmem[package[u]] = "live" =>
            pmem'[package[u]] = "live" \/ package'[u] = Nil]_vars
  BY StepKeepsUsed
<1> QED
  BY <1>1, Invariance, PTL DEF Spec, UsedAreKept

\* No number is given to a second atom while the first has it, across restarts.
THEOREM NumbersAreFresh == Spec => []NextUuidIsFresh
<1>1. IInv => NextUuidIsFresh
  BY DEF IInv
<1> QED
  BY <1>1, Invariance, PTL

-----------------------------------------------------------------------------
(* What a save has written.                                                *)

\* s says where in words the first k atoms are: each past the channels of the one
\* before it; s[k + 1] is where the next one comes.
Places(s, k, words) ==
    /\ k \in Nat /\ s \in [1 .. k + 1 -> Nat] /\ s[1] = 1
    /\ \A n \in 1 .. k : /\ s[n] \in DOMAIN words /\ words[s[n]].kind = "atom"
                         /\ s[n + 1] = s[n] + 1 + words[s[n]].count

\* A set of numbers has a least one.
LEMMA LeastNat ==
    ASSUME NEW S \in SUBSET Nat, S # {}
    PROVE  \E x \in S : \A y \in S : x <= y
<1>1. PICK x \in S : \A y \in S : ~ <<y, x>> \in OpToRel(<, Nat)
  BY NatLessThanWellFounded, WFMin
<1>2. ASSUME NEW y \in S, y < x PROVE FALSE
  <2>1. <<y, x>> \in OpToRel(<, Nat)
    BY <1>2 DEF OpToRel
  <2> QED BY <1>1, <2>1
<1> QED BY <1>2

\* That is where cogdiod_load looks for them.
LEMMA LoadLooksThere ==
    ASSUME NEW f, NEW k \in Nat, NEW s, Places(s, k, f.words), NEW n \in 1 .. k
    PROVE  PlaceOf(f, n) = s[n]
<1> DEFINE Tells(g) == g = [i \in 1 .. n |-> IF i = 1 THEN 1 ELSE After(f, g[i - 1])]
<1>1. \A i \in 1 .. n : i # 1 => i - 1 \in 1 .. k /\ After(f, s[i - 1]) = s[i]
  <2> SUFFICES ASSUME NEW i \in 1 .. n, i # 1 PROVE i - 1 \in 1 .. k /\ After(f, s[i - 1]) = s[i]
    OBVIOUS
  <2>1. i - 1 \in 1 .. k /\ (i - 1) + 1 = i
    OBVIOUS
  <2> QED BY <2>1 DEF Places, After
<1>2. Tells([i \in 1 .. n |-> s[i]])
  <2> DEFINE g == [i \in 1 .. n |-> s[i]]
  <2>1. \A i \in 1 .. n : g[i] = IF i = 1 THEN 1 ELSE After(f, g[i - 1])
    <3> SUFFICES ASSUME NEW i \in 1 .. n PROVE g[i] = IF i = 1 THEN 1 ELSE After(f, g[i - 1])
      OBVIOUS
    <3>1. CASE i = 1
      BY <3>1 DEF Places
    <3>2. CASE i # 1
      <4>1. i - 1 \in 1 .. n /\ g[i - 1] = s[i - 1]
        BY <3>2
      <4> QED BY <1>1, <3>2, <4>1
    <3> QED BY <3>1, <3>2
  <2> QED BY <2>1
<1>3. PICK g : Tells(g) /\ PlaceOf(f, n) = g[n]
  <2> DEFINE h == CHOOSE g : Tells(g)
  <2>1. Tells(h)
    BY <1>2
  <2>2. PlaceOf(f, n) = h[n]
    BY DEF PlaceOf
  <2> HIDE DEF h
  <2> QED BY <2>1, <2>2
<1>4. \A i \in 1 .. n : g[i] = s[i]
  <2> SUFFICES ASSUME NEW i \in 1 .. n, g[i] # s[i] PROVE FALSE
    OBVIOUS
  <2> DEFINE Bad == {j \in 1 .. n : g[j] # s[j]}
  <2>0. Bad \in SUBSET Nat /\ Bad # {}
    OBVIOUS
  <2>1. PICK j \in Bad : \A x \in Bad : j <= x
    <3> HIDE DEF Bad
    <3> QED BY <2>0, LeastNat
  <2>2. j # 1
    BY <1>3, <2>1 DEF Places
  <2>3. j - 1 \in 1 .. n /\ j - 1 \notin Bad
    BY <2>1, <2>2
  <2>4. g[j] = After(f, g[j - 1]) /\ g[j - 1] = s[j - 1]
    BY <1>3, <2>1, <2>2, <2>3
  <2> QED BY <1>1, <2>1, <2>2, <2>4
<1> QED BY <1>3, <1>4

SaveControls == {"saveLock", "saveHead", "saveLinks"}
Outside == {"spawnInsert", "drop"}

\* An atom on its way into or out of the pool is in nobody else's hands.
Away == \A t \in Thread : pc[t] \in Outside =>
    /\ uuid[t] \notin pool /\ uuid[t] < nextUuid
    /\ \A s \in Thread \ {t} : pc[s] \in Outside => uuid[s] # uuid[t]

\* What of an atom is written, and of a written atom is read.
Fields(w) == [uuid |-> w.uuid, type |-> w.type, tv |-> w.tv]
FieldsOf(u) == [uuid |-> u, type |-> type[u], tv |-> tv[u]]

\* The channels announced in the file and not yet written.
Pending(t) == IF pc[t] = "saveLinks" THEN links[uuid[t]] ELSE 0

\* The file holds the atoms of the pool that are not left to write, each where
\* cogdiod_load looks for it, and there is room for those that are.
Drafted(t) == \E k, s :
    /\ Places(s, k, file.words)
    /\ file.count = k + Cardinality(saving)
    /\ {Fields(file.words[s[n]]) : n \in 1 .. k} = {FieldsOf(u) : u \in pool \ saving}
    /\ s[k + 1] = Len(file.words) + 1 + Pending(t)

SaveInv == \A t \in Thread :
    /\ pc[t] \in SaveControls => "save" \in Ops[t]
    /\ pc[t] = "saveLock" /\ ~disturbed => file = [count |-> Cardinality(pool), words |-> <<>>]
    /\ pc[t] \in {"saveHead", "saveLinks"} => saving \subseteq pool /\ (~disturbed => Drafted(t))
    /\ pc[t] = "saveLinks" => uuid[t] \in pool \ saving

StoreInv == IInv /\ Away /\ SaveInv

\* The file is whole when nothing is left to write.
LEMMA DraftIsWhole ==
    ASSUME IInv, NEW t \in Thread, Drafted(t), saving = {}
    PROVE  /\ Readable(file)
           /\ {Fields(w) : w \in ReadAtoms(file)} = {FieldsOf(u) : u \in pool}
<1>1. PICK k, s :
        /\ Places(s, k, file.words)
        /\ file.count = k + Cardinality(saving)
        /\ {Fields(file.words[s[n]]) : n \in 1 .. k} = {FieldsOf(u) : u \in pool \ saving}
  BY DEF Drafted
<1>0. k \in Nat
  BY <1>1 DEF Places
<1> USE <1>0
<1>2. file.count = k
  BY <1>1, FS_EmptySet
<1>3. \A n \in 1 .. k : PlaceOf(file, n) = s[n]
  BY <1>1, LoadLooksThere
<1>4. Readable(file)
  BY <1>1, <1>2, <1>3 DEF Readable, Places
<1>5. ReadAtoms(file) = {file.words[s[n]] : n \in 1 .. k}
  BY <1>2, <1>3 DEF ReadAtoms
<1>6. {Fields(w) : w \in ReadAtoms(file)} = {Fields(file.words[s[n]]) : n \in 1 .. k}
  BY <1>5
<1> QED BY <1>1, <1>4, <1>6

\* What is written stays true while the file, what is left and the fields of the
\* written atoms are the same.
LEMMA DraftKept ==
    ASSUME NEW t \in Thread, Drafted(t), file' = file, saving' = saving, pool' = pool,
           \A u \in pool \ saving : type'[u] = type[u] /\ tv'[u] = tv[u],
           Pending(t)' = Pending(t)
    PROVE  Drafted(t)'
<1>1. {FieldsOf(u) : u \in pool \ saving}' = {FieldsOf(u) : u \in pool \ saving}
  BY DEF FieldsOf
<1>2. PICK k, s :
        /\ Places(s, k, file.words)
        /\ file.count = k + Cardinality(saving)
        /\ {Fields(file.words[s[n]]) : n \in 1 .. k} = {FieldsOf(u) : u \in pool \ saving}
        /\ s[k + 1] = Len(file.words) + 1 + Pending(t)
  BY DEF Drafted
<1>3. /\ Places(s, k, file'.words)
      /\ file'.count = k + Cardinality(saving')
      /\ {Fields(file'.words[s[n]]) : n \in 1 .. k} = {FieldsOf(u) : u \in pool \ saving}'
      /\ s[k + 1] = Len(file'.words) + 1 + Pending(t)'
  BY <1>1, <1>2
<1> QED BY <1>3 DEF Drafted

\* A step of t that is none of a save and disturbs the one that goes on only if it
\* says so.
Beside(t) ==
    /\ pc[t] \notin SaveControls /\ pc'[t] \notin SaveControls
    /\ \A u \in Thread \ {t} : pc'[u] = pc[u] /\ uuid'[u] = uuid[u]
    /\ file' = file /\ saving' = saving
    /\ disturbed => disturbed'
    /\ pool' # pool => PoolFree /\ (Opened => disturbed')
    /\ \A u \in pool \ saving : (type'[u] = type[u] /\ tv'[u] = tv[u]) \/ PoolFree \/ disturbed'
    /\ \A u \in pool : Walking(u) => links'[u] = links[u] \/ disturbed'

LEMMA BesideSave ==
    ASSUME StoreInv, NEW t \in Thread, Beside(t)
    PROVE  SaveInv'
<1> SUFFICES ASSUME NEW u \in Thread, pc'[u] \in SaveControls
             PROVE  /\ "save" \in Ops[u]
                    /\ pc'[u] = "saveLock" /\ ~disturbed' =>
                          file' = [count |-> Cardinality(pool'), words |-> <<>>]
                    /\ pc'[u] \in {"saveHead", "saveLinks"} =>
                          saving' \subseteq pool' /\ (~disturbed' => Drafted(u)')
                    /\ pc'[u] = "saveLinks" => uuid'[u] \in pool' \ saving'
  BY DEF SaveInv, SaveControls
<1>1. u # t /\ pc'[u] = pc[u] /\ uuid'[u] = uuid[u] /\ file' = file /\ saving' = saving
  BY DEF Beside
<1>2. /\ "save" \in Ops[u]
      /\ pc[u] = "saveLock" /\ ~disturbed => file = [count |-> Cardinality(pool), words |-> <<>>]
      /\ pc[u] \in {"saveHead", "saveLinks"} => saving \subseteq pool /\ (~disturbed => Drafted(u))
      /\ pc[u] = "saveLinks" => uuid[u] \in pool \ saving
  BY <1>1 DEF StoreInv, SaveInv
<1>3. CASE pc[u] = "saveLock"
  BY <1>1, <1>2, <1>3 DEF Beside, Opened
<1>4. CASE pc[u] \in {"saveHead", "saveLinks"}
  <2>1. ~ PoolFree
    BY <1>4 DEF PoolFree
  <2>2. pool' = pool
    BY <2>1 DEF Beside
  <2>3. ASSUME ~disturbed' PROVE Drafted(u)'
    <3>1. ~disturbed /\ Drafted(u)
      BY <1>2, <1>4, <2>3 DEF Beside
    <3>2. \A a \in pool \ saving : type'[a] = type[a] /\ tv'[a] = tv[a]
      BY <2>1, <2>3 DEF Beside
    <3>3. Pending(u)' = Pending(u)
      BY <1>1, <1>2, <2>3 DEF Beside, Pending, Walking
    <3> QED BY <1>1, <2>2, <3>1, <3>2, <3>3, DraftKept
  <2> QED BY <1>1, <1>2, <1>4, <2>2, <2>3
<1> QED BY <1>1, <1>3, <1>4 DEF SaveControls

\* A step that leaves the pool and those that are outside it alone.
LEMMA AwayKept ==
    ASSUME StoreInv, NEW t \in Thread, pool' = pool, nextUuid' = nextUuid,
           pc[t] \notin Outside, pc'[t] \notin Outside,
           \A u \in Thread \ {t} : pc'[u] = pc[u] /\ uuid'[u] = uuid[u]
    PROVE  Away'
BY DEF StoreInv, Away

\* The package cache.
LEMMA PackageSave ==
    ASSUME StoreInv, NEW t \in Thread, StepPackage(t)
    PROVE  Away' /\ SaveInv'
<1>1. /\ UNCHANGED <<atoms, disk, locals>> /\ pc[t] = "idle"
  BY DEF StepPackage, LoadPackage, Unload, May
<1>2. Beside(t)
  BY <1>1 DEF Beside, SaveControls, atoms, disk, locals
<1>3. Away'
  BY <1>1, AwayKept DEF atoms, locals, Outside
<1> QED BY <1>2, <1>3, BesideSave

\* cogdiod_spawn, cogdiod_destroy_atom, cogdiod_link and cogdiod_set_tv.
LEMMA AtomSave ==
    ASSUME StoreInv, NEW t \in Thread, StepAtom(t)
    PROVE  Away' /\ SaveInv'
<1>1. /\ pc \in [Thread -> Controls] /\ uuid \in [Thread -> Uuid \cup {0}] /\ nextUuid \in Nat
      /\ type \in [Uuid -> Type \cup {Nil}] /\ tv \in [Uuid -> Tv]
      /\ links \in [Uuid -> 0 .. MaxLinks] /\ pool \subseteq Uuid
  BY BoundsAssumption DEF StoreInv, IInv, TypeOK, AtomsOK, LocalsOK
<1>2. Away /\ NextUuidIsFresh
  BY DEF StoreInv, IInv
<1>3. ASSUME NEW ty \in Type, SpawnFind(t, ty) PROVE Away' /\ SaveInv'
  <2>1. /\ UNCHANGED <<atoms, disk, uuid>> /\ pc[t] = "idle" /\ pc'[t] = "spawnRef"
        /\ \A u \in Thread \ {t} : pc'[u] = pc[u]
    BY <1>1, <1>3 DEF SpawnFind, May, Goto
  <2>2. Beside(t)
    BY <2>1 DEF Beside, SaveControls, atoms, disk
  <2>3. Away'
    BY <2>1, AwayKept DEF atoms, Outside
  <2> QED BY <2>2, <2>3, BesideSave
<1>4. CASE SpawnRef(t)
  <2>1. /\ pc[t] = "spawnRef" /\ pc'[t] = "spawnInsert" /\ nextUuid' = nextUuid + 1
        /\ uuid'[t] = nextUuid /\ pool' = pool /\ UNCHANGED disk
        /\ \A u \in Thread \ {t} : pc'[u] = pc[u] /\ uuid'[u] = uuid[u]
        /\ \A a \in Uuid \ {nextUuid} :
              type'[a] = type[a] /\ tv'[a] = tv[a] /\ links'[a] = links[a]
    BY <1>1, <1>4 DEF SpawnRef, Goto
  <2>2. \A a \in pool : a < nextUuid /\ a \in Uuid \ {nextUuid}
    BY <1>1, <1>2 DEF NextUuidIsFresh, Unpooled
  <2>3. Beside(t)
    BY <2>1, <2>2 DEF Beside, SaveControls, disk
  <2>4. Away'
    <3>1. nextUuid \notin pool /\ nextUuid < nextUuid + 1
      BY <1>1, <2>2
    <3>2. \A u \in Thread \ {t} : pc[u] \in Outside =>
            uuid[u] # nextUuid /\ uuid[u] < nextUuid + 1 /\ uuid[u] \notin pool
      <4> SUFFICES ASSUME NEW u \in Thread \ {t}, pc[u] \in Outside
                   PROVE  uuid[u] # nextUuid /\ uuid[u] < nextUuid + 1 /\ uuid[u] \notin pool
        OBVIOUS
      <4>1. uuid[u] \in Nat
        BY <1>1, BoundsAssumption
      <4>2. uuid[u] < nextUuid /\ uuid[u] \notin pool
        BY <1>2 DEF Away
      <4> QED BY <1>1, <4>1, <4>2
    <3> QED BY <1>2, <2>1, <3>1, <3>2 DEF Away
  <2> QED BY <2>3, <2>4, BesideSave
<1>5. CASE SpawnInsert(t)
  <2>1. /\ pc[t] = "spawnInsert" /\ pc'[t] = "idle" /\ nextUuid' = nextUuid
        /\ pool' = pool \cup {uuid[t]} /\ PoolFree
        /\ disturbed' = (disturbed \/ Opened) /\ file' = file /\ saving' = saving
        /\ links' = links
        /\ \A u \in Thread \ {t} : pc'[u] = pc[u] /\ uuid'[u] = uuid[u]
    BY <1>1, <1>5 DEF SpawnInsert, Goto
  <2>2. Beside(t)
    BY <2>1 DEF Beside, SaveControls
  <2>3. Away'
    BY <1>2, <2>1 DEF Away, Outside
  <2> QED BY <2>2, <2>3, BesideSave
<1>6. ASSUME NEW a \in Uuid, Unhash(t, a) PROVE Away' /\ SaveInv'
  <2>1. /\ pc[t] = "idle" /\ pc'[t] = "drop" /\ nextUuid' = nextUuid
        /\ a \in pool /\ pool' = pool \ {a} /\ PoolFree /\ uuid'[t] = a
        /\ disturbed' = (disturbed \/ Opened) /\ file' = file /\ saving' = saving
        /\ links' = links
        /\ \A u \in Thread \ {t} : pc'[u] = pc[u] /\ uuid'[u] = uuid[u]
    BY <1>1, <1>6 DEF Unhash, May, Goto
  <2>2. Beside(t)
    BY <2>1 DEF Beside, SaveControls
  <2>3. a < nextUuid
    BY <1>2, <2>1 DEF NextUuidIsFresh, Unpooled
  <2>4. Away'
    BY <1>2, <2>1, <2>3 DEF Away
  <2> QED BY <2>2, <2>4, BesideSave
<1>7. CASE Drop(t)
  <2>1. /\ pc[t] = "drop" /\ pc'[t] = "idle" /\ nextUuid' = nextUuid /\ pool' = pool
        /\ UNCHANGED disk
        /\ \A u \in Thread \ {t} : pc'[u] = pc[u] /\ uuid'[u] = uuid[u]
        /\ \A a \in Uuid \ {uuid[t]} :
              type'[a] = type[a] /\ tv'[a] = tv[a] /\ links'[a] = links[a]
    BY <1>1, <1>7 DEF Drop, Goto
  <2>2. uuid[t] \notin pool
    BY <1>2, <2>1 DEF Away, Outside
  <2>3. \A a \in pool : a \in Uuid \ {uuid[t]}
    BY <1>1, <2>2
  <2>4. Beside(t)
    BY <2>1, <2>3 DEF Beside, SaveControls, disk
  <2>5. Away'
    BY <1>2, <2>1 DEF Away, Outside
  <2> QED BY <2>4, <2>5, BesideSave
<1>8. ASSUME NEW a \in Uuid, Link(t, a) PROVE Away' /\ SaveInv'
  <2>1. /\ pc[t] = "idle" /\ UNCHANGED <<locals, nextUuid, pool, type, tv, file, saving>>
        /\ disturbed' = (disturbed \/ Walking(a))
        /\ \A b \in Uuid \ {a} : links'[b] = links[b]
    BY <1>1, <1>8 DEF Link, May
  <2>2. Beside(t)
    BY <1>1, <2>1 DEF Beside, SaveControls, locals
  <2>3. Away'
    BY <2>1, AwayKept DEF locals, Outside
  <2> QED BY <2>2, <2>3, BesideSave
<1>9. ASSUME NEW a \in Uuid, NEW v \in Tv, SetTv(t, a, v) PROVE Away' /\ SaveInv'
  <2>1. /\ pc[t] = "idle" /\ UNCHANGED <<locals, nextUuid, pool, type, links, file, saving>>
        /\ disturbed' = (disturbed \/ Written(a))
        /\ \A b \in Uuid \ {a} : tv'[b] = tv[b]
    BY <1>1, <1>9 DEF SetTv, May
  <2>2. PoolFree \/ a \in saving \/ disturbed'
    BY <2>1 DEF Written, PoolFree
  <2>3. Beside(t)
    BY <1>1, <2>1, <2>2 DEF Beside, SaveControls, locals
  <2>4. Away'
    BY <2>1, AwayKept DEF locals, Outside
  <2> QED BY <2>3, <2>4, BesideSave
<1> QED BY <1>3, <1>4, <1>5, <1>6, <1>7, <1>8, <1>9 DEF StepAtom

\* An atom's fields go behind what is written: they are where the next one comes.
LEMMA HeadDrafts ==
    ASSUME IInv, NEW t \in Thread, Drafted(t), pc[t] = "saveHead", SaveHead(t),
           saving \subseteq pool
    PROVE  Drafted(t)'
<1>1. /\ pc \in [Thread -> Controls] /\ uuid \in [Thread -> Uuid \cup {0}]
      /\ file \in [count : Nat, words : Seq(Words)] /\ saving \subseteq Uuid
      /\ links \in [Uuid -> 0 .. MaxLinks]
  BY DEF IInv, TypeOK, AtomsOK, DiskOK, LocalsOK
<1>2. PICK u \in saving :
        /\ file' = [file EXCEPT !.words = Append(@,
               [kind |-> "atom", uuid |-> u, type |-> type[u], tv |-> tv[u],
                count |-> links[u]])]
        /\ saving' = saving \ {u}
        /\ uuid' = [uuid EXCEPT ![t] = u]
  BY DEF SaveHead
<1>3. /\ type' = type /\ tv' = tv /\ links' = links /\ pool' = pool /\ pc'[t] = "saveLinks"
  BY <1>1 DEF SaveHead, Goto, atoms
<1>4. PICK k, s :
        /\ Places(s, k, file.words)
        /\ file.count = k + Cardinality(saving)
        /\ {Fields(file.words[s[n]]) : n \in 1 .. k} = {FieldsOf(a) : a \in pool \ saving}
        /\ s[k + 1] = Len(file.words) + 1 + Pending(t)
        /\ k \in Nat /\ s \in [1 .. k + 1 -> Nat]
  BY DEF Drafted, Places
<1>5. u \in Uuid /\ links[u] \in Nat /\ Pending(t)' = links[u] /\ Pending(t) = 0
  BY <1>1, <1>2, <1>3, BoundsAssumption DEF Pending
<1>0. k \in Nat /\ s \in [1 .. k + 1 -> Nat] /\ links[u] \in Nat
  BY <1>4, <1>5
<1> USE <1>0
<1> DEFINE w == [kind |-> "atom", uuid |-> u, type |-> type[u], tv |-> tv[u], count |-> links[u]]
           words == file.words
           place == [n \in 1 .. k + 2 |-> IF n <= k + 1 THEN s[n] ELSE s[k + 1] + 1 + links[u]]
<1>6. /\ words \in Seq(Words) /\ Len(words) \in Nat
      /\ file'.words = Append(words, w) /\ file'.count = file.count
  BY <1>1, <1>2
<1>7. /\ DOMAIN words = 1 .. Len(words) /\ DOMAIN file'.words = 1 .. Len(words) + 1
      /\ Len(file'.words) = Len(words) + 1
      /\ \A i \in 1 .. Len(words) : file'.words[i] = words[i]
      /\ file'.words[Len(words) + 1] = w
  <2> HIDE DEF w, words
  <2> QED BY <1>6
<1>8. s[k + 1] = Len(words) + 1
  BY <1>4, <1>5, <1>6
<1>9. /\ w.kind = "atom" /\ w.count = links[u] /\ Fields(w) = FieldsOf(u)
  BY DEF Fields, FieldsOf
<1> HIDE DEF w
<1>10. \A n \in 1 .. k : /\ s[n] \in 1 .. Len(words) /\ words[s[n]].kind = "atom"
                         /\ s[n + 1] = s[n] + 1 + words[s[n]].count
                         /\ file'.words[s[n]] = words[s[n]]
  BY <1>4, <1>7 DEF Places
<1> HIDE DEF words
<1>11. place \in [1 .. k + 1 + 1 -> Nat] /\ \A n \in 1 .. k + 1 : place[n] = s[n]
  <2>1. s[k + 1] + 1 + links[u] \in Nat
    BY <1>5
  <2> QED BY <2>1
<1>12. place[k + 2] = s[k + 1] + 1 + links[u]
  OBVIOUS
<1> HIDE DEF place
<1>13. Places(place, k + 1, file'.words)
  <2>1. place[1] = 1
    BY <1>4, <1>11 DEF Places
  <2>2. ASSUME NEW n \in 1 .. k
        PROVE  /\ place[n] \in DOMAIN file'.words /\ file'.words[place[n]].kind = "atom"
               /\ place[n + 1] = place[n] + 1 + file'.words[place[n]].count
    <3>1. n \in 1 .. k + 1 /\ n + 1 \in 1 .. k + 1
      OBVIOUS
    <3>2. place[n] = s[n] /\ place[n + 1] = s[n + 1] /\ s[n] \in 1 .. Len(words) + 1
      BY <1>6, <1>10, <1>11, <3>1
    <3> QED BY <1>7, <1>10, <3>2
  <2>3. /\ place[k + 1] \in DOMAIN file'.words /\ file'.words[place[k + 1]].kind = "atom"
        /\ place[k + 1 + 1] = place[k + 1] + 1 + file'.words[place[k + 1]].count
    <3>1. place[k + 1] = Len(words) + 1 /\ Len(words) + 1 \in 1 .. Len(words) + 1
      BY <1>6, <1>8, <1>11
    <3> QED BY <1>7, <1>8, <1>9, <1>12, <3>1
  <2>4. \A n \in 1 .. k + 1 : n \in 1 .. k \/ n = k + 1
    OBVIOUS
  <2> QED BY <1>11, <2>1, <2>2, <2>3, <2>4 DEF Places
<1>14. file'.count = k + 1 + Cardinality(saving')
  <2>1. Cardinality(saving') = Cardinality(saving) - 1 /\ Cardinality(saving) \in Nat
    BY <1>1, <1>2, OneLess, UuidsAreFinite, FS_CardinalityType
  <2> QED BY <1>4, <1>6, <2>1
<1>15. {Fields(file'.words[place[n]]) : n \in 1 .. k + 1} = {FieldsOf(a) : a \in pool \ saving}'
  <2>1. \A n \in 1 .. k : Fields(file'.words[place[n]]) = Fields(words[s[n]])
    BY <1>10, <1>11
  <2>2. Fields(file'.words[place[k + 1]]) = FieldsOf(u)
    BY <1>7, <1>8, <1>9, <1>11
  <2>3. {Fields(file'.words[place[n]]) : n \in 1 .. k + 1}
          = {Fields(words[s[n]]) : n \in 1 .. k} \cup {FieldsOf(u)}
    <3>1. 1 .. k + 1 = (1 .. k) \cup {k + 1}
      OBVIOUS
    <3> QED BY <2>1, <2>2, <3>1
  <2>4. pool' \ saving' = (pool \ saving) \cup {u}
    BY <1>2, <1>3
  <2>5. {FieldsOf(a) : a \in pool \ saving}' = {FieldsOf(a) : a \in pool' \ saving'}
    BY <1>3 DEF FieldsOf
  <2> QED BY <1>4, <2>3, <2>4, <2>5 DEF words
<1>16. place[k + 1 + 1] = Len(file'.words) + 1 + Pending(t)'
  BY <1>5, <1>6, <1>7, <1>8, <1>12
<1> QED BY <1>11, <1>13, <1>14, <1>15, <1>16 DEF Drafted

LEMMA Concatenated ==
    ASSUME NEW p \in Seq(Words), NEW q \in Seq(Words)
    PROVE  /\ DOMAIN p = 1 .. Len(p) /\ Len(p) \in Nat
           /\ Len(p \o q) = Len(p) + Len(q)
           /\ DOMAIN (p \o q) = 1 .. Len(p) + Len(q)
           /\ \A i \in 1 .. Len(p) : (p \o q)[i] = p[i]
OBVIOUS

\* Its channels fill the room it left for them.
LEMMA LinksDraft ==
    ASSUME IInv, NEW t \in Thread, Drafted(t), SaveLinks(t), uuid[t] \in Uuid
    PROVE  Drafted(t)'
<1>1. /\ pc \in [Thread -> Controls] /\ uuid \in [Thread -> Uuid \cup {0}]
      /\ file \in [count : Nat, words : Seq(Words)] /\ links[uuid[t]] \in Nat
  BY BoundsAssumption DEF IInv, TypeOK, AtomsOK, DiskOK, LocalsOK
<1>2. /\ type' = type /\ tv' = tv /\ pool' = pool /\ saving' = saving
      /\ pc[t] = "saveLinks" /\ pc'[t] = "saveHead"
      /\ file' = [file EXCEPT !.words = file.words \o LinkWords(uuid[t])]
  BY <1>1 DEF SaveLinks, Goto, atoms
<1>3. PICK k, s :
        /\ Places(s, k, file.words)
        /\ file.count = k + Cardinality(saving)
        /\ {Fields(file.words[s[n]]) : n \in 1 .. k} = {FieldsOf(a) : a \in pool \ saving}
        /\ s[k + 1] = Len(file.words) + 1 + Pending(t)
        /\ k \in Nat /\ s \in [1 .. k + 1 -> Nat]
  BY DEF Drafted, Places
<1>0. k \in Nat /\ s \in [1 .. k + 1 -> Nat]
  BY <1>3
<1> USE <1>0
<1>4. Pending(t) = links[uuid[t]] /\ Pending(t)' = 0
  BY <1>2 DEF Pending
<1> DEFINE words == file.words
           more == LinkWords(uuid[t])
<1>50. more \in Seq(Words) /\ Len(more) = links[uuid[t]]
  BY <1>1 DEF LinkWords, Words
<1> HIDE DEF more
<1>5. /\ words \in Seq(Words) /\ more \in Seq(Words) /\ Len(more) = links[uuid[t]]
      /\ file'.words = words \o more /\ file'.count = file.count
  BY <1>1, <1>2, <1>50 DEF more
<1> HIDE DEF words
<1>6. /\ DOMAIN words = 1 .. Len(words) /\ Len(words) \in Nat
      /\ Len(file'.words) = Len(words) + links[uuid[t]]
      /\ DOMAIN file'.words = 1 .. Len(words) + links[uuid[t]]
      /\ \A i \in 1 .. Len(words) : file'.words[i] = words[i]
  <2>1. /\ DOMAIN words = 1 .. Len(words) /\ Len(words) \in Nat
        /\ Len(words \o more) = Len(words) + Len(more)
        /\ DOMAIN (words \o more) = 1 .. Len(words) + Len(more)
        /\ \A i \in 1 .. Len(words) : (words \o more)[i] = words[i]
    BY <1>5, Concatenated
  <2>2. Len(more) = links[uuid[t]] /\ file'.words = words \o more
    BY <1>5
  <2> QED BY <2>1, <2>2, Zenon
<1>7. \A n \in 1 .. k : /\ s[n] \in DOMAIN file'.words /\ file'.words[s[n]] = words[s[n]]
  <2> SUFFICES ASSUME NEW n \in 1 .. k
               PROVE  s[n] \in DOMAIN file'.words /\ file'.words[s[n]] = words[s[n]]
    OBVIOUS
  <2>1. s[n] \in 1 .. Len(words)
    BY <1>3, <1>6 DEF Places, words
  <2> QED BY <1>1, <1>6, <2>1
<1>8. Places(s, k, file'.words)
  BY <1>3, <1>7 DEF Places, words
<1>9. {Fields(file'.words[s[n]]) : n \in 1 .. k} = {FieldsOf(a) : a \in pool \ saving}'
  <2>1. {FieldsOf(a) : a \in pool \ saving}' = {FieldsOf(a) : a \in pool \ saving}
    BY <1>2 DEF FieldsOf
  <2> QED BY <1>3, <1>7, <2>1 DEF words
<1>10. s[k + 1] = Len(file'.words) + 1 + Pending(t)'
  <2>1. s[k + 1] = Len(words) + 1 + links[uuid[t]]
    BY <1>3, <1>4 DEF words
  <2>2. Len(file'.words) = Len(words) + links[uuid[t]] /\ Len(words) \in Nat
    BY <1>6
  <2>3. Pending(t)' = 0 /\ links[uuid[t]] \in Nat
    BY <1>1, <1>4
  <2> HIDE <1>0
  <2> QED BY <2>1, <2>2, <2>3
<1> QED BY <1>2, <1>3, <1>5, <1>8, <1>9, <1>10 DEF Drafted

\* cogdiod_save, which one thread is in at a time.
LEMMA SaveSaves ==
    ASSUME StoreInv, NEW t \in Thread, StepSave(t)
    PROVE  Away' /\ SaveInv'
<1>1. /\ pc \in [Thread -> Controls] /\ uuid \in [Thread -> Uuid \cup {0}]
      /\ file \in [count : Nat, words : Seq(Words)] /\ saving \subseteq Uuid /\ pool \subseteq Uuid
  BY DEF StoreInv, IInv, TypeOK, AtomsOK, DiskOK, LocalsOK
<1>2. /\ UNCHANGED atoms /\ "save" \in Ops[t]
      /\ pc[t] \notin Outside /\ pc'[t] \notin Outside
      /\ \A u \in Thread \ {t} : pc'[u] = pc[u] /\ uuid'[u] = uuid[u]
  <2>1. UNCHANGED atoms /\ pc[t] \in SaveControls \cup {"idle"}
    BY DEF StepSave, SaveOpen, SaveLock, SaveHead, SaveLinks, SaveClose, May, SaveControls
  <2>2. "save" \in Ops[t]
    BY DEF StepSave, SaveOpen, SaveLock, SaveHead, SaveLinks, SaveClose, May, StoreInv, SaveInv, SaveControls
  <2>3. /\ pc'[t] \notin Outside
        /\ \A u \in Thread \ {t} : pc'[u] = pc[u]
    BY <1>1 DEF StepSave, SaveOpen, SaveLock, SaveHead, SaveLinks, SaveClose, Goto, Outside
  <2>4. \A u \in Thread \ {t} : uuid'[u] = uuid[u]
    BY <1>1 DEF StepSave, SaveOpen, SaveLock, SaveHead, SaveLinks, SaveClose
  <2> QED BY <2>1, <2>2, <2>3, <2>4 DEF SaveControls, Outside
<1>3. Away'
  BY <1>2, AwayKept DEF atoms
<1>4. \A u \in Thread \ {t} : pc[u] \notin SaveControls
  BY <1>2, OpsAssumption DEF StoreInv, SaveInv
<1>5. ASSUME /\ pc'[t] = "saveLock" /\ ~disturbed' =>
                  file' = [count |-> Cardinality(pool'), words |-> <<>>]
             /\ pc'[t] \in {"saveHead", "saveLinks"} =>
                  saving' \subseteq pool' /\ (~disturbed' => Drafted(t)')
             /\ pc'[t] = "saveLinks" => uuid'[t] \in pool' \ saving'
      PROVE  SaveInv'
  BY <1>2, <1>4, <1>5 DEF SaveInv, SaveControls
<1>6. /\ pc[t] = "saveLock" /\ ~disturbed => file = [count |-> Cardinality(pool), words |-> <<>>]
      /\ pc[t] \in {"saveHead", "saveLinks"} => saving \subseteq pool /\ (~disturbed => Drafted(t))
      /\ pc[t] = "saveLinks" => uuid[t] \in pool \ saving
      /\ IInv
  BY DEF StoreInv, SaveInv
<1>7. CASE SaveOpen(t)
  <2>1. pc'[t] = "saveLock" /\ pool' = pool
        /\ file' = [count |-> Cardinality(pool), words |-> <<>>]
    BY <1>1, <1>7 DEF SaveOpen, Goto, atoms
  <2> QED BY <1>3, <1>5, <2>1
<1>8. CASE SaveLock(t)
  <2>1. /\ pc[t] = "saveLock" /\ pc'[t] = "saveHead" /\ pool' = pool /\ saving' = pool
        /\ file' = file /\ disturbed' = disturbed
    BY <1>1, <1>8 DEF SaveLock, Goto, atoms
  <2>2. ASSUME ~disturbed PROVE Drafted(t)'
    <3> DEFINE s == [n \in 1 .. 1 |-> 1]
    <3>1. file'.words = <<>> /\ file'.count = Cardinality(pool) /\ Cardinality(pool) \in Nat
      BY <1>1, <1>6, <2>1, <2>2, UuidsAreFinite, FS_CardinalityType
    <3>2. s \in [1 .. 0 + 1 -> Nat] /\ s[1] = 1 /\ 1 .. 0 = {}
      OBVIOUS
    <3> HIDE DEF s
    <3>3. Places(s, 0, file'.words)
      BY <3>2 DEF Places
    <3>4. Pending(t)' = 0
      BY <2>1 DEF Pending
    <3>5. {Fields(file'.words[s[n]]) : n \in 1 .. 0} = {FieldsOf(a) : a \in pool \ saving}'
      <4>1. pool' \ saving' = {}
        BY <2>1
      <4>2. {FieldsOf(a) : a \in pool \ saving}' = {}
        BY <4>1
      <4> QED BY <3>2, <4>2
    <3>6. s[0 + 1] = Len(file'.words) + 1 + Pending(t)'
      BY <3>1, <3>2, <3>4
    <3>7. file'.count = 0 + Cardinality(saving')
      BY <2>1, <3>1
    <3> QED BY <3>2, <3>3, <3>5, <3>6, <3>7 DEF Drafted
  <2> QED BY <1>3, <1>5, <2>1, <2>2
<1>9. CASE SaveHead(t)
  <2>1. /\ pc[t] = "saveHead" /\ pc'[t] = "saveLinks" /\ pool' = pool
        /\ disturbed' = disturbed
        /\ \E u \in saving : saving' = saving \ {u} /\ uuid'[t] = u
    BY <1>1, <1>9 DEF SaveHead, Goto, atoms
  <2>2. ASSUME ~disturbed PROVE Drafted(t)'
    BY <1>6, <1>9, <2>1, <2>2, HeadDrafts
  <2> QED BY <1>3, <1>5, <1>6, <2>1, <2>2
<1>10. CASE SaveLinks(t)
  <2>1. /\ pc[t] = "saveLinks" /\ pc'[t] = "saveHead" /\ pool' = pool /\ saving' = saving
        /\ disturbed' = disturbed
    BY <1>1, <1>10 DEF SaveLinks, Goto, atoms
  <2>2. ASSUME ~disturbed PROVE Drafted(t)'
    BY <1>1, <1>6, <1>10, <2>1, <2>2, LinksDraft
  <2> QED BY <1>3, <1>5, <1>6, <2>1, <2>2
<1>11. CASE SaveClose(t)
  <2>1. pc'[t] = "idle"
    BY <1>1, <1>11 DEF SaveClose, Goto
  <2> QED BY <1>3, <1>5, <2>1
<1> QED BY <1>7, <1>8, <1>9, <1>10, <1>11 DEF StepSave

LEMMA InitStore == Init => StoreInv
BY InitIInv DEF Init, StoreInv, Away, SaveInv, Outside, SaveControls

LEMMA NextStore == StoreInv /\ [Next]_vars => StoreInv'
<1> SUFFICES ASSUME StoreInv, [Next]_vars PROVE Away' /\ SaveInv'
  BY NextIInv DEF StoreInv
<1>1. CASE UNCHANGED vars
  <2>1. UNCHANGED <<atoms, disk, locals>>
    BY <1>1 DEF vars
  <2>2. Away'
    BY <2>1 DEF StoreInv, Away, atoms, locals
  <2>3. ASSUME NEW t \in Thread, Drafted(t) PROVE Drafted(t)'
    BY <2>1, <2>3, DraftKept DEF atoms, disk, locals, Pending
  <2>4. SaveInv'
    BY <2>1, <2>3 DEF StoreInv, SaveInv, atoms, disk, locals
  <2> QED BY <2>2, <2>4
<1>2. CASE Restart
  BY <1>2 DEF Restart, Away, SaveInv, Outside, SaveControls
<1> QED BY <1>1, <1>2, PackageSave, AtomSave, SaveSaves DEF Next

\* cogdiod_save: a file that was written while the pool stayed what it was, no
\* channel was added between an atom's count and its channels, and no written atom
\* was set, reads back as the whole pool, whatever its size.
THEOREM UndisturbedSavesAreWhole == Spec => SaveIsWhole
<1>1. StoreInv => \A t \in Thread : pc[t] = "saveHead" /\ saving = {} /\ ~disturbed =>
           /\ Readable(file)
           /\ {Fields(w) : w \in ReadAtoms(file)} = {FieldsOf(u) : u \in pool}
  BY DraftIsWhole DEF StoreInv, SaveInv
<1>2. StoreInv /\ [Next]_vars =>
        [\A t \in Thread :
           pc[t] = "saveHead" /\ saving = {} /\ pc'[t] = "idle" /\ ~disturbed =>
             /\ Readable(file)
             /\ {[uuid |-> w.uuid, type |-> w.type, tv |-> w.tv] : w \in ReadAtoms(file)}
                  = {[uuid |-> u, type |-> type[u], tv |-> tv[u]] : u \in pool}]_vars
  BY <1>1 DEF Fields, FieldsOf
<1> QED BY <1>2, InitStore, NextStore, PTL DEF Spec, SaveIsWhole
=============================================================================
