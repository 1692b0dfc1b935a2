------------------------------ MODULE TvHistory ------------------------------
(***************************************************************************)
(* The two rings of past truth values: that of an atom in the kernel       *)
(* (tv_history and history_count, src/kernel/cogdiod_kernel.c), whose next *)
(* place is found from a count that never stops, and that of an atom in    *)
(* the bridge (tv_hist_s, tv_hist_c, hist_head and hist_count, in          *)
(* cogdiod-lang/bridge/cogdiod_bridge.c), which keeps its next place and   *)
(* a count that stops at the size of the ring.  Both promise the same: the *)
(* last Slots values that were recorded, version 0 the oldest of them.     *)
(*                                                                         *)
(* history_count is an int: after 2^31 values its remainder is negative    *)
(* and the place outside the ring.  The model has no such end.             *)
(***************************************************************************)
EXTENDS Integers, Sequences

CONSTANTS
    Slots,      \* the size of the ring (8 in both)
    Tv,         \* truth values
    Blank,      \* the zeroed truth value a new ring is filled with
    Absent      \* the answer that there is no such version

ASSUME SlotsAssumption == Slots \in Nat \ {0}
ASSUME AbsentAssumption == Blank \in Tv /\ Absent \notin Tv

EmptyRing == [i \in 0 .. Slots - 1 |-> Blank]

\* What is promised of a log of recorded values.
Recall(log, version) ==
    LET first == IF Len(log) > Slots THEN Len(log) - Slots ELSE 0
    IN IF version \in 0 .. Slots - 1 /\ version < Len(log)
       THEN log[first + version + 1]
       ELSE Absent

-----------------------------------------------------------------------------
(* The kernel. *)

KernelNew == [ring |-> EmptyRing, count |-> 0]

\* cogdiod_set_tv and push_tv_history, under the atom's lock.
KernelRecord(h, v) ==
    [ring  |-> [h.ring EXCEPT ![h.count % Slots] = v],
     count |-> h.count + 1]

\* Mutant: the place of the oldest value is forgotten.
KernelVersionFromZero(h, version) ==
    IF version < 0 \/ version >= h.count \/ version >= Slots
    THEN Absent
    ELSE h.ring[version % Slots]
\* cogdiod_get_tv_history.
KernelVersion(h, version) ==
    LET oldest == IF h.count > Slots THEN h.count - Slots ELSE 0
    IN IF version < 0 \/ version >= h.count \/ version >= Slots
       THEN Absent
       ELSE h.ring[(oldest + version) % Slots]

-----------------------------------------------------------------------------
(* The bridge. *)

BridgeNew == [ring |-> EmptyRing, head |-> 0, count |-> 0]

\* push_history, which is not in the repository: what the comment on the
\* "episodic" request says of hist_head and hist_count.
BridgeRecord(h, v) ==
    [ring  |-> [h.ring EXCEPT ![h.head] = v],
     head  |-> (h.head + 1) % Slots,
     count |-> IF h.count < Slots THEN h.count + 1 ELSE Slots]

\* Mutant: versions are counted from the head.
BridgeVersionFromHead(h, version) ==
    IF h.count = 0 \/ version < 0 \/ version >= h.count
    THEN Absent
    ELSE h.ring[(h.head + version + Slots * 2) % Slots]
\* The "episodic" request.
BridgeVersion(h, version) ==
    IF h.count = 0 \/ version < 0 \/ version >= h.count
    THEN Absent
    ELSE h.ring[(h.head - h.count + version + Slots * 2) % Slots]
=============================================================================
