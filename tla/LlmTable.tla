------------------------------- MODULE LlmTable -------------------------------
(***************************************************************************)
(* src/llm/cogdiod_llm.c: which atom has which language model.  Attaching  *)
(* starts a child process, then enters it in a table that is shared by all *)
(* threads; inferring looks the child up and, after the table's lock is    *)
(* released, writes to it; detaching takes it out of the table and then    *)
(* ends it.  The table is probed from the bucket of an atom's uuid on, up  *)
(* to the first empty bucket, and a bucket that is emptied is empty again. *)
(*                                                                         *)
(* A CogLlmState with its backend and its process is one child, numbered   *)
(* by its start.  A child whose process cannot be started changes nothing. *)
(* latest, displaced and replaced are history variables.                   *)
(***************************************************************************)
EXTENDS Integers, FiniteSets

CONSTANTS
    LlmAtom,        \* atoms that get models
    Caller,         \* threads that call
    Buckets,        \* LLM_TABLE_BUCKETS
    Home(_),        \* llm_bucket
    MaxChildren     \* bound: children ever started

ASSUME LlmAssumption ==
    /\ Buckets \in Nat \ {0} /\ MaxChildren \in Nat
    /\ \A a \in LlmAtom : Home(a) \in 0 .. Buckets - 1

VARIABLES
    table,      \* table[i]: [atom, child] of the bucket i, or Empty
    started,    \* how many children were started
    running,    \* the children whose process runs
    doing,      \* doing[t]: the call thread t is in, [call, atom, child]
    latest,     \* latest[a]: the child last attached to a and not detached, or 0
    displaced,  \* atoms with an emptied bucket between their home and their own
    replaced    \* children that an attach to the same atom took the place of

llmVars == <<table, started, running, doing, latest, displaced, replaced>>

Empty == [atom |-> "none", child |-> 0]
Idle == [call |-> "idle", atom |-> "none", child |-> 0]

LlmInit ==
    /\ table = [i \in 0 .. Buckets - 1 |-> Empty]
    /\ started = 0
    /\ running = {}
    /\ doing = [t \in Caller |-> Idle]
    /\ latest = [a \in LlmAtom |-> 0]
    /\ displaced = {}
    /\ replaced = {}

LlmTypeOK ==
    /\ \A i \in 0 .. Buckets - 1 : table[i] = Empty \/ table[i].atom \in LlmAtom
    /\ started \in 0 .. MaxChildren
    /\ running \subseteq 1 .. started /\ replaced \subseteq 1 .. started
    /\ displaced \subseteq LlmAtom
    /\ \A t \in Caller : doing[t] # Idle =>
        doing[t].call \in {"attach", "infer", "detach"} /\ doing[t].child \in 1 .. started

-----------------------------------------------------------------------------
(* Probing. *)

Bucket(a, probe) == (Home(a) + probe) % Buckets
BucketOf(a, i) == CHOOSE probe \in 0 .. Buckets - 1 : Bucket(a, probe) = i

\* The bucket where probing for a ends: the first that is empty or has a.
ProbeEnd(a) ==
    LET ends(p) == table[Bucket(a, p)] = Empty \/ table[Bucket(a, p)].atom = a
    IN {Bucket(a, p) : p \in {p \in 0 .. Buckets - 1 :
                                ends(p) /\ \A q \in 0 .. p - 1 : ~ ends(q)}}

\* Mutant: the entry of another atom counts as room.
PutInto(a) == {Home(a)}
\* llm_table_put: the bucket for a, if there is one.
RoomFor(a) == ProbeEnd(a)

\* llm_table_get and llm_table_remove: the bucket that has a, if there is one
\* before the first empty bucket.
EntryOf(a) == {i \in ProbeEnd(a) : table[i] # Empty}

-----------------------------------------------------------------------------

\* A thread calls on an atom whatever the others are doing.
Enter(t, call, a, child) ==
    /\ doing[t] = Idle
    /\ doing' = [doing EXCEPT ![t] = [call |-> call, atom |-> a, child |-> child]]
Leave(t) == doing' = [doing EXCEPT ![t] = Idle]

\* cogdiod_llm_attach: the child is started before there is room for it.
StartChild(t, a) ==
    /\ started < MaxChildren
    /\ started' = started + 1
    /\ running' = running \cup {started + 1}
    /\ Enter(t, "attach", a, started + 1)
    /\ UNCHANGED <<table, latest, displaced, replaced>>

Put(t) ==
    LET a == doing[t].atom
        child == doing[t].child
    IN /\ doing[t].call = "attach"
       /\ \E i \in RoomFor(a) :
            /\ table' = [table EXCEPT ![i] = [atom |-> a, child |-> child]]
            /\ replaced' = IF table[i] = Empty THEN replaced ELSE replaced \cup {table[i].child}
       /\ latest' = [latest EXCEPT ![a] = child]
       /\ displaced' = displaced \ {a}
       /\ Leave(t)
       /\ UNCHANGED <<started, running>>

\* Mutant: the child is forgotten.
PutFailsQuietly(t) ==
    /\ doing[t].call = "attach"
    /\ RoomFor(doing[t].atom) = {}
    /\ Leave(t)
    /\ UNCHANGED <<table, started, running, latest, displaced, replaced>>
\* The table is full: the child is ended again.
PutFails(t) ==
    /\ doing[t].call = "attach"
    /\ RoomFor(doing[t].atom) = {}
    /\ running' = running \ {doing[t].child}
    /\ Leave(t)
    /\ UNCHANGED <<table, started, latest, displaced, replaced>>

\* cogdiod_llm_infer.
Lookup(t, a) ==
    /\ \E i \in EntryOf(a) : Enter(t, "infer", a, table[i].child)
    /\ UNCHANGED <<table, started, running, latest, displaced, replaced>>

Prompt(t) ==
    /\ doing[t].call = "infer"
    /\ Leave(t)
    /\ UNCHANGED <<table, started, running, latest, displaced, replaced>>

\* Mutant: the bucket keeps the child it had.
TakeOutCopy(t, a) ==
    /\ \E i \in EntryOf(a) : Enter(t, "detach", a, table[i].child)
    /\ latest' = [latest EXCEPT ![a] = 0]
    /\ UNCHANGED <<table, started, running, displaced, replaced>>
\* cogdiod_llm_detach: entries that were put behind this one because it was in
\* their way are not looked for any more.
TakeOut(t, a) ==
    /\ \E i \in EntryOf(a) :
        /\ Enter(t, "detach", a, table[i].child)
        /\ table' = [table EXCEPT ![i] = Empty]
        /\ displaced' = displaced \cup
              {b \in LlmAtom : \E j \in EntryOf(b) : BucketOf(b, i) < BucketOf(b, j)}
    /\ latest' = [latest EXCEPT ![a] = 0]
    /\ UNCHANGED <<started, running, replaced>>

EndChild(t) ==
    /\ doing[t].call = "detach"
    /\ running' = running \ {doing[t].child}
    /\ Leave(t)
    /\ UNCHANGED <<table, started, latest, displaced, replaced>>

LlmCall(t) ==
    \/ \E a \in LlmAtom : StartChild(t, a) \/ Lookup(t, a) \/ TakeOut(t, a)
    \/ Put(t) \/ PutFails(t) \/ Prompt(t) \/ EndChild(t)

-----------------------------------------------------------------------------

\* An atom's latest child is found in the table whatever other atoms were put
\* in its way, unless an entry that it had to be put behind was taken out: the
\* promise of a table with linear probing and no mark for emptied buckets.
LatestIsFound == \A a \in LlmAtom : latest[a] # 0 /\ a \notin displaced =>
    \E i \in EntryOf(a) : table[i].child = latest[a]

\* However calls on one atom overlap, a child is ended once: who is about to enter
\* a child or to end it finds it running, no other call is about to end the same,
\* and what is in the table runs.  kill_emu_llama would signal a process number
\* that may be somebody else's by then, and free the child's memory twice.
InHand(t) == doing[t].call \in {"attach", "detach"}
ChildrenEndOnce ==
    /\ \A i \in 0 .. Buckets - 1 : table[i] # Empty => table[i].child \in running
    /\ \A t \in Caller : InHand(t) => doing[t].child \in running
    /\ \A t, u \in Caller :
          t # u /\ InHand(t) /\ InHand(u) => doing[t].child # doing[u].child

\* A child that runs is in the table or in the hands of a thread, or a later
\* attach to its atom took its place: no failed call leaves one behind.
ChildrenAreAccountedFor == \A child \in running :
    \/ \E i \in 0 .. Buckets - 1 : table[i].child = child
    \/ \E t \in Caller : doing[t].child = child
    \/ child \in replaced

\* What the table does not promise: that the child a thread has looked up still runs
\* when it is written to.  g_table_lock guards the table and not the child that was
\* found in it.
InUseAreRunning == \A t \in Caller : doing[t] # Idle => doing[t].child \in running
=============================================================================
