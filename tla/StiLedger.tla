------------------------------ MODULE StiLedger ------------------------------
(***************************************************************************)
(* The account of short-term importance in src/kernel/cogdiod_kernel.c:    *)
(* each atom's STI, under the atom's lock, beside the kernel's total_sti   *)
(* and sti_funds, under sti_lock.  No operation holds both locks, and      *)
(* those that walk the pool take the locks of one atom after the other.    *)
(*                                                                         *)
(* STI that is sent does not arrive: MSG_ATTEND carries it in msg.av, and  *)
(* elm_exec_msg hands only the message's truth value to the bytecode.      *)
(*                                                                         *)
(* Amounts are whole units; a fraction of an amount (1% of it as rent, 30% *)
(* or half of it to spread) is some part of it that leaves a rest.  That   *)
(* is why nobody falls asleep here: rent alone never takes the last of a   *)
(* float.  funds2 counts half units.                                       *)
(*                                                                         *)
(* STI may be less than nothing: callers attend with negative amounts, and *)
(* bytecode and a saved file give an atom whatever they have, of which the *)
(* total hears nothing.                                                    *)
(* gone, charged, plain and overlapped are history variables.              *)
(***************************************************************************)
EXTENDS Integers, FiniteSetsExt

CONSTANTS
    Atom,
    Caller,
    OutCount(_),    \* how many channels leave an atom (outgoing_count)
    Amounts,        \* what is given by cogdiod_attend, OP_SET_STI and a saved file
    InitialFunds,   \* sti_funds of a new kernel
    MaxCalls        \* bound: calls that are made

ASSUME LedgerAssumption ==
    /\ Amounts \subseteq Int /\ InitialFunds \in Nat \ {0} /\ MaxCalls \in Nat
    /\ \A a \in Atom : OutCount(a) \in Nat
    /\ IsFiniteSet(Atom) /\ IsFiniteSet(Caller)

VARIABLES
    sti,        \* sti[a], of the atoms that were not destroyed
    total,      \* total_sti
    funds2,     \* twice sti_funds
    doing,      \* doing[t]: the call a thread is in
    calls,      \* calls made
    gone,       \* STI that total counts and no atom has
    plain,      \* whether all STI was booked when it was given, and none was negative
    charged,    \* rent taken from atoms so far
    overlapped  \* whether a normalisation ran beside another call

ledgerVars == <<sti, total, funds2, doing, calls, gone, plain, charged, overlapped>>

Idle == [call |-> "idle"]
In(call) == {t \in Caller : doing[t].call = call}

\* What the values of a function add up to.
TotalOf(f) == MapThenSumSet(LAMBDA x : f[x], DOMAIN f)

\* cogdiod_create, and perhaps cogdiod_load, which leaves total_sti alone.
LedgerInit ==
    /\ sti \in {[a \in Atom |-> 0]} \cup [Atom -> Amounts]
    /\ plain = (sti = [a \in Atom |-> 0])
    /\ total = 0
    /\ funds2 = 2 * InitialFunds
    /\ doing = [t \in Caller |-> Idle]
    /\ calls = 0
    /\ gone = - TotalOf(sti)
    /\ charged = 0
    /\ overlapped = FALSE

Walkers == In("rent") \cup In("diffuse") \cup In("normalize")

\* What a thread in a call keeps: the atoms that are left to visit, the rent it
\* has collected, and what a normalisation read when it began.
Call ==
    {Idle} \cup [call : {"bytecode"}] \cup [call : {"attend"}, delta : Amounts]
    \cup [call : {"diffuse"}, left : SUBSET Atom]
    \cup [call : {"rent"}, left : SUBSET Atom, rent : Nat]
    \cup [call : {"normalize"}, left : SUBSET Atom, total : Nat \ {0}, target2 : Nat]

LedgerTypeOK ==
    /\ DOMAIN sti \subseteq Atom /\ sti \in [DOMAIN sti -> Int]
    /\ {total, gone} \subseteq Int /\ {funds2, charged} \subseteq Nat
    /\ calls \in 0 .. MaxCalls /\ {overlapped, plain} \subseteq BOOLEAN
    /\ doing \in [Caller -> Call]
    \* No walk comes to an atom that was destroyed.
    /\ \A t \in Walkers : doing[t].left \subseteq DOMAIN sti

-----------------------------------------------------------------------------

\* A thread enters a call; a normalisation that is not alone is noted.
Enter(t, record) ==
    /\ doing[t] = Idle
    /\ calls < MaxCalls
    /\ calls' = calls + 1
    /\ doing' = [doing EXCEPT ![t] = record]
    /\ overlapped' = (\/ overlapped
                      \/ In("normalize") # {}
                      \/ record.call = "normalize" /\ In("idle") # Caller)
Return(t) == doing' = [doing EXCEPT ![t] = Idle] /\ UNCHANGED <<calls, overlapped>>
GoesOn(t, a) == doing' = [doing EXCEPT ![t].left = @ \ {a}] /\ UNCHANGED <<calls, overlapped>>
Visits(t, call, a) == t \in In(call) /\ a \in doing[t].left
Finishes(t, call) == t \in In(call) /\ doing[t].left = {}

\* cogdiod_attend: the atom first, the total after.
AttendAtom(t, a, delta) ==
    /\ Enter(t, [call |-> "attend", delta |-> delta])
    /\ sti' = [sti EXCEPT ![a] = @ + delta]
    /\ plain' = (plain /\ delta >= 0)
    /\ UNCHANGED <<total, funds2, gone, charged>>

AttendTotal(t) ==
    /\ t \in In("attend")
    /\ total' = total + doing[t].delta
    /\ Return(t)
    /\ UNCHANGED <<sti, funds2, gone, plain, charged>>

\* STI leaves an atom and does not arrive; of a debt a part leaves as well.
PartOf(n) == IF n > 0 THEN 0 .. n - 1 ELSE n + 1 .. 0 \cup {0}
Lose(a, amount) ==
    /\ sti' = [sti EXCEPT ![a] = @ - amount]
    /\ gone' = gone + amount

\* cogdiod_ecan_diffuse under the pool's read lock: every atom once, and the
\* same part of its STI to each of its channels.
Diffuse(t) ==
    /\ Enter(t, [call |-> "diffuse", left |-> DOMAIN sti])
    /\ UNCHANGED <<sti, total, funds2, gone, plain, charged>>

DiffuseAtom(t, a) ==
    /\ Visits(t, "diffuse", a)
    /\ IF sti[a] > 1 /\ OutCount(a) > 0
       THEN \E share \in 0 .. (sti[a] - 1) \div OutCount(a) : Lose(a, share * OutCount(a))
       ELSE UNCHANGED <<sti, gone>>
    /\ GoesOn(t, a)
    /\ UNCHANGED <<total, funds2, plain, charged>>

DiffuseEnds(t) ==
    /\ Finishes(t, "diffuse")
    /\ Return(t)
    /\ UNCHANGED <<sti, total, funds2, gone, plain, charged>>

\* OP_ECAN_SP, in a worker, under the atom's lock: without a channel the part is
\* taken all the same.
Spread(t, a) ==
    /\ \E amount \in PartOf(sti[a]) : Lose(a, amount)
    /\ Enter(t, [call |-> "bytecode"])
    /\ UNCHANGED <<total, funds2, plain, charged>>

\* OP_SET_STI.
SetSti(t, a, amount) ==
    /\ Lose(a, sti[a] - amount)
    /\ plain' = FALSE
    /\ Enter(t, [call |-> "bytecode"])
    /\ UNCHANGED <<total, funds2, charged>>

BytecodeEnds(t) ==
    /\ t \in In("bytecode")
    /\ Return(t)
    /\ UNCHANGED <<sti, total, funds2, gone, plain, charged>>

\* cogdiod_ecan_collect_rent.
Rent(t) ==
    /\ Enter(t, [call |-> "rent", left |-> DOMAIN sti, rent |-> 0])
    /\ UNCHANGED <<sti, total, funds2, gone, plain, charged>>

RentAtom(t, a) ==
    /\ Visits(t, "rent", a)
    /\ \E rent \in IF sti[a] > 0 THEN PartOf(sti[a]) ELSE {0} :
        /\ sti' = [sti EXCEPT ![a] = @ - rent]
        /\ doing' = [doing EXCEPT ![t] =
                     [call |-> "rent", left |-> @.left \ {a}, rent |-> @.rent + rent]]
        /\ charged' = charged + rent
    /\ UNCHANGED <<calls, overlapped, total, funds2, gone, plain>>

\* Mutant: the half of the rent that goes back to the funds stays in the total.
RentHalfOff(t) ==
    /\ Finishes(t, "rent")
    /\ funds2' = funds2 + doing[t].rent
    /\ total' = total - doing[t].rent \div 2
    /\ Return(t)
    /\ UNCHANGED <<sti, gone, plain, charged>>
\* Mutant: all of the rent goes back to the funds.
RentAllBack(t) ==
    /\ Finishes(t, "rent")
    /\ funds2' = funds2 + 2 * doing[t].rent
    /\ total' = total - doing[t].rent
    /\ Return(t)
    /\ UNCHANGED <<sti, gone, plain, charged>>
RentEnds(t) ==
    /\ Finishes(t, "rent")
    /\ funds2' = funds2 + doing[t].rent
    /\ total' = total - doing[t].rent
    /\ Return(t)
    /\ UNCHANGED <<sti, gone, plain, charged>>

\* cogdiod_ecan_normalize: total and target are read once, and a drift of more
\* than a tenth of the target starts the walk, once the pool is locked.
Normalize(t) ==
    /\ total > 0
    /\ LET drift == 2 * total - funds2 IN 10 * drift > funds2 \/ 10 * drift < -funds2
    /\ Enter(t, [call |-> "normalize", left |-> DOMAIN sti, total |-> total, target2 |-> funds2])
    /\ UNCHANGED <<sti, total, funds2, gone, plain, charged>>

NormalizeAtom(t, a) ==
    /\ Visits(t, "normalize", a)
    /\ sti' = [sti EXCEPT ![a] = (@ * doing[t].target2) \div (2 * doing[t].total)]
    /\ GoesOn(t, a)
    /\ UNCHANGED <<total, funds2, gone, plain, charged>>

NormalizeEnds(t) ==
    /\ Finishes(t, "normalize")
    /\ total' = doing[t].target2 \div 2
    /\ gone' = total' - TotalOf(sti)
    /\ Return(t)
    /\ UNCHANGED <<sti, funds2, plain, charged>>

\* The walks that hold the pool's lock: those that are done have let go of it, and
\* a normalisation that has visited nobody may be about to take it.
PoolLocked == \E t \in Walkers : doing[t].left # {} /\
    ~ (t \in In("normalize") /\ doing[t].left = DOMAIN sti)
Forgets(c, a) == IF c.call = "normalize" THEN [c EXCEPT !.left = @ \ {a}] ELSE c

\* Mutant: the pool's lock is not waited for.
DestroyInAWalk(a) ==
    /\ a \in DOMAIN sti
    /\ sti' = [b \in DOMAIN sti \ {a} |-> sti[b]]
    /\ gone' = gone + sti[a]
    /\ doing' = [t \in Caller |-> Forgets(doing[t], a)]
    /\ UNCHANGED <<total, funds2, calls, plain, charged, overlapped>>
\* cogdiod_destroy_atom waits for the pool's lock, and leaves total_sti alone.
Destroy(a) ==
    /\ a \in DOMAIN sti
    /\ ~ PoolLocked
    /\ sti' = [b \in DOMAIN sti \ {a} |-> sti[b]]
    /\ gone' = gone + sti[a]
    /\ doing' = [t \in Caller |-> Forgets(doing[t], a)]
    /\ UNCHANGED <<total, funds2, calls, plain, charged, overlapped>>

LedgerNext ==
    \/ \E t \in Caller :
        \/ \E a \in DOMAIN sti, amount \in Amounts : AttendAtom(t, a, amount) \/ SetSti(t, a, amount)
        \/ \E a \in DOMAIN sti :
            DiffuseAtom(t, a) \/ Spread(t, a) \/ RentAtom(t, a) \/ NormalizeAtom(t, a)
        \/ AttendTotal(t) \/ Diffuse(t) \/ DiffuseEnds(t) \/ BytecodeEnds(t)
        \/ Rent(t) \/ RentEnds(t) \/ Normalize(t) \/ NormalizeEnds(t)
    \/ \E a \in Atom : Destroy(a)

LedgerSpec == LedgerInit /\ [][LedgerNext]_ledgerVars

-----------------------------------------------------------------------------

Given == [t \in In("attend") |-> doing[t].delta]
Collected == [t \in In("rent") |-> doing[t].rent]

\* Until a normalisation runs beside another call, the kernel's total is what the
\* atoms have, what was sent, destroyed, rounded away or never booked, and the rent
\* that is collected and not yet booked, less the attention that is given and not
\* yet booked.  The two locks let every part be out of step, but nothing is counted
\* twice or forgotten.
LedgerBalances == overlapped \/ In("normalize") # {} \/
    total + TotalOf(Given) = TotalOf(sti) + gone + TotalOf(Collected)

\* While STI is only given, and booked when it is, no atom gets into debt, not even
\* where a normalisation overlaps, and as long as none does the total never says
\* less than the atoms have.
NobodyOwes == plain =>
    /\ \A a \in DOMAIN sti : sti[a] >= 0
    /\ overlapped \/ In("normalize") # {} \/ gone >= 0

\* The funds have grown by half of the rent that was booked, whoever collects and
\* whatever is normalised meanwhile.
FundsAreHalfTheRent ==
    funds2 + TotalOf(Collected) = 2 * InitialFunds + charged

\* The books agree: every component has its type, total_sti and sti_funds say what
\* the atoms' STI and the rent say (cogdiod_attend, cogdiod_ecan_collect_rent).
BooksAgree == LedgerTypeOK /\ LedgerBalances /\ NobodyOwes /\ FundsAreHalfTheRent
=============================================================================
