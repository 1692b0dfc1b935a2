---------------------------- MODULE MCAtomStore -----------------------------
(***************************************************************************)
(* What the kernel keeps, for TLC: the store of packages and atoms, what   *)
(* each thread may do to it, and the ledger of the atoms' STI, with an     *)
(* atom that has two channels and one that has none.  A behaviour has the  *)
(* one or the other: they share no state.                                  *)
(***************************************************************************)
EXTENDS AtomStore, StiLedger, TLC

CONSTANTS client, keeper

VARIABLE part

kept == <<part, vars, ledgerVars>>

\* One makes and changes what the other unloads, destroys and saves.
OpsAll == client :> {"package", "spawn", "link", "set_tv"}
       @@ keeper :> {"unload", "destroy", "save"}

DebtOrFour == {-3, 4}
TwoChannels(a) == IF a = "hub" THEN 2 ELSE 0

KernelInit ==
    /\ part \in {"store", "ledger"}
    /\ Init
    /\ LedgerInit
    /\ part = "store" => plain    \* one ledger is enough where nobody writes in it

AtStore == part = "store" /\ Next /\ UNCHANGED <<part, ledgerVars>>
AtLedger == part = "ledger" /\ LedgerNext /\ UNCHANGED <<part, vars>>

KernelSpec == KernelInit /\ [][AtStore \/ AtLedger]_kept

Symmetry == Permutations(Package) \cup Permutations(Type)
=============================================================================
