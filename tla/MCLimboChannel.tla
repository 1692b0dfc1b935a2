--------------------------- MODULE MCLimboChannel ---------------------------
(***************************************************************************)
(* Instances of LimboChannel for TLC.  BufMax = 3 lets head and tail wrap  *)
(* around several times; two message values tell a lost or duplicated      *)
(* message from the right one.                                             *)
(***************************************************************************)
EXTENDS LimboChannel
=============================================================================
