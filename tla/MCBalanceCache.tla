--------------------------- MODULE MCBalanceCache ---------------------------
(***************************************************************************)
(* Small instances of BalanceCache for TLC.                                *)
(***************************************************************************)
EXTENDS BalanceCache, TLC

Symmetry == Permutations(Request)
=============================================================================
