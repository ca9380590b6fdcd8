------------------------------ MODULE MCLedger ------------------------------
(***************************************************************************)
(* Small instances of Ledger for TLC.                                      *)
(***************************************************************************)
EXTENDS Ledger, TLC

\* Requests for nothing, for a negative amount and for more than the seed.
MCAmount == -1 .. 3
=============================================================================
