----------------------------- MODULE MCPostings -----------------------------
(***************************************************************************)
(* Postings with three-bit integers for TLC.                                *)
(***************************************************************************)
EXTENDS Postings, TLC

MCAmount == -1 .. Half - 1
=============================================================================
