------------------------------ MODULE MCService -----------------------------
(***************************************************************************)
(* A small instance of Service for TLC.                                    *)
(***************************************************************************)
EXTENDS Service, TLC

\* Part of the seed, and all of it.
MCAmount == 1 .. 2

Symmetry == Permutations(RequestId) \cup Permutations(HoldId) \cup Permutations(Payment)
            \cup Permutations(UserAccount)
=============================================================================
