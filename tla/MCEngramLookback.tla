-------------------------- MODULE MCEngramLookback --------------------------
(* EngramLookback for TLC: requests and blocks are interchangeable. *)
EXTENDS EngramLookback, TLC

MCSymmetry == Permutations(Requests) \union Permutations(BlockIds)
=============================================================================
