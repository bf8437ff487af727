-------------------------- MODULE MCRowStorePool --------------------------
(***************************************************************************)
(* RowStorePool for TLC.  The requests give an empty lookup, one that is   *)
(* served inline and two that need the pool (two and three jobs of two     *)
(* rows, the last one short), with a padded id (-1), one owned by another  *)
(* rank, one past the table, and different ids at the same position so     *)
(* that a row left over from an earlier lookup is visible.                 *)
(***************************************************************************)
EXTENDS RowStorePool

MCRequests == {<<>>, <<2>>, <<1, -1, 2>>, <<3, 2, 1, 0, 4>>}
===========================================================================
