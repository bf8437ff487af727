---------------------------- MODULE RowTable ----------------------------
(***************************************************************************)
(* The Engram table of one layer as its row store sees it                  *)
(* (src/overlay/engram_ssd/row_store.cpp: struct Store, row_store_range    *)
(* and fetch_one), shared by RowLookup and RowStorePool.  A row is         *)
(* represented by its id; the bytes of a row are not modelled.             *)
(***************************************************************************)
EXTENDS Integers, Sequences

CONSTANTS
  Requests,   \* the id vectors a lookup may be asked for
  MaxRows,    \* capacity of the staging buffer, in rows
  Rows,       \* rows of the table in the checkpoint shard
  RowLo,      \* rows owned by this store: RowLo <= id < RowHi
  RowHi

ASSUME TableAssumption ==
  /\ MaxRows \in Nat /\ Rows \in Nat /\ RowLo \in Nat /\ RowHi \in Nat
  /\ RowLo <= RowHi /\ RowHi <= Rows
  /\ \A q \in Requests : q \in Seq(Int) /\ Len(q) <= MaxRows

ZeroRow == -1     \* memset(w, 0, 256): the id is skipped or owned elsewhere
Unwritten == -2   \* what the staging buffer holds before its first use
Abort == -3       \* fail("row id out of bounds"): the process is gone

(***************************************************************************)
(* fetch_one: the row an id names; ids outside the owned range (and the -1 *)
(* padding) give a zero row.                                               *)
(***************************************************************************)
FetchOne(id) ==
  IF id < 0 \/ id < RowLo \/ id >= RowHi THEN ZeroRow
  ELSE IF id >= Rows THEN Abort ELSE id
===========================================================================
