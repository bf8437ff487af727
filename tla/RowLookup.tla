---------------------------- MODULE RowLookup ----------------------------
(***************************************************************************)
(* What the Engram row store promises to the host callback that uses it    *)
(* (src/overlay/engram_ssd/row_store.cpp, row_store_lookup): a lookup of   *)
(* a vector of row ids returns when, and only when, every entry of the     *)
(* output buffer holds the row its id names in THIS lookup; rows are       *)
(* fetched in any order, each once.  How the work is divided among threads *)
(* is RowStorePool's business.                                             *)
(***************************************************************************)
EXTENDS RowTable

VARIABLES
  asked,      \* the ids of the lookup in progress, <<>> between lookups
  pending,    \* the positions of asked whose row is not fetched yet
  buffer      \* the output (staging) buffer, one row per position

avars == <<asked, pending, buffer>>

AInit ==
  /\ asked = <<>>
  /\ pending = {}
  /\ buffer = [i \in 1..MaxRows |-> Unwritten]

Ask(q) ==
  /\ asked = <<>>
  /\ asked' = q
  /\ pending' = 1..Len(q)
  /\ UNCHANGED buffer

Fetch(S) ==
  /\ S \subseteq pending
  /\ pending' = pending \ S
  /\ buffer' = [i \in 1..MaxRows |-> IF i \in S THEN FetchOne(asked[i]) ELSE buffer[i]]
  /\ UNCHANGED asked

Return ==
  /\ asked # <<>>
  /\ pending = {}
  /\ asked' = <<>>
  /\ UNCHANGED <<pending, buffer>>

ANext ==
  \/ \E q \in Requests : Ask(q)
  \/ \E S \in SUBSET pending : Fetch(S)
  \/ Return

ASpec == AInit /\ [][ANext]_avars
===========================================================================
