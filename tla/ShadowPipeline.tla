-------------------------- MODULE ShadowPipeline --------------------------
(***************************************************************************)
(* Batches going through the pipeline's ranks under a PPShadowPlan: what   *)
(* each rank's layers and shadow sources read and write, and what is sent  *)
(* from rank to rank.                                                      *)
(*                                                                         *)
(*   models/deepseek_v4_1/nvidia/model.py  DeepseekV4Model.forward         *)
(*   models/deepseek_v4_1/attention.py     who reads and writes what       *)
(*   v1/worker/gpu_worker.py               Worker.execute_model            *)
(*   v1/worker/gpu_model_runner.py   sync_and_gather_intermediate_tensors  *)
(*                                                                         *)
(* A rank's buffers outlive a batch, and a send that is not complete still *)
(* reads the buffers it was given.  The content of a buffer is represented *)
(* by the number of the batch it was computed for.  Batches without any    *)
(* token are neither sent nor received and are not modelled.               *)
(***************************************************************************)
EXTENDS PPShadowPlan

CONSTANT NumBatches    \* bound: batches run

VARIABLES
  cut,       \* the partition in use
  batch,     \* per rank: batches started
  pc,        \* per rank: "idle" | "recv" | "run"
  at,        \* per rank: the layer or shadow that ran last, -1 at first
  held,      \* per rank and key: GPUModelRunner.intermediate_tensors
  sending,   \* per rank: _pp_send_work is not complete
  shippedX,  \* per rank and source: _dsv41_shipped_x
  cand,      \* per rank: candidate_block_buffer
  topk,      \* per rank: topk_indices_buffer, with the layer that wrote it
  cache      \* per rank and KV source: the batch its caches are filled up to

vars == <<cut, batch, pc, at, held, sending, shippedX, cand, topk, cache>>

LastRank == NumRanks
Keys == IndexSources \union {Cand}
Never == [batch |-> 0, source |-> -1]

ASSUME BatchesAssumption == NumBatches \in Nat

Init ==
  /\ cut \in Cuts
  /\ batch = [r \in Ranks |-> 0]
  /\ pc = [r \in Ranks |-> "idle"]
  /\ at = [r \in Ranks |-> -1]
  /\ held = [r \in Ranks |-> [k \in Keys |-> 0]]
  /\ sending = [r \in Ranks |-> FALSE]
  /\ shippedX = [r \in Ranks |-> [s \in IndexSources |-> 0]]
  /\ cand = [r \in Ranks |-> 0]
  /\ topk = [r \in Ranks |-> Never]
  /\ cache = [r \in Ranks |-> [s \in KvSources |-> 0]]

---------------------------------------------------------------------------
\* Mutation: the sends of the previous batch are not waited for.
SendsDoneUnchecked(r) == TRUE

\* handle.wait() on every send of the previous batch.
SendsDone(r) == ~sending[r]

(***************************************************************************)
(* Worker.execute_model begins by waiting for the sends of the previous    *)
(* batch, then a rank other than the first posts its receive.              *)
(***************************************************************************)
BeginBatch(r) ==
  /\ pc[r] = "idle"
  /\ batch[r] < NumBatches
  /\ SendsDone(r)
  /\ batch' = [batch EXCEPT ![r] = @ + 1]
  /\ pc' = [pc EXCEPT ![r] = IF r = 1 THEN "run" ELSE "recv"]
  /\ at' = [at EXCEPT ![r] = -1]
  /\ UNCHANGED <<cut, held, sending, shippedX, cand, topk, cache>>

\* What rank r's send of key k reads, when the transfer takes place.
Outgoing(r, k) ==
  IF k = Cand THEN cand[r]
  ELSE IF k \in OwnedShipIds(cut, r) THEN shippedX[r][k]
  ELSE held[r][k]

(***************************************************************************)
(* The transfer from rank r to r + 1: the receiver copies every tensor it  *)
(* was sent into the buffer of that name, the candidates into their own    *)
(* buffer as well.                                                         *)
(***************************************************************************)
Transfer(r) ==
  /\ sending[r]
  /\ pc[r + 1] = "recv"
  /\ Shipped(cut, r) \subseteq Declared(cut, r + 1)
  /\ sending' = [sending EXCEPT ![r] = FALSE]
  /\ held' = [held EXCEPT ![r + 1] =
                [k \in Keys |-> IF k \in Shipped(cut, r) THEN Outgoing(r, k) ELSE @[k]]]
  /\ cand' = [cand EXCEPT ![r + 1] = IF RecvCand(cut, r + 1) THEN held'[r + 1][Cand] ELSE @]
  /\ pc' = [pc EXCEPT ![r + 1] = "run"]
  /\ UNCHANGED <<cut, batch, at, shippedX, topk, cache>>

---------------------------------------------------------------------------
\* The shadows run first, then the rank's layers, both in ascending order.
Units(r) == {l \in ShadowIds(cut, r) \union Layers(cut, r) : l > at[r]}
NextUnit(r) == Min(Units(r))

Own(r, l) == l \in Layers(cut, r)

\* The attention input a layer or shadow works on: its own batch's, or what was shipped.
Input(r, l) == IF Own(r, l) THEN batch[r] ELSE held[r][l]

\* The indexer's top-k is run for own index sources and for shadows that need it.
RunsIndexer(r, l) ==
  l \in IndexSources /\ (Own(r, l) \/ l \in NeedsTopk(cut, r))

(***************************************************************************)
(* One layer or shadow: a KV source extends its caches, an index source    *)
(* publishes the top-k indices, the candidate source the candidate blocks, *)
(* and a source that must be shipped keeps its attention input.            *)
(***************************************************************************)
RunUnit(r) ==
  /\ pc[r] = "run"
  /\ Units(r) # {}
  /\ LET l == NextUnit(r)
     IN /\ at' = [at EXCEPT ![r] = l]
        /\ cache' = IF l \in KvSources THEN [cache EXCEPT ![r][l] = Input(r, l)] ELSE cache
        /\ topk' = IF RunsIndexer(r, l)
                     THEN [topk EXCEPT ![r] = [batch |-> Input(r, l), source |-> l]] ELSE topk
        /\ cand' = IF RunsIndexer(r, l) /\ l = CandSource
                     THEN [cand EXCEPT ![r] = Input(r, l)] ELSE cand
        /\ shippedX' = IF l \in OwnedShipIds(cut, r)
                         THEN [shippedX EXCEPT ![r][l] = batch[r]] ELSE shippedX
  /\ UNCHANGED <<cut, batch, pc, held, sending>>

\* The last layer is done: the intermediate tensors are sent without waiting.
EndBatch(r) ==
  /\ pc[r] = "run"
  /\ Units(r) = {}
  /\ pc' = [pc EXCEPT ![r] = "idle"]
  /\ sending' = [sending EXCEPT ![r] = r # LastRank]
  /\ UNCHANGED <<cut, batch, at, held, shippedX, cand, topk, cache>>

Done ==
  /\ \A r \in Ranks : pc[r] = "idle" /\ batch[r] = NumBatches /\ ~sending[r]
  /\ UNCHANGED vars

RankStep(r) == BeginBatch(r) \/ RunUnit(r) \/ EndBatch(r)

Next ==
  \/ \E r \in Ranks : RankStep(r)
  \/ \E r \in Ranks \ {LastRank} : Transfer(r)
  \/ Done

\* Every rank's process and every posted transfer makes progress.
Fairness ==
  /\ \A r \in Ranks : WF_vars(RankStep(r))
  /\ \A r \in Ranks \ {LastRank} : WF_vars(Transfer(r))

Spec == Init /\ [][Next]_vars /\ Fairness

---------------------------------------------------------------------------
\* Every variable has its type.
TypeOK ==
  /\ cut \in Cuts
  /\ batch \in [Ranks -> 0..NumBatches]
  /\ pc \in [Ranks -> {"idle", "recv", "run"}]
  /\ at \in [Ranks -> -1..(NumLayers - 1)]
  /\ held \in [Ranks -> [Keys -> 0..NumBatches]]
  /\ sending \in [Ranks -> BOOLEAN]
  /\ shippedX \in [Ranks -> [IndexSources -> 0..NumBatches]]
  /\ cand \in [Ranks -> 0..NumBatches]
  /\ topk \in [Ranks -> [batch : 0..NumBatches, source : IndexSources \union {-1}]]
  /\ cache \in [Ranks -> [KvSources -> 0..NumBatches]]

\* Rank r is about to run layer or shadow l.
About(r, l) == pc[r] = "run" /\ Units(r) # {} /\ l = NextUnit(r)

(***************************************************************************)
(* A layer attends with the top-k of its own index source, computed for    *)
(* the batch it runs: the buffer all layers of a rank share holds nothing  *)
(* staler and no other source's indices, whatever the cut (model.py, one   *)
(* topk_indices_buffer per rank; pp_shadow.py, need_topk).                 *)
(***************************************************************************)
TopkFresh ==
  \A r \in Ranks : \A l \in Consumers(cut, r) \ IndexSources :
    About(r, l) => topk[r] = [batch |-> batch[r], source |-> IndexSource(l)]

(***************************************************************************)
(* Whoever reads a KV source's caches, a layer that attends through them   *)
(* or the indexer of an index source that has no keys of its own, finds    *)
(* them on its rank, filled up to its own batch (attention.py,             *)
(* k_cache_prefix; pp_shadow.py, shadow_needs_for).                        *)
(***************************************************************************)
CachesComplete ==
  \A r \in Ranks, l \in Compressed \ KvSources :
    About(r, l) => cache[r][KvSource(l)] = batch[r]

\* Indexers above the candidate source filter with this batch's candidates.
CandidatesFresh ==
  \A r \in Ranks, l \in IndexSources :
    About(r, l) /\ HasCand /\ l > CandSource /\ RunsIndexer(r, l) => cand[r] = batch[r]

(***************************************************************************)
(* A shadow works on the attention input of the batch its rank runs, also  *)
(* when it came through several ranks: no send reads a buffer that a later *)
(* batch has overwritten (gpu_worker.py, _pp_send_work).                   *)
(***************************************************************************)
InputsFresh ==
  \A r \in Ranks : \A l \in ShadowIds(cut, r) : About(r, l) => held[r][l] = batch[r]

\* Every batch leaves the last rank: no receive waits for a tensor nobody sends.
BatchesLeave == <>(\A r \in Ranks : batch[r] = NumBatches /\ pc[r] = "idle")

(***************************************************************************)
(* A rank sends exactly what the next one reads, and the next one has a    *)
(* buffer for each tensor (pp_shadow.py, ship_ids and recv_ids; model.py,  *)
(* make_empty_intermediate_tensors).                                       *)
(***************************************************************************)
TransfersMatch ==
  \A r \in Ranks \ {LastRank} : sending[r] =>
    /\ Shipped(cut, r) = Received(cut, r + 1)
    /\ Shipped(cut, r) \subseteq Declared(cut, r + 1)

(***************************************************************************)
(* What the documents say: "Cuts must still sit on index-source            *)
(* boundaries" (pp_shadow.py, module docstring), so no batch would get     *)
(* through a pipeline that is cut inside an index group.                   *)
(***************************************************************************)
CutsOnIndexSources ==
  batch[LastRank] > 0 /\ pc[LastRank] = "idle" =>
    \A r \in Ranks : Start(cut, r) \in IndexSources \union ((0..NumLayers) \ Compressed)
===========================================================================
