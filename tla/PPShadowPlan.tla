--------------------------- MODULE PPShadowPlan ---------------------------
(***************************************************************************)
(* Which attention sources each pipeline rank re-instantiates and which    *)
(* tensors it sends on, when pipeline cuts fall inside the groups of       *)
(* layers that share a KV cache or a top-k selection                       *)
(* (src/overlay/hybrid/pp_shadow.py, class PPShadowPlan).                  *)
(*                                                                         *)
(* A layer with a compress ratio attends through the compressed cache of   *)
(* its KV source and the top-k indices of its index source, the closest    *)
(* such layers at or below it.  Both live on one rank only, so a later     *)
(* rank runs a shadow of the source, driven by the source's attention      *)
(* input, which is shipped from rank to rank along with the candidate      *)
(* blocks of one distinguished layer.                                      *)
(***************************************************************************)
EXTENDS Integers, FiniteSets, FiniteSetsExt

CONSTANTS
  NumLayers,       \* num_hidden_layers; layers are 0..NumLayers-1
  Compressed,      \* the layers whose compress_ratios entry is not 0
  KvSources,       \* kv_source_layer_ids
  IndexSources,    \* index_source_layer_ids
  CandSource,      \* candidate_source_layer_id, -1 when there is none
  NumRanks,        \* pipeline world size; ranks are 1..NumRanks
  Cuts             \* partitions considered: cut[r-1] <= layer < cut[r] on rank r

Ranks == 1..NumRanks

ASSUME PlanAssumption ==
  /\ NumLayers \in Nat /\ NumRanks \in Nat \ {0}
  /\ Compressed \subseteq 0..(NumLayers - 1)
  /\ KvSources \subseteq IndexSources /\ IndexSources \subseteq Compressed
  /\ CandSource \in IndexSources \union {-1}
  /\ \A cut \in Cuts :
       /\ cut \in [0..NumRanks -> 0..NumLayers]
       /\ cut[0] = 0 /\ cut[NumRanks] = NumLayers
       /\ \A r \in Ranks : cut[r - 1] < cut[r]

\* Every compressed layer has a source at or below it (attention.py raises otherwise).
ASSUME SourceAssumption ==
  \A l \in Compressed : \E s \in KvSources : s <= l

Cand == -1                          \* the key of the candidate blocks; a source's key is its id
HasCand == CandSource >= 0

KvSource(l) == Max({s \in KvSources : s <= l})
IndexSource(l) == Max({s \in IndexSources : s <= l})

Start(cut, r) == cut[r - 1]
End(cut, r) == cut[r]
\* Mutation: the end of the range is taken as inclusive.
LayersInclusive(cut, r) == Start(cut, r)..End(cut, r)

Layers(cut, r) == Start(cut, r)..(End(cut, r) - 1)
Consumers(cut, r) == Layers(cut, r) \intersect Compressed

\* Mutation: what a KV source is needed for overwrites that its top-k is needed too.
NeedsTopkOverwritten(cut, r) ==
  {s \in {IndexSource(l) : l \in Consumers(cut, r)} : s < Start(cut, r) /\ s \notin KvSources}

\* Mutation: only index sources are shadowed.
NeedsCacheNone(cut, r) == {}

(***************************************************************************)
(* shadow_needs_for: the sources of rank r's layers that live on an        *)
(* earlier rank, and those of them whose top-k must be replayed.           *)
(***************************************************************************)
NeedsTopk(cut, r) == {s \in {IndexSource(l) : l \in Consumers(cut, r)} : s < Start(cut, r)}
NeedsCache(cut, r) == {s \in {KvSource(l) : l \in Consumers(cut, r)} : s < Start(cut, r)}
ShadowIds(cut, r) == NeedsTopk(cut, r) \union NeedsCache(cut, r)

LaterNeeds(cut, r) == UNION {ShadowIds(cut, q) : q \in (r + 1)..NumRanks}

\* Mutation: sources that only a later rank produces are shipped too.
ShipIdsAll(cut, r) == LaterNeeds(cut, r)

\* Only what this or an earlier rank has produced can be shipped.
ShipIds(cut, r) == {s \in LaterNeeds(cut, r) : s < End(cut, r)}
OwnedShipIds(cut, r) == {s \in ShipIds(cut, r) : Start(cut, r) <= s}
RecvIds(cut, r) == ShadowIds(cut, r) \union {s \in ShipIds(cut, r) : s < Start(cut, r)}

\* Mutation: the candidates are shipped by the rank that computes them only.
ShipCandOwned(cut, r) ==
  /\ HasCand /\ Start(cut, r) <= CandSource /\ CandSource < End(cut, r)
  /\ r # NumRanks

ShipCand(cut, r) ==
  /\ HasCand /\ CandSource < End(cut, r)
  /\ \E q \in (r + 1)..NumRanks : End(cut, q) > CandSource + 1
RecvCand(cut, r) == HasCand /\ Start(cut, r) > CandSource

\* The tensors a rank puts in its IntermediateTensors, beside the hidden states.
Shipped(cut, r) == ShipIds(cut, r) \union (IF ShipCand(cut, r) THEN {Cand} ELSE {})

\* The tensors a rank's forward reads from what it was sent.
Received(cut, r) == RecvIds(cut, r) \union (IF RecvCand(cut, r) THEN {Cand} ELSE {})

\* Mutation: no buffer is declared for the candidate blocks.
DeclaredSources(cut, r) == RecvIds(cut, r)

\* make_empty_intermediate_tensors: the buffers a rank declares.
Declared(cut, r) ==
  RecvIds(cut, r) \union (IF ShipCand(cut, r) \/ RecvCand(cut, r) THEN {Cand} ELSE {})
===========================================================================
