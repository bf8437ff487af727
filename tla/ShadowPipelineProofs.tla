----------------------- MODULE ShadowPipelineProofs -----------------------
(***************************************************************************)
(* What a PPShadowPlan guarantees for every layer layout and every         *)
(* partition: each source a rank needs is on that rank, as one of its own  *)
(* layers or as a shadow, and what a rank ships is what the next receives. *)
(* Then the freshness of everything ranks share between batches, for every *)
(* layer layout, partition, number of ranks and number of batches.         *)
(*                                                                         *)
(* The properties speak of a rank that is about to run a layer; what makes *)
(* them inductive is what a rank holds over its whole batch and until its  *)
(* sends are complete (Fresh), and how far neighbours may be apart         *)
(* (InStep): a transfer takes place while the sender still has exactly     *)
(* the batch that the receiver is waiting for.                             *)
(***************************************************************************)
EXTENDS ShadowPipeline, FiniteSetTheorems, WellFoundedInduction, TLAPS

---------------------------------------------------------------------------
(* Maximum and minimum of a finite set of integers *)

\* A finite, non-empty set of integers has a greatest element.
LEMMA MaxOfInts ==
  ASSUME NEW S \in SUBSET Int, IsFiniteSet(S), S # {}
  PROVE  Max(S) \in S /\ \A y \in S : y <= Max(S)
<1> DEFINE Above(x) == {y \in S : y > x}
           R == StrictSubsetOrdering(S)
           T == {Above(x) : x \in S}
<1>1. \A x \in S : Above(x) \in FiniteSubsetsOf(S)
  BY FS_Subset DEF FiniteSubsetsOf
<1>2. IsWellFoundedOn(R, FiniteSubsetsOf(S))
  BY FS_StrictSubsetOrderingWellFounded
<1>3. PICK A \in T : \A B \in T : ~(<<B, A>> \in R)
  <2>1. T \subseteq FiniteSubsetsOf(S) /\ T # {}
    BY <1>1
  <2> HIDE DEF T, R
  <2> QED
    BY <1>2, <2>1, WFMin
<1>4. PICK x \in S : A = Above(x)
  BY <1>3
<1>5. ASSUME NEW y \in S, y > x
      PROVE  FALSE
  <2>1. Above(y) \subseteq Above(x)
    <3> SUFFICES ASSUME NEW z \in S, z > y
                 PROVE  z > x
      OBVIOUS
    <3>1. x \in Int /\ y \in Int /\ z \in Int
      OBVIOUS
    <3> QED
      BY <1>5, <3>1
  <2>2. y \in Above(x) /\ y \notin Above(y)
    <3>1. y \in Int
      OBVIOUS
    <3> QED
      BY <1>5, <3>1
  <2>3. <<Above(y), Above(x)>> \in R
    BY <2>1, <2>2 DEF StrictSubsetOrdering
  <2> QED
    BY <1>3, <1>4, <2>3
<1>6. \A y \in S : x >= y
  BY <1>5
<1> QED
  BY <1>6 DEF Max

\* And a least one.
LEMMA MinOfInts ==
  ASSUME NEW S \in SUBSET Int, IsFiniteSet(S), S # {}
  PROVE  Min(S) \in S /\ \A y \in S : Min(S) <= y
<1> DEFINE Below(x) == {y \in S : y < x}
           R == StrictSubsetOrdering(S)
           T == {Below(x) : x \in S}
<1>1. \A x \in S : Below(x) \in FiniteSubsetsOf(S)
  BY FS_Subset DEF FiniteSubsetsOf
<1>2. IsWellFoundedOn(R, FiniteSubsetsOf(S))
  BY FS_StrictSubsetOrderingWellFounded
<1>3. PICK A \in T : \A B \in T : ~(<<B, A>> \in R)
  <2>1. T \subseteq FiniteSubsetsOf(S) /\ T # {}
    BY <1>1
  <2> HIDE DEF T, R
  <2> QED
    BY <1>2, <2>1, WFMin
<1>4. PICK x \in S : A = Below(x)
  BY <1>3
<1>5. ASSUME NEW y \in S, y < x
      PROVE  FALSE
  <2>1. Below(y) \subseteq Below(x)
    <3> SUFFICES ASSUME NEW z \in S, z < y
                 PROVE  z < x
      OBVIOUS
    <3>1. x \in Int /\ y \in Int /\ z \in Int
      OBVIOUS
    <3> QED
      BY <1>5, <3>1
  <2>2. y \in Below(x) /\ y \notin Below(y)
    <3>1. y \in Int
      OBVIOUS
    <3> QED
      BY <1>5, <3>1
  <2>3. <<Below(y), Below(x)>> \in R
    BY <2>1, <2>2 DEF StrictSubsetOrdering
  <2> QED
    BY <1>3, <1>4, <2>3
<1>6. \A y \in S : x <= y
  BY <1>5
<1> QED
  BY <1>6 DEF Min

---------------------------------------------------------------------------
(* Sources *)

LEMMA LayerSetsFinite ==
  ASSUME NEW S \in SUBSET (0..(NumLayers - 1))
  PROVE  IsFiniteSet(S) /\ S \in SUBSET Int
<1>1. NumLayers - 1 \in Int /\ 0 \in Int
  BY PlanAssumption
<1>2. IsFiniteSet(0..(NumLayers - 1))
  BY <1>1, FS_Interval
<1>3. IsFiniteSet(S)
  BY <1>2, FS_Subset
<1> QED
  BY <1>3

\* Sources are compressed layers, and layers are natural numbers.
LEMMA SourceSets ==
  /\ \A s \in KvSources : s \in IndexSources
  /\ \A s \in IndexSources : s \in Compressed
  /\ \A l \in Compressed : l \in Nat /\ l < NumLayers
  BY PlanAssumption

\* The sources of a compressed layer exist, and they are the closest ones below.
LEMMA SourcesOfLayer ==
  ASSUME NEW l \in Compressed
  PROVE  /\ l \in 0..(NumLayers - 1)
         /\ KvSource(l) \in KvSources /\ IndexSource(l) \in IndexSources
         /\ KvSource(l) \in Nat /\ IndexSource(l) \in Nat
         /\ KvSource(l) <= IndexSource(l) /\ IndexSource(l) <= l
         /\ \A s \in KvSources : s <= l => s <= KvSource(l)
         /\ \A s \in IndexSources : s <= l => s <= IndexSource(l)
<1> DEFINE K == {s \in KvSources : s <= l}
           I == {s \in IndexSources : s <= l}
<1>1. KvSources \subseteq IndexSources /\ IndexSources \subseteq 0..(NumLayers - 1)
  BY PlanAssumption
<1>2. K # {} /\ K \subseteq I /\ I \subseteq 0..(NumLayers - 1)
  BY <1>1, SourceAssumption
<1>3. Max(K) \in K /\ \A y \in K : y <= Max(K)
  <2> HIDE DEF K, I
  <2> QED
    BY <1>2, LayerSetsFinite, MaxOfInts
<1>4. Max(I) \in I /\ \A y \in I : y <= Max(I)
  <2> HIDE DEF K, I
  <2> QED
    BY <1>2, LayerSetsFinite, MaxOfInts
<1>5. KvSource(l) = Max(K) /\ IndexSource(l) = Max(I)
  BY DEF KvSource, IndexSource
<1> HIDE DEF K
<1>6. Max(K) <= Max(I)
  BY <1>2, <1>3, <1>4
<1>7. Max(K) \in KvSources /\ Max(K) \in Nat /\ Max(I) \in IndexSources /\ Max(I) \in Nat
  BY <1>3, <1>4, SourceSets DEF K
<1> QED
  BY <1>3, <1>4, <1>5, <1>6, <1>7, PlanAssumption DEF K

\* A rank's layers are an interval that begins where the previous rank's ends.
LEMMA RankRange ==
  ASSUME NEW c \in Cuts, NEW r \in Ranks
  PROVE  /\ Start(c, r) \in 0..NumLayers /\ End(c, r) \in 0..NumLayers
         /\ Start(c, r) < End(c, r)
         /\ r = 1 => Start(c, r) = 0
         /\ r # NumRanks => r + 1 \in Ranks /\ Start(c, r + 1) = End(c, r)
  BY PlanAssumption DEF Ranks, Start, End

LEMMA ShadowsBelow ==
  ASSUME NEW c \in Cuts, NEW r \in Ranks
  PROVE  \A s \in ShadowIds(c, r) : s \in IndexSources /\ s < Start(c, r)
<1>1. \A l \in Consumers(c, r) : IndexSource(l) \in IndexSources /\ KvSource(l) \in IndexSources
  BY SourcesOfLayer, PlanAssumption DEF Consumers
<1> QED
  BY <1>1 DEF ShadowIds, NeedsTopk, NeedsCache

\* The index source of a rank's layer is one of its layers or a shadow with top-k.
LEMMA IndexSourcePresent ==
  ASSUME NEW c \in Cuts, NEW r \in Ranks, NEW l \in Consumers(c, r)
  PROVE  IndexSource(l) \in NeedsTopk(c, r) \union Layers(c, r)
<1>1. l \in Compressed /\ l \in Layers(c, r)
  BY DEF Consumers
<1>2. IndexSource(l) \in 0..(NumLayers - 1) /\ IndexSource(l) <= l
  BY <1>1, SourcesOfLayer, PlanAssumption
<1> QED
  BY <1>1, <1>2, RankRange DEF NeedsTopk, Layers

\* The KV source of a rank's layer, or of one of its shadows, is on the rank.
LEMMA KvSourcePresent ==
  ASSUME NEW c \in Cuts, NEW r \in Ranks, NEW l \in Consumers(c, r) \union ShadowIds(c, r)
  PROVE  KvSource(l) \in ShadowIds(c, r) \union Layers(c, r)
<1>1. ASSUME NEW m \in Consumers(c, r)
      PROVE  KvSource(m) \in ShadowIds(c, r) \union Layers(c, r)
  <2>1. m \in Compressed /\ m \in Layers(c, r)
    BY DEF Consumers
  <2>2. KvSource(m) \in Nat /\ m \in Nat /\ KvSource(m) <= m
    <3>1. KvSource(m) \in Nat /\ IndexSource(m) \in Nat /\ m \in Nat
      BY <2>1, SourcesOfLayer
    <3>2. KvSource(m) <= IndexSource(m) /\ IndexSource(m) <= m
      BY <2>1, SourcesOfLayer
    <3> QED
      BY <3>1, <3>2
  <2> QED
    BY <2>1, <2>2, RankRange DEF NeedsCache, ShadowIds, Layers
<1>2. ASSUME l \in NeedsTopk(c, r)
      PROVE  KvSource(l) \in ShadowIds(c, r) \union Layers(c, r)
  <2>1. PICK m \in Consumers(c, r) : l = IndexSource(m)
    BY <1>2 DEF NeedsTopk
  <2>2. m \in Compressed /\ l \in Compressed
    BY <2>1, SourcesOfLayer, PlanAssumption DEF Consumers
  <2>3. KvSource(l) = KvSource(m)
    <3>1. /\ KvSource(l) \in KvSources /\ KvSource(m) \in KvSources
          /\ KvSource(l) \in Nat /\ KvSource(m) \in Nat /\ IndexSource(l) \in Nat
          /\ l \in Nat /\ m \in Nat
      BY <2>2, SourcesOfLayer, SourceSets
    <3>2. KvSource(l) <= IndexSource(l) /\ IndexSource(l) <= l
      BY <2>2, SourcesOfLayer
    <3>3. KvSource(m) <= l /\ l <= m
      BY <2>1, <2>2, SourcesOfLayer
    <3>4. KvSource(l) <= m
      BY <3>1, <3>2, <3>3
    <3>5. KvSource(l) <= KvSource(m)
      BY <2>2, <3>1, <3>4, SourcesOfLayer
    <3>6. KvSource(m) <= KvSource(l)
      BY <2>2, <3>1, <3>3, SourcesOfLayer
    <3> QED
      BY <3>1, <3>5, <3>6
  <2> QED
    BY <1>1, <2>1, <2>3
<1>3. ASSUME l \in NeedsCache(c, r)
      PROVE  KvSource(l) \in ShadowIds(c, r) \union Layers(c, r)
  <2>1. l \in KvSources /\ l \in Compressed
    BY <1>3, SourcesOfLayer, PlanAssumption DEF NeedsCache, Consumers
  <2>2. KvSource(l) = l
    <3>1. l \in Nat /\ KvSource(l) \in Nat /\ IndexSource(l) \in Nat
      BY <2>1, SourcesOfLayer, SourceSets
    <3>2. KvSource(l) <= IndexSource(l) /\ IndexSource(l) <= l /\ l <= KvSource(l)
      BY <2>1, <3>1, SourcesOfLayer
    <3> QED
      BY <3>1, <3>2
  <2> QED
    BY <1>3, <2>2 DEF ShadowIds
<1> QED
  BY <1>1, <1>2, <1>3 DEF ShadowIds

---------------------------------------------------------------------------
(* Transfers *)

(***************************************************************************)
(* ship_ids of a rank are the recv_ids of the next, and the candidates are *)
(* sent if and only if they are received: for every layout and partition,  *)
(* the tensors two neighbours exchange are agreed without communication.   *)
(***************************************************************************)
THEOREM ShippedIsReceived ==
  ASSUME NEW c \in Cuts, NEW r \in Ranks \ {NumRanks}
  PROVE  /\ ShipIds(c, r) = RecvIds(c, r + 1)
         /\ ShipCand(c, r) <=> RecvCand(c, r + 1)
         /\ Shipped(c, r) = Received(c, r + 1)
         /\ Shipped(c, r) \subseteq Declared(c, r + 1)
<1> USE DEF Ranks
<1>1. r + 1 \in Ranks /\ Start(c, r + 1) = End(c, r) /\ Start(c, r + 1) < End(c, r + 1)
  BY RankRange
<1>2. Start(c, r + 1) \in Int /\ End(c, r + 1) \in Int
  BY <1>1, RankRange
<1>3. LaterNeeds(c, r) = ShadowIds(c, r + 1) \union LaterNeeds(c, r + 1)
  <2>1. (r + 1)..NumRanks = {r + 1} \union ((r + 1 + 1)..NumRanks)
    <3>1. r \in Int /\ NumRanks \in Int /\ r + 1 <= NumRanks
      BY PlanAssumption
    <3> QED
      BY <3>1
  <2> QED
    BY <2>1 DEF LaterNeeds
<1>4. \A s \in LaterNeeds(c, r) : s \in Int
  <2>1. \A q \in (r + 1)..NumRanks : q \in Ranks
    BY PlanAssumption
  <2>2. \A q \in (r + 1)..NumRanks : \A s \in ShadowIds(c, q) : s \in Int
    BY <2>1, ShadowsBelow, SourceSets
  <2> QED
    BY <2>2 DEF LaterNeeds
<1>5. ShipIds(c, r) = RecvIds(c, r + 1)
  <2>1. \A s \in ShadowIds(c, r + 1) : s < Start(c, r + 1)
    BY <1>1, ShadowsBelow
  <2> QED
    BY <1>1, <1>2, <1>3, <1>4, <2>1 DEF ShipIds, RecvIds
<1>6. ShipCand(c, r) <=> RecvCand(c, r + 1)
  <2>1. CandSource \in Int
    BY PlanAssumption
  <2>2. r + 1 \in (r + 1)..NumRanks
    BY <1>1
  <2> QED
    BY <1>1, <1>2, <2>1, <2>2 DEF ShipCand, RecvCand
<1> QED
  BY <1>5, <1>6 DEF Shipped, Received, Declared

---------------------------------------------------------------------------
(* Units of a rank *)

AllUnits(r) == ShadowIds(cut, r) \union Layers(cut, r)

\* The units of a rank are layers of the model.
LEMMA UnitsAreLayers ==
  ASSUME NEW c \in Cuts, NEW r \in Ranks
  PROVE  /\ ShadowIds(c, r) \union Layers(c, r) \subseteq 0..(NumLayers - 1)
         /\ \A u \in ShadowIds(c, r) \union Layers(c, r) : u \in Nat
<1>1. NumLayers \in Nat /\ IndexSources \subseteq 0..(NumLayers - 1)
  BY PlanAssumption
<1>2. ShadowIds(c, r) \subseteq IndexSources
  BY ShadowsBelow
<1>3. Layers(c, r) \subseteq 0..(NumLayers - 1)
  <2>1. Start(c, r) \in 0..NumLayers /\ End(c, r) \in 0..NumLayers
    BY RankRange
  <2> QED
    BY <1>1, <2>1 DEF Layers
<1>4. \A u \in 0..(NumLayers - 1) : u \in Nat
  BY <1>1
<1> QED
  BY <1>1, <1>2, <1>3, <1>4

\* A rank's next unit is the lowest it has not run.
LEMMA NextUnitFacts ==
  ASSUME cut \in Cuts, NEW r \in Ranks, at[r] \in Int, Units(r) # {}
  PROVE  /\ NextUnit(r) \in AllUnits(r)
         /\ NextUnit(r) \in 0..(NumLayers - 1) /\ NextUnit(r) \in Nat
         /\ NextUnit(r) > at[r]
         /\ \A u \in AllUnits(r) : u < NextUnit(r) => u <= at[r]
<1>1. Units(r) \subseteq AllUnits(r) /\ AllUnits(r) \subseteq 0..(NumLayers - 1)
  BY UnitsAreLayers DEF Units, AllUnits
<1>2. IsFiniteSet(Units(r)) /\ Units(r) \in SUBSET Int
  BY <1>1, LayerSetsFinite
<1>3. NextUnit(r) \in Units(r) /\ \A y \in Units(r) : NextUnit(r) <= y
  BY <1>2, MinOfInts DEF NextUnit
<1>4. NextUnit(r) \in AllUnits(r) /\ NextUnit(r) \in 0..(NumLayers - 1) /\ NextUnit(r) > at[r]
  BY <1>1, <1>3 DEF Units
<1>5. NextUnit(r) \in Nat
  BY <1>4, UnitsAreLayers DEF AllUnits
<1>6. ASSUME NEW u \in AllUnits(r), u < NextUnit(r)
      PROVE  u <= at[r]
  <2>1. u \in Nat
    BY UnitsAreLayers DEF AllUnits
  <2>2. CASE u > at[r]
    <3>1. u \in Units(r)
      BY <2>2 DEF Units, AllUnits
    <3> QED
      BY <1>3, <1>5, <1>6, <2>1, <3>1
  <2> QED
    BY <2>1, <2>2
<1> QED
  BY <1>4, <1>5, <1>6

\* Only index sources and the candidate blocks are shipped.
LEMMA ShippedSources ==
  ASSUME NEW c \in Cuts, NEW r \in Ranks
  PROVE  /\ ShipIds(c, r) \subseteq IndexSources
         /\ OwnedShipIds(c, r) \subseteq IndexSources
         /\ Shipped(c, r) \subseteq Keys
<1>1. \A q \in (r + 1)..NumRanks : q \in Ranks
  BY PlanAssumption DEF Ranks
<1>2. LaterNeeds(c, r) \subseteq IndexSources
  BY <1>1, ShadowsBelow DEF LaterNeeds
<1>3. ShipIds(c, r) \subseteq IndexSources
  BY <1>2 DEF ShipIds
<1> QED
  BY <1>3 DEF OwnedShipIds, Shipped, Keys

---------------------------------------------------------------------------
(* Type correctness *)

LEMMA InputTyped ==
  ASSUME TypeOK, NEW r \in Ranks, NEW l \in AllUnits(r)
  PROVE  Input(r, l) \in 0..NumBatches
<1>1. CASE Own(r, l)
  BY <1>1 DEF Input, TypeOK
<1>2. CASE ~Own(r, l)
  <2>1. l \in Keys
    BY <1>2, ShadowsBelow DEF Own, AllUnits, Keys, TypeOK
  <2> QED
    BY <1>2, <2>1 DEF Input, TypeOK
<1> QED
  BY <1>1, <1>2

LEMMA InitTypeOK == Init => TypeOK
<1> USE DEF Keys
<1> SUFFICES ASSUME Init PROVE TypeOK
  OBVIOUS
<1>1. NumBatches \in Nat /\ NumLayers \in Nat
  BY BatchesAssumption, PlanAssumption
<1>2. NumLayers > 0
  BY PlanAssumption, RankRange DEF Init, Ranks
<1> QED
  BY <1>1, <1>2 DEF Init, TypeOK, Never

LEMMA NextTypeOK == TypeOK /\ [Next]_vars => TypeOK'
<1> USE DEF Keys
<1> SUFFICES ASSUME TypeOK, [Next]_vars PROVE TypeOK'
  OBVIOUS
<1>1. NumBatches \in Nat /\ NumLayers \in Nat
  BY BatchesAssumption, PlanAssumption
<1>2. ASSUME NEW r \in Ranks, BeginBatch(r)
      PROVE  TypeOK'
  <2>1. -1 \in -1..(NumLayers - 1)
    BY <1>1
  <2>2. batch[r] + 1 \in 0..NumBatches
    BY <1>1, <1>2 DEF BeginBatch, TypeOK
  <2> QED
    BY <1>2, <2>1, <2>2 DEF BeginBatch, TypeOK
<1>3. ASSUME NEW r \in Ranks \ {LastRank}, Transfer(r)
      PROVE  TypeOK'
  <2>1. r + 1 \in Ranks
    BY RankRange DEF LastRank, TypeOK
  <2>2. \A k \in Shipped(cut, r) : Outgoing(r, k) \in 0..NumBatches
    <3>1. Shipped(cut, r) \subseteq Keys /\ OwnedShipIds(cut, r) \subseteq IndexSources
      BY ShippedSources DEF TypeOK
    <3> QED
      BY <3>1 DEF Outgoing, TypeOK
  <2>3. held' \in [Ranks -> [Keys -> 0..NumBatches]]
    BY <1>3, <2>1, <2>2 DEF Transfer, TypeOK
  <2>4. cand' \in [Ranks -> 0..NumBatches]
    BY <1>3, <2>1, <2>3 DEF Transfer, TypeOK
  <2> QED
    BY <1>3, <2>1, <2>3, <2>4 DEF Transfer, TypeOK
<1>4. ASSUME NEW r \in Ranks, RunUnit(r)
      PROVE  TypeOK'
  <2>1. /\ NextUnit(r) \in AllUnits(r)
        /\ NextUnit(r) \in -1..(NumLayers - 1)
    <3>1. at[r] \in Int /\ cut \in Cuts
      BY <1>1 DEF TypeOK
    <3> QED
      BY <1>4, <3>1, NextUnitFacts DEF RunUnit
  <2>2. Input(r, NextUnit(r)) \in 0..NumBatches /\ batch[r] \in 0..NumBatches
    BY <2>1, InputTyped DEF TypeOK
  <2>3. topk' \in [Ranks -> [batch : 0..NumBatches, source : IndexSources \union {-1}]]
    BY <1>4, <2>2 DEF RunUnit, RunsIndexer, TypeOK
  <2>4. cache' \in [Ranks -> [KvSources -> 0..NumBatches]]
    BY <1>4, <2>2 DEF RunUnit, TypeOK
  <2>5. shippedX' \in [Ranks -> [IndexSources -> 0..NumBatches]]
    BY <1>4, <2>2 DEF RunUnit, TypeOK
  <2>6. cand' \in [Ranks -> 0..NumBatches] /\ at' \in [Ranks -> -1..(NumLayers - 1)]
    BY <1>4, <2>1, <2>2 DEF RunUnit, TypeOK
  <2> QED
    BY <1>4, <2>3, <2>4, <2>5, <2>6 DEF RunUnit, TypeOK
<1>5. ASSUME NEW r \in Ranks, EndBatch(r)
      PROVE  TypeOK'
  BY <1>5 DEF EndBatch, TypeOK
<1>6. CASE Done
  BY <1>6 DEF Done, vars, TypeOK
<1>7. CASE UNCHANGED vars
  BY <1>7 DEF vars, TypeOK
<1> QED
  BY <1>2, <1>3, <1>4, <1>5, <1>6, <1>7 DEF Next, RankStep

(***************************************************************************)
(* Every variable has its type in every reachable state: what is read for  *)
(* a transfer or by a layer is always the number of some batch             *)
(* (ShadowPipeline!TypeOK).                                                *)
(***************************************************************************)
THEOREM ShadowTypeOK == Spec => []TypeOK
  BY InitTypeOK, NextTypeOK, PTL DEF Spec

---------------------------------------------------------------------------
(* Freshness *)

\* What a batch needs of rank r, and what it leaves to the next rank, is on r.
Active(r) == pc[r] = "run" \/ sending[r]

\* Unit l of rank r has run for the current batch.
Ran(r, l) == l \in AllUnits(r) /\ l <= at[r]

\* Source s ran its indexer, and none above it did.
LastIndexer(r, s) ==
  /\ RunsIndexer(r, s) /\ s <= at[r]
  /\ \A t \in IndexSources : RunsIndexer(r, t) /\ t <= at[r] => t <= s

HasCands(r) ==
  HasCand /\ (RecvCand(cut, r) \/ (RunsIndexer(r, CandSource) /\ CandSource <= at[r]))

HeldFresh(r) == \A k \in Received(cut, r) : held[r][k] = batch[r]
ShippedFresh(r) == \A s \in OwnedShipIds(cut, r) : s <= at[r] => shippedX[r][s] = batch[r]
CandFresh(r) == HasCands(r) => cand[r] = batch[r]
CacheFresh(r) == \A s \in KvSources : Ran(r, s) => cache[r][s] = batch[r]
IndicesFresh(r) ==
  \A s \in IndexSources : LastIndexer(r, s) => topk[r] = [batch |-> batch[r], source |-> s]

Fresh(r) ==
  HeldFresh(r) /\ ShippedFresh(r) /\ CandFresh(r) /\ CacheFresh(r) /\ IndicesFresh(r)

\* How far a rank is: batches received and batches finished.
ReceivedBatches(r) == IF pc[r] = "recv" THEN batch[r] - 1 ELSE batch[r]
FinishedBatches(r) == IF pc[r] = "idle" THEN batch[r] ELSE batch[r] - 1

\* A rank that waits for its batch has run none of it.
Waits(r) == pc[r] = "recv" => r # 1 /\ at[r] = -1

\* A rank that is sending has run all its units and does nothing else.
Sends(r) == sending[r] => pc[r] = "idle" /\ Units(r) = {}

\* Neighbours differ by the batch whose transfer is pending.
Follows(r) ==
  r # LastRank =>
    FinishedBatches(r) = ReceivedBatches(r + 1) + (IF sending[r] THEN 1 ELSE 0)

InStep(r) == Waits(r) /\ Sends(r) /\ Follows(r)

IInv ==
  /\ TypeOK
  /\ \A r \in Ranks : InStep(r)
  /\ \A r \in Ranks : Active(r) => Fresh(r)

\* The first rank receives nothing.
LEMMA FirstReceivesNothing ==
  ASSUME NEW c \in Cuts, 1 \in Ranks
  PROVE  Received(c, 1) = {} /\ ~RecvCand(c, 1)
<1>1. Start(c, 1) = 0
  BY RankRange
<1>2. \A s \in IndexSources : s \in Nat
  BY SourceSets
<1>3. ShadowIds(c, 1) = {}
  BY <1>1, <1>2, ShadowsBelow
<1>4. {s \in ShipIds(c, 1) : s < Start(c, 1)} = {}
  BY <1>1, <1>2, ShippedSources
<1>5. ~RecvCand(c, 1)
  BY <1>1, PlanAssumption, <1>2 DEF RecvCand, HasCand
<1> QED
  BY <1>3, <1>4, <1>5 DEF Received, RecvIds

LEMMA InitIInv == Init => IInv
<1> SUFFICES ASSUME Init PROVE IInv
  OBVIOUS
<1>1. TypeOK
  BY InitTypeOK
<1>2. \A r \in Ranks : r # LastRank => r + 1 \in Ranks
  BY PlanAssumption DEF Ranks, LastRank
<1> QED
  BY <1>1, <1>2 DEF Init, IInv, InStep, Waits, Sends, Follows, Active, FinishedBatches, ReceivedBatches

\* Every step keeps the ranks in step.
LEMMA NextInStep ==
  ASSUME IInv, [Next]_vars
  PROVE  \A q \in Ranks : InStep(q)'
<1>1. /\ NumRanks \in Nat /\ NumLayers \in Nat
      /\ \A q \in Ranks : q \in Int
      /\ \A q \in Ranks : q # LastRank => q + 1 \in Ranks /\ q + 1 # q /\ q + 1 # 1
  BY PlanAssumption DEF Ranks, LastRank
<1>2. \A q \in Ranks : batch[q] \in Int
  BY BatchesAssumption DEF IInv, TypeOK
<1>3. \A q \in Ranks : InStep(q)
  BY DEF IInv
<1> USE DEF Waits, Sends, Units
<1>4. ASSUME NEW r \in Ranks, BeginBatch(r)
      PROVE  \A q \in Ranks : InStep(q)'
  <2>1. \A q \in Ranks : Waits(q)' /\ Sends(q)'
    BY <1>3, <1>4 DEF BeginBatch, SendsDone, InStep, IInv, TypeOK
  <2>2. \A q \in Ranks : Follows(q)'
    BY <1>1, <1>2, <1>3, <1>4
    DEF BeginBatch, SendsDone, InStep, Follows, IInv, TypeOK, FinishedBatches, ReceivedBatches
  <2> QED
    BY <2>1, <2>2 DEF InStep
<1>5. ASSUME NEW r \in Ranks \ {LastRank}, Transfer(r)
      PROVE  \A q \in Ranks : InStep(q)'
  <2>1. /\ \A q \in Ranks : pc'[q] = IF q = r + 1 THEN "run" ELSE pc[q]
        /\ \A q \in Ranks : sending'[q] = IF q = r THEN FALSE ELSE sending[q]
        /\ batch' = batch /\ cut' = cut /\ at' = at
    BY <1>5 DEF Transfer, IInv, TypeOK
  <2>2. sending[r] /\ pc[r] = "idle" /\ pc[r + 1] = "recv" /\ r + 1 \in Ranks /\ r + 1 # r
    BY <1>1, <1>3, <1>5 DEF Transfer, InStep
  <2>3. \A q \in Ranks : Waits(q)'
    BY <1>3, <2>1 DEF InStep
  <2>4. \A q \in Ranks : Sends(q)'
    BY <1>3, <2>1, <2>2 DEF InStep
  <2>5. ASSUME NEW q \in Ranks, q # LastRank
        PROVE  FinishedBatches(q)' = ReceivedBatches(q + 1)' + (IF sending'[q] THEN 1 ELSE 0)
    <3>1. /\ q + 1 \in Ranks /\ q \in Int /\ r \in Int
          /\ batch[q] \in Int /\ batch[q + 1] \in Int
      BY <1>1, <1>2, <2>5
    <3>2. FinishedBatches(q) = ReceivedBatches(q + 1) + (IF sending[q] THEN 1 ELSE 0)
      BY <1>3, <2>5 DEF InStep, Follows
    <3>3. CASE q = r
      <4>1. sending[q] /\ ~sending'[q]
        BY <2>1, <2>2, <3>3
      <4>2. FinishedBatches(q)' = FinishedBatches(q)
        BY <2>1, <2>2, <3>3 DEF FinishedBatches
      <4>3. ReceivedBatches(q + 1)' = batch[q + 1] /\ ReceivedBatches(q + 1) = batch[q + 1] - 1
        BY <2>1, <2>2, <3>1, <3>3 DEF ReceivedBatches
      <4> QED
        BY <3>1, <3>2, <4>1, <4>2, <4>3
    <3>4. CASE q # r
      <4>1. q + 1 # r + 1
        BY <3>1, <3>4
      <4>2. sending'[q] = sending[q] /\ pc'[q + 1] = pc[q + 1] /\ batch' = batch
        BY <2>1, <3>1, <3>4, <4>1
      <4>3. (pc'[q] = "idle") <=> (pc[q] = "idle")
        BY <2>1, <2>2
      <4> QED
        BY <3>2, <4>2, <4>3 DEF FinishedBatches, ReceivedBatches
    <3> QED
      BY <3>3, <3>4
  <2> QED
    BY <2>3, <2>4, <2>5 DEF InStep, Follows
<1>6. ASSUME NEW r \in Ranks, RunUnit(r)
      PROVE  \A q \in Ranks : InStep(q)'
  <2>1. \A q \in Ranks : Waits(q)' /\ Sends(q)'
    BY <1>3, <1>6 DEF RunUnit, InStep, IInv, TypeOK
  <2>2. \A q \in Ranks : Follows(q)'
    BY <1>3, <1>6 DEF RunUnit, InStep, Follows, FinishedBatches, ReceivedBatches
  <2> QED
    BY <2>1, <2>2 DEF InStep
<1>7. ASSUME NEW r \in Ranks, EndBatch(r)
      PROVE  \A q \in Ranks : InStep(q)'
  <2>1. /\ \A q \in Ranks : pc'[q] = IF q = r THEN "idle" ELSE pc[q]
        /\ \A q \in Ranks : q # r => sending'[q] = sending[q]
        /\ sending'[r] <=> r # LastRank
        /\ batch' = batch /\ cut' = cut /\ at' = at
    BY <1>7 DEF EndBatch, IInv, TypeOK
  <2>2. pc[r] = "run" /\ ~sending[r] /\ Units(r) = {}
    BY <1>3, <1>7 DEF EndBatch, InStep
  <2>3. \A q \in Ranks : Waits(q)'
    BY <1>3, <2>1 DEF InStep
  <2>4. \A q \in Ranks : Sends(q)'
    BY <1>3, <2>1, <2>2 DEF InStep
  <2>5. ASSUME NEW q \in Ranks, q # LastRank
        PROVE  FinishedBatches(q)' = ReceivedBatches(q + 1)' + (IF sending'[q] THEN 1 ELSE 0)
    <3>1. /\ q + 1 \in Ranks /\ q \in Int /\ q + 1 # q
          /\ batch[q] \in Int /\ batch[q + 1] \in Int
      BY <1>1, <1>2, <2>5
    <3>2. FinishedBatches(q) = ReceivedBatches(q + 1) + (IF sending[q] THEN 1 ELSE 0)
      BY <1>3, <2>5 DEF InStep, Follows
    <3>3. ReceivedBatches(q + 1)' = ReceivedBatches(q + 1)
      BY <2>1, <2>2, <3>1 DEF ReceivedBatches
    <3>4. ReceivedBatches(q + 1) \in Int
      BY <3>1 DEF ReceivedBatches
    <3>5. CASE q = r
      <4>1. sending'[q] /\ ~sending[q]
        BY <2>1, <2>2, <2>5, <3>5
      <4>2. FinishedBatches(q)' = batch[q] /\ FinishedBatches(q) = batch[q] - 1
        BY <2>1, <2>2, <3>5 DEF FinishedBatches
      <4> QED
        BY <3>1, <3>2, <3>3, <3>4, <4>1, <4>2
    <3>6. CASE q # r
      <4>1. FinishedBatches(q)' = FinishedBatches(q) /\ sending'[q] = sending[q]
        BY <2>1, <3>6 DEF FinishedBatches
      <4> QED
        BY <3>2, <3>3, <4>1
    <3> QED
      BY <3>5, <3>6
  <2> QED
    BY <2>3, <2>4, <2>5 DEF InStep, Follows
<1>8. CASE Done \/ UNCHANGED vars
  BY <1>3, <1>8 DEF Done, vars, InStep, Follows, FinishedBatches, ReceivedBatches
<1> QED
  BY <1>4, <1>5, <1>6, <1>7, <1>8 DEF Next, RankStep
---------------------------------------------------------------------------
(* A rank's buffers stay fresh *)

\* Freshness depends on the rank's own state only.
LEMMA FreshUnchanged ==
  ASSUME NEW r \in Ranks, Fresh(r),
         cut' = cut, batch'[r] = batch[r], at'[r] = at[r], held'[r] = held[r],
         shippedX'[r] = shippedX[r], cand'[r] = cand[r], topk'[r] = topk[r],
         cache'[r] = cache[r]
  PROVE  Fresh(r)'
<1>1. HeldFresh(r)' /\ ShippedFresh(r)'
  BY DEF Fresh, HeldFresh, ShippedFresh
<1>2. CandFresh(r)'
  BY DEF Fresh, CandFresh, HasCands, RunsIndexer, Own
<1>3. CacheFresh(r)'
  BY DEF Fresh, CacheFresh, Ran, AllUnits
<1>4. IndicesFresh(r)'
  BY DEF Fresh, IndicesFresh, LastIndexer, RunsIndexer, Own
<1> QED
  BY <1>1, <1>2, <1>3, <1>4 DEF Fresh

\* Before its first unit, a rank only needs what it received to be fresh.
LEMMA FreshAtStart ==
  ASSUME cut' = cut, cut \in Cuts, NEW r \in Ranks, at'[r] = -1, HeldFresh(r)',
         RecvCand(cut, r) => cand'[r] = batch'[r]
  PROVE  Fresh(r)'
<1>1. \A s \in IndexSources : s \in Nat /\ ~(s <= at'[r])
  BY SourceSets
<1>2. OwnedShipIds(cut, r) \subseteq IndexSources /\ KvSources \subseteq IndexSources
  BY ShippedSources, PlanAssumption
<1>3. HasCand => CandSource \in IndexSources
  <2>1. CandSource # -1 => CandSource \in IndexSources
    BY PlanAssumption
  <2> QED
    BY <2>1 DEF HasCand
<1> QED
  BY <1>1, <1>2, <1>3
  DEF Fresh, ShippedFresh, CandFresh, HasCands, CacheFresh, Ran, IndicesFresh, LastIndexer

\* A rank that has run all its units sends fresh tensors.
LEMMA OutgoingFresh ==
  ASSUME TypeOK, NEW r \in Ranks, Fresh(r), Units(r) = {}, NEW k \in Shipped(cut, r)
  PROVE  Outgoing(r, k) = batch[r]
<1>1. \A l \in AllUnits(r) : l <= at[r]
  <2>1. \A l \in AllUnits(r) : l \in Nat /\ ~(l > at[r])
    BY UnitsAreLayers DEF AllUnits, Units, TypeOK
  <2>2. at[r] \in Int
    BY PlanAssumption DEF TypeOK
  <2> QED
    BY <2>1, <2>2
<1>2. Start(cut, r) \in Int /\ End(cut, r) \in Int
  BY RankRange, PlanAssumption DEF TypeOK
<1>3. ShipIds(cut, r) \subseteq IndexSources /\ \A s \in IndexSources : s \in Nat
  BY ShippedSources, SourceSets DEF TypeOK
<1>4. CASE k = Cand
  <2>1. ShipCand(cut, r)
    BY <1>3, <1>4 DEF Shipped, Cand
  <2>2. HasCand /\ CandSource < End(cut, r)
    BY <2>1 DEF ShipCand
  <2>3. CandSource \in IndexSources
    BY <2>2, PlanAssumption DEF HasCand
  <2>4. CandSource \in Nat
    BY <2>3, <1>3
  <2>5. HasCands(r)
    <3>1. CASE Start(cut, r) > CandSource
      BY <2>2, <3>1 DEF HasCands, RecvCand
    <3>2. CASE ~(Start(cut, r) > CandSource)
      <4>1. CandSource \in Layers(cut, r)
        BY <1>2, <2>2, <2>4, <3>2 DEF Layers
      <4> QED
        BY <1>1, <2>2, <2>3, <4>1 DEF HasCands, RunsIndexer, Own, AllUnits
    <3> QED
      BY <3>1, <3>2
  <2> QED
    BY <1>4, <2>5 DEF Outgoing, Fresh, CandFresh
<1>5. CASE k # Cand /\ k \in OwnedShipIds(cut, r)
  <2>1. k \in ShipIds(cut, r) /\ Start(cut, r) <= k /\ k < End(cut, r) /\ k \in Nat
    BY <1>3, <1>5 DEF OwnedShipIds, ShipIds
  <2>2. k \in AllUnits(r)
    BY <1>2, <2>1 DEF AllUnits, Layers
  <2> QED
    BY <1>1, <1>5, <2>2 DEF Outgoing, Fresh, ShippedFresh
<1>6. CASE k # Cand /\ k \notin OwnedShipIds(cut, r)
  <2>1. k \in ShipIds(cut, r) /\ k \in Nat
    BY <1>3, <1>6 DEF Shipped
  <2>2. k < Start(cut, r)
    BY <1>2, <1>6, <2>1 DEF OwnedShipIds
  <2>3. k \in Received(cut, r)
    BY <2>1, <2>2 DEF Received, RecvIds
  <2> QED
    BY <1>6, <2>3 DEF Outgoing, Fresh, HeldFresh
<1> QED
  BY <1>4, <1>5, <1>6

\* A unit works on its rank's batch.
LEMMA InputFresh ==
  ASSUME NEW r \in Ranks, Fresh(r), NEW l \in AllUnits(r)
  PROVE  Input(r, l) = batch[r]
<1>1. CASE Own(r, l)
  BY <1>1 DEF Input
<1>2. CASE ~Own(r, l)
  <2>1. l \in Received(cut, r)
    BY <1>2 DEF Own, AllUnits, Received, RecvIds
  <2> QED
    BY <1>2, <2>1 DEF Input, Fresh, HeldFresh
<1> QED
  BY <1>1, <1>2

\* Running a unit keeps the rank's buffers fresh.
LEMMA RunUnitFresh ==
  ASSUME TypeOK, NEW r \in Ranks, Fresh(r), RunUnit(r)
  PROVE  Fresh(r)'
<1> DEFINE l == NextUnit(r)
<1>1. /\ l \in AllUnits(r) /\ l \in Nat
      /\ \A u \in AllUnits(r) : u < l => u <= at[r]
      /\ \A u \in AllUnits(r) : u \in Nat
  <2>1. cut \in Cuts /\ at[r] \in Int
    BY PlanAssumption DEF TypeOK
  <2> QED
    BY <2>1, NextUnitFacts, UnitsAreLayers DEF RunUnit, AllUnits
<1>2. Input(r, l) = batch[r]
  BY <1>1, InputFresh
<1>3. /\ at'[r] = l /\ cut' = cut /\ batch' = batch /\ held' = held
      /\ \A s \in KvSources : cache'[r][s] = IF s = l THEN batch[r] ELSE cache[r][s]
      /\ topk'[r] = IF RunsIndexer(r, l) THEN [batch |-> batch[r], source |-> l] ELSE topk[r]
      /\ cand'[r] = IF RunsIndexer(r, l) /\ l = CandSource THEN batch[r] ELSE cand[r]
      /\ \A s \in IndexSources :
           shippedX'[r][s] = IF s = l /\ l \in OwnedShipIds(cut, r) THEN batch[r] ELSE shippedX[r][s]
  BY <1>2 DEF RunUnit, TypeOK
<1>4. \A u \in AllUnits(r) : u <= l => u = l \/ u <= at[r]
  BY <1>1
<1>5. \A s : RunsIndexer(r, s)' <=> RunsIndexer(r, s)
  BY <1>3 DEF RunsIndexer, Own
<1>6. \A s : RunsIndexer(r, s) => s \in AllUnits(r)
  BY DEF RunsIndexer, Own, AllUnits, ShadowIds
<1> HIDE DEF l
<1>7. HeldFresh(r)'
  BY <1>3 DEF Fresh, HeldFresh
<1>8. ShippedFresh(r)'
  <2>1. OwnedShipIds(cut, r) \subseteq IndexSources
    BY ShippedSources DEF TypeOK
  <2>2. OwnedShipIds(cut, r) \subseteq AllUnits(r)
    <3>1. Start(cut, r) \in Int /\ End(cut, r) \in Int
      BY RankRange, PlanAssumption DEF TypeOK
    <3>2. \A s \in OwnedShipIds(cut, r) : s \in Nat /\ Start(cut, r) <= s /\ s < End(cut, r)
      BY <2>1, SourceSets DEF OwnedShipIds, ShipIds
    <3> QED
      BY <3>1, <3>2 DEF AllUnits, Layers
  <2> QED
    BY <1>3, <1>4, <2>1, <2>2 DEF Fresh, ShippedFresh
<1>9. CandFresh(r)'
  BY <1>3, <1>4, <1>5, <1>6 DEF Fresh, CandFresh, HasCands
<1>10. CacheFresh(r)'
  <2>1. AllUnits(r)' = AllUnits(r)
    BY <1>3 DEF AllUnits
  <2> QED
    BY <1>3, <1>4, <2>1 DEF Fresh, CacheFresh, Ran
<1>11. IndicesFresh(r)'
  <2> SUFFICES ASSUME NEW s \in IndexSources, LastIndexer(r, s)'
               PROVE  topk'[r] = [batch |-> batch[r], source |-> s]
    BY <1>3 DEF IndicesFresh
  <2>1. /\ RunsIndexer(r, s) /\ s <= l /\ s \in Nat
        /\ \A t \in IndexSources : RunsIndexer(r, t) /\ t <= l => t <= s
    BY <1>3, <1>5, SourceSets DEF LastIndexer
  <2>2. CASE RunsIndexer(r, l)
    <3>1. l \in IndexSources /\ l <= l
      BY <1>1, <2>2 DEF RunsIndexer
    <3>2. s = l
      BY <1>1, <2>1, <2>2, <3>1
    <3> QED
      BY <1>3, <2>2, <3>2
  <2>3. CASE ~RunsIndexer(r, l)
    <3>1. s <= at[r]
      BY <1>4, <1>6, <2>1, <2>3
    <3>2. ASSUME NEW t \in IndexSources, RunsIndexer(r, t), t <= at[r]
          PROVE  t <= s
      <4>1. at[r] <= l
        <5>1. at[r] \in Int /\ l > at[r]
          BY NextUnitFacts, PlanAssumption DEF RunUnit, TypeOK, l
        <5> QED
          BY <1>1, <5>1
      <4>2. t \in Nat /\ at[r] \in Int
        BY SourceSets, PlanAssumption DEF TypeOK
      <4>3. t <= l
        BY <1>1, <3>2, <4>1, <4>2
      <4> QED
        BY <2>1, <3>2, <4>3
    <3> QED
      BY <1>3, <2>1, <2>3, <3>1, <3>2 DEF Fresh, IndicesFresh, LastIndexer
  <2> QED
    BY <2>2, <2>3
<1> QED
  BY <1>7, <1>8, <1>9, <1>10, <1>11 DEF Fresh
\* The transfer brings the receiver its own batch.
LEMMA TransferFresh ==
  ASSUME IInv, NEW r \in Ranks \ {LastRank}, Transfer(r), TypeOK'
  PROVE  Fresh(r + 1)'
<1>1. r + 1 \in Ranks /\ r + 1 # r /\ r \in Ranks
  BY PlanAssumption DEF Ranks, LastRank
<1>2. TypeOK /\ InStep(r) /\ InStep(r + 1) /\ cut \in Cuts
  BY <1>1 DEF IInv, TypeOK
<1>3. sending[r] /\ pc[r] = "idle" /\ Units(r) = {} /\ pc[r + 1] = "recv" /\ at[r + 1] = -1
  BY <1>2 DEF Transfer, InStep, Sends, Waits
<1>4. Fresh(r)
  BY <1>1, <1>3 DEF IInv, Active
<1>5. batch[r + 1] = batch[r]
  <2>1. batch[r] \in Int /\ batch[r + 1] \in Int
    BY <1>1, <1>2, BatchesAssumption DEF TypeOK
  <2>2. FinishedBatches(r) = ReceivedBatches(r + 1) + 1
    BY <1>2, <1>3 DEF InStep, Follows
  <2>3. FinishedBatches(r) = batch[r] /\ ReceivedBatches(r + 1) = batch[r + 1] - 1
    BY <1>3 DEF FinishedBatches, ReceivedBatches
  <2> QED
    BY <2>1, <2>2, <2>3
<1>6. Shipped(cut, r) = Received(cut, r + 1) /\ Shipped(cut, r) \subseteq Keys
  BY <1>1, <1>2, ShippedIsReceived, ShippedSources DEF LastRank
<1>7. \A k \in Received(cut, r + 1) : held'[r + 1][k] = batch[r + 1]
  <2> SUFFICES ASSUME NEW k \in Received(cut, r + 1)
               PROVE  held'[r + 1][k] = batch[r + 1]
    OBVIOUS
  <2>1. k \in Shipped(cut, r) /\ k \in Keys
    BY <1>6
  <2>2. held'[r + 1][k] = Outgoing(r, k)
    BY <1>1, <1>2, <2>1 DEF Transfer, TypeOK
  <2>3. Outgoing(r, k) = batch[r]
    BY <1>1, <1>2, <1>3, <1>4, <2>1, OutgoingFresh
  <2> QED
    BY <1>5, <2>2, <2>3
<1>8. cut' = cut /\ batch' = batch /\ at' = at
  BY DEF Transfer
<1>9. RecvCand(cut, r + 1) => cand'[r + 1] = batch[r + 1]
  <2> SUFFICES ASSUME RecvCand(cut, r + 1) PROVE cand'[r + 1] = batch[r + 1]
    OBVIOUS
  <2>1. Cand \in Received(cut, r + 1)
    BY DEF Received
  <2>2. cand'[r + 1] = held'[r + 1][Cand]
    BY <1>1, <1>2 DEF Transfer, TypeOK
  <2> QED
    BY <1>7, <2>1, <2>2
<1>10. HeldFresh(r + 1)'
  BY <1>7, <1>8 DEF HeldFresh
<1> QED
  BY <1>1, <1>2, <1>3, <1>8, <1>9, <1>10, FreshAtStart

LEMMA NextIInv == IInv /\ [Next]_vars => IInv'
<1> SUFFICES ASSUME IInv, [Next]_vars PROVE IInv'
  OBVIOUS
<1>1. TypeOK' /\ \A q \in Ranks : InStep(q)'
  BY NextTypeOK, NextInStep DEF IInv
<1>2. TypeOK /\ cut \in Cuts /\ \A q \in Ranks : Active(q) => Fresh(q)
  BY DEF IInv, TypeOK
<1>3. ASSUME NEW r \in Ranks, BeginBatch(r), NEW q \in Ranks, Active(q)'
      PROVE  Fresh(q)'
  <2>1. CASE q = r
    <3>1. r = 1 /\ at'[r] = -1 /\ cut' = cut
      BY <1>2, <1>3, <2>1 DEF BeginBatch, SendsDone, Active, TypeOK
    <3>2. Received(cut, r) = {} /\ ~RecvCand(cut, r)
      BY <1>2, <3>1, FirstReceivesNothing
    <3>3. HeldFresh(r)'
      BY <3>1, <3>2 DEF HeldFresh
    <3> QED
      BY <1>2, <2>1, <3>1, <3>2, <3>3, FreshAtStart
  <2>2. CASE q # r
    <3>1. Active(q)
      BY <1>2, <1>3, <2>2 DEF BeginBatch, Active, TypeOK
    <3>2. batch'[q] = batch[q] /\ at'[q] = at[q]
      BY <1>2, <1>3, <2>2 DEF BeginBatch, TypeOK
    <3> QED
      BY <1>2, <1>3, <3>1, <3>2, FreshUnchanged DEF BeginBatch
  <2> QED
    BY <2>1, <2>2
<1>4. ASSUME NEW r \in Ranks \ {LastRank}, Transfer(r), NEW q \in Ranks, Active(q)'
      PROVE  Fresh(q)'
  <2>1. CASE q = r + 1
    BY <1>1, <1>4, <2>1, TransferFresh
  <2>2. CASE q # r + 1
    <3>1. pc'[q] = pc[q] /\ (sending'[q] => sending[q])
      BY <1>2, <1>4, <2>2 DEF Transfer, TypeOK
    <3>2. Active(q)
      BY <1>4, <3>1 DEF Active
    <3>3. held'[q] = held[q] /\ cand'[q] = cand[q]
      BY <1>2, <1>4, <2>2 DEF Transfer, TypeOK
    <3> QED
      BY <1>2, <1>4, <3>2, <3>3, FreshUnchanged DEF Transfer
  <2> QED
    BY <2>1, <2>2
<1>5. ASSUME NEW r \in Ranks, RunUnit(r), NEW q \in Ranks, Active(q)'
      PROVE  Fresh(q)'
  <2>1. Active(q)
    BY <1>5 DEF RunUnit, Active
  <2>2. CASE q = r
    BY <1>2, <1>5, <2>1, <2>2, RunUnitFresh
  <2>3. CASE q # r
    <3>1. /\ at'[q] = at[q] /\ cache'[q] = cache[q] /\ topk'[q] = topk[q]
          /\ cand'[q] = cand[q] /\ shippedX'[q] = shippedX[q]
      BY <1>2, <1>5, <2>3 DEF RunUnit, TypeOK
    <3> QED
      BY <1>2, <1>5, <2>1, <3>1, FreshUnchanged DEF RunUnit
  <2> QED
    BY <2>2, <2>3
<1>6. ASSUME NEW r \in Ranks, EndBatch(r), NEW q \in Ranks, Active(q)'
      PROVE  Fresh(q)'
  <2>1. Active(q)
    <3>1. CASE q = r
      BY <1>6, <3>1 DEF EndBatch, Active
    <3>2. CASE q # r
      <4>1. pc'[q] = pc[q] /\ sending'[q] = sending[q]
        BY <1>2, <1>6, <3>2 DEF EndBatch, TypeOK
      <4> QED
        BY <1>6, <4>1 DEF Active
    <3> QED
      BY <3>1, <3>2
  <2> QED
    BY <1>2, <1>6, <2>1, FreshUnchanged DEF EndBatch
<1>7. ASSUME Done \/ UNCHANGED vars, NEW q \in Ranks, Active(q)'
      PROVE  Fresh(q)'
  <2>1. UNCHANGED vars
    BY <1>7 DEF Done
  <2>2. Active(q)
    BY <1>7, <2>1 DEF vars, Active
  <2> QED
    BY <1>2, <2>1, <2>2, FreshUnchanged DEF vars
<1>8. \A q \in Ranks : Active(q)' => Fresh(q)'
  BY <1>3, <1>4, <1>5, <1>6, <1>7 DEF Next, RankStep
<1> QED
  BY <1>1, <1>8 DEF IInv

---------------------------------------------------------------------------
(* What follows *)

(***************************************************************************)
(* The inductive invariant: the ranks are in step, and the buffers a rank  *)
(* computes with, or still sends from, belong to its current batch.        *)
(***************************************************************************)
THEOREM ShadowIInv == Spec => []IInv
  BY InitIInv, NextIInv, PTL DEF Spec

(***************************************************************************)
(* Neighbours agree on what they exchange, for every layout, partition and *)
(* number of ranks (ShadowPipeline!TransfersMatch).                        *)
(***************************************************************************)
THEOREM ShadowTransfersMatch == Spec => []TransfersMatch
<1>1. IInv => TransfersMatch
  BY ShippedIsReceived DEF IInv, TypeOK, TransfersMatch, LastRank
<1> QED
  BY <1>1, ShadowIInv, PTL

(***************************************************************************)
(* A shadow always runs on its own batch's attention input, however many   *)
(* ranks forwarded it (ShadowPipeline!InputsFresh).                        *)
(***************************************************************************)
THEOREM ShadowInputsFresh == Spec => []InputsFresh
<1>1. IInv => InputsFresh
  BY DEF IInv, Active, Fresh, HeldFresh, InputsFresh, About, Received, RecvIds
<1> QED
  BY <1>1, ShadowIInv, PTL

\* A unit a rank is about to run is its lowest, and those below it have run.
LEMMA AboutFacts ==
  ASSUME IInv, NEW r \in Ranks, NEW l, About(r, l)
  PROVE  /\ l \in AllUnits(r) /\ l \in Nat /\ l > at[r] /\ at[r] \in Int
         /\ cut \in Cuts /\ Fresh(r)
         /\ \A u \in AllUnits(r) : u < l => u <= at[r]
<1>1. cut \in Cuts /\ at[r] \in Int
  BY PlanAssumption DEF IInv, TypeOK
<1>2. Fresh(r)
  BY DEF IInv, Active, About
<1> QED
  BY <1>1, <1>2, NextUnitFacts DEF About

(***************************************************************************)
(* No layer reads a KV source's caches that are missing on its rank or not *)
(* filled for its batch (ShadowPipeline!CachesComplete).                   *)
(***************************************************************************)
THEOREM ShadowCachesComplete == Spec => []CachesComplete
<1>1. IInv => CachesComplete
  <2> SUFFICES ASSUME IInv, NEW r \in Ranks, NEW l \in Compressed \ KvSources, About(r, l)
               PROVE  cache[r][KvSource(l)] = batch[r]
    BY DEF CachesComplete
  <2>1. l \in AllUnits(r) /\ cut \in Cuts /\ Fresh(r)
    BY AboutFacts
  <2>2. l \in Consumers(cut, r) \union ShadowIds(cut, r)
    BY <2>1 DEF AllUnits, Consumers
  <2>3. KvSource(l) \in AllUnits(r)
    BY <2>1, <2>2, KvSourcePresent DEF AllUnits
  <2>4. KvSource(l) \in KvSources /\ KvSource(l) < l
    <3>1. /\ KvSource(l) \in KvSources /\ KvSource(l) \in Nat /\ IndexSource(l) \in Nat
          /\ KvSource(l) <= IndexSource(l) /\ IndexSource(l) <= l
      BY SourcesOfLayer
    <3>2. KvSource(l) # l /\ l \in Nat
      BY <3>1, AboutFacts
    <3> QED
      BY <3>1, <3>2
  <2>5. KvSource(l) <= at[r]
    BY <2>3, <2>4, AboutFacts
  <2> QED
    BY <2>1, <2>3, <2>4, <2>5 DEF Fresh, CacheFresh, Ran
<1> QED
  BY <1>1, ShadowIInv, PTL

(***************************************************************************)
(* A layer always attends with its own index source's selection for its    *)
(* own batch, wherever the pipeline is cut (ShadowPipeline!TopkFresh).     *)
(***************************************************************************)
THEOREM ShadowTopkFresh == Spec => []TopkFresh
<1>1. IInv => TopkFresh
  <2> SUFFICES ASSUME IInv, NEW r \in Ranks, NEW l \in Consumers(cut, r) \ IndexSources,
                      About(r, l)
               PROVE  topk[r] = [batch |-> batch[r], source |-> IndexSource(l)]
    BY DEF TopkFresh
  <2>1. l \in Compressed
    BY DEF Consumers
  <2>2. /\ l \in Nat /\ l > at[r] /\ at[r] \in Int /\ cut \in Cuts /\ Fresh(r)
        /\ \A u \in AllUnits(r) : u < l => u <= at[r]
    BY AboutFacts
  <2>3. /\ IndexSource(l) \in IndexSources /\ IndexSource(l) \in Nat /\ IndexSource(l) <= l
        /\ \A s \in IndexSources : s <= l => s <= IndexSource(l)
    BY <2>1, SourcesOfLayer
  <2>4. RunsIndexer(r, IndexSource(l)) /\ IndexSource(l) \in AllUnits(r)
    BY <2>2, <2>3, IndexSourcePresent DEF RunsIndexer, Own, AllUnits, ShadowIds
  <2>5. IndexSource(l) <= at[r]
    BY <2>2, <2>3, <2>4
  <2>6. ASSUME NEW t \in IndexSources, t <= at[r]
        PROVE  t <= IndexSource(l)
    <3>1. t \in Nat
      BY SourceSets
    <3>2. t <= l
      BY <2>2, <2>6, <3>1
    <3> QED
      BY <2>3, <3>2
  <2> QED
    BY <2>2, <2>3, <2>4, <2>5, <2>6 DEF Fresh, IndicesFresh, LastIndexer
<1> QED
  BY <1>1, ShadowIInv, PTL

(***************************************************************************)
(* Indexers above the candidate source always filter with their batch's    *)
(* candidates (ShadowPipeline!CandidatesFresh).                            *)
(***************************************************************************)
THEOREM ShadowCandidatesFresh == Spec => []CandidatesFresh
<1>1. IInv => CandidatesFresh
  <2> SUFFICES ASSUME IInv, NEW r \in Ranks, NEW l \in IndexSources, About(r, l),
                      HasCand, l > CandSource
               PROVE  cand[r] = batch[r]
    BY DEF CandidatesFresh
  <2>1. /\ l \in AllUnits(r) /\ l \in Nat /\ at[r] \in Int /\ cut \in Cuts /\ Fresh(r)
        /\ \A u \in AllUnits(r) : u < l => u <= at[r]
    BY AboutFacts
  <2>2. CandSource \in IndexSources /\ CandSource \in Nat
    BY PlanAssumption, SourceSets DEF HasCand
  <2>3. Start(cut, r) \in Int /\ End(cut, r) \in Int
    BY <2>1, RankRange, PlanAssumption
  <2>4. CASE Start(cut, r) > CandSource
    BY <2>1, <2>4 DEF Fresh, CandFresh, HasCands, RecvCand
  <2>5. CASE ~(Start(cut, r) > CandSource)
    <3>1. l \notin ShadowIds(cut, r)
      BY <2>1, <2>2, <2>3, <2>5, ShadowsBelow
    <3>2. l \in Layers(cut, r)
      BY <2>1, <3>1 DEF AllUnits
    <3>3. CandSource \in Layers(cut, r)
      BY <2>1, <2>2, <2>3, <2>5, <3>2 DEF Layers
    <3>4. RunsIndexer(r, CandSource) /\ CandSource <= at[r]
      BY <2>1, <2>2, <3>3 DEF RunsIndexer, Own, AllUnits
    <3> QED
      BY <2>1, <3>4 DEF Fresh, CandFresh, HasCands
  <2> QED
    BY <2>4, <2>5
<1> QED
  BY <1>1, ShadowIInv, PTL
===========================================================================
