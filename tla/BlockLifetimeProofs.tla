------------------------ MODULE BlockLifetimeProofs ------------------------
(***************************************************************************)
(* The KV blocks stay shared out, for any requests, pool, window, budget,  *)
(* queue and way to free: the whole state of a step is the three pieces    *)
(* (tables, pool, deferred frees), which each action changes by one or two *)
(* of four moves (Evict, Allot, Free, Drain).  And with defer_block_free   *)
(* none reaches the pool that a batch in flight writes: a batch is fenced  *)
(* by the number of its step, counted from the oldest.                     *)
(*                                                                         *)
(* The second half is about the rank: at every moment the slots hold, or   *)
(* will when the batch issued last is executed, the tokens known of each   *)
(* running request (Served).  So the sliding window, and the lookback that *)
(* is hashed, is in place when a batch is executed.                        *)
(***************************************************************************)
EXTENDS EngramLookback, DataTheorems

Tables == [Requests -> Seq(BlockIds \union {Null})]

IInv == blocks \in Tables /\ BlocksOnce

---------------------------------------------------------------------------
(* The four moves *)

\* What lies behind the window goes from r's table to the pool.
LEMMA EvictShares ==
  ASSUME NEW tables \in Tables, NEW pool, NEW pending, SharedOut(tables, pool, pending),
         NEW r \in Requests, NEW skip
  PROVE  LET after == [tables EXCEPT ![r] = Evicted(tables[r], skip)]
         IN  after \in Tables /\ SharedOut(after, pool \union Behind(tables[r], skip), pending)
<1> DEFINE t == tables[r]
           behind == Behind(t, skip)
           left == Evicted(t, skip)
           after == [tables EXCEPT ![r] = left]
<1>1. t \in Seq(BlockIds \union {Null})
  BY DEF Tables
<1>2. left \in Seq(BlockIds \union {Null}) /\ DOMAIN left = DOMAIN t
  BY <1>1 DEF Evicted
<1>3. after \in Tables
  BY <1>2 DEF Tables
<1>4. Held(t) = Held(left) \union behind
  BY <1>2 DEF Held, ToSet, Evicted, Behind
<1>5. \A i, j \in DOMAIN t : i # j /\ t[i] = t[j] => t[i] = Null
  BY DEF SharedOut
<1>6. Held(left) \intersect behind = {}
  BY <1>2, <1>5 DEF Held, ToSet, Evicted, Behind
<1>7. after[r] = left /\ \A q \in Requests \ {r} : after[q] = tables[q]
  BY DEF Tables
<1>8. \A i, j \in DOMAIN left : i # j /\ left[i] = left[j] => left[i] = Null
  BY <1>2, <1>5 DEF Evicted
<1> HIDE DEF t, left, behind, after
<1>9. \A q \in Requests : Held(after[q]) \subseteq Held(tables[q])
  BY <1>4, <1>7 DEF t
<1>10. BlockIds = (pool \union behind) \union (UNION {d.ids : d \in pending})
                    \union (UNION {Held(after[q]) : q \in Requests})
  <2>1. UNION {Held(tables[q]) : q \in Requests} =
          behind \union (UNION {Held(after[q]) : q \in Requests})
    BY <1>4, <1>7 DEF t
  <2> QED  BY <2>1 DEF SharedOut
<1>11. \A d \in pending :
          /\ d.ids \intersect (pool \union behind) = {}
          /\ \A e \in pending \ {d} : d.ids \intersect e.ids = {}
  BY <1>4 DEF SharedOut, t
<1>12. ASSUME NEW q \in Requests
       PROVE  /\ Held(after[q]) \intersect (pool \union behind) = {}
              /\ \A d \in pending : Held(after[q]) \intersect d.ids = {}
              /\ \A o \in Requests \ {q} : Held(after[q]) \intersect Held(after[o]) = {}
              /\ \A i, j \in DOMAIN after[q] :
                   i # j /\ after[q][i] = after[q][j] => after[q][i] = Null
  <2>1. Held(after[q]) \intersect behind = {}
    BY <1>4, <1>6, <1>7 DEF SharedOut, t
  <2>2. \A i, j \in DOMAIN after[q] : i # j /\ after[q][i] = after[q][j] => after[q][i] = Null
    BY <1>7, <1>8 DEF SharedOut
  <2>3. /\ Held(after[q]) \intersect pool = {}
        /\ \A d \in pending : Held(after[q]) \intersect d.ids = {}
        /\ \A o \in Requests \ {q} : Held(after[q]) \intersect Held(after[o]) = {}
    BY <1>9 DEF SharedOut
  <2> QED  BY <2>1, <2>2, <2>3
<1>13. SharedOut(after, pool \union behind, pending)
  BY <1>10, <1>11, <1>12 DEF SharedOut
<1> QED  BY <1>3, <1>13 DEF after, left, behind, t

LEMMA SameDifference == \A i, j, n \in Int : i - n = j - n => i = j
OBVIOUS

\* New blocks go from the pool to the end of r's table.
LEMMA AllotShares ==
  ASSUME NEW tables \in Tables, NEW pool, NEW pending, SharedOut(tables, pool, pending),
         BlockAssumption, NEW r \in Requests, NEW n, NEW new \in Distinct(n, pool)
  PROVE  LET after == [tables EXCEPT ![r] = tables[r] \o new]
         IN  after \in Tables /\ SharedOut(after, pool \ ToSet(new), pending)
<1> DEFINE t == tables[r]
           longer == t \o new
           after == [tables EXCEPT ![r] = longer]
           given == ToSet(new)
<1>1. pool \subseteq BlockIds /\ Null \notin pool
  BY DEF SharedOut, BlockAssumption
<1>2. new \in Seq(pool) /\ IsInjective(new)
  <2>1. Cardinality(pool) \in Nat
    BY <1>1, FS_Subset, FS_CardinalityType DEF BlockAssumption
  <2>2. PICK m \in 0..Cardinality(pool) : new \in [1..m -> pool]
    BY DEF Distinct, SeqOf
  <2> QED  BY <2>1, <2>2 DEF Distinct
<1>3. t \in Seq(BlockIds \union {Null})
  BY DEF Tables
<1>4. new \in Seq(BlockIds \union {Null})
  BY <1>1, <1>2
<1>5. /\ longer \in Seq(BlockIds \union {Null})
      /\ DOMAIN longer = 1..(Len(t) + Len(new))
      /\ \A i \in 1..Len(t) : longer[i] = t[i]
      /\ \A i \in 1..Len(new) : longer[Len(t) + i] = new[i]
  BY <1>3, <1>4
<1>6. given \subseteq pool /\ given = {new[i] : i \in 1..Len(new)}
  BY <1>2 DEF ToSet
<1>7. \A i \in DOMAIN longer : \/ i \in 1..Len(t) /\ longer[i] = t[i]
                               \/ /\ i - Len(t) \in 1..Len(new)
                                  /\ longer[i] = new[i - Len(t)]
                                  /\ longer[i] \in given
  <2> SUFFICES ASSUME NEW i \in 1..(Len(t) + Len(new)), i \notin 1..Len(t)
               PROVE  /\ i - Len(t) \in 1..Len(new)
                      /\ longer[i] = new[i - Len(t)] /\ longer[i] \in given
    BY <1>5
  <2> DEFINE k == i - Len(t)
  <2>1. k \in 1..Len(new) /\ Len(t) + k = i
    BY <1>3, <1>4
  <2>2. longer[i] = new[k]
    BY <1>5, <2>1
  <2> QED  BY <1>6, <2>1, <2>2
<1>8. Held(longer) = Held(t) \union given
  <2>1. ASSUME NEW b \in Held(longer) PROVE b \in Held(t) \union given
    <3>1. PICK i \in DOMAIN longer : b = longer[i] /\ b # Null
      BY <2>1 DEF Held, ToSet
    <3>2. CASE i \in 1..Len(t) /\ longer[i] = t[i]
      BY <1>3, <3>1, <3>2 DEF Held, ToSet
    <3>3. CASE longer[i] \in given
      BY <3>1, <3>3
    <3> QED  BY <1>7, <3>1, <3>2, <3>3
  <2>2. ASSUME NEW b \in Held(t) PROVE b \in Held(longer)
    <3>1. PICK i \in 1..Len(t) : b = t[i] /\ b # Null
      BY <1>3 DEF Held, ToSet
    <3>2. i \in DOMAIN longer /\ longer[i] = b
      BY <1>3, <1>4, <1>5, <3>1
    <3> QED  BY <3>1, <3>2 DEF Held, ToSet
  <2>3. ASSUME NEW b \in given PROVE b \in Held(longer)
    <3>1. PICK i \in 1..Len(new) : b = new[i] /\ b # Null
      BY <1>1, <1>6
    <3>2. Len(t) + i \in DOMAIN longer /\ longer[Len(t) + i] = b
      BY <1>3, <1>4, <1>5, <3>1
    <3> QED  BY <3>1, <3>2 DEF Held, ToSet
  <2> QED  BY <2>1, <2>2, <2>3
<1>9. after \in Tables
  BY <1>5 DEF Tables
<1>10. after[r] = longer /\ \A q \in Requests \ {r} : after[q] = tables[q]
  BY DEF Tables
<1>11. \A i, j \in DOMAIN longer : i # j /\ longer[i] = longer[j] => longer[i] = Null
  <2> SUFFICES ASSUME NEW i \in DOMAIN longer, NEW j \in DOMAIN longer,
                      i # j, longer[i] = longer[j], longer[i] # Null
               PROVE  FALSE
    OBVIOUS
  <2>1. \A k \in 1..Len(t) : t[k] # Null => t[k] \notin given
    <3>1. \A k \in 1..Len(t) : t[k] # Null => t[k] \in Held(t)
      BY <1>3 DEF Held, ToSet
    <3>2. Held(t) \intersect pool = {}
      BY DEF SharedOut
    <3> QED  BY <1>6, <3>1, <3>2
  <2>2. CASE i \in 1..Len(t) /\ j \in 1..Len(t)
    BY <1>3, <1>5, <2>2 DEF SharedOut
  <2>3. CASE i \notin 1..Len(t) /\ j \notin 1..Len(t)
    <3>1. /\ i - Len(t) \in 1..Len(new) /\ j - Len(t) \in 1..Len(new)
          /\ new[i - Len(t)] = new[j - Len(t)]
      BY <1>7, <2>3
    <3>2. \A k, l \in 1..Len(new) : new[k] = new[l] => k = l
      <4>1. DOMAIN new = 1..Len(new)
        BY <1>2
      <4> QED  BY <1>2, <4>1, Zenon DEF IsInjective
    <3>3. i - Len(t) = j - Len(t)
      BY <3>1, <3>2, Zenon
    <3>4. i \in Int /\ j \in Int /\ Len(t) \in Int
      BY <1>3, <1>4, <1>5
    <3> QED  BY <3>3, <3>4, SameDifference, Zenon
  <2>4. CASE i \in 1..Len(t) /\ j \notin 1..Len(t)
    BY <1>7, <1>5, <2>1, <2>4
  <2>5. CASE i \notin 1..Len(t) /\ j \in 1..Len(t)
    BY <1>7, <1>5, <2>1, <2>5
  <2> QED  BY <2>2, <2>3, <2>4, <2>5
<1> HIDE DEF t, longer, after, given
<1>12. BlockIds = (pool \ given) \union (UNION {d.ids : d \in pending})
                    \union (UNION {Held(after[q]) : q \in Requests})
  <2>1. UNION {Held(after[q]) : q \in Requests} =
          given \union (UNION {Held(tables[q]) : q \in Requests})
    BY <1>8, <1>10 DEF t
  <2> DEFINE late == UNION {d.ids : d \in pending}
             held == UNION {Held(tables[q]) : q \in Requests}
  <2>2. BlockIds = pool \union late \union held
    BY Zenon DEF SharedOut
  <2> HIDE DEF late, held
  <2>3. BlockIds = (pool \ given) \union late \union (given \union held)
    BY <1>6, <2>2
  <2> QED  BY <2>1, <2>3 DEF late, held
<1>13. \A d \in pending :
          /\ d.ids \intersect (pool \ given) = {}
          /\ \A e \in pending \ {d} : d.ids \intersect e.ids = {}
  BY DEF SharedOut
<1>14. ASSUME NEW q \in Requests
       PROVE  /\ Held(after[q]) \intersect (pool \ given) = {}
              /\ \A d \in pending : Held(after[q]) \intersect d.ids = {}
              /\ \A o \in Requests \ {q} : Held(after[q]) \intersect Held(after[o]) = {}
              /\ \A i, j \in DOMAIN after[q] :
                   i # j /\ after[q][i] = after[q][j] => after[q][i] = Null
  <2>1. \A i, j \in DOMAIN after[q] : i # j /\ after[q][i] = after[q][j] => after[q][i] = Null
    BY <1>10, <1>11 DEF SharedOut
  <2>2. \A o \in Requests : /\ Held(after[o]) \subseteq Held(tables[o]) \union given
                            /\ o # r => Held(after[o]) = Held(tables[o])
    BY <1>8, <1>10 DEF t
  <2>3. /\ Held(after[q]) \intersect (pool \ given) = {}
        /\ \A d \in pending : Held(after[q]) \intersect d.ids = {}
    BY <1>6, <2>2 DEF SharedOut
  <2>4. ASSUME NEW o \in Requests \ {q}
        PROVE  Held(after[q]) \intersect Held(after[o]) = {}
    <3>1. /\ Held(tables[q]) \intersect Held(tables[o]) = {}
          /\ Held(tables[q]) \intersect given = {} /\ Held(tables[o]) \intersect given = {}
      BY <1>6 DEF SharedOut
    <3>2. Held(after[q]) = Held(tables[q]) \/ Held(after[o]) = Held(tables[o])
      BY <2>2
    <3> QED  BY <2>2, <3>1, <3>2
  <2> QED  BY <2>1, <2>3, <2>4
<1>15. SharedOut(after, pool \ given, pending)
  BY <1>12, <1>13, <1>14 DEF SharedOut
<1> QED  BY <1>9, <1>15, Zenon DEF after, longer, t, given

\* The requests S give up their blocks, to the pool or to the deferred frees.
LEMMA FreedShares ==
  ASSUME NEW S \in SUBSET Requests, NEW tables \in Tables, NEW pool, NEW pending, NEW last, NEW seq,
         SharedOut(tables, pool, pending), Freed(S, tables, pool, pending, last, seq)
  PROVE  blocks' \in Tables /\ SharedOut(blocks', free', deferred')
<1> DEFINE later == {r \in S : ~MayFree(r, last) /\ Held(tables[r]) # {}}
           back == UNION {Held(tables[r]) : r \in S \ later}
           fenced == {[fence |-> seq, ids |-> Held(tables[r])] : r \in later}
<1>1. /\ free' = pool \union back
      /\ deferred' = pending \union fenced
      /\ blocks' = [r \in Requests |-> IF r \in S THEN <<>> ELSE tables[r]]
  BY DEF Freed
<1>2. blocks' \in Tables
  BY <1>1 DEF Tables
<1>3. \A b : b \in back <=> \E r \in S \ later : b \in Held(tables[r])
  OBVIOUS
<1>4. \A d \in fenced : \E r \in later : d.ids = Held(tables[r]) /\ d.fence = seq
  OBVIOUS
<1>5. \A r \in later : \E d \in fenced : d.ids = Held(tables[r])
  <2> SUFFICES ASSUME NEW r \in later PROVE \E d \in fenced : d.ids = Held(tables[r])
    OBVIOUS
  <2>1. [fence |-> seq, ids |-> Held(tables[r])] \in fenced
    OBVIOUS
  <2> QED  BY <2>1
<1>6. later \subseteq S
  OBVIOUS
<1>7. \A r \in Requests :
        /\ r \in S => blocks'[r] = <<>> /\ Held(blocks'[r]) = {} /\ DOMAIN blocks'[r] = {}
        /\ r \notin S => blocks'[r] = tables[r]
  BY <1>1 DEF Held, ToSet
<1>8. \A d, e \in fenced : d # e => d.ids \intersect e.ids = {}
  <2> SUFFICES ASSUME NEW r \in later, NEW q \in later, r # q
               PROVE  Held(tables[r]) \intersect Held(tables[q]) = {}
    OBVIOUS
  <2> QED  BY <1>6 DEF SharedOut
<1> HIDE DEF later, back, fenced
<1>9. BlockIds = free' \union (UNION {d.ids : d \in deferred'})
                   \union (UNION {Held(blocks'[r]) : r \in Requests})
  <2> SUFFICES ASSUME NEW b
               PROVE  b \in BlockIds <=> \/ b \in free'
                                         \/ \E d \in deferred' : b \in d.ids
                                         \/ \E r \in Requests : b \in Held(blocks'[r])
    OBVIOUS
  <2>1. b \in BlockIds <=> \/ b \in pool
                           \/ \E d \in pending : b \in d.ids
                           \/ \E r \in Requests : b \in Held(tables[r])
    BY DEF SharedOut
  <2>2. (\E d \in deferred' : b \in d.ids) <=> \/ \E d \in pending : b \in d.ids
                                               \/ \E r \in later : b \in Held(tables[r])
    BY <1>1, <1>4, <1>5
  <2>3. (\E r \in Requests : b \in Held(blocks'[r])) <=>
          \E r \in Requests \ S : b \in Held(tables[r])
    BY <1>7
  <2> QED  BY <1>1, <1>3, <1>6, <2>1, <2>2, <2>3
<1>10. ASSUME NEW d \in deferred'
       PROVE  /\ d.ids \intersect free' = {}
              /\ \A e \in deferred' \ {d} : d.ids \intersect e.ids = {}
  <2>1. CASE d \in pending
    <3>1. d.ids \intersect back = {}
      BY <1>3, <2>1 DEF SharedOut
    <3>2. \A e \in fenced : d.ids \intersect e.ids = {}
      BY <1>4, <1>6, <2>1 DEF SharedOut
    <3> QED  BY <1>1, <2>1, <3>1, <3>2 DEF SharedOut
  <2>2. CASE d \in fenced
    <3>1. PICK r \in later : d.ids = Held(tables[r])
      BY <1>4, <2>2
    <3>2. d.ids \intersect pool = {} /\ \A e \in pending : d.ids \intersect e.ids = {}
      BY <1>6, <3>1 DEF SharedOut
    <3>3. d.ids \intersect back = {}
      BY <1>3, <1>6, <3>1 DEF SharedOut
    <3> QED  BY <1>1, <1>8, <2>2, <3>2, <3>3
  <2> QED  BY <1>1, <2>1, <2>2
<1>11. ASSUME NEW r \in Requests
       PROVE  /\ Held(blocks'[r]) \intersect free' = {}
              /\ \A d \in deferred' : Held(blocks'[r]) \intersect d.ids = {}
              /\ \A q \in Requests \ {r} : Held(blocks'[r]) \intersect Held(blocks'[q]) = {}
              /\ \A i, j \in DOMAIN blocks'[r] :
                   i # j /\ blocks'[r][i] = blocks'[r][j] => blocks'[r][i] = Null
  <2>1. CASE r \in S
    <3>1. blocks'[r] = <<>> /\ Held(blocks'[r]) = {} /\ DOMAIN blocks'[r] = {}
      BY <1>7, <2>1
    <3> QED  BY <3>1
  <2>2. CASE r \notin S
    <3>1. Held(tables[r]) \intersect back = {}
      BY <1>3, <2>2 DEF SharedOut
    <3>2. \A d \in fenced : Held(tables[r]) \intersect d.ids = {}
      BY <1>4, <1>6, <2>2 DEF SharedOut
    <3>3. \A q \in Requests \ {r} : Held(tables[r]) \intersect Held(blocks'[q]) = {}
      BY <1>7 DEF SharedOut
    <3>4. blocks'[r] = tables[r]
      BY <1>7, <2>2
    <3> QED  BY <1>1, <3>1, <3>2, <3>3, <3>4 DEF SharedOut
  <2> QED  BY <2>1, <2>2
<1> QED  BY <1>2, <1>9, <1>10, <1>11 DEF SharedOut

\* Deferred frees whose fence has been passed go to the pool.
LEMMA DrainShares ==
  ASSUME SharedOut(blocks, free, deferred)
  PROVE  SharedOut(blocks, free \union (UNION {d.ids : d \in Drained}), Pending \ Drained)
<1> DEFINE back == UNION {d.ids : d \in Drained}
<1>1. \A x \in Pending : \E d \in deferred : x.ids = d.ids
  BY DEF Pending
<1>2. \A d \in deferred : \E x \in Pending : x.ids = d.ids
  <2> SUFFICES ASSUME NEW d \in deferred PROVE \E x \in Pending : x.ids = d.ids
    OBVIOUS
  <2>1. [fence |-> d.fence - Step, ids |-> d.ids] \in Pending
    BY DEF Pending
  <2> QED  BY <2>1
<1>3. \A x, y \in Pending : x # y => x.ids \intersect y.ids = {}
  <2> SUFFICES ASSUME NEW d \in deferred, NEW e \in deferred, d # e
               PROVE  d.ids \intersect e.ids = {}
    BY DEF Pending
  <2> QED  BY DEF SharedOut
<1>4. \A b : b \in back <=> \E x \in Drained : b \in x.ids
  OBVIOUS
<1>5. Drained \subseteq Pending
  BY DEF Drained
<1> HIDE DEF back
<1>6. BlockIds = (free \union back) \union (UNION {d.ids : d \in Pending \ Drained})
                   \union (UNION {Held(blocks[r]) : r \in Requests})
  <2> SUFFICES ASSUME NEW b
               PROVE  b \in BlockIds <=> \/ b \in free \/ b \in back
                                         \/ \E x \in Pending \ Drained : b \in x.ids
                                         \/ \E r \in Requests : b \in Held(blocks[r])
    OBVIOUS
  <2>1. b \in BlockIds <=> \/ b \in free
                           \/ \E d \in deferred : b \in d.ids
                           \/ \E r \in Requests : b \in Held(blocks[r])
    BY DEF SharedOut
  <2>2. (\E d \in deferred : b \in d.ids) <=> b \in back \/ \E x \in Pending \ Drained : b \in x.ids
    BY <1>1, <1>2, <1>4, <1>5
  <2> QED  BY <2>1, <2>2
<1>7. ASSUME NEW x \in Pending \ Drained
      PROVE  /\ x.ids \intersect (free \union back) = {}
             /\ \A y \in (Pending \ Drained) \ {x} : x.ids \intersect y.ids = {}
  <2>1. x.ids \intersect free = {}
    BY <1>1 DEF SharedOut
  <2>2. x.ids \intersect back = {}
    BY <1>3, <1>4, <1>5
  <2> QED  BY <1>3, <2>1, <2>2
<1>8. ASSUME NEW r \in Requests
      PROVE  /\ Held(blocks[r]) \intersect (free \union back) = {}
             /\ \A x \in Pending \ Drained : Held(blocks[r]) \intersect x.ids = {}
  <2>1. \A x \in Pending : Held(blocks[r]) \intersect x.ids = {}
    BY <1>1 DEF SharedOut
  <2> QED  BY <1>4, <1>5, <2>1 DEF SharedOut
<1>9. SharedOut(blocks, free \union back, Pending \ Drained)
  BY <1>6, <1>7, <1>8 DEF SharedOut
<1> QED  BY <1>9 DEF back
---------------------------------------------------------------------------
(* The actions *)

LEMMA ScheduledIInv ==
  ASSUME IInv, BlockAssumption, NEW r \in Requests, NEW kind, NEW start,
         Scheduled(r, kind, start), deferred' = deferred
  PROVE  IInv'
<1>1. PICK chunk \in Chunks(r, start) :
        \E new \in Distinct(Needed(r, start, chunk.n), Pool(r, start, chunk.n).pool) :
          /\ blocks' = [blocks EXCEPT ![r] = Pool(r, start, chunk.n).table \o new]
          /\ free' = Pool(r, start, chunk.n).pool \ ToSet(new)
  BY Zenon DEF Scheduled
<1>2. PICK new \in Distinct(Needed(r, start, chunk.n), Pool(r, start, chunk.n).pool) :
        /\ blocks' = [blocks EXCEPT ![r] = Pool(r, start, chunk.n).table \o new]
        /\ free' = Pool(r, start, chunk.n).pool \ ToSet(new)
  BY <1>1
<1> DEFINE skip == SkippedBlocks(start, chunk.n)
           tables == [blocks EXCEPT ![r] = Evicted(blocks[r], skip)]
           pool == free \union Behind(blocks[r], skip)
<1>3. /\ Pool(r, start, chunk.n).table = Evicted(blocks[r], skip)
      /\ Pool(r, start, chunk.n).pool = pool
  BY DEF Pool
<1> HIDE DEF skip
<1>4. tables \in Tables /\ SharedOut(tables, pool, deferred)
  BY EvictShares DEF IInv, BlocksOnce
<1>5. tables[r] = Evicted(blocks[r], skip) /\ [tables EXCEPT ![r] = tables[r] \o new] = blocks'
  BY <1>2, <1>3 DEF IInv, Tables
<1> HIDE DEF tables, pool
<1>6. new \in Distinct(Needed(r, start, chunk.n), pool)
  BY <1>2, <1>3
<1>7. [tables EXCEPT ![r] = tables[r] \o new] \in Tables
      /\ SharedOut([tables EXCEPT ![r] = tables[r] \o new], pool \ ToSet(new), deferred)
  BY <1>4, <1>6, AllotShares
<1> QED  BY <1>2, <1>3, <1>5, <1>7 DEF IInv, BlocksOnce

LEMMA PreemptIInv ==
  ASSUME IInv, NEW q \in Requests, NEW r \in Requests, Preempt(q, r)
  PROVE  IInv'
<1>1. PICK chunk \in Chunks(q, computed[q]) :
        Freed({r}, [blocks EXCEPT ![q] = Pool(q, computed[q], chunk.n).table],
              Pool(q, computed[q], chunk.n).pool, deferred, lastSeq, schedSeq)
  BY Zenon DEF Preempt
<1> DEFINE skip == SkippedBlocks(computed[q], chunk.n)
           tables == [blocks EXCEPT ![q] = Evicted(blocks[q], skip)]
           pool == free \union Behind(blocks[q], skip)
<1>2. Freed({r}, tables, pool, deferred, lastSeq, schedSeq)
  BY <1>1 DEF Pool
<1> HIDE DEF skip
<1>3. tables \in Tables /\ SharedOut(tables, pool, deferred)
  BY EvictShares DEF IInv, BlocksOnce
<1> HIDE DEF tables, pool
<1>4. blocks' \in Tables /\ SharedOut(blocks', free', deferred')
  BY <1>2, <1>3, FreedShares
<1> QED  BY <1>4 DEF IInv, BlocksOnce

LEMMA UpdateIInv ==
  ASSUME IInv, Update
  PROVE  IInv'
<1>1. Stopped \subseteq Requests
  BY DEF Stopped, Back
<1>2. PICK last :
        Freed(Stopped, blocks, free \union (UNION {d.ids : d \in Drained}), Pending \ Drained,
              last, schedSeq - Step)
  BY Zenon DEF Update
<1>3. SharedOut(blocks, free \union (UNION {d.ids : d \in Drained}), Pending \ Drained)
  BY DrainShares DEF IInv, BlocksOnce
<1>4. blocks \in Tables
  BY DEF IInv
<1>5. blocks' \in Tables /\ SharedOut(blocks', free', deferred')
  BY <1>1, <1>2, <1>3, <1>4, FreedShares
<1> QED  BY <1>5 DEF IInv, BlocksOnce

LEMMA FreedIInv ==
  ASSUME IInv, NEW S \in SUBSET Requests, Freed(S, blocks, free, deferred, lastSeq, schedSeq)
  PROVE  IInv'
<1>1. blocks' \in Tables /\ SharedOut(blocks', free', deferred')
  BY FreedShares DEF IInv, BlocksOnce
<1> QED  BY <1>1 DEF IInv, BlocksOnce

LEMMA InitIInv == BlockAssumption /\ Init => IInv
<1> SUFFICES ASSUME BlockAssumption, Init PROVE IInv  OBVIOUS
<1>1. blocks = [r \in Requests |-> <<>>] /\ free = BlockIds /\ deferred = {}
  BY DEF Init, InitScheduler
<1>2. \A r \in Requests : blocks[r] = <<>> /\ Held(blocks[r]) = {} /\ DOMAIN blocks[r] = {}
  BY <1>1 DEF Held, ToSet
<1>3. blocks \in Tables
  BY <1>1 DEF Tables
<1> QED  BY <1>1, <1>2, <1>3 DEF IInv, BlocksOnce, SharedOut

LEMMA NextIInv ==
  ASSUME IInv, BlockAssumption, [Next]_vars
  PROVE  IInv'
<1>1. CASE UNCHANGED <<blocks, free, deferred>>
  BY <1>1 DEF IInv, BlocksOnce, SharedOut, Held
<1>2. ASSUME NEW r \in Requests, ScheduleRunning(r) PROVE IInv'
  BY <1>2, ScheduledIInv DEF ScheduleRunning
<1>3. ASSUME NEW r \in Requests, ScheduleWaiting(r) PROVE IInv'
  BY <1>3, ScheduledIInv DEF ScheduleWaiting
<1>4. ASSUME NEW q \in Requests, NEW r \in Requests, Preempt(q, r) PROVE IInv'
  BY <1>4, PreemptIInv
<1>5. CASE Issue
  BY <1>1, <1>5 DEF Issue
<1>6. CASE ForcedReset
  BY <1>6, FreedIInv DEF ForcedReset
<1>7. ASSUME NEW r \in Requests, Abort(r) PROVE IInv'
  BY <1>7, FreedIInv DEF Abort
<1>8. ASSUME NEW r \in Requests, Resubmit(r) PROVE IInv'
  BY <1>1, <1>8 DEF Resubmit
<1>9. CASE Engine
  BY <1>2, <1>3, <1>4, <1>5, <1>6, <1>7, <1>8, <1>9 DEF Engine, Schedule, Client
<1>10. CASE WriteHashCache
  BY <1>1, <1>10 DEF WriteHashCache, schedulerVars, poolVars
<1>11. CASE HashIds
  BY <1>1, <1>11 DEF HashIds, schedulerVars, poolVars
<1>12. CASE Processed
  BY <1>12, UpdateIInv DEF Processed
<1>13. CASE Idle \/ UNCHANGED vars
  BY <1>1, <1>13 DEF Idle, vars, schedulerVars, poolVars
<1> QED  BY <1>9, <1>10, <1>11, <1>12, <1>13 DEF Next

(***************************************************************************)
(* No KV block is lost, given out twice or returned twice, for any number  *)
(* of requests and blocks, any window, budget and queue, with frees        *)
(* deferred or not.                                                        *)
(***************************************************************************)
THEOREM BlocksStayOnce == Spec => []BlocksOnce
<1>1. Init => IInv
  BY BlockAssumption, InitIInv
<1>2. IInv /\ [Next]_vars => IInv'
  BY BlockAssumption, NextIInv
<1>3. IInv => BlocksOnce
  BY DEF IInv
<1> QED  BY <1>1, <1>2, <1>3, PTL DEF Spec

---------------------------------------------------------------------------
(* What the batches in flight hold, batch by batch *)

\* The batches are a sequence, of whatever they are made of.
Listed(q) == \E S : q \in Seq(S)

\* g adds up a over 1..n.
Sums(g, n, a) ==
  /\ g \in [0..n -> Nat] /\ g[0] = 0
  /\ \A i \in 1..n : g[i] = g[i - 1] + a[i]
  /\ \A i, j \in 0..n : i <= j => g[i] <= g[j]

\* How the counts of two queues compare when a batch joins or leaves.
Same(c, a, n) == \A i \in 1..n : c[i] = a[i]
Shifted(c, a, n) == \A i \in 1..n : c[i] = a[i + 1]
CountsOn(a, n) == \A i \in 1..n : a[i] \in Nat

\* One more number: the sums go on.
LEMMA SumsAppend ==
  ASSUME NEW n \in Nat, NEW a, NEW c, NEW g, Sums(g, n, a), Same(c, a, n), c[n + 1] \in Nat
  PROVE  \E h : /\ Sums(h, n + 1, c) /\ h[n + 1] = g[n] + c[n + 1]
                /\ \A i \in 0..n : h[i] = g[i]
<1> DEFINE h == [i \in 0..(n + 1) |-> IF i <= n THEN g[i] ELSE g[n] + c[n + 1]]
<1>1. /\ h \in [0..(n + 1) -> Nat] /\ h[n + 1] = g[n] + c[n + 1]
      /\ \A i \in 0..n : h[i] = g[i] /\ g[i] \in Nat /\ g[i] <= g[n]
  BY DEF Sums
<1> HIDE DEF h
<1>2. h[0] = 0
  BY <1>1 DEF Sums
<1>3. ASSUME NEW i \in 1..(n + 1) PROVE h[i] = h[i - 1] + c[i]
  <2>1. CASE i = n + 1
    BY <1>1, <2>1
  <2>2. CASE i # n + 1
    <3>1. i \in 1..n /\ i \in 0..n /\ i - 1 \in 0..n
      BY <2>2
    <3> QED  BY <1>1, <3>1 DEF Sums, Same
  <2> QED  BY <2>1, <2>2
<1>4. ASSUME NEW i \in 0..(n + 1), NEW j \in 0..(n + 1), i <= j PROVE h[i] <= h[j]
  <2>1. CASE j = n + 1
    <3>1. g[n] \in Nat /\ (i = n + 1 \/ i \in 0..n)
      BY <1>1
    <3> QED  BY <1>1, <2>1, <3>1
  <2>2. CASE j # n + 1
    <3>1. i \in 0..n /\ j \in 0..n
      BY <1>4, <2>2
    <3> QED  BY <1>1, <1>4, <3>1 DEF Sums
  <2> QED  BY <2>1, <2>2
<1>5. Sums(h, n + 1, c)
  BY <1>1, <1>2, <1>3, <1>4 DEF Sums
<1> QED  BY <1>1, <1>5

\* The first number goes: what is left adds up to that much less.
LEMMA SumsTail ==
  ASSUME NEW n \in Nat, NEW a, NEW c, NEW g, Sums(g, n + 1, a),
         CountsOn(a, n + 1), Shifted(c, a, n)
  PROVE  /\ g[1] = a[1] /\ g[1] \in Nat
         /\ \E h : Sums(h, n, c) /\ \A i \in 0..n : h[i] = g[i + 1] - g[1]
<1> DEFINE h == [i \in 0..n |-> g[i + 1] - g[1]]
<1>1. g[0] = 0 /\ 1 \in 1..(n + 1) /\ g[1] = a[1] /\ g[1] \in Nat
  <2>1. 1 \in 1..(n + 1) /\ g[1] = g[1 - 1] + a[1] /\ a[1] \in Nat
    BY DEF Sums, CountsOn
  <2> QED  BY <2>1 DEF Sums
<1>2. ASSUME NEW i \in 0..n
      PROVE  /\ h[i] = g[i + 1] - g[1] /\ h[i] \in Nat /\ g[i + 1] \in Nat
             /\ \A j \in 0..n : i <= j => g[i + 1] <= g[j + 1]
  <2>1. i + 1 \in 0..(n + 1) /\ 1 \in 0..(n + 1) /\ g[i + 1] \in Nat /\ g[1] <= g[i + 1]
    BY DEF Sums
  <2>2. \A j \in 0..n : j + 1 \in 0..(n + 1) /\ (i <= j => i + 1 <= j + 1)
    OBVIOUS
  <2> QED  BY <1>1, <2>1, <2>2 DEF Sums
<1>3. ASSUME NEW i \in 1..n PROVE h[i] = h[i - 1] + c[i]
  <2>1. i + 1 \in 1..(n + 1) /\ (i + 1) - 1 = i /\ i \in 0..n /\ i - 1 \in 0..n /\ (i - 1) + 1 = i
    OBVIOUS
  <2>2. g[i + 1] = g[i] + a[i + 1]
    BY <2>1 DEF Sums
  <2>3. h[i] = g[i + 1] - g[1] /\ h[i - 1] = g[i] - g[1] /\ g[i] \in Nat /\ g[i + 1] \in Nat
    BY <1>2, <2>1
  <2>4. a[i + 1] \in Nat /\ c[i] = a[i + 1]
    BY <2>1 DEF CountsOn, Shifted
  <2> QED  BY <1>1, <2>2, <2>3, <2>4
<1>4. ASSUME NEW i \in 0..n, NEW j \in 0..n, i <= j PROVE h[i] <= h[j]
  <2>1. g[i + 1] <= g[j + 1] /\ h[i] = g[i + 1] - g[1] /\ h[j] = g[j + 1] - g[1]
        /\ g[i + 1] \in Nat /\ g[j + 1] \in Nat
    BY <1>2, <1>4
  <2> QED  BY <1>1, <2>1
<1>5. h \in [0..n -> Nat] /\ h[0] = 0
  BY <1>1, <1>2
<1>6. Sums(h, n, c)
  <2> HIDE DEF h
  <2> QED  BY <1>3, <1>4, <1>5 DEF Sums
<1> QED  BY <1>1, <1>2, <1>6
---------------------------------------------------------------------------
(* The counters of a request and the batches in flight *)

RowOf(b, r) == CHOOSE w \in b.rows : w.r = r
Has(b, r) == \E w \in b.rows : w.r = r

\* Tokens and rejected drafts of r, batch by batch, and the steps that count.
Tokens(q, r) == [i \in 1..Len(q) |-> IF Has(q[i], r) THEN RowOf(q[i], r).n ELSE 0]
Rejects(q, r) ==
  [i \in 1..Len(q) |->
     IF Has(q[i], r) THEN RowOf(q[i], r).drafts - RowOf(q[i], r).accepted ELSE 0]
Counted(q) == [i \in 1..Len(q) |-> IF q[i].rows # {} THEN 1 ELSE 0]

\* A row schedules more tokens than drafts, and not more drafts are right than there are.
RowFacts(w) ==
  /\ w.n \in Nat /\ w.n > 0 /\ w.version \in Int
  /\ w.drafts \in Nat /\ w.drafts < w.n /\ w.accepted \in 0..w.drafts

Rowed(q) == Listed(q) /\ \A i \in 1..Len(q) : \A w \in q[i].rows : RowFacts(w)

\* The counters of a live request r: the stale share is that of the oldest batches, and the
\* drafts that the others may still roll back have been added to c.
Agrees(q, r, c, fl, st) ==
  \E g, h : \E j \in 0..Len(q) :
    /\ Sums(g, Len(q), Tokens(q, r)) /\ Sums(h, Len(q), Rejects(q, r))
    /\ fl = g[Len(q)] /\ st = g[j] /\ c >= h[Len(q)] - h[j]

\* What one batch holds of r is counted in natural numbers, fewer rejected than scheduled.
LEMMA RowCounts ==
  ASSUME NEW b, NEW r, \A w \in b.rows : RowFacts(w)
  PROVE  LET n == IF Has(b, r) THEN RowOf(b, r).n ELSE 0
             d == IF Has(b, r) THEN RowOf(b, r).drafts - RowOf(b, r).accepted ELSE 0
         IN  n \in Nat /\ d \in Nat /\ d <= n /\ (Has(b, r) => n > 0)
<1>1. CASE Has(b, r)
  <2>1. RowOf(b, r) \in b.rows
    BY <1>1 DEF Has, RowOf
  <2> DEFINE w == RowOf(b, r)
  <2>2. w.n \in Nat /\ w.n > 0 /\ w.drafts \in Nat /\ w.drafts < w.n /\ w.accepted \in 0..w.drafts
    BY <2>1 DEF RowFacts
  <2> HIDE DEF w
  <2>3. w.drafts - w.accepted \in Nat /\ w.drafts - w.accepted <= w.n
    BY <2>2
  <2> QED  BY <1>1, <2>2, <2>3 DEF w
<1>2. CASE ~Has(b, r)
  BY <1>2
<1> QED  BY <1>1, <1>2

\* What a queue holds of a request is counted in natural numbers.
LEMMA QueueCounts ==
  ASSUME NEW q, Rowed(q), NEW r
  PROVE  /\ Len(q) \in Nat
         /\ \A i \in 1..Len(q) : /\ Tokens(q, r)[i] \in Nat /\ Rejects(q, r)[i] \in Nat
                                 /\ Counted(q)[i] \in Nat
<1>1. PICK S : q \in Seq(S)
  BY DEF Rowed, Listed
<1>2. Len(q) \in Nat
  BY <1>1
<1>3. ASSUME NEW i \in 1..Len(q)
      PROVE  /\ Tokens(q, r)[i] \in Nat /\ Rejects(q, r)[i] \in Nat
             /\ Counted(q)[i] \in Nat
  <2>1. \A w \in q[i].rows : RowFacts(w)
    BY DEF Rowed
  <2>2. Tokens(q, r)[i] \in Nat /\ Rejects(q, r)[i] \in Nat
    BY <2>1, RowCounts DEF Tokens, Rejects
  <2> QED  BY <2>2 DEF Counted
<1> QED  BY <1>2, <1>3

\* The batches are a sequence when one joins or leaves.
LEMMA ListedAppend ==
  ASSUME NEW q, Listed(q), NEW b
  PROVE  /\ Listed(Append(q, b)) /\ Len(q) \in Nat /\ Len(Append(q, b)) = Len(q) + 1
         /\ Append(q, b)[Len(q) + 1] = b /\ \A i \in 1..Len(q) : Append(q, b)[i] = q[i]
<1>1. PICK S : q \in Seq(S)
  BY DEF Listed
<1>2. q \in Seq(S \union {b})
  BY <1>1
<1>3. Append(q, b) \in Seq(S \union {b})
  BY <1>2
<1> QED  BY <1>2, <1>3, AppendFacts DEF Listed

LEMMA ListedTail ==
  ASSUME NEW q, Listed(q), q # <<>>
  PROVE  /\ Listed(Tail(q)) /\ Len(q) \in Nat /\ Len(q) >= 1 /\ Len(Tail(q)) = Len(q) - 1
         /\ Head(q) = q[1] /\ \A i \in 1..(Len(q) - 1) : Tail(q)[i] = q[i + 1]
<1>1. PICK S : q \in Seq(S)
  BY DEF Listed
<1> QED  BY <1>1, TailFacts DEF Listed

\* A batch joins the queue, with n tokens of r of which d may be rejected.
LEMMA AgreesAppend ==
  ASSUME NEW q, Rowed(q), NEW b, \A w \in b.rows : RowFacts(w), NEW r,
         NEW c \in Nat, NEW fl \in Int, NEW st, Agrees(q, r, c, fl, st),
         NEW n, n = IF Has(b, r) THEN RowOf(b, r).n ELSE 0
  PROVE  Agrees(Append(q, b), r, c + n, fl + n, st)
<1> DEFINE t == Append(q, b)  L == Len(q)
           d == IF Has(b, r) THEN RowOf(b, r).drafts - RowOf(b, r).accepted ELSE 0
           a == Tokens(q, r)  e == Rejects(q, r)  u == Tokens(t, r)  v == Rejects(t, r)
<1>1. L \in Nat /\ Len(t) = L + 1 /\ t[L + 1] = b /\ \A i \in 1..L : t[i] = q[i]
  BY ListedAppend DEF Rowed
<1>2. n \in Nat /\ d \in Nat /\ d <= n
  BY RowCounts
<1>3. /\ u[L + 1] = n /\ v[L + 1] = d
      /\ \A i \in 1..L : u[i] = a[i] /\ v[i] = e[i]
  BY <1>1 DEF Tokens, Rejects
<1>4. PICK g, h : \E j \in 0..L :
        /\ Sums(g, L, a) /\ Sums(h, L, e) /\ fl = g[L] /\ st = g[j] /\ c >= h[L] - h[j]
  BY DEF Agrees
<1>5. PICK j \in 0..L :
        /\ Sums(g, L, a) /\ Sums(h, L, e) /\ fl = g[L] /\ st = g[j] /\ c >= h[L] - h[j]
  BY <1>4
<1> HIDE DEF t, L, d, a, e, u, v
<1>6. PICK x : Sums(x, L + 1, u) /\ x[L + 1] = g[L] + u[L + 1] /\ \A i \in 0..L : x[i] = g[i]
  <2>1. Same(u, a, L) /\ u[L + 1] \in Nat
    BY <1>2, <1>3 DEF Same
  <2> QED  BY <1>1, <1>5, <2>1, SumsAppend
<1>7. PICK y : Sums(y, L + 1, v) /\ y[L + 1] = h[L] + v[L + 1] /\ \A i \in 0..L : y[i] = h[i]
  <2>1. Same(v, e, L) /\ v[L + 1] \in Nat
    BY <1>2, <1>3 DEF Same
  <2> QED  BY <1>1, <1>5, <2>1, SumsAppend
<1>8. h[L] \in Nat /\ h[j] \in Nat /\ g[L] \in Nat
  BY <1>1, <1>5 DEF Sums
<1>9. /\ j \in 0..Len(t) /\ Sums(x, Len(t), u) /\ Sums(y, Len(t), v)
      /\ fl + n = x[Len(t)] /\ st = x[j]
  BY <1>1, <1>3, <1>5, <1>6, <1>7
<1>10. c + n >= y[Len(t)] - y[j]
  <2>1. y[Len(t)] = h[L] + d /\ y[j] = h[j] /\ c >= h[L] - h[j]
    BY <1>1, <1>3, <1>5, <1>7
  <2> DEFINE k == h[L]  l == h[j]
  <2>2. k \in Nat /\ l \in Nat /\ c >= k - l
    BY <1>8, <2>1
  <2> HIDE DEF k, l
  <2>3. (k + d) - l <= c + n
    BY <1>2, <2>2
  <2> QED  BY <2>1, <2>3 DEF k, l
<1>11. Agrees(t, r, c + n, fl + n, st)
  BY <1>9, <1>10 DEF Agrees, u, v
<1> QED  BY <1>11 DEF t

\* The oldest batch leaves: its share is stale or may be rolled back.
LEMMA AgreesTail ==
  ASSUME NEW q, Rowed(q), q # <<>>, NEW r, NEW c \in Nat, NEW fl, NEW st, Agrees(q, r, c, fl, st),
         NEW n, n = IF Has(q[1], r) THEN RowOf(q[1], r).n ELSE 0,
         NEW d, d = IF Has(q[1], r) THEN RowOf(q[1], r).drafts - RowOf(q[1], r).accepted ELSE 0
  PROVE  /\ fl - n \in Nat /\ st \in Nat
         /\ st > 0 => Agrees(Tail(q), r, c, fl - n, st - n)
         /\ st = 0 => c - d \in Nat /\ Agrees(Tail(q), r, c - d, fl - n, st)
<1> DEFINE t == Tail(q)  L == Len(t)
           a == Tokens(q, r)  e == Rejects(q, r)  u == Tokens(t, r)  v == Rejects(t, r)
<1>1. /\ L \in Nat /\ Len(q) = L + 1 /\ \A i \in 1..L : t[i] = q[i + 1] /\ i + 1 \in 1..Len(q)
      /\ 1 \in 1..Len(q)
  BY ListedTail DEF Rowed
<1>2. \A i \in 1..(L + 1) : a[i] \in Nat /\ e[i] \in Nat
  BY <1>1, QueueCounts
<1>3. /\ a[1] = n /\ e[1] = d
      /\ \A i \in 1..L : u[i] = a[i + 1] /\ v[i] = e[i + 1]
  BY <1>1 DEF Tokens, Rejects
<1>4. PICK g, h : \E j \in 0..Len(q) :
        /\ Sums(g, Len(q), a) /\ Sums(h, Len(q), e)
        /\ fl = g[Len(q)] /\ st = g[j] /\ c >= h[Len(q)] - h[j]
  BY DEF Agrees
<1>5. PICK j \in 0..(L + 1) :
        /\ Sums(g, L + 1, a) /\ Sums(h, L + 1, e)
        /\ fl = g[L + 1] /\ st = g[j] /\ c >= h[L + 1] - h[j]
  BY <1>1, <1>4
<1>6. d <= n /\ (n = 0 => d = 0)
  <2>1. \A w \in q[1].rows : RowFacts(w)
    BY <1>1 DEF Rowed
  <2> QED  BY <2>1, RowCounts
<1> HIDE DEF t, L, a, e, u, v
<1>7. PICK x : g[1] = n /\ Sums(x, L, u) /\ \A i \in 0..L : x[i] = g[i + 1] - n
  <2>1. CountsOn(a, L + 1) /\ Shifted(u, a, L)
    BY <1>2, <1>3 DEF CountsOn, Shifted
  <2>2. g[1] = a[1] /\ \E x : Sums(x, L, u) /\ \A i \in 0..L : x[i] = g[i + 1] - g[1]
    BY <1>1, <1>5, <2>1, SumsTail
  <2> QED  BY <1>3, <2>2
<1>8. PICK y : h[1] = d /\ Sums(y, L, v) /\ \A i \in 0..L : y[i] = h[i + 1] - d
  <2>1. CountsOn(e, L + 1) /\ Shifted(v, e, L)
    BY <1>2, <1>3 DEF CountsOn, Shifted
  <2>2. h[1] = e[1] /\ \E y : Sums(y, L, v) /\ \A i \in 0..L : y[i] = h[i + 1] - h[1]
    BY <1>1, <1>5, <2>1, SumsTail
  <2> QED  BY <1>3, <2>2
<1>9. /\ n \in Nat /\ d \in Nat /\ st \in Nat /\ g[0] = 0 /\ h[0] = 0
      /\ h[j] \in Nat /\ h[L + 1] \in Nat /\ h[j] <= h[L + 1]
      /\ j >= 1 => n <= st /\ d <= h[j]
      /\ x[L] = fl - n /\ x[L] \in Nat /\ y[L] = h[L + 1] - d /\ y[L] \in Nat
  <2>1. 1 \in 0..(L + 1) /\ 0 \in 0..(L + 1) /\ L \in 0..L /\ L + 1 \in 0..(L + 1) /\ j <= L + 1
    BY <1>1
  <2>2. /\ g[1] \in Nat /\ h[1] \in Nat /\ g[j] \in Nat /\ h[j] \in Nat /\ h[L + 1] \in Nat
        /\ h[j] <= h[L + 1] /\ (1 <= j => g[1] <= g[j] /\ h[1] <= h[j])
        /\ g[0] = 0 /\ h[0] = 0
    BY <1>5, <2>1 DEF Sums
  <2>3. x[L] \in Nat /\ y[L] \in Nat
    BY <1>7, <1>8, <2>1 DEF Sums
  <2> QED  BY <1>5, <1>7, <1>8, <2>1, <2>2, <2>3
<1>10. ASSUME j >= 1 PROVE /\ j - 1 \in 0..L /\ x[j - 1] = st - n /\ y[j - 1] = h[j] - d
  <2>1. j - 1 \in 0..L /\ (j - 1) + 1 = j
    BY <1>1, <1>10
  <2>2. x[j - 1] = g[(j - 1) + 1] - n /\ y[j - 1] = h[(j - 1) + 1] - d
    BY <1>7, <1>8, <2>1
  <2> QED  BY <1>5, <2>1, <2>2
<1>11. ASSUME st > 0 PROVE Agrees(t, r, c, fl - n, st - n)
  <2>1. j # 0
    BY <1>5, <1>9, <1>11
  <2>2. j - 1 \in 0..L /\ x[j - 1] = st - n /\ y[j - 1] = h[j] - d
    BY <1>10, <2>1
  <2>3. c >= y[L] - y[j - 1]
    BY <1>5, <1>9, <2>2
  <2> QED  BY <1>7, <1>8, <1>9, <2>2, <2>3 DEF Agrees, L, u, v
<1>12. ASSUME st = 0 PROVE c - d \in Nat /\ Agrees(t, r, c - d, fl - n, st)
  <2>1. CASE j >= 1
    <3>1. n = 0 /\ d = 0
      BY <1>6, <1>9, <1>12, <2>1
    <3>2. j - 1 \in 0..L /\ x[j - 1] = st /\ y[j - 1] = h[j] - d
      BY <1>10, <1>12, <2>1, <3>1
    <3>3. c - d = c /\ c >= y[L] - y[j - 1]
      BY <1>5, <1>9, <3>1, <3>2
    <3> QED  BY <1>7, <1>8, <1>9, <3>2, <3>3 DEF Agrees, L, u, v
  <2>2. CASE j = 0
    <3>1. c >= h[L + 1] /\ d <= h[L + 1]
      <4>1. d <= h[L + 1]
        BY <1>9
      <4> QED  BY <1>5, <1>9, <2>2, <4>1
    <3>2. 0 \in 0..L /\ x[0] = 0 /\ y[0] = 0
      BY <1>1, <1>7, <1>8 DEF Sums
    <3>3. c - d \in Nat /\ c - d >= y[L] - y[0]
      BY <1>9, <3>1, <3>2
    <3> QED  BY <1>7, <1>8, <1>9, <1>12, <3>2, <3>3 DEF Agrees, L, u, v
  <2> QED  BY <2>1, <2>2
<1> QED  BY <1>9, <1>11, <1>12 DEF t
---------------------------------------------------------------------------
(* No batch in flight writes a block that is given up *)

\* The number of an oldest batch bounds, for each block it writes, when its holder's table
\* or deferred free may go: f numbers the batches of q, those in P are being scheduled.
Fences(q, f, tables, pending, last, P) ==
  \A i \in 1..Len(q) : \A w \in q[i].rows : \A b \in w.writes \ {Null} :
    /\ \A r \in Requests : b \in Held(tables[r]) => r \in P \/ f[i] <= last[r]
    /\ \A d \in pending : b \in d.ids => f[i] <= d.fence

\* No row of q writes a block of X.
NotWritten(q, X) ==
  \A i \in 1..Len(q) : \A w \in q[i].rows : \A b \in X : b # Null => b \notin w.writes

\* The scheduler's variables: computed stays natural, the other counters only integers.
Typed ==
  /\ status \in [Requests -> {"absent", "waiting", "running", "preempted"}]
  /\ hist \in [Requests -> Seq(Int)] /\ version \in [Requests -> Int]
  /\ computed \in [Requests -> Nat]
  /\ inFlight \in [Requests -> Int] /\ stale \in [Requests -> Int]
  /\ lastSeq \in [Requests -> Int] /\ schedSeq \in Int
  /\ \A d \in deferred : d.fence \in Int
  /\ plan = [rows |-> plan.rows, preempted |-> plan.preempted, budget |-> plan.budget]
  /\ plan.budget \in Int

\* The counters of every live request agree with the batches in flight.
Accounted ==
  \A r \in Requests :
    status[r] # "absent" => Agrees(batches, r, computed[r], inFlight[r], stale[r])

\* The rows being put together are for running requests, into blocks they hold.
PlanHeld ==
  \A w \in plan.rows :
    /\ RowFacts(w) /\ w.r \in Requests /\ status[w.r] = "running"
    /\ w.writes \ {Null} \subseteq Held(blocks[w.r])

AbsentEmpty == \A r \in Requests : status[r] = "absent" => blocks[r] = <<>>

\* The steps that the batches in flight were issued with fence the blocks they write.
Fenced ==
  deferFree =>
    \E f : /\ Sums(f, Len(batches), Counted(batches)) /\ schedSeq = f[Len(batches)]
           /\ Fences(batches, f, blocks, deferred, lastSeq, Planned)

Counters == Typed /\ Rowed(batches) /\ Accounted

\* The inductive invariant.
Life == IInv /\ Counters /\ PlanHeld /\ AbsentEmpty /\ Fenced

\* What FreedWhenWritten says of a step.
Deferred == deferFree => NotWritten(batches', GivenUp)

\* Requests that no step being scheduled is for give up their blocks: fenced, or written by none.
LEMMA FreedFences ==
  ASSUME deferFree, NEW q, NEW f, Rowed(q), Sums(f, Len(q), Counted(q)),
         NEW S \in SUBSET Requests, NEW tables, NEW pool, NEW pending,
         NEW last \in [Requests -> Int], NEW seq, seq = f[Len(q)], NEW P, S \intersect P = {},
         Fences(q, f, tables, pending, last, P),
         Freed(S, tables, pool, pending, last, seq)
  PROVE  Fences(q, f, blocks', deferred', last, P) /\ NotWritten(q, free' \ pool)
<1> DEFINE later == {r \in S : ~MayFree(r, last) /\ Held(tables[r]) # {}}
           back == UNION {Held(tables[r]) : r \in S \ later}
           fenced == {[fence |-> seq, ids |-> Held(tables[r])] : r \in later}
<1>1. /\ free' = pool \union back
      /\ deferred' = pending \union fenced
      /\ blocks' = [r \in Requests |-> IF r \in S THEN <<>> ELSE tables[r]]
  BY DEF Freed
<1>2. \A d \in fenced : d.fence = seq
  OBVIOUS
<1>3. \A b : b \in back => \E r \in S \ later : b \in Held(tables[r])
  OBVIOUS
<1>4. \A r \in S \ later : \A b \in Held(tables[r]) : last[r] <= 0
  BY DEF MayFree
<1> HIDE DEF later, back, fenced
<1>5. \A r \in Requests : \A b \in Held(blocks'[r]) : b \in Held(tables[r])
  <2>1. \A r \in Requests : r \in S => Held(blocks'[r]) = {}
    BY <1>1 DEF Held, ToSet
  <2>2. \A r \in Requests : r \notin S => blocks'[r] = tables[r]
    BY <1>1
  <2> QED  BY <2>1, <2>2
<1>6. ASSUME NEW i \in 1..Len(q), NEW w \in q[i].rows
      PROVE  f[i] \in Nat /\ f[i] >= 1 /\ f[i] <= seq
  <2>1. Len(q) \in Nat
    BY QueueCounts
  <2>2. i \in 0..Len(q) /\ i - 1 \in 0..Len(q) /\ Len(q) \in 0..Len(q) /\ i <= Len(q)
    BY <2>1
  <2>3. f[i] = f[i - 1] + 1
    <3>1. Counted(q)[i] = 1
      BY DEF Counted
    <3> QED  BY <3>1 DEF Sums
  <2>4. f \in [0..Len(q) -> Nat] /\ f[i] <= f[Len(q)]
    BY <2>2 DEF Sums
  <2> QED  BY <2>2, <2>3, <2>4
<1>7. ASSUME NEW i \in 1..Len(q), NEW w \in q[i].rows, NEW b \in w.writes \ {Null}
      PROVE  /\ \A r \in Requests : b \in Held(blocks'[r]) => r \in P \/ f[i] <= last[r]
             /\ \A d \in deferred' : b \in d.ids => f[i] <= d.fence
             /\ b \notin free' \ pool
  <2>1. /\ \A r \in Requests : b \in Held(tables[r]) => r \in P \/ f[i] <= last[r]
        /\ \A d \in pending : b \in d.ids => f[i] <= d.fence
    BY DEF Fences
  <2>2. \A d \in deferred' : b \in d.ids => f[i] <= d.fence
    BY <1>1, <1>2, <1>6, <2>1
  <2>3. b \notin back
    <3> SUFFICES ASSUME NEW r \in S \ later, b \in Held(tables[r]) PROVE FALSE
      BY <1>3
    <3>1. last[r] <= 0 /\ last[r] \in Int /\ r \notin P
      BY <1>4
    <3> QED  BY <1>6, <2>1, <3>1
  <2> QED  BY <1>1, <1>5, <2>1, <2>2, <2>3
<1> QED  BY <1>7 DEF Fences, NotWritten

\* Tables may lose blocks.
LEMMA FencesFewer ==
  ASSUME NEW q, NEW f, NEW tables, NEW after, NEW pending, NEW last, NEW P,
         Fences(q, f, tables, pending, last, P),
         \A r \in Requests : Held(after[r]) \subseteq Held(tables[r])
  PROVE  Fences(q, f, after, pending, last, P)
BY DEF Fences

---------------------------------------------------------------------------
(* schedule() *)

\* A chunk is not empty, and has at least one token that is not a draft.
LEMMA ChunkFacts ==
  ASSUME BlockAssumption, Typed, NEW r \in Requests, NEW start \in Nat,
         NEW chunk \in Chunks(r, start)
  PROVE  /\ chunk.n \in Nat /\ chunk.n > 0 /\ chunk.drafts \in Nat /\ chunk.drafts < chunk.n
<1> DEFINE len == Len(hist[r])
           proposals == IF status[r] = "running" /\ start = len - 1 THEN 0..NumSpec ELSE {0}
           n(d) == Min({len + d - start, plan.budget, MaxLen - 1 - start})
<1>1. PICK d \in proposals :
        n(d) > 0 /\ chunk.n = n(d) /\ chunk.drafts = Max({0, start + n(d) - len})
  <2>1. Chunks(r, start) = {[n |-> n(d), drafts |-> Max({0, start + n(d) - len})]
                              : d \in {e \in proposals : n(e) > 0}}
    BY Zenon DEF Chunks
  <2> HIDE DEF n, proposals, len
  <2>2. PICK d \in {e \in proposals : n(e) > 0} :
          chunk = [n |-> n(d), drafts |-> Max({0, start + n(d) - len})]
    BY <2>1
  <2> QED  BY <2>2
<1>2. len \in Nat /\ MaxLen \in Nat /\ NumSpec \in Nat /\ plan.budget \in Int
  BY DEF Typed, BlockAssumption
<1>3. d \in Nat /\ (start = len - 1 \/ d = 0)
  BY <1>2
<1> HIDE DEF len, proposals
<1> DEFINE m == n(d)  x == len + d - start  y == plan.budget  z == MaxLen - 1 - start
<1>4. x \in Int /\ y \in Int /\ z \in Int /\ m = Min({x, y, z})
  BY <1>2, <1>3
<1> HIDE DEF x, y, z
<1>5. m \in Int /\ m <= len + d - start /\ m > 0
  <2>1. m \in {x, y, z} /\ m <= x
    BY <1>4, Min3
  <2> QED  BY <1>1, <1>4, <2>1 DEF x
<1> HIDE DEF n, m
<1>6. Max({0, start + m - len}) = IF 0 >= start + m - len THEN 0 ELSE start + m - len
  BY <1>2, <1>5, Max2
<1>7. chunk.n = m /\ chunk.drafts = IF 0 >= start + m - len THEN 0 ELSE start + m - len
  BY <1>1, <1>6 DEF m
<1> QED  BY <1>2, <1>3, <1>5, <1>7

\* A block table of ceil(e / s) blocks has the block of each position before e.
LEMMA PositionInTable ==
  ASSUME NEW p \in Nat, NEW e \in Nat, p < e, NEW s \in Nat, s > 0, NEW k \in Nat,
         k >= (e + s - 1) \div s
  PROVE  (p \div s) + 1 \in 1..k
<1> DEFINE u == p \div s  v == (e + s - 1) \div s
<1>1. u \in Nat /\ s * u <= p
  OBVIOUS
<1>2. v \in Int /\ e + s - 1 < s * (v + 1)
  OBVIOUS
<1> HIDE DEF u, v
<1>3. u < v
  <2> SUFFICES ASSUME v <= u PROVE FALSE
    BY <1>1, <1>2
  <2>1. s * v <= s * u
    BY <1>1, <1>2
  <2>2. s * (v + 1) = s * v + s
    BY <1>2
  <2>3. s * v \in Int /\ s * u \in Int
    BY <1>1, <1>2
  <2> QED  BY <1>1, <1>2, <2>1, <2>2, <2>3
<1> QED  BY <1>1, <1>2, <1>3 DEF u, v

\* What Scheduled does: one row more, and it writes blocks that its request holds.
LEMMA ScheduledFacts ==
  ASSUME BlockAssumption, IInv, Typed, NEW r \in Requests, NEW kind, NEW start \in Nat,
         Scheduled(r, kind, start)
  PROVE  \E w : /\ RowFacts(w) /\ w.r = r
                /\ plan' = [plan EXCEPT !.rows = @ \union {w}, !.budget = @ - w.n]
                /\ w.writes \ {Null} \subseteq Held(blocks'[r])
                /\ \A q \in Requests \ {r} : blocks'[q] = blocks[q]
                /\ free' \subseteq free \union Behind(blocks[r], SkippedBlocks(start, w.n))
<1>1. PICK chunk \in Chunks(r, start) : \E a \in 0..chunk.drafts :
        LET p == Pool(r, start, chunk.n)
        IN \E new \in Distinct(Needed(r, start, chunk.n), p.pool) :
             /\ blocks' = [blocks EXCEPT ![r] = p.table \o new]
             /\ free' = p.pool \ ToSet(new)
             /\ plan' = [plan EXCEPT
                  !.rows = @ \union {Row(r, kind, start, chunk, a, p.table, new)},
                  !.budget = @ - chunk.n]
  BY Zenon DEF Scheduled
<1> DEFINE skip == SkippedBlocks(start, chunk.n)
           table == Evicted(blocks[r], skip)
           pool == free \union Behind(blocks[r], skip)
           n == Needed(r, start, chunk.n)
<1>2. Pool(r, start, chunk.n).table = table /\ Pool(r, start, chunk.n).pool = pool
  BY DEF Pool
<1>3. PICK a \in 0..chunk.drafts : \E new \in Distinct(n, pool) :
        /\ blocks' = [blocks EXCEPT ![r] = table \o new]
        /\ free' = pool \ ToSet(new)
        /\ plan' = [plan EXCEPT !.rows = @ \union {Row(r, kind, start, chunk, a, table, new)},
                                !.budget = @ - chunk.n]
  BY <1>1, <1>2, Zenon
<1>4. PICK new \in Distinct(n, pool) :
        /\ blocks' = [blocks EXCEPT ![r] = table \o new]
        /\ free' = pool \ ToSet(new)
        /\ plan' = [plan EXCEPT !.rows = @ \union {Row(r, kind, start, chunk, a, table, new)},
                                !.budget = @ - chunk.n]
  BY <1>3, Zenon
<1> DEFINE w == Row(r, kind, start, chunk, a, table, new)  longer == table \o new
<1>5. /\ chunk.n \in Nat /\ chunk.n > 0 /\ chunk.drafts \in Nat /\ chunk.drafts < chunk.n
  BY ChunkFacts
<1>6. blocks \in [Requests -> Seq(BlockIds \union {Null})]
  BY DEF IInv, Tables
<1>7. /\ table \in Seq(BlockIds \union {Null}) /\ Len(table) = Len(blocks[r])
      /\ pool \subseteq BlockIds
  <2>1. blocks[r] \in Seq(BlockIds \union {Null})
    BY <1>6
  <2>2. table \in Seq(BlockIds \union {Null}) /\ Len(table) = Len(blocks[r])
    <3>1. DOMAIN blocks[r] = 1..Len(blocks[r]) /\ Len(blocks[r]) \in Nat
      BY <2>1
    <3>2. \A i \in 1..Len(blocks[r]) :
            (IF i <= skip THEN Null ELSE blocks[r][i]) \in BlockIds \union {Null}
      BY <2>1
    <3>3. table = [i \in 1..Len(blocks[r]) |-> IF i <= skip THEN Null ELSE blocks[r][i]]
      BY <3>1 DEF Evicted
    <3> QED  BY <3>1, <3>2, <3>3
  <2>3. free \subseteq BlockIds
    BY DEF IInv, BlocksOnce, SharedOut
  <2>4. Behind(blocks[r], skip) \subseteq BlockIds
    BY <2>1 DEF Behind
  <2> QED  BY <2>2, <2>3, <2>4
<1>8. new \in Seq(BlockIds \union {Null}) /\ Len(new) = n
  <2>1. Cardinality(pool) \in Nat
    BY <1>7, FS_Subset, FS_CardinalityType DEF BlockAssumption
  <2>2. PICK m \in 0..Cardinality(pool) : new \in [1..m -> pool]
    BY DEF Distinct, SeqOf
  <2>3. new \in [1..m -> BlockIds \union {Null}]
    BY <1>7, <2>2
  <2>4. new \in Seq(BlockIds \union {Null})
    BY <2>1, <2>3
  <2> QED  BY <2>4 DEF Distinct
<1> HIDE DEF skip, table, pool
<1>9. /\ longer \in Seq(BlockIds \union {Null}) /\ Len(longer) = Len(blocks[r]) + n
  <2> DEFINE X == BlockIds \union {Null}
  <2>1. table \in Seq(X) /\ new \in Seq(X)
    BY <1>7, <1>8
  <2> HIDE DEF X, n
  <2>2. longer \in Seq(X) /\ Len(longer) = Len(table) + Len(new)
    BY <2>1, CatFacts
  <2> QED  BY <1>7, <1>8, <2>2 DEF X
<1>10. w.r = r /\ w.n = chunk.n /\ w.drafts = chunk.drafts /\ w.accepted = a
       /\ w.version = version[r]
       /\ w.writes = {longer[(p \div BlockSize) + 1] : p \in start..(start + chunk.n - 1)}
  BY DEF Row
<1>11. RowFacts(w)
  <2>1. version[r] \in Int
    BY DEF Typed
  <2> HIDE DEF w
  <2> QED  BY <1>5, <1>10, <2>1 DEF RowFacts
<1>12. Len(longer) \in Nat /\ Len(longer) >= (start + chunk.n + BlockSize - 1) \div BlockSize
  <2> DEFINE c == (start + chunk.n + BlockSize - 1) \div BlockSize  l == Len(blocks[r])
  <2>1. BlockSize \in Nat /\ BlockSize > 0 /\ l \in Nat
    BY <1>6 DEF BlockAssumption
  <2>2. c \in Int
    BY <1>5, <2>1
  <2>3. n = Max({0, c - l})
    BY DEF Needed
  <2> HIDE DEF c, l, n
  <2>4. n = IF 0 >= c - l THEN 0 ELSE c - l
    <3>1. c - l \in Int
      BY <2>1, <2>2
    <3> QED  BY <2>3, <3>1, Max2
  <2>5. Len(longer) = l + n
    BY <1>9 DEF l
  <2> QED  BY <2>1, <2>2, <2>4, <2>5 DEF c
<1>13. blocks'[r] = longer /\ \A q \in Requests \ {r} : blocks'[q] = blocks[q]
  BY <1>4, <1>6
<1>14. \A p \in start..(start + chunk.n - 1) : longer[(p \div BlockSize) + 1] \in ToSet(longer)
  <2> SUFFICES ASSUME NEW p \in start..(start + chunk.n - 1)
               PROVE  longer[(p \div BlockSize) + 1] \in ToSet(longer)
    OBVIOUS
  <2>1. BlockSize \in Nat /\ BlockSize > 0
    BY DEF BlockAssumption
  <2>2. p \in Nat /\ start + chunk.n \in Nat /\ p < start + chunk.n
    BY <1>5
  <2>3. (p \div BlockSize) + 1 \in 1..Len(longer)
    BY <1>12, <2>1, <2>2, PositionInTable
  <2> HIDE DEF longer
  <2> QED  BY <1>9, <2>3 DEF ToSet
<1>15. w.writes \ {Null} \subseteq Held(blocks'[r])
  <2> HIDE DEF w, longer
  <2> QED  BY <1>10, <1>13, <1>14 DEF Held
<1>16. free' \subseteq free \union Behind(blocks[r], SkippedBlocks(start, w.n))
  BY <1>4, <1>10 DEF pool, skip
<1>17. plan' = [plan EXCEPT !.rows = @ \union {w}, !.budget = @ - w.n]
  BY <1>4, <1>10
<1> HIDE DEF w
<1> QED  BY <1>10, <1>11, <1>13, <1>15, <1>16, <1>17

\* The positions of a queue.
LEMMA DomainBatches ==
  ASSUME NEW q, Listed(q)
  PROVE  DOMAIN q = 1..Len(q) /\ Len(q) \in Nat
<1>1. PICK S : q \in Seq(S)
  BY DEF Listed
<1> QED  BY <1>1

\* Nothing lies behind the window of the first token.
LEMMA SkippedType ==
  ASSUME BlockAssumption, NEW start \in Nat, NEW n
  PROVE  SkippedBlocks(start, n) \in Int /\ (start = 0 => SkippedBlocks(start, n) = 0)
<1>1. Window \in Nat /\ Window > 0 /\ BlockSize \in Nat /\ BlockSize > 0
  BY DEF BlockAssumption
<1>2. start - Window + 1 \in Int /\ (start = 0 => ~(start - Window + 1 > 0))
  BY <1>1
<1> QED  BY <1>1, <1>2 DEF SkippedBlocks

\* What lies behind the window of r is not given up.
LEMMA BehindNotGivenUp ==
  ASSUME BlockAssumption, Typed, IInv, NEW r \in Requests
  PROVE  Behind(blocks[r], SkippedBlocks(computed[r], 0)) \intersect GivenUp = {}
<1> SUFFICES ASSUME NEW b \in GivenUp, b \in Behind(blocks[r], SkippedBlocks(computed[r], 0))
             PROVE  FALSE
  OBVIOUS
<1> DEFINE skip == SkippedBlocks(computed[r], 0)
<1>1. \/ \E d \in deferred : b \in d.ids
      \/ \E o \in Requests : \E i \in DOMAIN blocks[o] :
           i > SkippedBlocks(computed[o], 0) /\ blocks[o][i] = b
  BY DEF GivenUp
<1>2. PICK j \in DOMAIN blocks[r] : j <= skip /\ blocks[r][j] = b /\ b # Null
  BY DEF Behind
<1>3. b \in Held(blocks[r])
  BY <1>2 DEF Held, ToSet
<1>4. CASE \E d \in deferred : b \in d.ids
  BY <1>3, <1>4 DEF IInv, BlocksOnce, SharedOut
<1>5. ASSUME NEW o \in Requests, NEW i \in DOMAIN blocks[o],
             i > SkippedBlocks(computed[o], 0), blocks[o][i] = b
      PROVE  FALSE
  <2>1. b \in Held(blocks[o])
    BY <1>2, <1>5 DEF Held, ToSet
  <2>2. o = r
    BY <1>3, <2>1 DEF IInv, BlocksOnce, SharedOut
  <2>3. i = j
    BY <1>2, <1>5, <2>2 DEF IInv, BlocksOnce, SharedOut
  <2> HIDE DEF skip
  <2>4. i > skip /\ j <= skip
    BY <1>2, <1>5, <2>2 DEF skip
  <2>5. skip \in Int /\ i \in Int
    <3>1. i \in Nat
      BY <1>5, <2>2 DEF IInv, Tables
    <3>2. computed[r] \in Nat
      BY DEF Typed
    <3>3. skip \in Int
      BY <3>2, SkippedType DEF skip
    <3> QED  BY <3>1, <3>3
  <2> QED  BY <2>3, <2>4, <2>5
<1> QED  BY <1>1, <1>4, <1>5

\* r is scheduled: its blocks grow, what is behind its window goes back.
LEMMA ScheduledLife ==
  ASSUME BlockAssumption, Life, NEW r \in Requests, r \notin Planned, NEW kind, NEW start \in Nat,
         Scheduled(r, kind, start), start = computed[r] \/ start = 0, status[r] # "absent",
         status' = [status EXCEPT ![r] = "running"],
         UNCHANGED <<hist, version, computed, inFlight, stale, deferFree, lastSeq, schedSeq,
                     deferred, batches>>
  PROVE  Counters' /\ PlanHeld' /\ AbsentEmpty' /\ Fenced' /\ Deferred
<1>1. Typed /\ IInv
  BY DEF Life, Counters
<1>2. PICK w : /\ RowFacts(w) /\ w.r = r
               /\ plan' = [plan EXCEPT !.rows = @ \union {w}, !.budget = @ - w.n]
               /\ w.writes \ {Null} \subseteq Held(blocks'[r])
               /\ \A q \in Requests \ {r} : blocks'[q] = blocks[q]
               /\ free' \subseteq free \union Behind(blocks[r], SkippedBlocks(start, w.n))
  BY <1>1, ScheduledFacts
<1>3. /\ plan'.rows = plan.rows \union {w} /\ plan'.budget \in Int
      /\ plan' = [rows |-> plan'.rows, preempted |-> plan'.preempted, budget |-> plan'.budget]
  <2> DEFINE x == plan.rows  y == plan.preempted  z == plan.budget
  <2>1. /\ plan = [rows |-> x, preempted |-> y, budget |-> z] /\ z \in Int
        /\ plan' = [plan EXCEPT !.rows = x \union {w}, !.budget = z - w.n]
        /\ w.n \in Int
    BY <1>1, <1>2 DEF Typed, RowFacts
  <2> HIDE DEF x, y, z
  <2>2. plan' = [rows |-> x \union {w}, preempted |-> y, budget |-> z - w.n]
    BY <2>1
  <2>3. z - w.n \in Int
    BY <2>1
  <2> QED  BY <2>2, <2>3 DEF x
<1>4. status'[r] = "running" /\ \A q \in Requests \ {r} : status'[q] = status[q]
  BY <1>1 DEF Typed
<1>5. Typed'
  BY <1>1, <1>3, <1>4 DEF Typed
<1>6. Counters'
  <2>1. Rowed(batches)' /\ Accounted'
    BY <1>4 DEF Life, Counters, Accounted
  <2> QED  BY <1>5, <2>1 DEF Counters
<1>7. PlanHeld'
  <2> SUFFICES ASSUME NEW v \in plan'.rows
               PROVE  /\ RowFacts(v) /\ v.r \in Requests /\ status'[v.r] = "running"
                      /\ v.writes \ {Null} \subseteq Held(blocks'[v.r])
    BY DEF PlanHeld
  <2>1. CASE v = w
    BY <1>2, <1>4, <2>1
  <2>2. CASE v # w
    <3>1. v \in plan.rows /\ v.r # r
      BY <1>3, <2>2 DEF Planned
    <3> QED  BY <1>2, <1>4, <3>1 DEF Life, PlanHeld
  <2> QED  BY <2>1, <2>2
<1>8. AbsentEmpty'
  BY <1>2, <1>4 DEF Life, AbsentEmpty
<1>9. Planned' = Planned \union {r}
  BY <1>2, <1>3 DEF Planned
<1>10. Fenced'
  <2> SUFFICES ASSUME deferFree PROVE Fenced'
    BY DEF Fenced
  <2>1. PICK f : /\ Sums(f, Len(batches), Counted(batches)) /\ schedSeq = f[Len(batches)]
                 /\ Fences(batches, f, blocks, deferred, lastSeq, Planned)
    BY DEF Life, Fenced
  <2>2. Fences(batches, f, blocks', deferred, lastSeq, Planned')
    BY <1>2, <1>9, <2>1 DEF Fences
  <2> QED  BY <2>1, <2>2 DEF Fenced
<1>11. GivenUp = {}
  <2> DEFINE X == Behind(blocks[r], SkippedBlocks(start, w.n))
  <2>1. X \subseteq Behind(blocks[r], SkippedBlocks(computed[r], 0))
    <3>1. CASE start = computed[r]
      BY <3>1 DEF SkippedBlocks
    <3>2. CASE start = 0
      <4>1. SkippedBlocks(start, w.n) = 0
        BY <3>2, SkippedType
      <4>2. DOMAIN blocks[r] \subseteq Nat \ {0}
        BY <1>1 DEF IInv, Tables
      <4>3. X = {}
        BY <4>1, <4>2 DEF Behind
      <4> QED  BY <4>3
    <3> QED  BY <3>1, <3>2
  <2>2. GivenUp \subseteq X
    BY <1>2 DEF GivenUp
  <2> HIDE DEF X
  <2>3. Behind(blocks[r], SkippedBlocks(computed[r], 0)) \intersect GivenUp = {}
    BY <1>1, BehindNotGivenUp
  <2> QED  BY <2>1, <2>2, <2>3
<1>12. Deferred
  BY <1>11 DEF Deferred, NotWritten
<1> QED  BY <1>6, <1>7, <1>8, <1>10, <1>12

\* The two ways to be scheduled.
LEMMA ScheduleRunningLife ==
  ASSUME BlockAssumption, Life, NEW r \in Requests, ScheduleRunning(r)
  PROVE  Counters' /\ PlanHeld' /\ AbsentEmpty' /\ Fenced' /\ Deferred
<1>1. computed[r] \in Nat /\ status = [status EXCEPT ![r] = "running"]
  BY DEF Life, Counters, Typed, ScheduleRunning
<1> QED  BY <1>1, ScheduledLife DEF ScheduleRunning, requestVars

LEMMA ScheduleWaitingLife ==
  ASSUME BlockAssumption, Life, NEW r \in Requests, ScheduleWaiting(r)
  PROVE  Counters' /\ PlanHeld' /\ AbsentEmpty' /\ Fenced' /\ Deferred
<1>1. r \notin Planned
  BY DEF Life, PlanHeld, Planned, ScheduleWaiting
<1>2. PICK kind : Scheduled(r, kind, 0)
  BY Zenon DEF ScheduleWaiting
<1> QED  BY <1>1, <1>2, ScheduledLife DEF ScheduleWaiting

---------------------------------------------------------------------------
(* Requests give up their blocks *)

\* After a preemption all that is in flight is stale, and nothing is left to roll back.
LEMMA AgreesPreempted ==
  ASSUME NEW q, Rowed(q), NEW r, NEW c, NEW fl, NEW st, Agrees(q, r, c, fl, st)
  PROVE  Agrees(q, r, 0, fl, fl)
<1>1. Len(q) \in Nat /\ Len(q) \in 0..Len(q)
  BY QueueCounts
<1>2. PICK g, h : \E j \in 0..Len(q) :
        /\ Sums(g, Len(q), Tokens(q, r)) /\ Sums(h, Len(q), Rejects(q, r))
        /\ fl = g[Len(q)] /\ st = g[j] /\ c >= h[Len(q)] - h[j]
  BY DEF Agrees
<1>3. h[Len(q)] \in Nat
  BY <1>1, <1>2 DEF Sums
<1>4. 0 >= h[Len(q)] - h[Len(q)]
  BY <1>3
<1> QED  BY <1>1, <1>2, <1>4 DEF Agrees

\* Freed, request by request.
LEMMA FreedTyped ==
  ASSUME NEW S, NEW tables, NEW pool, NEW pending, NEW last, NEW seq \in Int,
         \A d \in pending : d.fence \in Int, Freed(S, tables, pool, pending, last, seq)
  PROVE  /\ \A d \in deferred' : d.fence \in Int
         /\ \A r \in Requests : blocks'[r] = IF r \in S THEN <<>> ELSE tables[r]
BY DEF Freed

\* The requests in S, none of them being scheduled, lose their blocks between two batches.
LEMMA FreedLife ==
  ASSUME Life, NEW S \in SUBSET Requests, S \intersect Planned = {}, plan'.rows = plan.rows,
         Freed(S, blocks, free, deferred, lastSeq, schedSeq),
         UNCHANGED <<deferFree, lastSeq, schedSeq, batches>>
  PROVE  /\ Fenced' /\ Deferred
         /\ \A d \in deferred' : d.fence \in Int
         /\ \A r \in Requests : blocks'[r] = IF r \in S THEN <<>> ELSE blocks[r]
<1>1. Typed /\ Rowed(batches) /\ Listed(batches)
  BY DEF Life, Counters, Rowed
<1>2. Planned' = Planned
  BY DEF Planned
<1>3. /\ \A d \in deferred' : d.fence \in Int
      /\ \A r \in Requests : blocks'[r] = IF r \in S THEN <<>> ELSE blocks[r]
  <2>1. schedSeq \in Int /\ \A d \in deferred : d.fence \in Int
    BY <1>1 DEF Typed
  <2> QED  BY <2>1, FreedTyped
<1>4. CASE deferFree
  <2>1. PICK f : /\ Sums(f, Len(batches), Counted(batches)) /\ schedSeq = f[Len(batches)]
                 /\ Fences(batches, f, blocks, deferred, lastSeq, Planned)
    BY <1>4 DEF Life, Fenced
  <2>2. lastSeq \in [Requests -> Int]
    BY <1>1 DEF Typed
  <2>3. /\ Fences(batches, f, blocks', deferred', lastSeq, Planned)
        /\ NotWritten(batches, free' \ free)
    BY <1>1, <1>4, <2>1, <2>2, FreedFences
  <2>4. GivenUp \subseteq free' \ free
    BY DEF GivenUp
  <2>5. Fenced'
    BY <1>2, <2>1, <2>3 DEF Fenced
  <2>6. Deferred
    BY <2>3, <2>4 DEF Deferred, NotWritten
  <2> QED  BY <1>3, <2>5, <2>6
<1>5. CASE ~deferFree
  <2>1. Fenced' /\ Deferred
    BY <1>5 DEF Fenced, Deferred
  <2> QED  BY <1>3, <2>1
<1> QED  BY <1>4, <1>5

\* Between two batches nobody is being scheduled.
LEMMA PlanEmpty ==
  ASSUME plan = EmptyPlan
  PROVE  plan.rows = {} /\ Planned = {}
BY DEF EmptyPlan, Planned

\* All that run are preempted, their output in flight to be dropped.
LEMMA ForcedResetLife ==
  ASSUME Life, ForcedReset
  PROVE  Counters' /\ PlanHeld' /\ AbsentEmpty' /\ Fenced' /\ Deferred
<1> DEFINE S == {r \in Requests : status[r] = "running"}
<1>1. Typed /\ Rowed(batches)
  BY DEF Life, Counters
<1>2. plan' = plan /\ plan.rows = {} /\ Planned = {}
  BY PlanEmpty DEF ForcedReset
<1>3. /\ Fenced' /\ Deferred
      /\ \A d \in deferred' : d.fence \in Int
      /\ \A r \in Requests : blocks'[r] = IF r \in S THEN <<>> ELSE blocks[r]
  BY <1>2, FreedLife DEF ForcedReset
<1>4. Typed'
  BY <1>1, <1>3 DEF ForcedReset, Typed
<1>5. Accounted'
  <2> SUFFICES ASSUME NEW r \in Requests, status'[r] # "absent"
               PROVE  Agrees(batches, r, computed'[r], inFlight'[r], stale'[r])
    BY DEF Accounted, ForcedReset
  <2>1. status[r] # "absent"
    BY DEF ForcedReset
  <2>2. Agrees(batches, r, computed[r], inFlight[r], stale[r])
    BY <2>1 DEF Life, Counters, Accounted
  <2>3. CASE r \in S
    <3>1. computed'[r] = 0 /\ inFlight'[r] = inFlight[r] /\ stale'[r] = inFlight[r]
      BY <2>3 DEF ForcedReset
    <3> QED  BY <1>1, <2>2, <3>1, AgreesPreempted
  <2>4. CASE r \notin S
    BY <2>2, <2>4 DEF ForcedReset
  <2> QED  BY <2>3, <2>4
<1>6. Counters'
  BY <1>1, <1>4, <1>5 DEF Counters, ForcedReset
<1>7. AbsentEmpty'
  BY <1>3 DEF AbsentEmpty, ForcedReset, Life
<1>8. PlanHeld'
  BY <1>2 DEF PlanHeld
<1> QED  BY <1>3, <1>6, <1>7, <1>8

\* A request is forgotten while its batches are in flight.
LEMMA AbortLife ==
  ASSUME Life, NEW r \in Requests, Abort(r)
  PROVE  Counters' /\ PlanHeld' /\ AbsentEmpty' /\ Fenced' /\ Deferred
<1>1. Typed /\ Rowed(batches)
  BY DEF Life, Counters
<1>2. plan' = plan /\ plan.rows = {} /\ Planned = {}
  BY PlanEmpty DEF Abort
<1>3. /\ Fenced' /\ Deferred
      /\ \A d \in deferred' : d.fence \in Int
      /\ \A o \in Requests : blocks'[o] = IF o \in {r} THEN <<>> ELSE blocks[o]
  BY <1>2, FreedLife DEF Abort
<1>4. Typed'
  BY <1>1, <1>3 DEF Abort, Typed
<1>5. Accounted'
  BY <1>1 DEF Abort, Life, Counters, Accounted, Typed
<1>6. Counters'
  BY <1>1, <1>4, <1>5 DEF Counters, Abort
<1>7. AbsentEmpty'
  BY <1>1, <1>3 DEF AbsentEmpty, Abort, Life, Typed
<1>8. PlanHeld'
  BY <1>2 DEF PlanHeld
<1> QED  BY <1>3, <1>6, <1>7, <1>8

\* r makes room for q, whose window has moved on.
LEMMA PreemptLife ==
  ASSUME BlockAssumption, Life, NEW q \in Requests, NEW r \in Requests, Preempt(q, r)
  PROVE  Counters' /\ PlanHeld' /\ AbsentEmpty' /\ Fenced' /\ Deferred
<1>1. Typed /\ Rowed(batches) /\ IInv
  BY DEF Life, Counters
<1>2. /\ status[q] = "running" /\ status[r] = "running" /\ q \notin Planned /\ r \notin Planned
      /\ status' = [status EXCEPT ![r] = "preempted"]
      /\ computed' = [computed EXCEPT ![r] = 0]
      /\ stale' = [stale EXCEPT ![r] = inFlight[r]]
      /\ plan' = [plan EXCEPT !.preempted = TRUE]
      /\ UNCHANGED <<hist, version, inFlight, deferFree, lastSeq, schedSeq, finishedIds, batches>>
  BY DEF Preempt
<1>3. PICK chunk \in Chunks(q, computed[q]) :
        Freed({r}, [blocks EXCEPT ![q] = Pool(q, computed[q], chunk.n).table],
              Pool(q, computed[q], chunk.n).pool, deferred, lastSeq, schedSeq)
  BY Zenon DEF Preempt
<1> DEFINE skip == SkippedBlocks(computed[q], chunk.n)
           tables == [blocks EXCEPT ![q] = Evicted(blocks[q], skip)]
           pool == free \union Behind(blocks[q], skip)
<1>4. Freed({r}, tables, pool, deferred, lastSeq, schedSeq)
  BY <1>3 DEF Pool
<1>5. skip = SkippedBlocks(computed[q], 0)
  BY DEF SkippedBlocks
<1>6. \A o \in Requests : /\ Held(tables[o]) \subseteq Held(blocks[o])
                          /\ o # q => tables[o] = blocks[o]
  <2>1. blocks \in [Requests -> Seq(BlockIds \union {Null})]
    BY <1>1 DEF IInv, Tables
  <2>2. Held(Evicted(blocks[q], skip)) \subseteq Held(blocks[q])
    BY <2>1 DEF Held, ToSet, Evicted
  <2> QED  BY <2>1, <2>2
<1> HIDE DEF skip, tables, pool
<1>7. /\ \A d \in deferred' : d.fence \in Int
      /\ \A o \in Requests : blocks'[o] = IF o \in {r} THEN <<>> ELSE tables[o]
  <2>1. schedSeq \in Int /\ \A d \in deferred : d.fence \in Int
    BY <1>1 DEF Typed
  <2> QED  BY <1>4, <2>1, FreedTyped
<1>8. plan'.rows = plan.rows /\ Planned' = Planned
      /\ plan' = [rows |-> plan'.rows, preempted |-> plan'.preempted, budget |-> plan'.budget]
      /\ plan'.budget \in Int
  <2> DEFINE x == plan.rows  y == plan.preempted  z == plan.budget
  <2>1. plan = [rows |-> x, preempted |-> y, budget |-> z] /\ z \in Int
    BY <1>1 DEF Typed
  <2> HIDE DEF x, y, z
  <2>2. plan' = [rows |-> x, preempted |-> TRUE, budget |-> z]
    BY <1>2, <2>1
  <2>3. plan'.rows = plan.rows
    BY <2>2 DEF x
  <2> QED  BY <2>1, <2>2, <2>3 DEF Planned
<1>9. Typed'
  BY <1>1, <1>2, <1>7, <1>8 DEF Typed
<1>10. Accounted'
  <2> SUFFICES ASSUME NEW o \in Requests, status'[o] # "absent"
               PROVE  Agrees(batches, o, computed'[o], inFlight'[o], stale'[o])
    BY <1>2 DEF Accounted
  <2>1. Agrees(batches, o, computed[o], inFlight[o], stale[o])
    BY <1>1, <1>2 DEF Life, Counters, Accounted, Typed
  <2>2. CASE o = r
    <3>1. computed'[o] = 0 /\ inFlight'[o] = inFlight[o] /\ stale'[o] = inFlight[o]
      BY <1>1, <1>2, <2>2 DEF Typed
    <3> QED  BY <1>1, <2>1, <3>1, AgreesPreempted
  <2>3. CASE o # r
    BY <1>1, <1>2, <2>1, <2>3 DEF Typed
  <2> QED  BY <2>2, <2>3
<1>11. Counters'
  BY <1>1, <1>2, <1>9, <1>10 DEF Counters
<1>12. PlanHeld'
  <2> SUFFICES ASSUME NEW v \in plan.rows
               PROVE  /\ RowFacts(v) /\ v.r \in Requests /\ status'[v.r] = "running"
                      /\ v.writes \ {Null} \subseteq Held(blocks'[v.r])
    BY <1>8 DEF PlanHeld
  <2>1. v.r # q /\ v.r # r
    BY <1>2 DEF Planned
  <2>2. /\ RowFacts(v) /\ v.r \in Requests /\ status[v.r] = "running"
        /\ v.writes \ {Null} \subseteq Held(blocks[v.r])
    BY DEF Life, PlanHeld
  <2>3. blocks'[v.r] = blocks[v.r] /\ status'[v.r] = status[v.r]
    BY <1>1, <1>2, <1>6, <1>7, <2>1, <2>2 DEF Typed
  <2> QED  BY <2>2, <2>3
<1>13. AbsentEmpty'
  <2> SUFFICES ASSUME NEW o \in Requests, status'[o] = "absent" PROVE blocks'[o] = <<>>
    BY DEF AbsentEmpty
  <2>1. o # r /\ o # q /\ status[o] = "absent"
    BY <1>1, <1>2 DEF Typed
  <2> QED  BY <1>6, <1>7, <2>1 DEF Life, AbsentEmpty
<1>14. ASSUME deferFree PROVE Fenced' /\ NotWritten(batches, free' \ pool)
  <2>1. PICK f : /\ Sums(f, Len(batches), Counted(batches)) /\ schedSeq = f[Len(batches)]
                 /\ Fences(batches, f, blocks, deferred, lastSeq, Planned)
    BY <1>14 DEF Life, Fenced
  <2>2. Fences(batches, f, tables, deferred, lastSeq, Planned)
    BY <1>6, <2>1, FencesFewer
  <2>3. lastSeq \in [Requests -> Int] /\ {r} \intersect Planned = {}
    BY <1>1, <1>2 DEF Typed
  <2>4. /\ Fences(batches, f, blocks', deferred', lastSeq, Planned)
        /\ NotWritten(batches, free' \ pool)
    BY <1>1, <1>4, <1>14, <2>1, <2>2, <2>3, FreedFences
  <2> QED  BY <1>2, <1>8, <2>1, <2>4 DEF Fenced
<1>15. Deferred
  <2> SUFFICES ASSUME deferFree PROVE NotWritten(batches, GivenUp)
    BY <1>2 DEF Deferred
  <2>1. GivenUp \subseteq free' \ pool
    <3>1. GivenUp \intersect Behind(blocks[q], skip) = {}
      BY <1>1, <1>5, BehindNotGivenUp
    <3>2. GivenUp \subseteq free' \ free
      BY DEF GivenUp
    <3> QED  BY <3>1, <3>2 DEF pool
  <2> QED  BY <1>14, <2>1 DEF NotWritten
<1>16. Fenced'
  BY <1>2, <1>14 DEF Fenced
<1> QED  BY <1>11, <1>12, <1>13, <1>15, <1>16
---------------------------------------------------------------------------
(* Batches are issued and come back *)

\* Of a request without a row in the queue nothing is counted.
LEMMA AgreesNone ==
  ASSUME NEW q, Listed(q), NEW r, \A i \in 1..Len(q) : ~Has(q[i], r)
  PROVE  Agrees(q, r, 0, 0, 0)
<1>1. Len(q) \in Nat
  BY DomainBatches
<1> DEFINE g == [i \in 0..Len(q) |-> 0]
<1>2. \A i \in 1..Len(q) : Tokens(q, r)[i] = 0 /\ Rejects(q, r)[i] = 0
  BY DEF Tokens, Rejects
<1>3. /\ g \in [0..Len(q) -> Nat] /\ \A i \in 0..Len(q) : g[i] = 0
      /\ \A i \in 1..Len(q) : i \in 0..Len(q) /\ i - 1 \in 0..Len(q)
      /\ 0 \in 0..Len(q) /\ Len(q) \in 0..Len(q)
  BY <1>1
<1> HIDE DEF g
<1>4. Sums(g, Len(q), Tokens(q, r)) /\ Sums(g, Len(q), Rejects(q, r))
  BY <1>2, <1>3 DEF Sums
<1>5. 0 >= g[Len(q)] - g[0] /\ g[Len(q)] = 0 /\ g[0] = 0
  BY <1>3
<1> QED  BY <1>3, <1>4, <1>5 DEF Agrees

\* A request that comes back with its id starts from nothing.
LEMMA ResubmitLife ==
  ASSUME BlockAssumption, Life, NEW r \in Requests, Resubmit(r)
  PROVE  Counters' /\ PlanHeld' /\ AbsentEmpty' /\ Fenced' /\ Deferred
<1>1. Typed /\ Rowed(batches) /\ Listed(batches)
  BY DEF Life, Counters, Rowed
<1>2. plan' = plan /\ plan.rows = {} /\ Planned = {}
  BY PlanEmpty DEF Resubmit
<1>3. Typed'
  <2>1. version'[r] \in Int /\ version' \in [Requests -> Int]
    BY <1>1 DEF Typed, Resubmit
  <2>2. hist' \in [Requests -> Seq(Int)]
    <3>1. PromptLen \in Nat
      BY DEF BlockAssumption
    <3>2. [p \in 1..PromptLen |-> version'[r]] \in Seq(Int)
      BY <2>1, <3>1
    <3> QED  BY <1>1, <3>2 DEF Typed, Resubmit
  <2>3. /\ status' \in [Requests -> {"absent", "waiting", "running", "preempted"}]
        /\ computed' \in [Requests -> Nat]
    BY <1>1 DEF Typed, Resubmit
  <2>4. /\ inFlight' \in [Requests -> Int] /\ stale' \in [Requests -> Int]
        /\ lastSeq' \in [Requests -> Int]
    BY <1>1 DEF Typed, Resubmit
  <2>5. UNCHANGED <<schedSeq, deferred, plan>>
    BY DEF Resubmit
  <2> QED  BY <1>1, <2>1, <2>2, <2>3, <2>4, <2>5 DEF Typed
<1>4. Agrees(batches, r, 0, 0, 0)
  <2>1. \A i \in 1..Len(batches) : ~Has(batches[i], r)
    BY <1>1, DomainBatches DEF Resubmit, InBatch, Has
  <2> QED  BY <1>1, <2>1, AgreesNone
<1>5. Accounted'
  <2> SUFFICES ASSUME NEW o \in Requests, status'[o] # "absent"
               PROVE  Agrees(batches, o, computed'[o], inFlight'[o], stale'[o])
    BY DEF Accounted, Resubmit
  <2>1. CASE o = r
    <3>1. computed'[o] = 0 /\ inFlight'[o] = 0 /\ stale'[o] = 0
      BY <1>1, <2>1 DEF Resubmit, Typed
    <3> QED  BY <1>4, <2>1, <3>1
  <2>2. CASE o # r
    BY <1>1, <2>2 DEF Resubmit, Typed, Life, Counters, Accounted
  <2> QED  BY <2>1, <2>2
<1>6. Counters'
  BY <1>1, <1>3, <1>5 DEF Counters, Resubmit
<1>7. AbsentEmpty'
  BY <1>1 DEF AbsentEmpty, Resubmit, Life, Typed
<1>8. PlanHeld'
  BY <1>2 DEF PlanHeld
<1>9. Fenced'
  <2> SUFFICES ASSUME deferFree PROVE Fenced'
    BY DEF Fenced, Resubmit
  <2>1. PICK f : /\ Sums(f, Len(batches), Counted(batches)) /\ schedSeq = f[Len(batches)]
                 /\ Fences(batches, f, blocks, deferred, lastSeq, Planned)
    BY DEF Life, Fenced
  <2>2. Held(blocks[r]) = {}
    BY DEF Life, AbsentEmpty, Resubmit, Held, ToSet
  <2>3. \A o \in Requests : o # r => lastSeq'[o] = lastSeq[o]
    BY <1>1 DEF Resubmit, Typed
  <2>4. Fences(batches, f, blocks, deferred, lastSeq', Planned)
    BY <2>1, <2>2, <2>3 DEF Fences
  <2>5. Planned' = Planned
    BY <1>2 DEF Planned
  <2> QED  BY <2>1, <2>4, <2>5 DEF Fenced, Resubmit
<1>10. Deferred
  BY DEF Deferred, GivenUp, NotWritten, Resubmit
<1> QED  BY <1>6, <1>7, <1>8, <1>9, <1>10

\* A batch of rows joins the queue.
LEMMA RowedAppend ==
  ASSUME NEW q, Rowed(q), NEW b, \A w \in b.rows : RowFacts(w)
  PROVE  Rowed(Append(q, b))
<1>1. /\ Listed(Append(q, b)) /\ Len(q) \in Nat /\ Len(Append(q, b)) = Len(q) + 1
      /\ Append(q, b)[Len(q) + 1] = b /\ \A i \in 1..Len(q) : Append(q, b)[i] = q[i]
  BY ListedAppend DEF Rowed
<1>2. ASSUME NEW i \in 1..(Len(q) + 1), NEW w \in Append(q, b)[i].rows PROVE RowFacts(w)
  <2>1. CASE i \in 1..Len(q)
    BY <1>1, <1>2, <2>1 DEF Rowed
  <2>2. CASE i = Len(q) + 1
    BY <1>1, <1>2, <2>2
  <2> QED  BY <1>1, <2>1, <2>2
<1> QED  BY <1>1, <1>2 DEF Rowed

\* The batch put together is issued; the blocks it writes are held by those it is for.
LEMMA IssueLife ==
  ASSUME BlockAssumption, Life, Issue
  PROVE  Counters' /\ PlanHeld' /\ AbsentEmpty' /\ Fenced' /\ Deferred
<1> DEFINE n(r) == IF r \in Planned THEN (CHOOSE w \in plan.rows : w.r = r).n ELSE 0
           seq == IF deferFree /\ plan.rows # {} THEN schedSeq + 1 ELSE schedSeq
           b == [rows |-> plan.rows, finished |-> finishedIds]
           L == Len(batches)
<1>1. /\ Typed /\ Rowed(batches) /\ Listed(batches) /\ L \in Nat
      /\ \A w \in plan.rows : RowFacts(w) /\ w.r \in Requests
  BY DomainBatches DEF Life, Counters, Rowed, PlanHeld
<1>2. /\ batches' = IF plan.rows = {} /\ finishedIds = {} THEN batches ELSE Append(batches, b)
      /\ plan' = EmptyPlan
      /\ computed' = [r \in Requests |-> computed[r] + n(r)]
      /\ inFlight' = [r \in Requests |-> inFlight[r] + n(r)]
      /\ schedSeq' = seq
      /\ lastSeq' = [r \in Requests |-> IF deferFree /\ r \in Planned THEN seq ELSE lastSeq[r]]
      /\ UNCHANGED <<status, hist, version, stale, drop, blocks, free, deferFree, deferred>>
  BY Zenon DEF Issue
<1>3. /\ b.rows = plan.rows
      /\ \A r \in Requests : /\ n(r) = IF Has(b, r) THEN RowOf(b, r).n ELSE 0
                             /\ n(r) \in Nat
  <2>1. \A r \in Requests : n(r) = IF Has(b, r) THEN RowOf(b, r).n ELSE 0
    BY DEF Planned, Has, RowOf
  <2>2. \A r \in Requests : (IF Has(b, r) THEN RowOf(b, r).n ELSE 0) \in Nat
    <3> SUFFICES ASSUME NEW r \in Requests
                 PROVE  (IF Has(b, r) THEN RowOf(b, r).n ELSE 0) \in Nat
      OBVIOUS
    <3>1. \A w \in b.rows : RowFacts(w)
      BY <1>1
    <3> HIDE DEF b
    <3> QED  BY <3>1, RowCounts
  <2> HIDE DEF n
  <2> QED  BY <2>1, <2>2
<1> HIDE DEF n, b
<1>4. schedSeq \in Int /\ seq \in Int
  BY <1>1 DEF Typed
<1> HIDE DEF seq
<1>5. Typed'
  <2>1. computed' \in [Requests -> Nat] /\ inFlight' \in [Requests -> Int]
    <3>1. computed \in [Requests -> Nat] /\ inFlight \in [Requests -> Int]
      BY <1>1 DEF Typed
    <3>2. \A r \in Requests : computed[r] + n(r) \in Nat /\ inFlight[r] + n(r) \in Int
      BY <1>3, <3>1
    <3> QED  BY <1>2, <3>2
  <2>2. lastSeq' \in [Requests -> Int] /\ schedSeq' \in Int
    BY <1>1, <1>2, <1>4 DEF Typed
  <2>3. /\ plan' = [rows |-> plan'.rows, preempted |-> plan'.preempted, budget |-> plan'.budget]
        /\ plan'.budget \in Int
    BY <1>2 DEF EmptyPlan, BlockAssumption
  <2> QED  BY <1>1, <1>2, <2>1, <2>2, <2>3 DEF Typed
<1>6. CASE plan.rows = {} /\ finishedIds = {}
  <2>1. Planned = {} /\ Planned' = {} /\ batches' = batches
    BY <1>2, <1>6 DEF Planned, EmptyPlan
  <2>2. \A r \in Requests : computed'[r] = computed[r] /\ inFlight'[r] = inFlight[r]
    <3> SUFFICES ASSUME NEW r \in Requests
                 PROVE  computed'[r] = computed[r] /\ inFlight'[r] = inFlight[r]
      OBVIOUS
    <3>1. n(r) = 0
      BY <2>1 DEF n
    <3>2. computed[r] \in Nat /\ inFlight[r] \in Int
      BY <1>1 DEF Typed
    <3> QED  BY <1>2, <3>1, <3>2
  <2>3. lastSeq' = lastSeq /\ schedSeq' = schedSeq
    <3>1. lastSeq \in [Requests -> Int]
      BY <1>1 DEF Typed
    <3> QED  BY <1>2, <1>6, <2>1, <3>1 DEF seq
  <2>4. Accounted'
    BY <1>2, <2>1, <2>2 DEF Life, Counters, Accounted
  <2>5. Fenced'
    BY <1>2, <2>1, <2>3 DEF Life, Fenced
  <2> QED  BY <1>1, <1>2, <1>5, <2>1, <2>4, <2>5
           DEF Life, Counters, PlanHeld, AbsentEmpty, Deferred, GivenUp, NotWritten, EmptyPlan
<1>7. CASE ~(plan.rows = {} /\ finishedIds = {})
  <2>1. batches' = Append(batches, b)
    BY <1>2, <1>7
  <2>2. /\ Len(batches') = L + 1 /\ batches'[L + 1] = b /\ \A i \in 1..L : batches'[i] = batches[i]
    BY <1>1, <2>1, ListedAppend
  <2>3. Rowed(batches')
    BY <1>1, <1>3, <2>1, RowedAppend
  <2>4. Accounted'
    <3> SUFFICES ASSUME NEW r \in Requests, status'[r] # "absent"
                 PROVE  Agrees(batches', r, computed'[r], inFlight'[r], stale'[r])
      BY DEF Accounted
    <3>1. Agrees(batches, r, computed[r], inFlight[r], stale[r])
      BY <1>2 DEF Life, Counters, Accounted
    <3>2. computed[r] \in Nat /\ inFlight[r] \in Int
      BY <1>1 DEF Typed
    <3>3. \A w \in b.rows : RowFacts(w)
      BY <1>1, <1>3
    <3>4. Agrees(Append(batches, b), r, computed[r] + n(r), inFlight[r] + n(r), stale[r])
      BY <1>1, <1>3, <3>1, <3>2, <3>3, AgreesAppend
    <3> QED  BY <1>2, <2>1, <3>4
  <2>5. Fenced'
    <3> SUFFICES ASSUME deferFree PROVE Fenced'
      BY <1>2 DEF Fenced
    <3>1. PICK f : /\ Sums(f, L, Counted(batches)) /\ schedSeq = f[L]
                   /\ Fences(batches, f, blocks, deferred, lastSeq, Planned)
      BY DEF Life, Fenced
    <3> DEFINE a == Counted(batches)  c == Counted(batches')
    <3>2. /\ Same(c, a, L) /\ c[L + 1] \in Nat /\ c[L + 1] = IF plan.rows # {} THEN 1 ELSE 0
      BY <1>1, <1>3, <2>2 DEF Counted, Same
    <3> HIDE DEF a, c
    <3>3. PICK h : Sums(h, L + 1, c) /\ h[L + 1] = f[L] + c[L + 1] /\ \A i \in 0..L : h[i] = f[i]
      BY <1>1, <3>1, <3>2, SumsAppend DEF a
    <3>4. schedSeq' = h[L + 1]
      <4>1. schedSeq' = IF plan.rows # {} THEN schedSeq + 1 ELSE schedSeq
        BY <1>2 DEF seq
      <4>2. h[L + 1] = schedSeq + IF plan.rows # {} THEN 1 ELSE 0
        BY <3>1, <3>2, <3>3
      <4> QED  BY <1>4, <4>1, <4>2
    <3>5. \A i \in 1..L : h[i] = f[i] /\ f[i] \in Nat /\ f[i] <= f[L]
      <4>1. L \in 0..L /\ \A i \in 1..L : i \in 0..L /\ i <= L
        BY <1>1
      <4> QED  BY <3>1, <3>3, <4>1 DEF Sums
    <3>6. f[L] \in Nat /\ f[L] <= h[L + 1]
      BY <1>1, <3>1, <3>2, <3>3 DEF Sums
    <3>7. Fences(batches', h, blocks', deferred', lastSeq', {})
      <4> SUFFICES ASSUME NEW i \in 1..(L + 1), NEW w \in batches'[i].rows,
                          NEW x \in w.writes \ {Null}
                   PROVE  /\ \A r \in Requests : x \in Held(blocks[r]) => h[i] <= lastSeq'[r]
                          /\ \A d \in deferred : x \in d.ids => h[i] <= d.fence
        BY <1>2, <2>2 DEF Fences
      <4>1. \A r \in Requests : lastSeq'[r] = IF r \in Planned THEN h[L + 1] ELSE lastSeq[r]
        BY <1>2, <3>4
      <4>2. CASE i \in 1..L
        <5>1. w \in batches[i].rows
          BY <2>2, <4>2
        <5>2. /\ \A r \in Requests : x \in Held(blocks[r]) => r \in Planned \/ f[i] <= lastSeq[r]
              /\ \A d \in deferred : x \in d.ids => f[i] <= d.fence
          BY <3>1, <4>2, <5>1 DEF Fences
        <5>3. h[i] = f[i] /\ h[i] <= h[L + 1]
          <6>1. h[L + 1] \in Nat
            BY <3>3, <1>1 DEF Sums
          <6>2. h[i] = f[i] /\ f[i] \in Nat /\ f[i] <= f[L]
            BY <3>5, <4>2
          <6> QED  BY <3>6, <6>1, <6>2
        <5> QED  BY <4>1, <5>2, <5>3
      <4>3. CASE i = L + 1
        <5>1. w \in plan.rows
          BY <1>3, <2>2, <4>3
        <5>2. w.r \in Requests /\ w.r \in Planned /\ x \in Held(blocks[w.r])
          BY <5>1 DEF Life, PlanHeld, Planned
        <5>3. \A r \in Requests : x \in Held(blocks[r]) => r = w.r
          BY <5>2 DEF Life, IInv, BlocksOnce, SharedOut
        <5>4. \A d \in deferred : x \notin d.ids
          BY <5>2 DEF Life, IInv, BlocksOnce, SharedOut
        <5>5. h[L + 1] \in Nat
          BY <3>3, <1>1 DEF Sums
        <5> QED  BY <4>1, <4>3, <5>2, <5>3, <5>4, <5>5
      <4> QED  BY <1>1, <4>2, <4>3
    <3>8. Planned' = {}
      BY <1>2 DEF Planned, EmptyPlan
    <3> QED  BY <2>2, <3>3, <3>4, <3>7, <3>8 DEF Fenced, c
  <2>6. Counters'
    BY <1>5, <2>3, <2>4 DEF Counters
  <2>7. PlanHeld' /\ AbsentEmpty'
    BY <1>2 DEF PlanHeld, AbsentEmpty, Life, EmptyPlan
  <2>8. Deferred
    BY <1>2 DEF Deferred, GivenUp, NotWritten
  <2> QED  BY <2>5, <2>6, <2>7, <2>8
<1> QED  BY <1>6, <1>7

\* No request is held by two rows of the oldest batch's output: they are looked up by id.
LEMMA OutputRow ==
  ASSUME NEW q, Rowed(q), q # <<>>, q = batches, NEW r
  PROVE  /\ (\E w \in Head(batches).rows : w.r = r) <=> Has(q[1], r)
         /\ Output(r) = RowOf(q[1], r)
         /\ Has(q[1], r) => RowFacts(RowOf(q[1], r))
<1>1. Head(q) = q[1] /\ 1 \in 1..Len(q)
  BY ListedTail DEF Rowed
<1>2. Has(q[1], r) => RowOf(q[1], r) \in q[1].rows
  BY DEF Has, RowOf
<1> QED  BY <1>1, <1>2 DEF Has, RowOf, Output, Rowed

\* The tokens kept are versions.
LEMMA ExtendedType ==
  ASSUME BlockAssumption, Typed, NEW r \in Requests, Output(r).accepted \in Nat,
         Output(r).version \in Int
  PROVE  Extended(r) \in Seq(Int)
<1>1. Sampled(r) \in Seq(Int)
  <2>1. Output(r).accepted + 1 \in Nat
    OBVIOUS
  <2> QED  BY <2>1 DEF Sampled
<1>2. hist[r] \in Seq(Int) /\ MaxLen \in Nat
  BY DEF Typed, BlockAssumption
<1> DEFINE all == hist[r] \o Sampled(r)
<1>3. all \in Seq(Int)
  BY <1>1, <1>2
<1> HIDE DEF all
<1>4. Len(all) \in Nat
  BY <1>3
<1>5. Min({Len(all), MaxLen}) \in Nat /\ Min({Len(all), MaxLen}) <= Len(all)
  <2> DEFINE x == Len(all)
  <2>1. x \in Int /\ MaxLen \in Int /\ x \in Nat
    BY <1>2, <1>4
  <2> HIDE DEF x
  <2>2. Min({x, MaxLen}) = IF x <= MaxLen THEN x ELSE MaxLen
    BY <2>1, Min2
  <2>3. Min({x, MaxLen}) \in Nat /\ Min({x, MaxLen}) <= x
    BY <1>2, <2>1, <2>2
  <2> QED  BY <2>3 DEF x
<1> DEFINE m == Min({Len(all), MaxLen})
<1> HIDE DEF m
<1>6. m \in Nat /\ m <= Len(all)
  BY <1>5 DEF m
<1>7. SubSeq(all, 1, m) \in Seq(Int)
  BY <1>3, <1>6
<1> QED  BY <1>7 DEF Extended, all, m

\* The fences after the oldest batch came back: they count from the next one.
LEMMA FencesTail ==
  ASSUME deferFree, NEW q, q = batches, Rowed(q), q # <<>>,
         NEW f, Sums(f, Len(q), Counted(q)), schedSeq = f[Len(q)], schedSeq \in Int,
         lastSeq \in [Requests -> Int], \A d \in deferred : d.fence \in Int,
         Fences(q, f, blocks, deferred, lastSeq, {}),
         NEW last, last = [r \in Requests |-> IF lastSeq[r] > Step THEN lastSeq[r] - Step ELSE 0]
  PROVE  /\ last \in [Requests -> Int]
         /\ \E g : /\ Sums(g, Len(Tail(q)), Counted(Tail(q)))
                   /\ schedSeq - Step = g[Len(Tail(q))]
                   /\ Fences(Tail(q), g, blocks, Pending, last, {})
<1> DEFINE t == Tail(q)  L == Len(t)  a == Counted(q)  c == Counted(t)
<1>1. /\ L \in Nat /\ Len(q) = L + 1 /\ \A i \in 1..L : t[i] = q[i + 1] /\ i + 1 \in 1..Len(q)
      /\ 1 \in 1..Len(q) /\ Head(q) = q[1]
  BY ListedTail DEF Rowed
<1>2. a[1] = Step /\ Step \in Nat
  BY <1>1 DEF Counted, Step
<1>3. CountsOn(a, L + 1) /\ Shifted(c, a, L)
  BY <1>1 DEF Counted, CountsOn, Shifted
<1>4. last \in [Requests -> Int]
  BY <1>2
<1> HIDE DEF t, L, a, c
<1>5. PICK g : Sums(g, L, c) /\ f[1] = Step /\ \A i \in 0..L : g[i] = f[i + 1] - Step
  <2>1. Sums(f, L + 1, a)
    BY <1>1 DEF a
  <2>2. f[1] = a[1] /\ \E g : Sums(g, L, c) /\ \A i \in 0..L : g[i] = f[i + 1] - f[1]
    BY <1>1, <1>3, <2>1, SumsTail
  <2> QED  BY <1>2, <2>2
<1>6. schedSeq - Step = g[L]
  BY <1>1, <1>5
<1>7. ASSUME NEW i \in 1..L PROVE g[i] = f[i + 1] - Step /\ g[i] \in Nat /\ f[i + 1] \in Nat
  <2>1. i \in 0..L /\ i + 1 \in 0..(L + 1)
    BY <1>1
  <2>2. Sums(f, L + 1, a)
    BY <1>1 DEF a
  <2> QED  BY <1>5, <2>1, <2>2 DEF Sums
<1>8. \A d \in Pending : \E e \in deferred : d.fence = e.fence - Step /\ d.ids = e.ids
  BY DEF Pending
<1>9. Fences(t, g, blocks, Pending, last, {})
  <2> SUFFICES ASSUME NEW i \in 1..L, NEW w \in t[i].rows, NEW b \in w.writes \ {Null}
               PROVE  /\ \A r \in Requests : b \in Held(blocks[r]) => g[i] <= last[r]
                      /\ \A d \in Pending : b \in d.ids => g[i] <= d.fence
    BY DEF Fences, L
  <2>1. /\ \A r \in Requests : b \in Held(blocks[r]) => f[i + 1] <= lastSeq[r]
        /\ \A d \in deferred : b \in d.ids => f[i + 1] <= d.fence
    BY <1>1 DEF Fences
  <2>2. \A r \in Requests : b \in Held(blocks[r]) => g[i] <= last[r]
    BY <1>2, <1>7, <2>1
  <2>3. \A d \in Pending : b \in d.ids => g[i] <= d.fence
    BY <1>2, <1>7, <1>8, <2>1
  <2> QED  BY <2>2, <2>3
<1> QED  BY <1>4, <1>5, <1>6, <1>9 DEF L, t, c

\* What is drained is past its fence: no batch that is left writes it.
LEMMA DrainedNotWritten ==
  ASSUME deferFree, NEW q, Rowed(q), NEW g, Sums(g, Len(q), Counted(q)),
         NEW last, NEW P, Fences(q, g, blocks, Pending, last, P),
         \A d \in Pending : d.fence \in Int
  PROVE  /\ NotWritten(q, UNION {d.ids : d \in Drained})
         /\ Fences(q, g, blocks, Pending \ Drained, last, P)
<1>1. ASSUME NEW i \in 1..Len(q), NEW w \in q[i].rows
      PROVE  g[i] \in Nat /\ g[i] >= 1
  <2>1. Len(q) \in Nat
    BY QueueCounts
  <2>2. i \in 0..Len(q) /\ i - 1 \in 0..Len(q)
    BY <2>1
  <2>3. g[i] = g[i - 1] + 1
    <3>1. Counted(q)[i] = 1
      BY DEF Counted
    <3> QED  BY <3>1 DEF Sums
  <2> QED  BY <2>2, <2>3 DEF Sums
<1>2. \A d \in Drained : d \in Pending /\ d.fence <= 0
  BY DEF Drained
<1>3. ASSUME NEW i \in 1..Len(q), NEW w \in q[i].rows, NEW d \in Drained, NEW b \in d.ids, b # Null
      PROVE  b \notin w.writes
  <2> SUFFICES ASSUME b \in w.writes PROVE FALSE
    OBVIOUS
  <2>1. g[i] <= d.fence /\ d.fence \in Int /\ d.fence <= 0
    BY <1>2, <1>3 DEF Fences
  <2> QED  BY <1>1, <2>1
<1>4. NotWritten(q, UNION {d.ids : d \in Drained})
  BY <1>3 DEF NotWritten
<1>5. Fences(q, g, blocks, Pending \ Drained, last, P)
  BY DEF Fences
<1> QED  BY <1>4, <1>5

\* The oldest batch comes back: who is done gives up its blocks, and fences move on.
LEMMA UpdateLife ==
  ASSUME BlockAssumption, Life, Update, batches # <<>>
  PROVE  Counters' /\ PlanHeld' /\ AbsentEmpty' /\ Fenced' /\ Deferred
<1> DEFINE last == [r \in Requests |-> IF lastSeq[r] > Step THEN lastSeq[r] - Step ELSE 0]
           n(r) == IF Has(batches[1], r) THEN RowOf(batches[1], r).n ELSE 0
           d(r) == IF Has(batches[1], r)
                   THEN RowOf(batches[1], r).drafts - RowOf(batches[1], r).accepted ELSE 0
           pool == free \union (UNION {x.ids : x \in Drained})
<1>1. /\ Typed /\ Rowed(batches) /\ Listed(batches) /\ IInv
      /\ plan.rows = {} /\ Planned = {} /\ plan' = plan
  BY PlanEmpty DEF Life, Counters, Rowed, Update
<1>2. /\ inFlight' = [r \in Requests |->
                     IF r \in Back THEN inFlight[r] - Output(r).n ELSE inFlight[r]]
      /\ stale' = [r \in Requests |->
                     IF r \in Back /\ IsStale(r) THEN stale[r] - Output(r).n ELSE stale[r]]
      /\ computed' = [r \in Requests |->
                        IF r \in Back /\ ~IsStale(r) /\ computed[r] > 0
                        THEN computed[r] - (Output(r).drafts - Output(r).accepted) ELSE computed[r]]
      /\ hist' = [r \in Requests |->
                    IF r \in Stopped THEN <<>> ELSE IF r \in Back THEN Extended(r) ELSE hist[r]]
      /\ status' = [r \in Requests |-> IF r \in Stopped THEN "absent" ELSE status[r]]
      /\ schedSeq' = schedSeq - Step
      /\ lastSeq' = last
      /\ Freed(Stopped, blocks, pool, Pending \ Drained, last, schedSeq - Step)
      /\ batches' = Tail(batches)
      /\ UNCHANGED <<version, drop, deferFree, plan>>
  BY Zenon DEF Update
<1>3. ASSUME NEW r \in Requests
      PROVE  /\ r \in Back <=> status[r] # "absent" /\ Has(batches[1], r)
             /\ r \in Back => /\ n(r) = Output(r).n /\ d(r) = Output(r).drafts - Output(r).accepted
                              /\ RowFacts(Output(r))
  BY <1>1, OutputRow DEF Back
<1>4. Stopped \subseteq Back /\ Back \subseteq Requests
  BY DEF Stopped, Back
<1>5. ASSUME NEW r \in Requests
      PROVE  n(r) \in Nat /\ d(r) \in Nat /\ d(r) <= n(r)
  <2>1. \A w \in batches[1].rows : RowFacts(w)
    BY <1>1, ListedTail DEF Rowed
  <2> QED  BY <2>1, RowCounts
<1>6. ASSUME NEW r \in Requests, status[r] # "absent"
      PROVE  /\ inFlight[r] - n(r) \in Nat /\ stale[r] \in Nat /\ computed[r] \in Nat
             /\ stale[r] > 0 =>
                  Agrees(Tail(batches), r, computed[r], inFlight[r] - n(r), stale[r] - n(r))
             /\ stale[r] = 0 =>
                  /\ computed[r] - d(r) \in Nat
                  /\ Agrees(Tail(batches), r, computed[r] - d(r), inFlight[r] - n(r), stale[r])
  <2>1. Agrees(batches, r, computed[r], inFlight[r], stale[r]) /\ computed[r] \in Nat
    BY <1>1, <1>6 DEF Life, Counters, Accounted, Typed
  <2> HIDE DEF n, d
  <2>2. /\ n(r) = IF Has(batches[1], r) THEN RowOf(batches[1], r).n ELSE 0
        /\ d(r) = IF Has(batches[1], r)
                  THEN RowOf(batches[1], r).drafts - RowOf(batches[1], r).accepted ELSE 0
    BY DEF n, d
  <2> QED  BY <1>1, <2>1, <2>2, AgreesTail
<1>7. ASSUME NEW r \in Requests, r \notin Back, status[r] # "absent" PROVE n(r) = 0 /\ d(r) = 0
  BY <1>3, <1>7
<1> HIDE DEF n, d
<1>8. ASSUME NEW r \in Requests, status[r] # "absent"
      PROVE  /\ inFlight'[r] = inFlight[r] - n(r)
             /\ stale[r] > 0 => computed'[r] = computed[r] /\ stale'[r] = stale[r] - n(r)
             /\ stale[r] = 0 => computed'[r] = computed[r] - d(r) /\ stale'[r] = stale[r]
  <2>1. CASE r \in Back
    <3>1. n(r) = Output(r).n /\ d(r) = Output(r).drafts - Output(r).accepted
      BY <1>3, <2>1
    <3>2. inFlight'[r] = inFlight[r] - n(r)
      BY <1>2, <2>1, <3>1
    <3>3. stale[r] > 0 => computed'[r] = computed[r] /\ stale'[r] = stale[r] - n(r)
      BY <1>2, <2>1, <3>1 DEF IsStale
    <3>4. stale[r] = 0 => computed'[r] = computed[r] - d(r) /\ stale'[r] = stale[r]
      <4> SUFFICES ASSUME stale[r] = 0
                   PROVE  computed'[r] = computed[r] - d(r) /\ stale'[r] = stale[r]
        OBVIOUS
      <4>1. ~IsStale(r)
        BY DEF IsStale
      <4>2. computed[r] \in Nat /\ d(r) \in Nat /\ computed[r] - d(r) \in Nat
        BY <1>5, <1>6, <1>8
      <4>3. ~(computed[r] > 0) => d(r) = 0 /\ computed[r] - d(r) = computed[r]
        BY <4>2
      <4>4. computed'[r] = IF computed[r] > 0 THEN computed[r] - d(r) ELSE computed[r]
        BY <1>2, <2>1, <3>1, <4>1
      <4> QED  BY <1>2, <4>1, <4>3, <4>4
    <3> QED  BY <3>2, <3>3, <3>4
  <2>2. CASE r \notin Back
    <3>1. n(r) = 0 /\ d(r) = 0
      BY <1>7, <1>8, <2>2
    <3>2. inFlight[r] \in Int /\ stale[r] \in Int /\ computed[r] \in Int
      BY <1>1 DEF Typed
    <3>3. inFlight'[r] = inFlight[r] /\ stale'[r] = stale[r] /\ computed'[r] = computed[r]
      BY <1>2, <2>2
    <3> QED  BY <3>1, <3>2, <3>3
  <2> QED  BY <2>1, <2>2
<1>9. ASSUME NEW r \in Requests
      PROVE  /\ computed'[r] \in Nat /\ inFlight'[r] \in Int /\ stale'[r] \in Int
             /\ hist'[r] \in Seq(Int)
  <2>1. CASE status[r] = "absent"
    <3>1. r \notin Back /\ r \notin Stopped
      BY <1>4, <2>1 DEF Back
    <3> QED  BY <1>1, <1>2, <3>1 DEF Typed
  <2>2. CASE status[r] # "absent"
    <3>1. computed'[r] \in Nat /\ inFlight'[r] \in Int /\ stale'[r] \in Int
      <4>1. n(r) \in Nat
        BY <1>5
      <4>2. stale[r] > 0 \/ stale[r] = 0
        BY <1>6, <2>2
      <4> QED  BY <1>6, <1>8, <2>2, <4>1, <4>2
    <3>2. hist'[r] \in Seq(Int)
      <4>1. CASE r \in Back
        <5>1. Output(r).accepted \in Nat /\ Output(r).version \in Int
          BY <1>3, <4>1 DEF RowFacts
        <5>2. Extended(r) \in Seq(Int)
          BY <1>1, <5>1, ExtendedType
        <5> QED  BY <1>2, <4>1, <5>2
      <4>2. CASE r \notin Back
        BY <1>1, <1>2, <1>4, <4>2 DEF Typed
      <4> QED  BY <4>1, <4>2
    <3> QED  BY <3>1, <3>2
  <2> QED  BY <2>1, <2>2
<1>10. Step \in Nat /\ last \in [Requests -> Int] /\ \A x \in Pending : x.fence \in Int
  <2>1. Step \in Nat
    BY DEF Step
  <2>2. lastSeq \in [Requests -> Int] /\ \A x \in deferred : x.fence \in Int
    BY <1>1 DEF Typed
  <2> QED  BY <2>1, <2>2 DEF Pending
<1> HIDE DEF last, pool
<1>11. /\ \A x \in deferred' : x.fence \in Int
       /\ \A r \in Requests : blocks'[r] = IF r \in Stopped THEN <<>> ELSE blocks[r]
  <2>1. schedSeq - Step \in Int
    BY <1>1, <1>10 DEF Typed
  <2>2. \A x \in Pending \ Drained : x.fence \in Int
    BY <1>10
  <2> QED  BY <1>2, <2>1, <2>2, FreedTyped
<1>12. Typed'
  <2>1. /\ computed' \in [Requests -> Nat] /\ inFlight' \in [Requests -> Int]
        /\ stale' \in [Requests -> Int] /\ hist' \in [Requests -> Seq(Int)]
    BY <1>2, <1>9
  <2>2. status' \in [Requests -> {"absent", "waiting", "running", "preempted"}]
    BY <1>1, <1>2 DEF Typed
  <2>3. lastSeq' \in [Requests -> Int] /\ schedSeq' \in Int
    BY <1>1, <1>2, <1>10 DEF Typed
  <2> QED  BY <1>1, <1>2, <1>11, <2>1, <2>2, <2>3 DEF Typed
<1>13. Accounted'
  <2> SUFFICES ASSUME NEW r \in Requests, status'[r] # "absent"
               PROVE  Agrees(batches', r, computed'[r], inFlight'[r], stale'[r])
    BY DEF Accounted
  <2>1. status[r] # "absent"
    BY <1>2
  <2>2. stale[r] > 0 \/ stale[r] = 0
    BY <1>6, <2>1
  <2> QED  BY <1>2, <1>6, <1>8, <2>1, <2>2
<1>14. Rowed(batches')
  BY <1>1, <1>2, ListedTail DEF Rowed
<1>15. Counters'
  BY <1>12, <1>13, <1>14 DEF Counters
<1>16. PlanHeld' /\ AbsentEmpty'
  BY <1>1, <1>2, <1>11 DEF Life, PlanHeld, AbsentEmpty
<1>17. ASSUME deferFree PROVE Fenced' /\ NotWritten(batches', free' \ free)
  <2> DEFINE t == Tail(batches)  seq == schedSeq - Step
  <2>1. PICK f : /\ Sums(f, Len(batches), Counted(batches)) /\ schedSeq = f[Len(batches)]
                 /\ Fences(batches, f, blocks, deferred, lastSeq, Planned)
    BY <1>17 DEF Life, Fenced
  <2>2. PICK g : /\ Sums(g, Len(t), Counted(t)) /\ seq = g[Len(t)]
                 /\ Fences(t, g, blocks, Pending, last, {})
    <3>1. /\ schedSeq \in Int /\ lastSeq \in [Requests -> Int]
          /\ \A x \in deferred : x.fence \in Int
      BY <1>1 DEF Typed
    <3>2. Fences(batches, f, blocks, deferred, lastSeq, {})
      BY <1>1, <2>1
    <3> QED  BY <1>1, <1>17, <2>1, <3>1, <3>2, FencesTail DEF last
  <2>3. Rowed(t)
    BY <1>2, <1>14
  <2> HIDE DEF t, seq
  <2>4. /\ NotWritten(t, UNION {x.ids : x \in Drained})
        /\ Fences(t, g, blocks, Pending \ Drained, last, {})
    BY <1>10, <1>17, <2>2, <2>3, DrainedNotWritten
  <2>5. Fences(t, g, blocks', deferred', last, {}) /\ NotWritten(t, free' \ pool)
    <3>1. Stopped \in SUBSET Requests /\ Stopped \intersect {} = {}
      BY <1>4
    <3>2. Freed(Stopped, blocks, pool, Pending \ Drained, last, seq)
      BY <1>2 DEF seq
    <3> QED  BY <1>10, <1>17, <2>2, <2>3, <2>4, <3>1, <3>2, FreedFences
  <2>6. Planned' = {}
    BY <1>1 DEF Planned
  <2>7. Fenced'
    BY <1>2, <2>2, <2>5, <2>6 DEF Fenced, t, seq
  <2>8. NotWritten(t, free' \ free)
    BY <2>4, <2>5 DEF NotWritten, pool
  <2> QED  BY <1>2, <2>7, <2>8 DEF t
<1>18. Fenced'
  BY <1>2, <1>17 DEF Fenced
<1>19. Deferred
  <2>1. GivenUp \subseteq free' \ free
    BY DEF GivenUp
  <2> QED  BY <1>17, <2>1 DEF Deferred, NotWritten
<1> QED  BY <1>15, <1>16, <1>18, <1>19

---------------------------------------------------------------------------
(* All steps *)

\* Only a batch that was issued is executed, and only one that was executed comes back.
Ran ==
  /\ executed \in Nat /\ executed <= Len(batches)
  /\ rankPc = "hash" => executed < Len(batches)

\* At first nothing is in flight.
LEMMA InitLife == BlockAssumption /\ Init => Life /\ Ran
<1> SUFFICES ASSUME BlockAssumption, Init PROVE Life /\ Ran
  OBVIOUS
<1>1. /\ batches = <<>> /\ plan = EmptyPlan /\ deferred = {} /\ schedSeq = 0
      /\ computed = [r \in Requests |-> 0] /\ inFlight = [r \in Requests |-> 0]
      /\ stale = [r \in Requests |-> 0] /\ status = [r \in Requests |-> "waiting"]
      /\ hist = [r \in Requests |-> [p \in 1..PromptLen |-> 0]]
      /\ version = [r \in Requests |-> 0] /\ lastSeq = [r \in Requests |-> 0]
      /\ executed = 0 /\ rankPc = "idle"
  BY DEF Init, InitScheduler
<1>2. Listed(batches) /\ Len(batches) = 0
  <2>1. batches \in Seq({})
    BY <1>1
  <2> QED  BY <1>1, <2>1 DEF Listed
<1>3. Typed
  <2>1. [p \in 1..PromptLen |-> 0] \in Seq(Int)
    <3>1. PromptLen \in Nat
      BY DEF BlockAssumption
    <3> QED  BY <3>1
  <2>2. /\ plan = [rows |-> plan.rows, preempted |-> plan.preempted, budget |-> plan.budget]
        /\ plan.budget \in Int
    BY <1>1 DEF EmptyPlan, BlockAssumption
  <2> QED  BY <1>1, <2>1, <2>2 DEF Typed
<1>4. Rowed(batches)
  BY <1>2 DEF Rowed
<1>5. Accounted
  <2> SUFFICES ASSUME NEW r \in Requests PROVE Agrees(batches, r, 0, 0, 0)
    BY <1>1 DEF Accounted
  <2> QED  BY <1>2, AgreesNone
<1>6. PlanHeld /\ AbsentEmpty
  BY <1>1, PlanEmpty DEF PlanHeld, AbsentEmpty
<1>7. Fenced
  <2> DEFINE f == [i \in 0..0 |-> 0]
  <2>1. f \in [0..0 -> Nat] /\ f[0] = 0 /\ \A i \in 0..0 : f[i] = 0
    OBVIOUS
  <2> HIDE DEF f
  <2>2. Sums(f, 0, Counted(batches))
    BY <2>1 DEF Sums
  <2>3. Fences(batches, f, blocks, deferred, lastSeq, Planned)
    BY <1>2 DEF Fences
  <2> QED  BY <1>1, <1>2, <2>1, <2>2, <2>3 DEF Fenced
<1>8. IInv
  BY InitIInv
<1> QED  BY <1>1, <1>2, <1>3, <1>4, <1>5, <1>6, <1>7, <1>8 DEF Life, Counters, Ran

\* The scheduler's side of a step, whatever the rank does.
LEMMA NextLife ==
  ASSUME BlockAssumption, Life, Ran, [Next]_vars
  PROVE  Life' /\ [Deferred]_schedulerVars
<1> DEFINE Goal == Counters' /\ PlanHeld' /\ AbsentEmpty' /\ Fenced' /\ [Deferred]_schedulerVars
<1> SUFFICES Goal
  BY NextIInv DEF Life
<1>1. CASE UNCHANGED schedulerVars
  <2>1. Counters'
    BY <1>1 DEF Life, Counters, Typed, Accounted, schedulerVars, requestVars, poolVars
  <2>2. PlanHeld' /\ AbsentEmpty'
    BY <1>1 DEF Life, PlanHeld, AbsentEmpty, schedulerVars, requestVars, poolVars, Held
  <2>3. Planned' = Planned
    BY <1>1 DEF Planned, schedulerVars
  <2>4. Fenced'
    BY <1>1, <2>3 DEF Life, Fenced, schedulerVars, requestVars, poolVars
  <2> QED  BY <1>1, <2>1, <2>2, <2>4
<1>2. ASSUME NEW r \in Requests, ScheduleRunning(r) PROVE Goal
  BY <1>2, ScheduleRunningLife
<1>3. ASSUME NEW r \in Requests, ScheduleWaiting(r) PROVE Goal
  BY <1>3, ScheduleWaitingLife
<1>4. ASSUME NEW q \in Requests, NEW r \in Requests, Preempt(q, r) PROVE Goal
  BY <1>4, PreemptLife
<1>5. CASE Issue
  BY <1>5, IssueLife
<1>6. CASE ForcedReset
  BY <1>6, ForcedResetLife
<1>7. ASSUME NEW r \in Requests, Abort(r) PROVE Goal
  BY <1>7, AbortLife
<1>8. ASSUME NEW r \in Requests, Resubmit(r) PROVE Goal
  BY <1>8, ResubmitLife
<1>9. CASE Update /\ executed > 0
  <2>1. batches # <<>>
    BY <1>9 DEF Ran
  <2> QED  BY <1>9, <2>1, UpdateLife
<1> HIDE DEF Goal
<1>10. CASE Engine
  BY <1>2, <1>3, <1>4, <1>5, <1>6, <1>7, <1>8, <1>10 DEF Engine, Schedule, Client
<1>11. CASE WriteHashCache \/ HashIds
  BY <1>1, <1>11 DEF WriteHashCache, HashIds
<1>12. CASE Processed
  BY <1>9, <1>12 DEF Processed
<1>13. CASE Idle \/ UNCHANGED vars
  BY <1>1, <1>13 DEF Idle, vars
<1> QED  BY <1>10, <1>11, <1>12, <1>13 DEF Next

\* The rank stays within the queue.
LEMMA NextRan ==
  ASSUME Life, Ran, [Next]_vars
  PROVE  Ran'
<1>1. Rowed(batches) /\ Listed(batches) /\ Len(batches) \in Nat
  BY DomainBatches DEF Life, Counters, Rowed
<1>2. CASE Engine
  <2>1. executed = Len(batches) /\ executed' = executed /\ rankPc' = rankPc
    BY <1>2 DEF Engine, rankVars
  <2>2. batches' = batches \/ \E b : batches' = Append(batches, b)
    <3>1. CASE Schedule
      BY <3>1 DEF Schedule, ScheduleRunning, ScheduleWaiting, Preempt
    <3>2. CASE Issue
      BY <3>2, Zenon DEF Issue
    <3>3. CASE Client
      BY <3>3 DEF Client, ForcedReset, Abort, Resubmit
    <3> QED  BY <1>2, <3>1, <3>2, <3>3 DEF Engine
  <2>3. Len(batches') \in Nat /\ Len(batches') >= Len(batches)
    BY <1>1, <2>2, ListedAppend
  <2> QED  BY <1>1, <2>1, <2>3 DEF Ran
<1>3. CASE WriteHashCache
  BY <1>1, <1>3 DEF WriteHashCache, schedulerVars, Ran
<1>4. CASE HashIds
  BY <1>1, <1>4 DEF HashIds, schedulerVars, Ran
<1>5. CASE Processed
  <2>1. batches # <<>>
    BY <1>5 DEF Processed, Ran
  <2>2. batches' = Tail(batches) /\ rankPc = "idle" /\ rankPc' = rankPc /\ executed' = executed - 1
        /\ executed > 0
    BY <1>5 DEF Processed, Update
  <2>3. Len(batches') = Len(batches) - 1
    BY <1>1, <2>1, <2>2, ListedTail
  <2> QED  BY <1>1, <2>2, <2>3 DEF Ran
<1>6. CASE Idle \/ UNCHANGED vars
  BY <1>6 DEF Idle, vars, rankVars, schedulerVars, Ran
<1> QED  BY <1>2, <1>3, <1>4, <1>5, <1>6 DEF Next

\* A block given up is none that is never a block: Null is not in the pool.
LEMMA DeferredMeans ==
  ASSUME BlockAssumption, Life', [Deferred]_schedulerVars
  PROVE  [deferFree => \A b \in GivenUp : \A i \in DOMAIN batches' : \A w \in batches'[i].rows :
            b \notin w.writes]_schedulerVars
<1>1. DOMAIN batches' = 1..Len(batches')
  BY DomainBatches DEF Life, Counters, Rowed
<1>2. \A b \in GivenUp : b # Null
  BY DEF GivenUp, Life, IInv, BlocksOnce, SharedOut, BlockAssumption
<1> QED  BY <1>1, <1>2 DEF Deferred, NotWritten

(***************************************************************************)
(* With defer_block_free, no block that a request gives up reaches the     *)
(* pool while a batch in flight writes it, for any requests, blocks,       *)
(* window, budget and queue.                                               *)
(***************************************************************************)
THEOREM FreesDeferred == Spec => FreedWhenWritten
<1>1. Init => Life /\ Ran
  BY BlockAssumption, InitLife
<1>2. Life /\ Ran /\ [Next]_vars => Life' /\ Ran'
  BY BlockAssumption, NextLife, NextRan
<1>3. Life /\ Ran /\ [Next]_vars =>
        [deferFree => \A b \in GivenUp : \A i \in DOMAIN batches' : \A w \in batches'[i].rows :
           b \notin w.writes]_schedulerVars
  BY BlockAssumption, NextLife, DeferredMeans
<1> QED  BY <1>1, <1>2, <1>3, PTL DEF Spec, FreedWhenWritten
---------------------------------------------------------------------------
(* The rank after the batches that were issued *)

\* The request state that r has after the row w, and what the batch b leaves of the others.
Now(w, known) ==
  CASE w.kind = "new" -> [version |-> w.version, blocks |-> w.new]
    [] w.kind = "resumed" -> [known EXCEPT !.blocks = w.new]
    [] w.kind = "running" -> [known EXCEPT !.blocks = @ \o w.new]
Known(b, r) == IF r \in b.finished THEN Absent ELSE cached[r]

\* cached, row and cache after the batch b: WriteHashCache with b for Current.
NextCached(b) ==
  [r \in Requests |-> IF r \in {w.r : w \in b.rows} THEN Now(RowOf(b, r), Known(b, r)) ELSE Known(b, r)]
Kept(b) ==
  LET inBatch == {r \in Requests \ b.finished : row[r] # NoRow}
  IN  inBatch \ Unscheduled(inBatch, {w.r : w \in b.rows},
                            {r \in Requests : \E w \in b.rows : w.r = r /\ w.kind = "resumed"})
NextRow(b) ==
  [r \in Requests |->
     IF r \in {w.r : w \in b.rows}
     THEN IF r \in Kept(b) THEN row[r] \o RowOf(b, r).new ELSE NextCached(b)[r].blocks
     ELSE IF r \in Kept(b) THEN row[r] ELSE NoRow]
Writes(b, t) == UNION {{<<SlotOf(t[w.r], p), TokenAt(w, p)>> : p \in Positions(w)} : w \in b.rows}
Written(x, m) ==
  [s \in Slots |-> IF \E y \in x : y[1] = s THEN (CHOOSE y \in x : y[1] = s)[2] ELSE m[s]]

\* The batch issued last, when it is not executed, has still to be counted in.
Due == executed < Len(batches) /\ rankPc # "hash"
Newest == batches[Len(batches)]
DueCached == IF Due THEN NextCached(Newest) ELSE cached
DueRow == IF Due THEN NextRow(Newest) ELSE row
DueCache == IF Due THEN Written(Writes(Newest, NextRow(Newest)), cache) ELSE cache
---------------------------------------------------------------------------
(* What is right about a request, whatever is in flight *)

\* The slot of position p is the request's no more, or holds x.
Holds(table, m, p, x) == table[(p \div BlockSize) + 1] # Null => m[SlotOf(table, p)] = x

\* The table b has room for the c tokens computed, lost only blocks behind the window of any
\* token still to come, and has the tokens known of the request in its slots.
Fits(r, b, c, h, m) ==
  /\ Len(b) * BlockSize >= c
  /\ \A i \in 1..Len(b) :
       b[i] = Null => i * BlockSize + Window <= c + 1 /\ i * BlockSize + Window <= Len(h) + 1
  /\ \A p \in 0..(c - 1) : p < Len(h) => Holds(b, m, p, <<r, p, h[p + 1]>>)

\* The rank has the table b, evicted blocks aside.
Matches(b, t) == Len(b) = Len(t) /\ \A i \in 1..Len(b) : b[i] # Null => b[i] = t[i]

\* The rows of the plan for r, whether they introduce it, and the table they leave it.
PlanRows(r) == {w \in plan.rows : w.r = r}
Unknown(r) == status[r] \in {"absent", "waiting"} \/ \E w \in PlanRows(r) : w.kind = "new"
NewTable(w, known) == IF w.kind = "running" THEN known.blocks \o w.new ELSE w.new

\* A row w that samples ends at the c tokens computed: all h known ones and its drafts, of
\* which those that are right are in Z, the positions that hold tokens of version v.
Samples(w, c, h, v, Z) ==
  /\ w.version = v /\ h + w.drafts = c
  /\ \A k \in 1..w.accepted : h + k - 1 \in Z

(***************************************************************************)
(* The rows of r in the queue q: those up to the j-th batch are stale, of  *)
(* the others only the last one may sample, and one does when all h tokens *)
(* known have been computed.                                               *)
(***************************************************************************)
Fresh(q, r, g, j, c, h, v, Z) ==
  /\ \A i \in (j + 1)..Len(q) : Has(q[i], r) =>
       /\ RowOf(q[i], r).samples => g[i] = g[Len(q)] /\ Samples(RowOf(q[i], r), c, h, v, Z)
       /\ ~RowOf(q[i], r).samples => RowOf(q[i], r).drafts = 0
  /\ c >= h => \E i \in (j + 1)..Len(q) : Has(q[i], r) /\ RowOf(q[i], r).samples
Chain(q, r, run, c, h, v, Z, fl, st) ==
  \E g : \E j \in 0..Len(q) :
    /\ Sums(g, Len(q), Tokens(q, r)) /\ fl = g[Len(q)] /\ st = g[j]
    /\ ~run => j = Len(q)
    /\ run => Fresh(q, r, g, j, c, h, v, Z)

\* The positions of r whose slots hold a token of its present version.
Versioned(r) == {p \in Nat : Holds(blocks[r], DueCache, p, <<r, p, version[r]>>)}

\* A row being put together is a chunk of what its request has still to compute.
Right(w) ==
  LET r == w.r  h == Len(hist[r])
  IN
  /\ w.kind \in {"new", "resumed", "running"} /\ w.new \in Seq(BlockIds \union {Null})
  /\ w.start = computed[r] /\ w.start < h /\ w.version = version[r]
  /\ w.samples <=> w.start + w.n >= h
  /\ IF w.samples THEN h + w.drafts = w.start + w.n ELSE w.drafts = 0
  /\ \A p \in 0..(w.start - 1) : w.before[p + 1] = hist[r][p + 1]
  /\ \A p \in w.start..(w.start + w.n - 1) :
       w.tokens[p - w.start + 1] =
         IF p < h THEN hist[r][p + 1] ELSE IF p < h + w.accepted THEN version[r] ELSE Wrong
  /\ Len(blocks[r]) * BlockSize >= w.start + w.n

Good(r) ==
  LET run == status[r] = "running"
  IN
  /\ DueRow[r] = NoRow \/ DueRow[r] = DueCached[r].blocks
  /\ r \in finishedIds => Unknown(r)
  /\ Unknown(r) /\ r \notin finishedIds => DueRow[r] = NoRow
  /\ ~run => blocks[r] = <<>>
  /\ status[r] \in {"waiting", "preempted"} => computed[r] = 0
  /\ status[r] # "absent" =>
       /\ Len(hist[r]) >= PromptLen
       /\ \A p \in 1..PromptLen :
            hist[r][p] = IF Unknown(r) THEN version[r] ELSE DueCached[r].version
       /\ Chain(batches, r, run, computed[r], Len(hist[r]), version[r], Versioned(r),
                inFlight[r], stale[r])
  /\ run =>
       /\ PlanRows(r) = {} => Matches(blocks[r], DueCached[r].blocks)
       /\ Fits(r, blocks[r], computed[r], hist[r], DueCache)
       /\ stale[r] > 0 => drop[r]
  /\ \A w \in PlanRows(r) :
       Right(w) /\ PlanRows(r) = {w} /\ Matches(blocks[r], NewTable(w, DueCached[r]))

\* What WindowHeld and LookbackExact say of the batch to be executed, or being executed.
Ready(w) ==
  /\ w.r \in Requests /\ w.start \in Nat
  /\ \A p \in (w.start - Window + 1)..(w.start - 1) :
       p >= 0 => DueCache[SlotOf(DueRow[w.r], p)] = Own(w, p)
  /\ \A p \in 0..(w.start - 1) : p < PromptLen => w.before[p + 1] = DueCached[w.r].version

\* A request's state at a rank, and a row of a batch for it.
RankState == [version : Int, blocks : Seq(BlockIds \union {Null})]
IsRow(w) ==
  /\ w.r \in Requests /\ w.kind \in {"new", "resumed", "running"}
  /\ w.new \in Seq(BlockIds \union {Null}) /\ w.version \in Int

Served ==
  /\ executed >= Len(batches) - 1
  /\ DueCached \in [Requests -> RankState]
  /\ \A r \in Requests : Good(r)
  /\ executed < Len(batches) => \A w \in Newest.rows : Ready(w)
---------------------------------------------------------------------------
(* The rows of a request in flight *)

\* Other slots may change than those of the rejected and accepted drafts.
LEMMA SamplesKept ==
  ASSUME NEW w, RowFacts(w), NEW c \in Nat, NEW h \in Nat, NEW v, NEW Z, NEW Y,
         Samples(w, c, h, v, Z), \A p \in h..(c - 1) : p \in Z => p \in Y
  PROVE  Samples(w, c, h, v, Y)
<1>1. w.drafts \in Nat /\ w.accepted \in 0..w.drafts /\ h + w.drafts = c
  BY DEF RowFacts, Samples
<1>2. ASSUME NEW k \in 1..w.accepted PROVE h + k - 1 \in Y
  <2>1. h + k - 1 \in h..(c - 1)
    BY <1>1
  <2>2. h + k - 1 \in Z
    BY DEF Samples
  <2> QED  BY <2>1, <2>2
<1> QED  BY <1>2 DEF Samples

LEMMA ChainKept ==
  ASSUME NEW q, Rowed(q), NEW r, NEW run, NEW c \in Nat, NEW h \in Nat, NEW v, NEW Z, NEW Y,
         NEW fl, NEW st, Chain(q, r, run, c, h, v, Z, fl, st),
         \A p \in h..(c - 1) : p \in Z => p \in Y
  PROVE  Chain(q, r, run, c, h, v, Y, fl, st)
<1>1. PICK g : \E j \in 0..Len(q) :
        /\ Sums(g, Len(q), Tokens(q, r)) /\ fl = g[Len(q)] /\ st = g[j]
        /\ ~run => j = Len(q)
        /\ run => Fresh(q, r, g, j, c, h, v, Z)
  BY DEF Chain
<1>2. PICK j \in 0..Len(q) :
        /\ Sums(g, Len(q), Tokens(q, r)) /\ fl = g[Len(q)] /\ st = g[j]
        /\ ~run => j = Len(q)
        /\ run => Fresh(q, r, g, j, c, h, v, Z)
  BY <1>1
<1>3. ASSUME run PROVE Fresh(q, r, g, j, c, h, v, Y)
  <2>1. Fresh(q, r, g, j, c, h, v, Z)
    BY <1>2, <1>3
  <2>2. ASSUME NEW i \in (j + 1)..Len(q), Has(q[i], r), RowOf(q[i], r).samples
        PROVE  Samples(RowOf(q[i], r), c, h, v, Y)
    <3>1. Samples(RowOf(q[i], r), c, h, v, Z)
      BY <2>1, <2>2 DEF Fresh
    <3>2. i \in 1..Len(q) /\ RowOf(q[i], r) \in q[i].rows
      <4>1. RowOf(q[i], r) \in q[i].rows
        BY <2>2 DEF Has, RowOf
      <4> QED  BY <4>1
    <3>3. RowFacts(RowOf(q[i], r))
      BY <3>2 DEF Rowed
    <3> QED  BY <3>1, <3>3, SamplesKept
  <2> QED  BY <2>1, <2>2 DEF Fresh
<1> QED  BY <1>2, <1>3 DEF Chain

\* A row has tokens.
LEMMA HasTokens ==
  ASSUME NEW q, Rowed(q), NEW r, NEW i \in 1..Len(q)
  PROVE  /\ Has(q[i], r) => /\ RowFacts(RowOf(q[i], r)) /\ Tokens(q, r)[i] = RowOf(q[i], r).n
                            /\ Tokens(q, r)[i] > 0
         /\ ~Has(q[i], r) => Tokens(q, r)[i] = 0
         /\ Tokens(q, r)[i] \in Nat
<1>1. Has(q[i], r) => RowOf(q[i], r) \in q[i].rows
  BY DEF Has, RowOf
<1>2. Has(q[i], r) => RowFacts(RowOf(q[i], r))
  BY <1>1 DEF Rowed
<1> QED  BY <1>2 DEF Tokens, RowFacts

\* A batch without r joins the queue.
LEMMA ChainAppend ==
  ASSUME NEW q, Rowed(q), NEW b, NEW r, ~Has(b, r), NEW run, NEW c, NEW h, NEW v, NEW Z,
         NEW fl, NEW st, Chain(q, r, run, c, h, v, Z, fl, st)
  PROVE  Chain(Append(q, b), r, run, c, h, v, Z, fl, st)
<1> DEFINE t == Append(q, b)  L == Len(q)  a == Tokens(q, r)  u == Tokens(t, r)
<1>1. L \in Nat /\ Len(t) = L + 1 /\ t[L + 1] = b /\ \A i \in 1..L : t[i] = q[i]
  BY ListedAppend DEF Rowed
<1>2. u[L + 1] = 0 /\ \A i \in 1..L : u[i] = a[i]
  BY <1>1 DEF Tokens
<1>3. PICK g : \E j \in 0..L :
        /\ Sums(g, L, a) /\ fl = g[L] /\ st = g[j]
        /\ ~run => j = L
        /\ run => Fresh(q, r, g, j, c, h, v, Z)
  BY DEF Chain
<1>4. PICK j \in 0..L :
        /\ Sums(g, L, a) /\ fl = g[L] /\ st = g[j]
        /\ ~run => j = L
        /\ run => Fresh(q, r, g, j, c, h, v, Z)
  BY <1>3
<1> HIDE DEF t, L, a, u
<1>5. PICK x : Sums(x, L + 1, u) /\ x[L + 1] = g[L] + u[L + 1] /\ \A i \in 0..L : x[i] = g[i]
  <2>1. Same(u, a, L) /\ u[L + 1] \in Nat
    BY <1>2 DEF Same
  <2> QED  BY <1>1, <1>4, <2>1, SumsAppend
<1>6. g[L] \in Nat /\ x[L + 1] = g[L] /\ x[L] = g[L] /\ x[j] = g[j] /\ L + 1 \in 0..(L + 1)
      /\ j \in 0..(L + 1)
  BY <1>1, <1>2, <1>4, <1>5 DEF Sums
<1>7. ASSUME run PROVE Fresh(t, r, x, j, c, h, v, Z)
  <2>1. Fresh(q, r, g, j, c, h, v, Z)
    BY <1>4, <1>7
  <2>2. \A i \in (j + 1)..(L + 1) : Has(t[i], r) => i \in (j + 1)..L
    BY <1>1
  <2>3. \A i \in (j + 1)..L : t[i] = q[i] /\ x[i] = g[i] /\ i \in (j + 1)..(L + 1)
    BY <1>1, <1>5
  <2> QED  BY <1>1, <1>6, <2>1, <2>2, <2>3 DEF Fresh, L
<1>8. CASE run
  BY <1>1, <1>4, <1>5, <1>6, <1>7, <1>8 DEF Chain, t, u
<1>9. CASE ~run
  <2>1. L + 1 \in 0..Len(t) /\ st = x[L + 1] /\ fl = x[Len(t)]
    BY <1>1, <1>4, <1>6, <1>9
  <2> QED  BY <1>1, <1>5, <1>9, <2>1 DEF Chain, t, u
<1> QED  BY <1>8, <1>9 DEF t

\* A batch with r joins: r had still known tokens to compute, so none in flight samples.
LEMMA ChainAppendRow ==
  ASSUME NEW q, Rowed(q), NEW b, NEW r, Has(b, r), NEW w, w = RowOf(b, r), RowFacts(w),
         NEW c \in Nat, NEW h \in Nat, NEW v, NEW Z, NEW Y, NEW fl, NEW st,
         Chain(q, r, TRUE, c, h, v, Z, fl, st), c < h,
         w.samples => Samples(w, c + w.n, h, v, Y),
         ~w.samples => w.drafts = 0 /\ c + w.n < h
  PROVE  Chain(Append(q, b), r, TRUE, c + w.n, h, v, Y, fl + w.n, st)
<1> DEFINE t == Append(q, b)  L == Len(q)  a == Tokens(q, r)  u == Tokens(t, r)
<1>1. L \in Nat /\ Len(t) = L + 1 /\ t[L + 1] = b /\ \A i \in 1..L : t[i] = q[i]
  BY ListedAppend DEF Rowed
<1>2. u[L + 1] = w.n /\ w.n \in Nat /\ \A i \in 1..L : u[i] = a[i]
  BY <1>1 DEF Tokens, RowFacts
<1>3. PICK g : \E j \in 0..L :
        /\ Sums(g, L, a) /\ fl = g[L] /\ st = g[j]
        /\ Fresh(q, r, g, j, c, h, v, Z)
  BY DEF Chain
<1>4. PICK j \in 0..L :
        /\ Sums(g, L, a) /\ fl = g[L] /\ st = g[j]
        /\ Fresh(q, r, g, j, c, h, v, Z)
  BY <1>3
<1> HIDE DEF t, L, a, u
<1>5. PICK x : Sums(x, L + 1, u) /\ x[L + 1] = g[L] + u[L + 1] /\ \A i \in 0..L : x[i] = g[i]
  <2>1. Same(u, a, L) /\ u[L + 1] \in Nat
    BY <1>2 DEF Same
  <2> QED  BY <1>1, <1>4, <2>1, SumsAppend
<1>6. x[L + 1] = g[L] + w.n /\ x[j] = g[j] /\ j \in 0..(L + 1)
  BY <1>1, <1>2, <1>4, <1>5
<1>7. ASSUME NEW i \in (j + 1)..L, Has(q[i], r)
      PROVE  ~RowOf(q[i], r).samples /\ RowOf(q[i], r).drafts = 0
  <2>1. i \in 1..Len(q)
    BY DEF L
  <2>2. RowFacts(RowOf(q[i], r))
    BY <1>7, <2>1, HasTokens
  <2>3. RowOf(q[i], r).samples => h + RowOf(q[i], r).drafts = c
    BY <1>4, <1>7 DEF Fresh, Samples, L
  <2>4. ~RowOf(q[i], r).samples
    <3>1. RowOf(q[i], r).drafts \in Nat
      BY <2>2 DEF RowFacts
    <3> QED  BY <2>3, <3>1
  <2> QED  BY <1>4, <1>7, <2>4 DEF Fresh, L
<1>8. Fresh(t, r, x, j, c + w.n, h, v, Y)
  <2>1. ASSUME NEW i \in (j + 1)..(L + 1), Has(t[i], r)
        PROVE  /\ RowOf(t[i], r).samples => x[i] = x[L + 1] /\ Samples(RowOf(t[i], r), c + w.n, h, v, Y)
               /\ ~RowOf(t[i], r).samples => RowOf(t[i], r).drafts = 0
    <3>1. CASE i = L + 1
      BY <1>1, <3>1
    <3>2. CASE i # L + 1
      <4>1. i \in (j + 1)..L /\ t[i] = q[i]
        BY <1>1, <3>2
      <4> QED  BY <1>7, <2>1, <4>1
    <3> QED  BY <3>1, <3>2
  <2>2. c + w.n >= h => w.samples /\ L + 1 \in (j + 1)..(L + 1) /\ t[L + 1] = b
    <3>1. L + 1 \in (j + 1)..(L + 1)
      BY <1>1
    <3> QED  BY <1>1, <1>2, <3>1
  <2> QED  BY <1>1, <2>1, <2>2 DEF Fresh
<1>9. Sums(x, Len(t), u) /\ fl + w.n = x[Len(t)] /\ st = x[j] /\ j \in 0..Len(t)
  BY <1>1, <1>4, <1>5, <1>6
<1> QED  BY <1>8, <1>9 DEF Chain, t, u

\* All that is in flight becomes stale.
LEMMA ChainStop ==
  ASSUME NEW q, Rowed(q), NEW r, NEW run, NEW c, NEW h, NEW v, NEW Z, NEW fl, NEW st,
         Chain(q, r, run, c, h, v, Z, fl, st), NEW d, NEW k, NEW x, NEW Y
  PROVE  Chain(q, r, FALSE, d, k, x, Y, fl, fl)
<1>1. Len(q) \in 0..Len(q)
  BY QueueCounts
<1> QED  BY <1>1 DEF Chain

\* Nothing that is in flight is fresh for a request that starts to run.
LEMMA ChainResume ==
  ASSUME NEW q, Rowed(q), NEW r, NEW c \in Nat, NEW h \in Nat, NEW v, NEW Z, NEW fl, NEW st,
         Chain(q, r, FALSE, c, h, v, Z, fl, st), c < h
  PROVE  Chain(q, r, TRUE, c, h, v, Z, fl, st)
<1>1. PICK g : Sums(g, Len(q), Tokens(q, r)) /\ fl = g[Len(q)] /\ st = g[Len(q)]
  BY DEF Chain
<1>2. Len(q) \in Nat /\ Len(q) \in 0..Len(q) /\ (Len(q) + 1)..Len(q) = {}
  BY QueueCounts
<1>3. Fresh(q, r, g, Len(q), c, h, v, Z)
  BY <1>2 DEF Fresh
<1> QED  BY <1>1, <1>2, <1>3 DEF Chain

\* Nothing is in flight.
LEMMA ChainNone ==
  ASSUME NEW q, Rowed(q), NEW r, \A i \in 1..Len(q) : ~Has(q[i], r),
         NEW c, NEW h, NEW v, NEW Z
  PROVE  Chain(q, r, FALSE, c, h, v, Z, 0, 0)
<1> DEFINE L == Len(q)  g == [i \in 0..L |-> 0]
<1>1. L \in Nat /\ L \in 0..L
  BY QueueCounts
<1>2. \A i \in 1..L : Tokens(q, r)[i] = 0
  BY HasTokens
<1> HIDE DEF L
<1>3. g \in [0..L -> Nat] /\ \A i \in 0..L : g[i] = 0
  OBVIOUS
<1> HIDE DEF g
<1>4. Sums(g, L, Tokens(q, r))
  BY <1>1, <1>2, <1>3 DEF Sums
<1> QED  BY <1>1, <1>3, <1>4 DEF Chain, L

\* The oldest batch leaves, with n tokens of r: what the sums over the rest are.
LEMMA ChainTailSums ==
  ASSUME NEW q, Rowed(q), q # <<>>, NEW r, NEW g, Sums(g, Len(q), Tokens(q, r)),
         NEW n, n = IF Has(q[1], r) THEN RowOf(q[1], r).n ELSE 0
  PROVE  \E x : /\ Sums(x, Len(Tail(q)), Tokens(Tail(q), r))
                /\ g[0] = 0 /\ g[1] = n /\ n \in Nat
                /\ \A i \in 0..Len(Tail(q)) : x[i] = g[i + 1] - n
                /\ \A i \in 0..Len(q) : g[i] \in Nat /\ g[i] <= g[Len(q)] /\ (i >= 1 => g[i] >= n)
                /\ \A i \in 1..Len(q) : Has(q[i], r) => g[i] > g[i - 1]
<1> DEFINE t == Tail(q)  L == Len(t)  a == Tokens(q, r)  u == Tokens(t, r)
<1>1. /\ L \in Nat /\ Len(q) = L + 1 /\ \A i \in 1..L : t[i] = q[i + 1] /\ i + 1 \in 1..Len(q)
      /\ 1 \in 1..Len(q)
  BY ListedTail DEF Rowed
<1>2. \A i \in 1..(L + 1) : a[i] \in Nat
  BY <1>1, QueueCounts
<1>3. a[1] = n /\ \A i \in 1..L : u[i] = a[i + 1]
  BY <1>1 DEF Tokens
<1>4. \A i \in 1..Len(q) : Has(q[i], r) => a[i] > 0
  BY HasTokens
<1> HIDE DEF t, L, a, u
<1>5. PICK x : g[1] = n /\ n \in Nat /\ Sums(x, L, u) /\ \A i \in 0..L : x[i] = g[i + 1] - n
  <2>1. CountsOn(a, L + 1) /\ Shifted(u, a, L)
    BY <1>2, <1>3 DEF CountsOn, Shifted
  <2>2. g[1] = a[1] /\ g[1] \in Nat /\ \E x : Sums(x, L, u) /\ \A i \in 0..L : x[i] = g[i + 1] - g[1]
    BY <1>1, <2>1, SumsTail DEF a
  <2> QED  BY <1>3, <2>2
<1>6. ASSUME NEW i \in 0..Len(q)
      PROVE  g[i] \in Nat /\ g[i] <= g[Len(q)] /\ (i >= 1 => g[i] >= n)
  <2>1. 1 \in 0..Len(q) /\ Len(q) \in 0..Len(q) /\ i <= Len(q)
    BY <1>1
  <2> QED  BY <1>5, <2>1 DEF Sums
<1>7. ASSUME NEW i \in 1..Len(q), Has(q[i], r) PROVE g[i] > g[i - 1]
  <2>1. i - 1 \in 0..Len(q)
    BY <1>1
  <2>2. g[i] = g[i - 1] + a[i] /\ a[i] > 0 /\ g[i - 1] \in Nat /\ a[i] \in Nat
    BY <1>1, <1>2, <1>4, <1>7, <2>1 DEF Sums, a
  <2> QED  BY <2>2
<1>8. g[0] = 0
  BY DEF Sums
<1> QED  BY <1>5, <1>6, <1>7, <1>8 DEF L, t, u

\* The rows of what is left, one place further on.
LEMMA TailRows ==
  ASSUME NEW q, Rowed(q), q # <<>>
  PROVE  /\ Len(Tail(q)) \in Nat /\ Len(q) = Len(Tail(q)) + 1
         /\ \A i \in 1..Len(Tail(q)) : Tail(q)[i] = q[i + 1]
BY ListedTail DEF Rowed

\* A request that does not run has only stale output to come.
LEMMA ChainTailStopped ==
  ASSUME NEW q, Rowed(q), q # <<>>, NEW r, NEW c, NEW h, NEW v, NEW Z, NEW fl, NEW st,
         Chain(q, r, FALSE, c, h, v, Z, fl, st), NEW d, NEW k, NEW Y,
         NEW n, n = IF Has(q[1], r) THEN RowOf(q[1], r).n ELSE 0
  PROVE  /\ Chain(Tail(q), r, FALSE, d, k, v, Y, fl - n, st - n)
         /\ Has(q[1], r) => st > 0
<1>1. PICK g : Sums(g, Len(q), Tokens(q, r)) /\ fl = g[Len(q)] /\ st = g[Len(q)]
  BY DEF Chain
<1> DEFINE t == Tail(q)  L == Len(t)
<1>2. L \in Nat /\ Len(q) = L + 1 /\ L \in 0..L /\ L + 1 \in 0..Len(q) /\ 1 \in 1..Len(q)
  BY TailRows
<1>3. PICK x : /\ Sums(x, L, Tokens(t, r)) /\ g[0] = 0 /\ g[1] = n /\ n \in Nat
               /\ \A i \in 0..L : x[i] = g[i + 1] - n
               /\ \A i \in 0..Len(q) : g[i] \in Nat /\ (i >= 1 => g[i] >= n)
               /\ \A i \in 1..Len(q) : Has(q[i], r) => g[i] > g[i - 1]
  BY <1>1, ChainTailSums
<1> HIDE DEF t, L
<1>4. x[L] = fl - n /\ x[L] = st - n
  BY <1>1, <1>2, <1>3
<1>5. Has(q[1], r) => st > 0
  <2>1. g[L + 1] \in Nat /\ g[L + 1] >= n
    BY <1>2, <1>3
  <2>2. Has(q[1], r) => n > 0
    <3>1. Has(q[1], r) => g[1] > g[1 - 1]
      BY <1>2, <1>3
    <3> QED  BY <1>3, <3>1
  <2> QED  BY <1>1, <1>2, <1>3, <2>1, <2>2
<1> QED  BY <1>2, <1>3, <1>4, <1>5 DEF Chain, L, t

\* A running request has no fresh row in the oldest batch.
LEMMA ChainTailStale ==
  ASSUME NEW q, Rowed(q), q # <<>>, NEW r, NEW c, NEW h, NEW v, NEW Z, NEW fl, NEW st,
         Chain(q, r, TRUE, c, h, v, Z, fl, st),
         NEW n, n = IF Has(q[1], r) THEN RowOf(q[1], r).n ELSE 0,
         st > 0 \/ ~Has(q[1], r)
  PROVE  Chain(Tail(q), r, TRUE, c, h, v, Z, fl - n, st - n)
<1>1. PICK g : \E j \in 0..Len(q) :
        Sums(g, Len(q), Tokens(q, r)) /\ fl = g[Len(q)] /\ st = g[j] /\ Fresh(q, r, g, j, c, h, v, Z)
  BY DEF Chain
<1>2. PICK j \in 0..Len(q) :
        Sums(g, Len(q), Tokens(q, r)) /\ fl = g[Len(q)] /\ st = g[j] /\ Fresh(q, r, g, j, c, h, v, Z)
  BY <1>1
<1> DEFINE t == Tail(q)  L == Len(t)  k == IF j = 0 THEN 0 ELSE j - 1
<1>3. L \in Nat /\ Len(q) = L + 1 /\ \A i \in 1..L : t[i] = q[i + 1]
  BY TailRows
<1>4. PICK x : /\ Sums(x, L, Tokens(t, r)) /\ g[0] = 0 /\ g[1] = n /\ n \in Nat
               /\ \A i \in 0..L : x[i] = g[i + 1] - n
               /\ \A i \in 0..Len(q) : g[i] \in Nat
  BY <1>2, ChainTailSums
<1> HIDE DEF t, L
<1>5. j = 0 => n = 0 /\ ~Has(q[1], r)
  BY <1>2, <1>4
<1>6. k \in 0..L /\ x[k] = st - n /\ x[L] = fl - n
  <2>1. x[L] = fl - n
    BY <1>2, <1>3, <1>4
  <2>2. CASE j = 0
    BY <1>2, <1>3, <1>4, <1>5, <2>1, <2>2
  <2>3. CASE j # 0
    <3>1. j - 1 \in 0..L /\ (j - 1) + 1 = j /\ k = j - 1
      BY <1>3, <2>3
    <3>2. x[j - 1] = g[(j - 1) + 1] - n
      BY <1>4, <3>1
    <3> QED  BY <1>2, <2>1, <3>1, <3>2
  <2> QED  BY <2>2, <2>3
<1>7. \A i \in (k + 1)..L : /\ i + 1 \in (j + 1)..Len(q) /\ i \in 1..L /\ i \in 0..L
  BY <1>3
<1>8. \A i \in (k + 1)..L : t[i] = q[i + 1] /\ (g[i + 1] = g[Len(q)] => x[i] = x[L])
  BY <1>2, <1>3, <1>4, <1>6, <1>7
<1>9. ASSUME NEW i \in (j + 1)..Len(q), Has(q[i], r)
      PROVE  i - 1 \in (k + 1)..L /\ t[i - 1] = q[i]
  <2>1. i # 1
    BY <1>5, <1>9
  <2>2. i - 1 \in (k + 1)..L /\ i - 1 \in 1..L /\ (i - 1) + 1 = i
    BY <1>3, <2>1
  <2> QED  BY <1>3, <2>2
<1> HIDE DEF k
<1>10. Fresh(t, r, x, k, c, h, v, Z)
  <2>1. c >= h => \E i \in (k + 1)..L : Has(t[i], r) /\ RowOf(t[i], r).samples
    <3> SUFFICES ASSUME NEW i \in (j + 1)..Len(q), Has(q[i], r), RowOf(q[i], r).samples
                 PROVE  \E l \in (k + 1)..L : Has(t[l], r) /\ RowOf(t[l], r).samples
      BY <1>2 DEF Fresh
    <3>1. i - 1 \in (k + 1)..L /\ t[i - 1] = q[i]
      BY <1>9
    <3> QED  BY <3>1
  <2>2. ASSUME NEW i \in (k + 1)..L, Has(t[i], r)
        PROVE  /\ RowOf(t[i], r).samples => x[i] = x[L] /\ Samples(RowOf(t[i], r), c, h, v, Z)
               /\ ~RowOf(t[i], r).samples => RowOf(t[i], r).drafts = 0
    <3>1. i + 1 \in (j + 1)..Len(q) /\ t[i] = q[i + 1]
      BY <1>7, <1>8
    <3>2. /\ RowOf(t[i], r).samples =>
               g[i + 1] = g[Len(q)] /\ Samples(RowOf(t[i], r), c, h, v, Z)
          /\ ~RowOf(t[i], r).samples => RowOf(t[i], r).drafts = 0
      BY <1>2, <2>2, <3>1 DEF Fresh
    <3> QED  BY <1>8, <3>2
  <2> QED  BY <2>1, <2>2 DEF Fresh, L
<1> QED  BY <1>4, <1>6, <1>10 DEF Chain, L, t

\* The oldest batch has a row of a running request that has nothing stale in flight.
LEMMA ChainTailFresh ==
  ASSUME NEW q, Rowed(q), q # <<>>, NEW r, NEW c, NEW h, NEW v, NEW Z, NEW fl,
         Chain(q, r, TRUE, c, h, v, Z, fl, 0), Has(q[1], r),
         NEW w, w = RowOf(q[1], r)
  PROVE  /\ w.samples =>
              /\ Samples(w, c, h, v, Z)
              /\ \A d, k, Y : ~(d >= k) => Chain(Tail(q), r, TRUE, d, k, v, Y, fl - w.n, 0)
         /\ ~w.samples => w.drafts = 0 /\ Chain(Tail(q), r, TRUE, c, h, v, Z, fl - w.n, 0)
<1>1. PICK g : \E j \in 0..Len(q) :
        Sums(g, Len(q), Tokens(q, r)) /\ fl = g[Len(q)] /\ 0 = g[j] /\ Fresh(q, r, g, j, c, h, v, Z)
  BY DEF Chain
<1>2. PICK j \in 0..Len(q) :
        Sums(g, Len(q), Tokens(q, r)) /\ fl = g[Len(q)] /\ 0 = g[j] /\ Fresh(q, r, g, j, c, h, v, Z)
  BY <1>1
<1> DEFINE t == Tail(q)  L == Len(t)  n == w.n
<1>3. L \in Nat /\ Len(q) = L + 1 /\ 1 \in 1..Len(q) /\ \A i \in 1..L : t[i] = q[i + 1]
  BY TailRows
<1>4. PICK x : /\ Sums(x, L, Tokens(t, r)) /\ g[0] = 0 /\ g[1] = n /\ n \in Nat
               /\ \A i \in 0..L : x[i] = g[i + 1] - n
               /\ \A i \in 0..Len(q) : g[i] \in Nat /\ g[i] <= g[Len(q)] /\ (i >= 1 => g[i] >= n)
               /\ \A i \in 1..Len(q) : Has(q[i], r) => g[i] > g[i - 1]
  <2>1. n = IF Has(q[1], r) THEN RowOf(q[1], r).n ELSE 0
    OBVIOUS
  <2> QED  BY <1>2, <2>1, ChainTailSums
<1> HIDE DEF t, L, n
<1>5. n > 0
  <2>1. g[1] > g[1 - 1]
    BY <1>3, <1>4
  <2> QED  BY <1>4, <2>1
<1>6. j = 0
  BY <1>2, <1>4, <1>5
<1>7. 0 \in 0..L /\ x[0] = 0 /\ x[L] = fl - n
  BY <1>2, <1>3, <1>4
<1>8. /\ w.samples => g[1] = g[Len(q)] /\ Samples(w, c, h, v, Z)
      /\ ~w.samples => w.drafts = 0
  <2>1. 1 \in (j + 1)..Len(q)
    BY <1>3, <1>6
  <2> QED  BY <1>2, <2>1 DEF Fresh
<1>9. ASSUME w.samples, NEW d, NEW k, NEW Y, ~(d >= k)
      PROVE  Chain(t, r, TRUE, d, k, v, Y, fl - n, 0)
  <2>1. \A i \in (0 + 1)..L : ~Has(t[i], r)
    <3> SUFFICES ASSUME NEW i \in 1..L, Has(t[i], r) PROVE FALSE
      OBVIOUS
    <3>1. /\ i + 1 \in 1..Len(q) /\ (i + 1) - 1 = i /\ t[i] = q[i + 1]
          /\ i \in 0..Len(q) /\ i + 1 \in 0..Len(q) /\ i >= 1
      BY <1>3
    <3>2. g[i + 1] > g[i] /\ g[i] >= g[1] /\ g[i + 1] <= g[Len(q)]
          /\ g[i] \in Nat /\ g[i + 1] \in Nat /\ g[1] \in Nat /\ g[Len(q)] \in Nat
      BY <1>3, <1>4, <3>1
    <3> QED  BY <1>8, <1>9, <3>2
  <2>2. Fresh(t, r, x, 0, d, k, v, Y)
    BY <1>9, <2>1 DEF Fresh, L
  <2> QED  BY <1>4, <1>7, <2>2 DEF Chain, L
<1>10. ASSUME ~w.samples PROVE Chain(t, r, TRUE, c, h, v, Z, fl - n, 0)
  <2>1. \A i \in (0 + 1)..L : /\ i + 1 \in (j + 1)..Len(q) /\ t[i] = q[i + 1]
                              /\ (g[i + 1] = g[Len(q)] => x[i] = x[L])
    <3> SUFFICES ASSUME NEW i \in (0 + 1)..L
                 PROVE  /\ i + 1 \in (j + 1)..Len(q) /\ t[i] = q[i + 1]
                        /\ (g[i + 1] = g[Len(q)] => x[i] = x[L])
      OBVIOUS
    <3>1. i \in 1..L /\ i \in 0..L /\ i + 1 \in (j + 1)..Len(q)
      BY <1>3, <1>6
    <3>2. x[i] = g[i + 1] - n /\ x[L] = g[Len(q)] - n /\ t[i] = q[i + 1]
      BY <1>2, <1>3, <1>4, <1>7, <3>1
    <3> QED  BY <3>1, <3>2
  <2>2. c >= h => \E i \in (0 + 1)..L : Has(t[i], r) /\ RowOf(t[i], r).samples
    <3> SUFFICES ASSUME NEW i \in (j + 1)..Len(q), Has(q[i], r), RowOf(q[i], r).samples
                 PROVE  \E l \in (0 + 1)..L : Has(t[l], r) /\ RowOf(t[l], r).samples
      BY <1>2 DEF Fresh
    <3>1. i # 1
      BY <1>10
    <3>2. i - 1 \in (0 + 1)..L /\ (i - 1) + 1 = i
      BY <1>3, <1>6, <3>1
    <3>3. t[i - 1] = q[i]
      BY <1>3, <3>2
    <3> QED  BY <3>2, <3>3
  <2>3. ASSUME NEW i \in (0 + 1)..L, Has(t[i], r)
        PROVE  /\ RowOf(t[i], r).samples => x[i] = x[L] /\ Samples(RowOf(t[i], r), c, h, v, Z)
               /\ ~RowOf(t[i], r).samples => RowOf(t[i], r).drafts = 0
    <3>1. /\ RowOf(t[i], r).samples =>
               g[i + 1] = g[Len(q)] /\ Samples(RowOf(t[i], r), c, h, v, Z)
          /\ ~RowOf(t[i], r).samples => RowOf(t[i], r).drafts = 0
      BY <1>2, <2>1, <2>3 DEF Fresh
    <3> QED  BY <2>1, <3>1
  <2>4. Fresh(t, r, x, 0, c, h, v, Z)
    BY <2>2, <2>3 DEF Fresh, L
  <2> QED  BY <1>4, <1>7, <2>4 DEF Chain, L
<1> QED  BY <1>8, <1>9, <1>10 DEF t, n

---------------------------------------------------------------------------
(* Positions, blocks and slots *)

\* The block of a position, and where that begins and ends.
LEMMA BlockOf ==
  ASSUME BlockAssumption, NEW p \in Nat
  PROVE  /\ (p \div BlockSize) + 1 \in Nat /\ (p \div BlockSize) + 1 >= 1
         /\ p < ((p \div BlockSize) + 1) * BlockSize
         /\ p % BlockSize \in 0..(BlockSize - 1)
         /\ p = BlockSize * (p \div BlockSize) + (p % BlockSize)
<1>1. BlockSize \in Nat /\ BlockSize > 0
  BY DEF BlockAssumption
<1> DEFINE u == p \div BlockSize  v == p % BlockSize
<1>2. u \in Nat /\ v \in 0..(BlockSize - 1) /\ p = BlockSize * u + v
  BY <1>1
<1> HIDE DEF u, v
<1>3. (u + 1) * BlockSize = BlockSize * u + BlockSize
  BY <1>1, <1>2
<1>5. p < (u + 1) * BlockSize
  <2> DEFINE x == BlockSize * u  y == (u + 1) * BlockSize
  <2>1. x \in Nat /\ p = x + v /\ y = x + BlockSize
    BY <1>1, <1>2, <1>3
  <2> HIDE DEF x, y
  <2>2. p < y
    BY <1>1, <1>2, <2>1
  <2> QED  BY <2>2 DEF y
<1>6. u + 1 \in Nat /\ u + 1 >= 1
  BY <1>2
<1> QED  BY <1>2, <1>5, <1>6, Zenon DEF u, v

\* A table of k blocks has the block of each position that they have room for.
LEMMA RoomFor ==
  ASSUME BlockAssumption, NEW p \in Nat, NEW k \in Nat, p < k * BlockSize
  PROVE  (p \div BlockSize) + 1 \in 1..k
<1>1. BlockSize \in Nat /\ BlockSize > 0
  BY DEF BlockAssumption
<1> DEFINE u == p \div BlockSize  x == BlockSize * u
<1>2. u \in Nat /\ x <= p /\ x \in Nat
  BY <1>1
<1> HIDE DEF u, x
<1>3. u < k
  <2> SUFFICES ASSUME k <= u PROVE FALSE
    BY <1>2
  <2>1. k * BlockSize <= u * BlockSize
    BY <1>1, <1>2
  <2>2. u * BlockSize = x
    BY <1>1, <1>2 DEF x
  <2>3. k * BlockSize \in Nat
    BY <1>1
  <2> QED  BY <1>2, <2>1, <2>2, <2>3
<1> QED  BY <1>2, <1>3 DEF u

\* The slots of positions in blocks that are held are different.
LEMMA OwnSlots ==
  ASSUME BlockAssumption, IInv, NEW r \in Requests, NEW q \in Requests, NEW p \in Nat, NEW k \in Nat,
         (p \div BlockSize) + 1 \in 1..Len(blocks[r]), (k \div BlockSize) + 1 \in 1..Len(blocks[q]),
         blocks[r][(p \div BlockSize) + 1] # Null
  PROVE  /\ SlotOf(blocks[r], p) \in Slots
         /\ SlotOf(blocks[r], p) = SlotOf(blocks[q], k) => r = q /\ p = k
<1> DEFINE i == (p \div BlockSize) + 1  j == (k \div BlockSize) + 1
<1>1. /\ p % BlockSize \in 0..(BlockSize - 1)
      /\ p = BlockSize * (p \div BlockSize) + (p % BlockSize)
      /\ k = BlockSize * (k \div BlockSize) + (k % BlockSize)
      /\ p \div BlockSize \in Int /\ k \div BlockSize \in Int
  <2>1. BlockSize \in Nat /\ BlockSize > 0
    BY DEF BlockAssumption
  <2> QED  BY <2>1, BlockOf
<1>2. /\ blocks[r] \in Seq(BlockIds \union {Null}) /\ blocks[q] \in Seq(BlockIds \union {Null})
      /\ i \in DOMAIN blocks[r] /\ j \in DOMAIN blocks[q]
  <2> DEFINE X == BlockIds \union {Null}  x == blocks[r]  y == blocks[q]
  <2>1. x \in Seq(X) /\ y \in Seq(X)
    BY DEF IInv, Tables
  <2>2. i \in 1..Len(x) /\ j \in 1..Len(y)
    OBVIOUS
  <2> HIDE DEF X, x, y, i, j
  <2>3. i \in DOMAIN x
    BY ONLY <2>1, <2>2
  <2>4. j \in DOMAIN y
    BY ONLY <2>1, <2>2
  <2> QED  BY <2>1, <2>3, <2>4 DEF X, x, y
<1>3. blocks[r][i] \in BlockIds
  BY <1>2
<1>4. SlotOf(blocks[r], p) \in Slots
  BY <1>1, <1>3 DEF SlotOf, Slots
<1>5. ASSUME SlotOf(blocks[r], p) = SlotOf(blocks[q], k) PROVE r = q /\ p = k
  <2>1. blocks[r][i] = blocks[q][j] /\ p % BlockSize = k % BlockSize
    BY <1>5 DEF SlotOf
  <2>2. blocks[r][i] \in Held(blocks[r]) /\ blocks[q][j] \in Held(blocks[q])
    BY <1>2, <1>3, <2>1 DEF Held, ToSet
  <2>3. r = q
    BY <2>1, <2>2 DEF IInv, BlocksOnce, SharedOut
  <2> HIDE DEF i, j
  <2>4. i = j
    <3>1. \A x, y \in DOMAIN blocks[r] : x # y /\ blocks[r][x] = blocks[r][y] => blocks[r][x] = Null
      BY Zenon DEF IInv, BlocksOnce, SharedOut
    <3>2. i \in DOMAIN blocks[r] /\ j \in DOMAIN blocks[r] /\ blocks[r][i] = blocks[r][j]
      BY <1>2, <2>1, <2>3
    <3>3. blocks[r][i] # Null
      BY DEF i
    <3> QED  BY <3>1, <3>2, <3>3
  <2>5. p \div BlockSize = k \div BlockSize
    <3> DEFINE x == p \div BlockSize  y == k \div BlockSize
    <3>1. x \in Int /\ y \in Int /\ x + 1 = y + 1
      BY <1>1, <2>4 DEF i, j
    <3> HIDE DEF x, y
    <3>2. x = y
      BY <3>1
    <3> QED  BY <3>2 DEF x, y
  <2> QED  BY <1>1, <2>1, <2>3, <2>5
<1> QED  BY <1>4, <1>5

\* What eviction takes lies behind the window of the next token.
LEMMA SkippedBehind ==
  ASSUME BlockAssumption, NEW c \in Nat, NEW n, NEW i \in Nat, i >= 1, i <= SkippedBlocks(c, n)
  PROVE  i * BlockSize + Window <= c + 1
<1>1. BlockSize \in Nat /\ BlockSize > 0 /\ Window \in Nat /\ Window > 0
  BY DEF BlockAssumption
<1> DEFINE m == c - Window + 1  u == m \div BlockSize
<1>2. m \in Int /\ m > 0 /\ i <= u
  BY <1>1 DEF SkippedBlocks
<1> HIDE DEF m
<1>3. u \in Nat /\ BlockSize * u <= m /\ BlockSize * u \in Nat
  BY <1>1, <1>2
<1> HIDE DEF u
<1>4. i * BlockSize <= u * BlockSize /\ i * BlockSize \in Nat /\ u * BlockSize = BlockSize * u
  BY <1>1, <1>2, <1>3
<1>5. i * BlockSize <= m
  BY <1>2, <1>3, <1>4
<1> QED  BY <1>1, <1>4, <1>5 DEF m

\* A table that only lost blocks behind the window and got new ones: see Fits.
Thinner(x, b, c, h) ==
  /\ Len(x) >= Len(b)
  /\ \A i \in 1..Len(b) :
       \/ x[i] = b[i]
       \/ /\ x[i] = Null
          /\ i * BlockSize + Window <= c + 1 /\ i * BlockSize + Window <= Len(h) + 1
  /\ \A i \in (Len(b) + 1)..Len(x) : x[i] # Null

LEMMA HoldsThinner ==
  ASSUME BlockAssumption, NEW b, Len(b) \in Nat, NEW x, NEW c, NEW h, Thinner(x, b, c, h),
         NEW m, NEW p \in Nat, p < Len(b) * BlockSize, NEW y, Holds(b, m, p, y)
  PROVE  Holds(x, m, p, y)
<1>1. (p \div BlockSize) + 1 \in 1..Len(b)
  BY RoomFor
<1> QED  BY <1>1 DEF Holds, SlotOf, Thinner

LEMMA FitsThinner ==
  ASSUME BlockAssumption, NEW r, NEW b, Len(b) \in Nat, NEW x, Len(x) \in Nat, NEW c \in Nat,
         NEW h, Len(h) \in Nat, Thinner(x, b, c, h), NEW m, Fits(r, b, c, h, m)
  PROVE  Fits(r, x, c, h, m)
<1>1. BlockSize \in Nat /\ BlockSize > 0
  BY DEF BlockAssumption
<1>2. Len(b) * BlockSize >= c /\ Len(x) >= Len(b)
  BY DEF Fits, Thinner
<1>3. Len(x) * BlockSize >= c
  <2>1. Len(x) * BlockSize >= Len(b) * BlockSize
    BY <1>1, <1>2
  <2>2. Len(x) * BlockSize \in Nat /\ Len(b) * BlockSize \in Nat
    BY <1>1
  <2> QED  BY <1>2, <2>1, <2>2
<1>4. ASSUME NEW i \in 1..Len(x), x[i] = Null
      PROVE  i * BlockSize + Window <= c + 1 /\ i * BlockSize + Window <= Len(h) + 1
  <2>1. i \in 1..Len(b) \/ i \in (Len(b) + 1)..Len(x)
    OBVIOUS
  <2> QED  BY <1>4, <2>1 DEF Thinner, Fits
<1>5. ASSUME NEW p \in 0..(c - 1), p < Len(h) PROVE Holds(x, m, p, <<r, p, h[p + 1]>>)
  <2>1. p \in Nat /\ p < Len(b) * BlockSize
    <3>1. Len(b) * BlockSize \in Nat
      BY <1>1
    <3> QED  BY <1>2, <3>1
  <2>2. Holds(b, m, p, <<r, p, h[p + 1]>>)
    BY <1>5 DEF Fits
  <2> QED  BY <2>1, <2>2, HoldsThinner
<1> QED  BY <1>3, <1>4, <1>5 DEF Fits

\* Some blocks of the table have been evicted.
Emptied(x, b) == Len(x) = Len(b) /\ \A i \in 1..Len(b) : x[i] = b[i] \/ x[i] = Null

\* Eviction leaves a table that is thinner, and so does what comes after it.
LEMMA EvictedThinner ==
  ASSUME BlockAssumption, NEW b \in Seq(BlockIds \union {Null}), NEW c \in Nat, NEW n, NEW h,
         Len(h) \in Nat, c < Len(h), NEW new \in Seq(BlockIds),
         NEW x, x = Evicted(b, SkippedBlocks(c, n))
  PROVE  /\ x \in Seq(BlockIds \union {Null}) /\ Emptied(x, b)
         /\ Thinner(x, b, c, h) /\ Thinner(x \o new, b, c, h)
<1> DEFINE X == BlockIds \union {Null}  skip == SkippedBlocks(c, n)
<1>1. DOMAIN b = 1..Len(b) /\ Len(b) \in Nat
  OBVIOUS
<1>2. \A i \in 1..Len(b) : (IF i <= skip THEN Null ELSE b[i]) \in X
  OBVIOUS
<1>3. x = [i \in 1..Len(b) |-> IF i <= skip THEN Null ELSE b[i]]
  BY <1>1 DEF Evicted
<1>4. x \in Seq(X) /\ Len(x) = Len(b)
  BY <1>1, <1>2, <1>3
<1>5. \A i \in 1..Len(b) : x[i] = b[i] \/ (x[i] = Null /\ i <= skip)
  <2> HIDE DEF skip
  <2> SUFFICES ASSUME NEW i \in 1..Len(b) PROVE x[i] = b[i] \/ (x[i] = Null /\ i <= skip)
    OBVIOUS
  <2>1. x[i] = IF i <= skip THEN Null ELSE b[i]
    BY <1>3, Zenon
  <2> QED  BY <2>1, Zenon
<1>6. ASSUME NEW i \in 1..Len(b), i <= skip
      PROVE  i * BlockSize + Window <= c + 1 /\ i * BlockSize + Window <= Len(h) + 1
  <2>1. i * BlockSize + Window <= c + 1
    BY <1>6, SkippedBehind
  <2>2. i * BlockSize + Window \in Int
    <3>1. BlockSize \in Nat /\ Window \in Nat
      BY DEF BlockAssumption
    <3> QED  BY <3>1
  <2> QED  BY <2>1, <2>2
<1> HIDE DEF skip
<1>7. Thinner(x, b, c, h)
  <2> DEFINE l == Len(b)
  <2>1. l \in Nat /\ Len(x) = l
    BY <1>1, <1>4
  <2> HIDE DEF l
  <2>2. Len(x) >= l /\ (l + 1)..Len(x) = {}
    BY ONLY <2>1
  <2>3. \A i \in 1..Len(b) :
          \/ x[i] = b[i]
          \/ /\ x[i] = Null
             /\ i * BlockSize + Window <= c + 1 /\ i * BlockSize + Window <= Len(h) + 1
    BY <1>5, <1>6, Zenon
  <2> QED  BY <2>2, <2>3 DEF Thinner, l
<1>8. new \in Seq(X) /\ \A i \in 1..Len(new) : new[i] # Null
  BY DEF BlockAssumption
<1> HIDE DEF X
<1>9. /\ Len(x \o new) = Len(x) + Len(new) /\ Len(new) \in Nat
      /\ \A i \in 1..Len(x) : (x \o new)[i] = x[i]
      /\ \A i \in 1..Len(new) : (x \o new)[Len(x) + i] = new[i]
  <2>1. Len(new) \in Nat
    OBVIOUS
  <2>2. x \in Seq(X) /\ new \in Seq(X)
    BY <1>4, <1>8
  <2>3. /\ Len(x \o new) = Len(x) + Len(new)
        /\ \A i \in 1..Len(x) : (x \o new)[i] = x[i]
        /\ \A i \in 1..Len(new) : (x \o new)[Len(x) + i] = new[i]
    BY <2>2, CatFacts
  <2> QED  BY <2>1, <2>3
<1>10. ASSUME NEW i \in (Len(b) + 1)..Len(x \o new) PROVE (x \o new)[i] # Null
  <2> DEFINE l == Len(x)  k == Len(new)  y == x \o new
  <2>1. l \in Nat /\ k \in Nat /\ i \in (l + 1)..(l + k)
    <3>1. l = Len(b) /\ l \in Nat /\ k \in Nat /\ Len(y) = l + k
      BY <1>1, <1>4, <1>9
    <3> QED  BY <3>1
  <2>4. \A j \in 1..k : y[l + j] = new[j] /\ new[j] # Null
    BY <1>8, <1>9
  <2> HIDE DEF l, k, y
  <2>2. i - l \in 1..k /\ l + (i - l) = i
    BY ONLY <2>1
  <2>3. y[i] # Null
    BY <2>2, <2>4
  <2> QED  BY <2>3 DEF y
<1>11. Thinner(x \o new, b, c, h)
  <2> DEFINE l == Len(b)  m == Len(new)  y == x \o new
  <2>1. l \in Nat /\ m \in Nat /\ Len(x) = l /\ Len(y) = l + m
    BY <1>1, <1>4, <1>9
  <2> HIDE DEF l, m, y
  <2>2. Len(y) >= l
    BY ONLY <2>1
  <2>3. \A i \in 1..l : y[i] = x[i]
    BY <1>9, <2>1 DEF y
  <2>4. \A i \in 1..l :
          \/ y[i] = b[i]
          \/ /\ y[i] = Null
             /\ i * BlockSize + Window <= c + 1 /\ i * BlockSize + Window <= Len(h) + 1
    <3> SUFFICES ASSUME NEW i \in 1..l
                 PROVE  \/ y[i] = b[i]
                        \/ /\ y[i] = Null
                           /\ i * BlockSize + Window <= c + 1 /\ i * BlockSize + Window <= Len(h) + 1
      OBVIOUS
    <3>1. i \in 1..Len(b) /\ y[i] = x[i]
      BY <2>3 DEF l
    <3>2. x[i] = b[i] \/ (x[i] = Null /\ i <= skip)
      BY <1>5, <3>1, Zenon
    <3> QED  BY <1>6, <3>1, <3>2, Zenon
  <2> QED  BY <1>10, <2>2, <2>4, Zenon DEF Thinner, l, y
<1>12. Emptied(x, b)
  BY <1>4, <1>5 DEF Emptied
<1> QED  BY <1>4, <1>7, <1>11, <1>12 DEF X

LEMMA EvictedTable ==
  ASSUME BlockAssumption, NEW b \in Seq(BlockIds \union {Null}), NEW c \in Nat, NEW n, NEW h,
         Len(h) \in Nat, c < Len(h), NEW x, x = Evicted(b, SkippedBlocks(c, n))
  PROVE  /\ x \in Seq(BlockIds \union {Null}) /\ Emptied(x, b)
         /\ Thinner(x, b, c, h)
<1> DEFINE none == <<>>
<1>1. none \in Seq(BlockIds)
  OBVIOUS
<1> HIDE DEF none
<1> QED  BY <1>1, EvictedThinner

---------------------------------------------------------------------------
(* What a batch does to the rank *)

LEMMA NowFacts ==
  ASSUME NEW w, IsRow(w), NEW known \in RankState
  PROVE  /\ Now(w, known) \in RankState
         /\ Now(w, known).blocks = NewTable(w, known)
         /\ Now(w, known).version = IF w.kind = "new" THEN w.version ELSE known.version
<1> DEFINE X == BlockIds \union {Null}
<1>1. w.new \in Seq(X) /\ w.version \in Int /\ known.blocks \in Seq(X) /\ known.version \in Int
      /\ known = [version |-> known.version, blocks |-> known.blocks]
  BY DEF IsRow, RankState
<1>2. CASE w.kind = "new"
  <2>1. Now(w, known) = [version |-> w.version, blocks |-> w.new]
    BY <1>2 DEF Now
  <2> QED  BY <1>1, <1>2, <2>1 DEF RankState, NewTable
<1>3. CASE w.kind = "resumed"
  <2>1. Now(w, known) = [known EXCEPT !.blocks = w.new]
    BY <1>3 DEF Now
  <2>2. Now(w, known) = [version |-> known.version, blocks |-> w.new]
    BY <1>1, <2>1
  <2> QED  BY <1>1, <1>3, <2>2 DEF RankState, NewTable
<1>4. CASE w.kind = "running"
  <2>1. Now(w, known) = [known EXCEPT !.blocks = @ \o w.new]
    BY <1>4 DEF Now
  <2>2. Now(w, known) = [version |-> known.version, blocks |-> known.blocks \o w.new]
    BY <1>1, <2>1
  <2>3. known.blocks \o w.new \in Seq(X)
    BY <1>1
  <2> QED  BY <1>1, <1>4, <2>2, <2>3 DEF RankState, NewTable
<1> QED  BY <1>2, <1>3, <1>4 DEF IsRow

\* The one row of r in b.
LEMMA TheRow ==
  ASSUME NEW b, NEW w \in b.rows, \A v \in b.rows : v.r = w.r => v = w
  PROVE  RowOf(b, w.r) = w /\ Has(b, w.r)
BY Zenon DEF RowOf, Has

\* The requests that keep their place: those that were there and are not new or resumed.
LEMMA KeptFacts ==
  ASSUME NEW b, NEW r \in Kept(b)
  PROVE  /\ r \in Requests /\ r \notin b.finished /\ row[r] # NoRow /\ Has(b, r)
         /\ \A w \in b.rows : w.r = r => w.kind # "resumed"
BY DEF Kept, Unscheduled, Has

LEMMA NextTables ==
  ASSUME cached \in [Requests -> RankState],
         \A r \in Requests : row[r] = NoRow \/ row[r] = cached[r].blocks,
         NEW b, \A v, w \in b.rows : v.r = w.r => v = w,
         \A w \in b.rows :
           /\ IsRow(w)
           /\ w.kind # "new" => w.r \notin b.finished
           /\ w.kind = "new" => w.r \in b.finished \/ row[w.r] = NoRow
  PROVE  /\ NextCached(b) \in [Requests -> RankState]
         /\ \A w \in b.rows :
              /\ NextCached(b)[w.r].blocks = NewTable(w, cached[w.r])
              /\ NextCached(b)[w.r].version = IF w.kind = "new" THEN w.version ELSE cached[w.r].version
              /\ NextRow(b)[w.r] = NextCached(b)[w.r].blocks
         /\ \A r \in Requests :
              ~Has(b, r) => /\ NextCached(b)[r] = IF r \in b.finished THEN Absent ELSE cached[r]
                            /\ NextRow(b)[r] = NoRow
<1>1. \A r \in Requests : Known(b, r) \in RankState
  <2>1. Absent \in RankState
    <3>1. <<>> \in Seq(BlockIds \union {Null}) /\ Wrong \in Int
      BY DEF Wrong
    <3> QED  BY <3>1 DEF Absent, RankState
  <2> QED  BY <2>1 DEF Known
<1>2. \A r : r \in {w.r : w \in b.rows} <=> Has(b, r)
  BY DEF Has
<1>3. ASSUME NEW w \in b.rows
      PROVE  /\ w.r \in Requests
             /\ NextCached(b)[w.r] = Now(w, Known(b, w.r))
             /\ NextCached(b)[w.r] \in RankState
             /\ NextCached(b)[w.r].blocks = NewTable(w, cached[w.r])
             /\ NextCached(b)[w.r].version = IF w.kind = "new" THEN w.version ELSE cached[w.r].version
  <2>1. w.r \in Requests /\ RowOf(b, w.r) = w /\ Has(b, w.r) /\ IsRow(w)
    BY TheRow DEF IsRow
  <2>2. NextCached(b)[w.r] = Now(w, Known(b, w.r))
    BY <2>1 DEF NextCached, Has
  <2>3. /\ Now(w, Known(b, w.r)) \in RankState
        /\ Now(w, Known(b, w.r)).blocks = NewTable(w, Known(b, w.r))
        /\ Now(w, Known(b, w.r)).version =
             IF w.kind = "new" THEN w.version ELSE Known(b, w.r).version
    BY <1>1, <2>1, NowFacts
  <2>4. w.kind # "new" => Known(b, w.r) = cached[w.r]
    BY DEF Known
  <2>5. NewTable(w, Known(b, w.r)) = NewTable(w, cached[w.r])
    BY <2>4 DEF NewTable
  <2> QED  BY <2>1, <2>2, <2>3, <2>4, <2>5
<1>4. ASSUME NEW r \in Requests, ~Has(b, r)
      PROVE  /\ NextCached(b)[r] = Known(b, r) /\ NextRow(b)[r] = NoRow
  <2>1. r \notin Kept(b)
    BY <1>4, KeptFacts
  <2> QED  BY <1>2, <1>4, <2>1 DEF NextCached, NextRow
<1>5. NextCached(b) \in [Requests -> RankState]
  <2>1. \A r \in Requests : NextCached(b)[r] \in RankState
    BY <1>1, <1>3, <1>4 DEF Has
  <2>2. NextCached(b) = [r \in Requests |-> NextCached(b)[r]]
    BY DEF NextCached
  <2> QED  BY <2>1, <2>2
<1>6. ASSUME NEW w \in b.rows PROVE NextRow(b)[w.r] = NextCached(b)[w.r].blocks
  <2>1. w.r \in Requests /\ RowOf(b, w.r) = w /\ Has(b, w.r) /\ IsRow(w)
    BY TheRow DEF IsRow
  <2>2. NextRow(b)[w.r] = IF w.r \in Kept(b) THEN row[w.r] \o w.new ELSE NextCached(b)[w.r].blocks
    BY <2>1 DEF NextRow, Has
  <2>3. ASSUME w.r \in Kept(b) PROVE row[w.r] \o w.new = NextCached(b)[w.r].blocks
    <3>1. w.r \notin b.finished /\ row[w.r] # NoRow /\ w.kind # "resumed"
      BY <2>3, KeptFacts
    <3>2. w.kind = "running" /\ row[w.r] = cached[w.r].blocks
      BY <2>1, <3>1 DEF IsRow
    <3> QED  BY <1>3, <3>2 DEF NewTable
  <2> QED  BY <2>2, <2>3
<1> QED  BY <1>3, <1>4, <1>5, <1>6 DEF Known

\* What a write of the batch b leaves in a slot.
LEMMA WrittenFacts ==
  ASSUME NEW b, NEW t, NEW m, NEW s \in Slots
  PROVE  /\ (\A v \in b.rows : \A k \in Positions(v) : SlotOf(t[v.r], k) # s) =>
              Written(Writes(b, t), m)[s] = m[s]
         /\ \A w \in b.rows : \A p \in Positions(w) :
              /\ SlotOf(t[w.r], p) = s
              /\ \A v \in b.rows : \A k \in Positions(v) : SlotOf(t[v.r], k) = s => v = w /\ k = p
              => Written(Writes(b, t), m)[s] = TokenAt(w, p)
<1> DEFINE x == Writes(b, t)
<1>1. \A y : y \in x <=> \E v \in b.rows : \E k \in Positions(v) : y = <<SlotOf(t[v.r], k), TokenAt(v, k)>>
  BY DEF Writes
<1> HIDE DEF x
<1>2. Written(x, m)[s] = IF \E y \in x : y[1] = s THEN (CHOOSE y \in x : y[1] = s)[2] ELSE m[s]
  BY Zenon DEF Written
<1>3. ASSUME \A v \in b.rows : \A k \in Positions(v) : SlotOf(t[v.r], k) # s
      PROVE  Written(x, m)[s] = m[s]
  <2>1. ~\E y \in x : y[1] = s
    BY <1>1, <1>3
  <2> QED  BY <1>2, <2>1
<1>4. ASSUME NEW w \in b.rows, NEW p \in Positions(w), SlotOf(t[w.r], p) = s,
             \A v \in b.rows : \A k \in Positions(v) : SlotOf(t[v.r], k) = s => v = w /\ k = p
      PROVE  Written(x, m)[s] = TokenAt(w, p)
  <2> DEFINE z == <<SlotOf(t[w.r], p), TokenAt(w, p)>>
  <2>1. z \in x /\ z[1] = s /\ z[2] = TokenAt(w, p)
    BY <1>1, <1>4
  <2>2. \A y \in x : y[1] = s => y = z
    <3> SUFFICES ASSUME NEW v \in b.rows, NEW k \in Positions(v), SlotOf(t[v.r], k) = s
                 PROVE  <<SlotOf(t[v.r], k), TokenAt(v, k)>> = z
      BY <1>1
    <3>1. v = w /\ k = p
      BY <1>4
    <3> QED  BY <3>1
  <2> HIDE DEF z
  <2>3. (CHOOSE y \in x : y[1] = s) = z
    BY <2>1, <2>2
  <2> QED  BY <1>2, <2>1, <2>3
<1> QED  BY <1>3, <1>4 DEF x

---------------------------------------------------------------------------
(* The rank falls behind by one batch, and catches up *)

\* Between two batches, with all executed, the scheduler works on the next one.
LEMMA DueScheduling ==
  ASSUME Ran, Rowed(batches), executed = Len(batches), UNCHANGED rankVars, batches' = batches
  PROVE  DueCached' = DueCached /\ DueRow' = DueRow /\ DueCache' = DueCache
<1>1. ~Due /\ ~Due'
  BY QueueCounts DEF Due, Ran, rankVars
<1> QED  BY <1>1 DEF DueCached, DueRow, DueCache, rankVars

LEMMA DueIssue ==
  ASSUME Ran, Rowed(batches), executed = Len(batches), UNCHANGED rankVars,
         NEW b, batches' = Append(batches, b)
  PROVE  /\ DueCached = cached /\ DueRow = row /\ DueCache = cache
         /\ DueCached' = NextCached(b) /\ DueRow' = NextRow(b)
         /\ DueCache' = Written(Writes(b, NextRow(b)), cache)
         /\ Newest' = b /\ executed' < Len(batches') /\ executed' >= Len(batches') - 1
<1>1. /\ Len(batches) \in Nat /\ Len(batches') = Len(batches) + 1
      /\ batches'[Len(batches) + 1] = b
  BY ListedAppend DEF Rowed
<1>2. Newest' = b
  BY <1>1 DEF Newest
<1>3. ~Due /\ Due'
  BY <1>1 DEF Due, Ran, rankVars
<1>4. NextCached(b)' = NextCached(b) /\ NextRow(b)' = NextRow(b)
  <2>1. Kept(b)' = Kept(b)
    BY DEF Kept, rankVars
  <2>2. NextCached(b)' = NextCached(b)
    BY DEF NextCached, Known, rankVars
  <2> QED  BY <2>1, <2>2 DEF NextRow, rankVars
<1>5. /\ DueCached = cached /\ DueRow = row /\ DueCache = cache
  BY <1>3 DEF DueCached, DueRow, DueCache
<1>6. DueCached' = NextCached(b)' /\ DueRow' = NextRow(b)'
  BY <1>2, <1>3 DEF DueCached, DueRow
<1>7. DueCache' = Written(Writes(b, NextRow(b)), cache)
  <2>1. cache' = cache
    BY DEF rankVars
  <2>2. DueCache' = Written(Writes(b, NextRow(b)'), cache')
    BY <1>2, <1>3 DEF DueCache
  <2> QED  BY <1>4, <2>1, <2>2
<1> QED  BY <1>1, <1>2, <1>4, <1>5, <1>6, <1>7 DEF rankVars

LEMMA DueWrite ==
  ASSUME Ran, Rowed(batches), executed >= Len(batches) - 1, WriteHashCache
  PROVE  /\ DueCached' = DueCached /\ DueRow' = DueRow /\ DueCache' = DueCache
         /\ DueCached' = cached' /\ DueRow' = row' /\ DueCache' = cache'
         /\ Current = Newest /\ Current' = Newest'
<1>1. Len(batches) \in Nat /\ executed \in Nat /\ executed < Len(batches)
  BY QueueCounts DEF Ran, WriteHashCache
<1>2. executed + 1 = Len(batches) /\ executed' = executed /\ batches' = batches
  BY <1>1 DEF WriteHashCache, schedulerVars
<1>3. Current = Newest /\ Current' = Newest'
  BY <1>2 DEF Current, Newest
<1>4. Due /\ ~Due'
  BY <1>1 DEF Due, WriteHashCache
<1>5. DueCached' = cached' /\ DueRow' = row' /\ DueCache' = cache'
  BY <1>4 DEF DueCached, DueRow, DueCache
<1>6. cached' = NextCached(Newest)
  <2> DEFINE known == [r \in Requests |-> IF r \in Current.finished THEN Absent ELSE cached[r]]
             now(w) ==
               CASE w.kind = "new" -> [version |-> w.version, blocks |-> w.new]
                 [] w.kind = "resumed" -> [known[w.r] EXCEPT !.blocks = w.new]
                 [] w.kind = "running" -> [known[w.r] EXCEPT !.blocks = @ \o w.new]
             S == {w.r : w \in Current.rows}
             of(r) == CHOOSE w \in Current.rows : w.r = r
  <2>1. cached' = [r \in Requests |-> IF r \in S THEN now(of(r)) ELSE known[r]]
    BY Zenon DEF WriteHashCache, UpdatedTables, Rows
  <2>2. ASSUME NEW r \in Requests, r \in S PROVE now(of(r)) = Now(RowOf(Current, r), Known(Current, r))
    <3>1. of(r) = RowOf(Current, r) /\ of(r).r = r
      BY <2>2, Zenon DEF RowOf
    <3>2. known[of(r).r] = Known(Current, r)
      BY <3>1 DEF Known
    <3> HIDE DEF known, of
    <3> QED  BY <3>1, <3>2 DEF Now
  <2>3. \A r \in Requests : known[r] = Known(Current, r)
    BY DEF Known
  <2>4. NextCached(Current) =
          [r \in Requests |-> IF r \in S THEN Now(RowOf(Current, r), Known(Current, r))
                              ELSE Known(Current, r)]
    BY DEF NextCached
  <2> HIDE DEF known, now, S, of
  <2>5. cached' = NextCached(Current)
    BY <2>1, <2>2, <2>3, <2>4
  <2> QED  BY <1>3, <2>5
<1>7. row' = NextRow(Newest)
  <2> DEFINE S == {w.r : w \in Current.rows}
             of(r) == CHOOSE w \in Current.rows : w.r = r
             inBatch == {r \in Requests \ Current.finished : row[r] # NoRow}
             kept == inBatch \ Unscheduled(inBatch, S,
                       {r \in Requests : \E w \in Current.rows : w.r = r /\ w.kind = "resumed"})
  <2>1. row' = [r \in Requests |-> IF r \in S
                                  THEN IF r \in kept THEN row[r] \o of(r).new ELSE cached'[r].blocks
                                  ELSE IF r \in kept THEN row[r] ELSE NoRow]
    BY Zenon DEF WriteHashCache, UpdatedTables, Rows
  <2>2. kept = Kept(Current) /\ \A r : of(r) = RowOf(Current, r)
    BY Zenon DEF Kept, RowOf
  <2>3. cached' = NextCached(Current)
    BY <1>3, <1>6
  <2> HIDE DEF kept, of, inBatch
  <2>4. row' = NextRow(Current)
    BY <2>1, <2>2, <2>3 DEF NextRow
  <2> QED  BY <1>3, <2>4
<1>8. cache' = Written(Writes(Newest, NextRow(Newest)), cache)
  <2>1. cache' = Written(Writes(Current, row'), cache)
    BY Zenon DEF WriteHashCache, Writes, Written, Rows
  <2> QED  BY <1>3, <1>7, <2>1
<1> QED  BY <1>3, <1>4, <1>5, <1>6, <1>7, <1>8 DEF DueCached, DueRow, DueCache

LEMMA DueHash ==
  ASSUME Ran, Rowed(batches), executed >= Len(batches) - 1, HashIds
  PROVE  /\ DueCached' = DueCached /\ DueRow' = DueRow /\ DueCache' = DueCache
         /\ executed' = Len(batches')
<1>1. Len(batches) \in Nat /\ executed \in Nat /\ executed < Len(batches)
  BY QueueCounts DEF Ran, HashIds
<1>2. executed' = Len(batches) /\ batches' = batches
  BY <1>1 DEF HashIds, schedulerVars
<1>3. ~Due /\ ~Due'
  BY <1>1, <1>2 DEF Due, HashIds
<1> QED  BY <1>2, <1>3 DEF HashIds, DueCached, DueRow, DueCache

LEMMA DueProcessed ==
  ASSUME Ran, Rowed(batches), executed >= Len(batches) - 1, batches # <<>>, Processed
  PROVE  /\ DueCached' = DueCached /\ DueRow' = DueRow /\ DueCache' = DueCache
         /\ executed' >= Len(batches') - 1
         /\ executed' < Len(batches') => executed < Len(batches) /\ Newest' = Newest
<1>1. /\ Len(batches) \in Nat /\ executed \in Nat /\ executed <= Len(batches) /\ executed > 0
      /\ batches' = Tail(batches) /\ executed' = executed - 1 /\ rankPc' = rankPc
      /\ cached' = cached /\ row' = row /\ cache' = cache
  BY QueueCounts DEF Ran, Processed, Update
<1>2. /\ Len(batches') = Len(batches) - 1
      /\ \A i \in 1..(Len(batches) - 1) : batches'[i] = batches[i + 1]
  BY <1>1, ListedTail DEF Rowed
<1>3. Due' <=> Due
  BY <1>1, <1>2 DEF Due
<1>4. ASSUME executed < Len(batches) PROVE Newest' = Newest
  <2>1. Len(batches) - 1 \in 1..(Len(batches) - 1) /\ (Len(batches) - 1) + 1 = Len(batches)
    BY <1>1, <1>4
  <2>2. batches'[Len(batches) - 1] = batches[(Len(batches) - 1) + 1]
    BY <1>2, <2>1
  <2> QED  BY <1>2, <2>1, <2>2 DEF Newest
<1>5. CASE Due
  <2>1. Newest' = Newest
    BY <1>4, <1>5 DEF Due
  <2>2. NextCached(Newest)' = NextCached(Newest) /\ Kept(Newest)' = Kept(Newest)
    BY <1>1, <2>1 DEF NextCached, Known, Kept
  <2>3. NextRow(Newest)' = NextRow(Newest)
    BY <1>1, <2>1, <2>2 DEF NextRow
  <2>4. DueCached' = DueCached /\ DueRow' = DueRow
    BY <1>3, <1>5, <2>2, <2>3 DEF DueCached, DueRow
  <2>5. Writes(Newest, NextRow(Newest))' = Writes(Newest, NextRow(Newest))
    BY <2>1, <2>3 DEF Writes
  <2>6. DueCache' = DueCache
    BY <1>1, <1>3, <1>5, <2>5 DEF DueCache, Written
  <2> QED  BY <1>1, <1>2, <1>4, <2>4, <2>6
<1>6. CASE ~Due
  <2>1. DueCached' = DueCached /\ DueRow' = DueRow /\ DueCache' = DueCache
    BY <1>1, <1>3, <1>6 DEF DueCached, DueRow, DueCache
  <2> QED  BY <1>1, <1>2, <1>4, <2>1
<1> QED  BY <1>5, <1>6

---------------------------------------------------------------------------
(* A request is scheduled *)

\* What a chunk is.
LEMMA ChunkDrafts ==
  ASSUME BlockAssumption, Typed, NEW r \in Requests, NEW start \in Nat,
         NEW chunk \in Chunks(r, start)
  PROVE  /\ chunk.drafts = IF start + chunk.n >= Len(hist[r]) THEN start + chunk.n - Len(hist[r]) ELSE 0
         /\ start < Len(hist[r]) /\ Len(hist[r]) \in Nat
<1> DEFINE len == Len(hist[r])
           proposals == IF status[r] = "running" /\ start = len - 1 THEN 0..NumSpec ELSE {0}
           n(d) == Min({len + d - start, plan.budget, MaxLen - 1 - start})
<1>1. PICK d \in proposals :
        n(d) > 0 /\ chunk.n = n(d) /\ chunk.drafts = Max({0, start + n(d) - len})
  <2>1. Chunks(r, start) = {[n |-> n(d), drafts |-> Max({0, start + n(d) - len})]
                              : d \in {e \in proposals : n(e) > 0}}
    BY Zenon DEF Chunks
  <2> HIDE DEF n, proposals, len
  <2>2. PICK d \in {e \in proposals : n(e) > 0} :
          chunk = [n |-> n(d), drafts |-> Max({0, start + n(d) - len})]
    BY <2>1
  <2> QED  BY <2>2
<1>2. chunk.drafts = Max({0, start + chunk.n - len})
  BY <1>1
<1>3. len \in Nat
  BY DEF Typed
<1>4. /\ chunk.n \in Nat /\ chunk.n > 0 /\ chunk.drafts \in Nat /\ chunk.drafts < chunk.n
  BY ChunkFacts
<1> HIDE DEF len, proposals, n
<1>5. chunk.drafts = IF 0 >= start + chunk.n - len THEN 0 ELSE start + chunk.n - len
  BY <1>2, <1>3, <1>4, Max2
<1> DEFINE m == chunk.n  k == chunk.drafts
<1>6. m \in Nat /\ m > 0 /\ k \in Nat /\ k < m /\ k = IF 0 >= start + m - len THEN 0 ELSE start + m - len
  BY <1>4, <1>5
<1> HIDE DEF m, k
<1>7. start < len
  BY <1>3, <1>6
<1>8. k = IF start + m >= len THEN start + m - len ELSE 0
  BY <1>3, <1>6
<1> QED  BY <1>3, <1>7, <1>8 DEF len, m, k

\* The row of r for a chunk: its tokens are those known, and then the d drafts, a of them right.
Tokenized(h, start, n, d, a, v) ==
  SubSeq(h, start + 1, start + n - d) \o [i \in 1..d |-> IF i <= a THEN v ELSE Wrong]

LEMMA RowTokens ==
  ASSUME NEW h \in Seq(Int), NEW start \in Nat, NEW n \in Nat, NEW d \in Nat, d < n,
         start + n - d <= Len(h), d > 0 => start + n - d = Len(h),
         d = 0 => start + n <= Len(h), NEW a \in 0..d, NEW v \in Int
  PROVE  \A p \in start..(start + n - 1) :
           Tokenized(h, start, n, d, a, v)[p - start + 1]
             = IF p < Len(h) THEN h[p + 1] ELSE IF p < Len(h) + a THEN v ELSE Wrong
<1> SUFFICES ASSUME NEW p \in start..(start + n - 1)
             PROVE  Tokenized(h, start, n, d, a, v)[p - start + 1]
                      = IF p < Len(h) THEN h[p + 1] ELSE IF p < Len(h) + a THEN v ELSE Wrong
  OBVIOUS
<1> DEFINE m == start + 1  e == start + n - d  known == SubSeq(h, m, e)
           drafts == [i \in 1..d |-> IF i <= a THEN v ELSE Wrong]
           k == p - start + 1
<1>1. Len(h) \in Nat
  OBVIOUS
<1>2. /\ m \in Nat /\ e \in Int /\ m >= 1 /\ m <= e /\ e <= Len(h)
      /\ e - m + 1 = n - d /\ n - d \in Nat /\ \A i \in 1..(n - d) : m + i - 1 = start + i
  <2> DEFINE l == Len(h)
  <2>1. l \in Nat /\ start + n - d <= l
    BY <1>1
  <2> HIDE DEF l
  <2>2. /\ m \in Nat /\ e \in Int /\ m >= 1 /\ m <= e /\ e <= l
        /\ e - m + 1 = n - d /\ n - d \in Nat /\ \A i \in 1..(n - d) : m + i - 1 = start + i
    BY <2>1
  <2> QED  BY <2>2 DEF l
<1> HIDE DEF m, e
<1>3. /\ known \in Seq(Int) /\ Len(known) = n - d
      /\ \A i \in 1..(n - d) : known[i] = h[start + i]
  <2>1. /\ known \in Seq(Int) /\ Len(known) = IF m <= e THEN e - m + 1 ELSE 0
        /\ \A i \in 1..(e - m + 1) : known[i] = h[m + i - 1]
    BY <1>2, SubSeqFacts
  <2> HIDE DEF known
  <2>2. Len(known) = n - d
    BY <1>2, <2>1
  <2>3. \A i \in 1..(n - d) : known[i] = h[start + i]
    BY <1>2, <2>1
  <2> QED  BY <2>1, <2>2, <2>3
<1>4. drafts \in Seq(Int) /\ Len(drafts) = d /\ \A i \in 1..d : drafts[i] = IF i <= a THEN v ELSE Wrong
  <2>1. Wrong \in Int
    BY DEF Wrong
  <2> QED  BY <2>1
<1>0. Tokenized(h, start, n, d, a, v) = known \o drafts
  BY DEF Tokenized, m, e
<1> HIDE DEF known, drafts
<1>5. /\ \A i \in 1..(n - d) : (known \o drafts)[i] = known[i]
      /\ \A i \in 1..d : (known \o drafts)[(n - d) + i] = drafts[i]
  <2>1. /\ \A i \in 1..Len(known) : (known \o drafts)[i] = known[i]
        /\ \A i \in 1..Len(drafts) : (known \o drafts)[Len(known) + i] = drafts[i]
    <3>1. known \in Seq(Int) /\ drafts \in Seq(Int)
      BY <1>3, <1>4
    <3> QED  BY <3>1, CatFacts
  <2>2. Len(known) = n - d /\ Len(drafts) = d
    BY <1>3, <1>4
  <2> QED  BY <2>1, <2>2
<1>6. CASE k <= n - d
  <2>1. k \in 1..(n - d) /\ start + k = p + 1 /\ p < Len(h)
    BY <1>1, <1>2, <1>6
  <2> HIDE DEF k
  <2>2. (known \o drafts)[k] = h[p + 1]
    BY <1>3, <1>5, <2>1
  <2> QED  BY <1>0, <2>1, <2>2 DEF k
<1>7. CASE ~(k <= n - d)
  <2> DEFINE i == k - (n - d)
  <2>1. i \in 1..d /\ (n - d) + i = k
    BY <1>1, <1>2, <1>7
  <2>2. start + n - d = Len(h)
    BY <2>1
  <2>3. (i <= a <=> p < Len(h) + a) /\ ~(p < Len(h))
    BY <1>1, <1>7, <2>2
  <2> HIDE DEF i, k
  <2>4. (known \o drafts)[k] = drafts[i]
    BY <1>5, <2>1
  <2>5. drafts[i] = IF p < Len(h) + a THEN v ELSE Wrong
    BY <1>4, <2>1, <2>3
  <2> QED  BY <1>0, <2>3, <2>4, <2>5 DEF k
<1> QED  BY <1>6, <1>7

\* A table with the blocks it needs has room for e tokens.
LEMMA NeededRoom ==
  ASSUME NEW s \in Nat, s > 0, NEW l \in Nat, NEW e \in Nat, NEW n,
         n = Max({0, (e + s - 1) \div s - l})
  PROVE  n \in Nat /\ (l + n) * s >= e
<1> DEFINE c == (e + s - 1) \div s  k == l + n
<1>1. c \in Int /\ s * (c + 1) > e + s - 1
  OBVIOUS
<1>2. n = Max({0, c - l})
  OBVIOUS
<1> HIDE DEF c
<1>3. n = IF 0 >= c - l THEN 0 ELSE c - l
  <2>1. c - l \in Int
    BY <1>1
  <2> QED  BY <1>2, <2>1, Max2
<1>4. n \in Nat /\ k \in Nat /\ k >= c
  BY <1>1, <1>3
<1> HIDE DEF k
<1>5. s * (c + 1) = c * s + s
  BY <1>1
<1>6. k * s >= c * s /\ k * s \in Int /\ c * s \in Int
  BY <1>1, <1>4
<1>7. c * s > e - 1
  <2> DEFINE x == c * s
  <2>1. x \in Int /\ x + s > e + s - 1
    BY <1>1, <1>5, <1>6
  <2> HIDE DEF x
  <2>2. x > e - 1
    BY <2>1
  <2> QED  BY <2>2 DEF x
<1>8. k * s >= e
  <2> DEFINE x == c * s  y == k * s
  <2>1. x \in Int /\ y \in Int /\ y >= x /\ x > e - 1
    BY <1>6, <1>7
  <2> HIDE DEF x, y
  <2>2. y >= e
    BY <2>1
  <2> QED  BY <2>2 DEF y
<1> QED  BY <1>4, <1>8 DEF k

\* The row that Scheduled plans.
IsChunk(w, r, kind, start, table) ==
  /\ RowFacts(w) /\ w.r = r /\ w.kind = kind /\ w.new \in Seq(BlockIds)
  /\ w.start = start /\ start < Len(hist[r]) /\ w.version = version[r]
  /\ w.samples <=> start + w.n >= Len(hist[r])
  /\ IF w.samples THEN Len(hist[r]) + w.drafts = start + w.n ELSE w.drafts = 0
  /\ \A p \in 0..(start - 1) : w.before[p + 1] = hist[r][p + 1]
  /\ \A p \in start..(start + w.n - 1) :
       w.tokens[p - start + 1] =
         IF p < Len(hist[r]) THEN hist[r][p + 1]
         ELSE IF p < Len(hist[r]) + w.accepted THEN version[r] ELSE Wrong
  /\ table = Evicted(blocks[r], SkippedBlocks(start, w.n)) \o w.new
  /\ Len(table) * BlockSize >= start + w.n

LEMMA ScheduledRow ==
  ASSUME BlockAssumption, IInv, Typed, NEW r \in Requests, NEW kind, NEW start \in Nat,
         Scheduled(r, kind, start)
  PROVE  \E w : /\ IsChunk(w, r, kind, start, blocks'[r])
                /\ plan'.rows = plan.rows \union {w}
                /\ \A q \in Requests \ {r} : blocks'[q] = blocks[q]
<1>1. PICK chunk \in Chunks(r, start) : \E a \in 0..chunk.drafts :
        LET p == Pool(r, start, chunk.n)
        IN \E new \in Distinct(Needed(r, start, chunk.n), p.pool) :
             /\ blocks' = [blocks EXCEPT ![r] = p.table \o new]
             /\ plan' = [plan EXCEPT
                  !.rows = @ \union {Row(r, kind, start, chunk, a, p.table, new)},
                  !.budget = @ - chunk.n]
  BY Zenon DEF Scheduled
<1> DEFINE skip == SkippedBlocks(start, chunk.n)
           table == Evicted(blocks[r], skip)
           pool == free \union Behind(blocks[r], skip)
           n == Needed(r, start, chunk.n)
<1>2. Pool(r, start, chunk.n).table = table /\ Pool(r, start, chunk.n).pool = pool
  BY DEF Pool
<1>3. PICK a \in 0..chunk.drafts : \E new \in Distinct(n, pool) :
        /\ blocks' = [blocks EXCEPT ![r] = table \o new]
        /\ plan' = [plan EXCEPT !.rows = @ \union {Row(r, kind, start, chunk, a, table, new)},
                                !.budget = @ - chunk.n]
  BY <1>1, <1>2, Zenon
<1>4. PICK new \in Distinct(n, pool) :
        /\ blocks' = [blocks EXCEPT ![r] = table \o new]
        /\ plan' = [plan EXCEPT !.rows = @ \union {Row(r, kind, start, chunk, a, table, new)},
                                !.budget = @ - chunk.n]
  BY <1>3, Zenon
<1> DEFINE w == Row(r, kind, start, chunk, a, table, new)  longer == table \o new
<1>5. /\ chunk.n \in Nat /\ chunk.n > 0 /\ chunk.drafts \in Nat /\ chunk.drafts < chunk.n
      /\ chunk.drafts = IF start + chunk.n >= Len(hist[r]) THEN start + chunk.n - Len(hist[r]) ELSE 0
      /\ start < Len(hist[r]) /\ Len(hist[r]) \in Nat
  BY ChunkFacts, ChunkDrafts
<1>6. blocks[r] \in Seq(BlockIds \union {Null}) /\ hist[r] \in Seq(Int) /\ version[r] \in Int
      /\ blocks'[r] = longer /\ \A q \in Requests \ {r} : blocks'[q] = blocks[q]
  BY <1>4 DEF IInv, Tables, Typed
<1>7. /\ table \in Seq(BlockIds \union {Null}) /\ Len(table) = Len(blocks[r])
      /\ pool \subseteq BlockIds
  <2>1. table \in Seq(BlockIds \union {Null}) /\ Len(table) = Len(blocks[r])
    <3> DEFINE x == table  b == blocks[r]  h == hist[r]  m == chunk.n
    <3>2. x = Evicted(b, SkippedBlocks(start, m))
      OBVIOUS
    <3>3. b \in Seq(BlockIds \union {Null}) /\ Len(h) \in Nat /\ start < Len(h)
      BY <1>5, <1>6
    <3> HIDE DEF table, x, skip, b, h, m
    <3>4. x \in Seq(BlockIds \union {Null}) /\ Len(x) = Len(b)
      BY <3>2, <3>3, EvictedTable DEF Emptied
    <3> QED  BY <3>4 DEF x, b
  <2>2. free \subseteq BlockIds
    BY DEF IInv, BlocksOnce, SharedOut
  <2>3. Behind(blocks[r], skip) \subseteq BlockIds
    BY <1>6 DEF Behind
  <2> QED  BY <2>1, <2>2, <2>3
<1>8. new \in Seq(BlockIds) /\ Len(new) = n
  <2>1. Cardinality(pool) \in Nat
    BY <1>7, FS_Subset, FS_CardinalityType DEF BlockAssumption
  <2>2. PICK m \in 0..Cardinality(pool) : new \in [1..m -> pool]
    BY DEF Distinct, SeqOf
  <2>3. new \in [1..m -> BlockIds]
    BY <1>7, <2>2
  <2>4. new \in Seq(BlockIds)
    BY <2>1, <2>3
  <2> QED  BY <2>4 DEF Distinct
<1> HIDE DEF skip, table, pool
<1>9. Len(longer) * BlockSize >= start + chunk.n
  <2>1. BlockSize \in Nat /\ BlockSize > 0 /\ Len(blocks[r]) \in Nat /\ start + chunk.n \in Nat
    <3>1. BlockSize \in Nat /\ BlockSize > 0
      BY DEF BlockAssumption
    <3> DEFINE x == blocks[r]  m == chunk.n
    <3>2. x \in Seq(BlockIds \union {Null}) /\ m \in Nat
      BY <1>5, <1>6
    <3> HIDE DEF x, m
    <3>3. Len(x) \in Nat /\ start + m \in Nat
      BY <3>2
    <3> QED  BY <3>1, <3>3 DEF x, m
  <2>2. n = Max({0, (start + chunk.n + BlockSize - 1) \div BlockSize - Len(blocks[r])})
    BY DEF Needed
  <2>3. Len(longer) = Len(blocks[r]) + n
    <3> HIDE DEF n
    <3> DEFINE X == BlockIds \union {Null}
    <3>1. new \in Seq(X)
      <4>1. BlockIds \subseteq X
        OBVIOUS
      <4> HIDE DEF X
      <4> QED  BY <1>8, <4>1
    <3>2. table \in Seq(X)
      BY <1>7
    <3> HIDE DEF X
    <3>4. Len(table \o new) = Len(table) + Len(new)
      BY ONLY <3>1, <3>2, CatFacts
    <3> QED  BY <1>7, <1>8, <3>4
  <2> HIDE DEF n, longer
  <2>4. (Len(blocks[r]) + n) * BlockSize >= start + chunk.n
    BY <2>1, <2>2, NeededRoom
  <2> QED  BY <2>3, <2>4
<1>10. /\ w.r = r /\ w.n = chunk.n /\ w.drafts = chunk.drafts /\ w.accepted = a /\ w.kind = kind
       /\ w.version = version[r] /\ w.new = new /\ w.start = start
       /\ (w.samples <=> start + chunk.n >= Len(hist[r]))
       /\ w.before = SubSeq(hist[r], 1, start)
       /\ w.tokens = SubSeq(hist[r], start + 1, start + chunk.n - chunk.drafts)
                       \o [i \in 1..chunk.drafts |-> IF i <= a THEN version[r] ELSE Wrong]
  BY DEF Row
<1>11. plan'.rows = plan.rows \union {w}
  <2> DEFINE x == plan.rows  y == plan.preempted  z == plan.budget
  <2>1. /\ plan = [rows |-> x, preempted |-> y, budget |-> z]
        /\ plan' = [plan EXCEPT !.rows = x \union {w}, !.budget = z - chunk.n]
    BY <1>4 DEF Typed
  <2> HIDE DEF x, y, z, w
  <2>2. plan' = [rows |-> x \union {w}, preempted |-> y, budget |-> z - chunk.n]
    BY <2>1
  <2> QED  BY <2>2 DEF x
<1> HIDE DEF w
<1>12. RowFacts(w)
  BY <1>5, <1>6, <1>10 DEF RowFacts
<1>13. \A p \in 0..(start - 1) : w.before[p + 1] = hist[r][p + 1]
  <2> SUFFICES ASSUME NEW p \in 0..(start - 1) PROVE SubSeq(hist[r], 1, start)[p + 1] = hist[r][p + 1]
    BY <1>10
  <2>1. start <= Len(hist[r]) /\ 1 \in Nat /\ p + 1 \in 1..(start - 1 + 1) /\ 1 + (p + 1) - 1 = p + 1
    <3>1. start <= Len(hist[r])
      BY <1>5
    <3>2. p + 1 \in 1..(start - 1 + 1) /\ 1 + (p + 1) - 1 = p + 1
      OBVIOUS
    <3> QED  BY <3>1, <3>2
  <2>2. \A i \in 1..(start - 1 + 1) : SubSeq(hist[r], 1, start)[i] = hist[r][1 + i - 1]
    BY <1>6, <2>1, SubSeqFacts
  <2> QED  BY <2>1, <2>2
<1>14. \A p \in start..(start + w.n - 1) :
         w.tokens[p - start + 1] =
           IF p < Len(hist[r]) THEN hist[r][p + 1]
           ELSE IF p < Len(hist[r]) + w.accepted THEN version[r] ELSE Wrong
  <2> DEFINE n0 == chunk.n  d0 == chunk.drafts  h == hist[r]  v == version[r]
  <2>1. /\ w.n = n0 /\ w.accepted = a
        /\ w.tokens = Tokenized(h, start, n0, d0, a, v)
    BY <1>10 DEF Tokenized
  <2>2. /\ h \in Seq(Int) /\ n0 \in Nat /\ d0 \in Nat /\ d0 < n0 /\ start < Len(h) /\ v \in Int
        /\ d0 = IF start + n0 >= Len(h) THEN start + n0 - Len(h) ELSE 0
        /\ a \in 0..d0 /\ Len(h) \in Nat
    BY <1>5, <1>6
  <2> HIDE DEF n0, d0, h, v
  <2>3. start + n0 - d0 <= Len(h) /\ (d0 > 0 => start + n0 - d0 = Len(h)) /\ (d0 = 0 => start + n0 <= Len(h))
    <3> DEFINE l == Len(h)
    <3>1. start \in Nat /\ l \in Nat /\ n0 \in Nat /\ d0 = IF start + n0 >= l THEN start + n0 - l ELSE 0
      BY <2>2
    <3> HIDE DEF l
    <3>2. start + n0 - d0 <= l /\ (d0 > 0 => start + n0 - d0 = l) /\ (d0 = 0 => start + n0 <= l)
      BY <3>1
    <3> QED  BY <3>2 DEF l
  <2>4. \A p \in start..(start + n0 - 1) :
          Tokenized(h, start, n0, d0, a, v)[p - start + 1]
            = IF p < Len(h) THEN h[p + 1] ELSE IF p < Len(h) + a THEN v ELSE Wrong
    <3>1. /\ h \in Seq(Int) /\ start \in Nat /\ n0 \in Nat /\ d0 \in Nat /\ d0 < n0
          /\ start + n0 - d0 <= Len(h) /\ (d0 > 0 => start + n0 - d0 = Len(h))
          /\ (d0 = 0 => start + n0 <= Len(h)) /\ a \in 0..d0 /\ v \in Int
      BY <2>2, <2>3
    <3> HIDE <2>2, <2>3
    <3> QED  BY ONLY <3>1, RowTokens, Zenon
  <2>5. \A p \in start..(start + w.n - 1) :
          w.tokens[p - start + 1]
            = IF p < Len(h) THEN h[p + 1] ELSE IF p < Len(h) + w.accepted THEN v ELSE Wrong
    <3> SUFFICES ASSUME NEW p \in start..(start + w.n - 1)
                 PROVE  w.tokens[p - start + 1]
            = IF p < Len(h) THEN h[p + 1] ELSE IF p < Len(h) + w.accepted THEN v ELSE Wrong
      OBVIOUS
    <3>1. p \in start..(start + n0 - 1)
      BY <2>1
    <3>2. Tokenized(h, start, n0, d0, a, v)[p - start + 1]
            = IF p < Len(h) THEN h[p + 1] ELSE IF p < Len(h) + a THEN v ELSE Wrong
      BY <2>4, <3>1
    <3> QED  BY <2>1, <3>2, Zenon
  <2> QED  BY <2>5 DEF h, v
<1>15. IF w.samples THEN Len(hist[r]) + w.drafts = start + w.n ELSE w.drafts = 0
  <2> DEFINE l == Len(hist[r])  m == chunk.n  d == chunk.drafts
  <2>1. w.drafts = d /\ w.n = m /\ (w.samples <=> start + m >= l)
    BY <1>10
  <2>2. l \in Nat /\ m \in Nat /\ d = IF start + m >= l THEN start + m - l ELSE 0
    BY <1>5
  <2> HIDE DEF l, m, d
  <2>3. start + m >= l => l + d = start + m
    BY <2>2
  <2>4. ~(start + m >= l) => d = 0
    BY <2>2
  <2> QED  BY <2>1, <2>3, <2>4 DEF l
<1>16. IsChunk(w, r, kind, start, blocks'[r])
  BY <1>5, <1>6, <1>8, <1>9, <1>10, <1>12, <1>13, <1>14, <1>15 DEF IsChunk, table, skip
<1> QED  BY <1>6, <1>11, <1>16

\* A step that does not touch a request leaves what is right about it.
Still(r) ==
  /\ status'[r] = status[r] /\ hist'[r] = hist[r] /\ version'[r] = version[r]
  /\ computed'[r] = computed[r] /\ inFlight'[r] = inFlight[r]
  /\ stale'[r] = stale[r] /\ (drop'[r] <=> drop[r]) /\ blocks'[r] = blocks[r]
  /\ r \in finishedIds' <=> r \in finishedIds

LEMMA Untouched ==
  ASSUME NEW r \in Requests, Good(r), Still(r), PlanRows(r)' = PlanRows(r), batches' = batches,
         DueCached' = DueCached, DueRow' = DueRow, DueCache' = DueCache
  PROVE  Good(r)'
<1> USE DEF Still
<1>1. Unknown(r)' <=> Unknown(r)
  BY DEF Unknown
<1>2. Versioned(r)' = Versioned(r)
  BY DEF Versioned, Holds
<1>3. ASSUME NEW w \in PlanRows(r) PROVE Right(w)'
  <2>1. w.r = r /\ Right(w)
    BY <1>3 DEF PlanRows, Good
  <2> QED  BY <2>1 DEF Right
<1> DEFINE run == status[r] = "running"
<1>4. status[r] # "absent" =>
        /\ Len(hist[r]) >= PromptLen
        /\ \A p \in 1..PromptLen :
             hist[r][p] = IF Unknown(r) THEN version[r] ELSE DueCached[r].version
        /\ Chain(batches, r, run, computed[r], Len(hist[r]), version[r], Versioned(r),
                 inFlight[r], stale[r])
  BY Zenon DEF Good
<1>5. run => /\ PlanRows(r) = {} => Matches(blocks[r], DueCached[r].blocks)
             /\ Fits(r, blocks[r], computed[r], hist[r], DueCache)
             /\ stale[r] > 0 => drop[r]
  BY Zenon DEF Good
<1>6. /\ DueRow[r] = NoRow \/ DueRow[r] = DueCached[r].blocks
      /\ r \in finishedIds => Unknown(r)
      /\ Unknown(r) /\ r \notin finishedIds => DueRow[r] = NoRow
      /\ ~run => blocks[r] = <<>>
      /\ status[r] \in {"waiting", "preempted"} => computed[r] = 0
      /\ \A w \in PlanRows(r) :
           Right(w) /\ PlanRows(r) = {w} /\ Matches(blocks[r], NewTable(w, DueCached[r]))
  BY Zenon DEF Good
<1>7. status'[r] # "absent" =>
        /\ Len(hist'[r]) >= PromptLen
        /\ \A p \in 1..PromptLen :
             hist'[r][p] = IF Unknown(r)' THEN version'[r] ELSE DueCached'[r].version
        /\ Chain(batches', r, status'[r] = "running", computed'[r], Len(hist'[r]), version'[r],
                 Versioned(r)', inFlight'[r], stale'[r])
  BY <1>1, <1>2, <1>4
<1>8. status'[r] = "running" =>
        /\ PlanRows(r)' = {} => Matches(blocks'[r], DueCached'[r].blocks)
        /\ Fits(r, blocks'[r], computed'[r], hist'[r], DueCache')
        /\ stale'[r] > 0 => drop'[r]
  BY <1>5
<1>9. /\ DueRow'[r] = NoRow \/ DueRow'[r] = DueCached'[r].blocks
      /\ r \in finishedIds' => Unknown(r)'
      /\ Unknown(r)' /\ r \notin finishedIds' => DueRow'[r] = NoRow
      /\ status'[r] # "running" => blocks'[r] = <<>>
      /\ status'[r] \in {"waiting", "preempted"} => computed'[r] = 0
      /\ \A w \in PlanRows(r)' :
           Right(w)' /\ PlanRows(r)' = {w} /\ Matches(blocks'[r], NewTable(w, DueCached'[r]))
  BY <1>1, <1>3, <1>6
<1> QED  BY <1>7, <1>8, <1>9, Zenon DEF Good

\* Between two batches the scheduler's steps leave the rank as it is.
LEMMA EngineServed ==
  ASSUME Ran, Rowed(batches), executed = Len(batches), UNCHANGED rankVars, batches' = batches,
         Served, \A r \in Requests : Good(r)'
  PROVE  Served'
<1>1. DueCached' = DueCached /\ DueRow' = DueRow /\ DueCache' = DueCache
  BY DueScheduling
<1>2. executed' = executed
  BY DEF rankVars
<1>3. executed \in Nat /\ Len(batches) \in Nat
  BY QueueCounts DEF Ran
<1> QED  BY <1>1, <1>2, <1>3 DEF Served

\* The rank's table of r and the scheduler's grow alike.
LEMMA MatchesCat ==
  ASSUME NEW T, NEW b \in Seq(T), NEW x \in Seq(T), NEW t \in Seq(T), NEW new \in Seq(T),
         Matches(b, t), Emptied(x, b)
  PROVE  Matches(x, t) /\ Matches(x \o new, t \o new)
<1>1. Len(b) \in Nat /\ Len(t) = Len(b) /\ Len(x) = Len(b) /\ Len(new) \in Nat
  BY DEF Matches, Emptied
<1>2. ASSUME NEW i \in 1..Len(x), x[i] # Null PROVE x[i] = t[i]
  BY <1>1, <1>2 DEF Matches, Emptied
<1>3. Matches(x, t)
  BY <1>1, <1>2 DEF Matches
<1> DEFINE y == x \o new  z == t \o new
<1>4. /\ Len(y) = Len(b) + Len(new) /\ Len(z) = Len(b) + Len(new)
      /\ \A i \in 1..Len(b) : y[i] = x[i] /\ z[i] = t[i]
      /\ \A i \in 1..Len(new) : y[Len(b) + i] = new[i] /\ z[Len(b) + i] = new[i]
  <2>1. /\ Len(y) = Len(x) + Len(new) /\ \A i \in 1..Len(x) : y[i] = x[i]
        /\ \A i \in 1..Len(new) : y[Len(x) + i] = new[i]
    OBVIOUS
  <2>2. /\ Len(z) = Len(t) + Len(new) /\ \A i \in 1..Len(t) : z[i] = t[i]
        /\ \A i \in 1..Len(new) : z[Len(t) + i] = new[i]
    OBVIOUS
  <2> HIDE DEF y, z
  <2> QED  BY <1>1, <2>1, <2>2
<1> HIDE DEF y, z
<1>5. ASSUME NEW i \in 1..Len(y), y[i] # Null PROVE y[i] = z[i]
  <2>1. CASE i <= Len(b)
    <3>1. i \in 1..Len(b) /\ i \in 1..Len(x)
      BY <1>1, <2>1
    <3> QED  BY <1>2, <1>4, <1>5, <3>1
  <2>2. CASE ~(i <= Len(b))
    <3> DEFINE j == i - Len(b)
    <3>1. j \in 1..Len(new) /\ Len(b) + j = i
      BY <1>1, <1>4, <2>2
    <3> HIDE DEF j
    <3> QED  BY <1>4, <3>1
  <2> QED  BY <2>1, <2>2
<1>6. Matches(y, z)
  BY <1>4, <1>5 DEF Matches
<1> QED  BY <1>3, <1>6 DEF y, z

\* A request that does not run holds nothing: that fits what is computed of it.
LEMMA FitsNone ==
  ASSUME BlockAssumption, NEW r, NEW h, NEW m
  PROVE  Fits(r, <<>>, 0, h, m)
<1>1. Len(<<>>) = 0 /\ 0 * BlockSize >= 0
  BY DEF BlockAssumption
<1> QED  BY <1>1 DEF Fits

\* What is known of a request of which no row is planned.
LEMMA GoodFits ==
  ASSUME BlockAssumption, NEW r \in Requests, Good(r), status[r] # "absent",
         status[r] \in {"absent", "waiting", "running", "preempted"}
  PROVE  Fits(r, blocks[r], computed[r], hist[r], DueCache)
<1>1. CASE status[r] = "running"
  BY <1>1 DEF Good
<1>2. CASE status[r] # "running"
  <2>1. blocks[r] = <<>> /\ computed[r] = 0
    BY <1>2 DEF Good
  <2> QED  BY <2>1, FitsNone
<1> QED  BY <1>1, <1>2

\* The rows of the plan, request by request, when w joins them.
LEMMA PlanRowsJoin ==
  ASSUME NEW w, plan'.rows = plan.rows \union {w}
  PROVE  /\ \A q : q # w.r => PlanRows(q)' = PlanRows(q)
         /\ w.r \notin Planned => PlanRows(w.r) = {} /\ PlanRows(w.r)' = {w}
BY DEF PlanRows, Planned

\* r is scheduled, with the chunk that comes next.
LEMMA ScheduledServed ==
  ASSUME BlockAssumption, Life, Ran, Served, NEW r \in Requests, r \notin Planned,
         NEW kind \in {"new", "resumed", "running"}, Scheduled(r, kind, computed[r]),
         status[r] # "absent", kind = "new" <=> status[r] = "waiting",
         kind = "running" <=> status[r] = "running", stale[r] > 0 => drop[r],
         status' = [status EXCEPT ![r] = "running"],
         UNCHANGED <<hist, version, computed, inFlight, stale, drop, finishedIds, batches>>,
         executed = Len(batches), UNCHANGED rankVars
  PROVE  Served'
<1>1. IInv /\ Typed /\ Rowed(batches) /\ computed[r] \in Nat
  BY DEF Life, Counters, Typed
<1> DEFINE start == computed[r]
<1>2. PICK w : /\ IsChunk(w, r, kind, start, blocks'[r])
               /\ plan'.rows = plan.rows \union {w}
               /\ \A q \in Requests \ {r} : blocks'[q] = blocks[q]
  BY <1>1, ScheduledRow
<1>3. DueCached' = DueCached /\ DueRow' = DueRow /\ DueCache' = DueCache
  BY <1>1, DueScheduling
<1>4. w.r = r /\ w.kind = kind /\ PlanRows(r) = {} /\ PlanRows(r)' = {w}
      /\ \A q \in Requests \ {r} : PlanRows(q)' = PlanRows(q)
  <2>1. w.r = r /\ w.kind = kind
    BY <1>2 DEF IsChunk
  <2>2. /\ \A q : q # w.r => PlanRows(q)' = PlanRows(q)
        /\ w.r \notin Planned => PlanRows(w.r) = {} /\ PlanRows(w.r)' = {w}
    BY <1>2, PlanRowsJoin
  <2>3. PlanRows(r) = {} /\ PlanRows(r)' = {w}
    BY <2>1, <2>2
  <2> QED  BY <2>1, <2>2, <2>3
<1>5. ASSUME NEW q \in Requests \ {r} PROVE Good(q)'
  <2>1. Good(q)
    BY DEF Served
  <2>2. Still(q)
    BY <1>1, <1>2 DEF Still, Typed
  <2> QED  BY <1>3, <1>4, <2>1, <2>2, Untouched
<1>6. status'[r] = "running" /\ Good(r)
  BY <1>1 DEF Served, Typed
<1>7. Unknown(r)' <=> Unknown(r)
  BY <1>4, <1>6 DEF Unknown
<1> DEFINE b == blocks[r]  h == hist[r]  x == Evicted(b, SkippedBlocks(start, w.n))  y == x \o w.new
<1>8. /\ b \in Seq(BlockIds \union {Null}) /\ h \in Seq(Int) /\ Len(h) \in Nat /\ start \in Nat
      /\ start < Len(h) /\ w.new \in Seq(BlockIds) /\ w.new \in Seq(BlockIds \union {Null})
      /\ blocks'[r] = y
  <2>1. b \in Seq(BlockIds \union {Null}) /\ h \in Seq(Int) /\ start \in Nat
    BY <1>1 DEF IInv, Tables, Typed
  <2>2. start < Len(h) /\ w.new \in Seq(BlockIds) /\ blocks'[r] = y
    BY <1>2 DEF IsChunk
  <2> HIDE DEF start, b, h, x, y
  <2>3. Len(h) \in Nat
    BY <2>1
  <2> DEFINE new == w.new
  <2>4. new \in Seq(BlockIds)
    BY <2>2
  <2> HIDE DEF new
  <2>5. new \in Seq(BlockIds \union {Null})
    BY <2>4
  <2> QED  BY <2>1, <2>2, <2>3, <2>5 DEF new
<1> HIDE DEF start, b, h, x, y
<1>9. /\ x \in Seq(BlockIds \union {Null}) /\ Len(x) = Len(b)
      /\ Emptied(x, b)
      /\ Thinner(y, b, start, h)
  <2> DEFINE new == w.new  n == w.n
  <2>1. x = Evicted(b, SkippedBlocks(start, n)) /\ new \in Seq(BlockIds) /\ y = x \o new
    BY <1>8 DEF x, y
  <2>2. b \in Seq(BlockIds \union {Null}) /\ start \in Nat /\ Len(h) \in Nat /\ start < Len(h)
    BY <1>8
  <2> HIDE DEF new, n
  <2>3. /\ x \in Seq(BlockIds \union {Null})
        /\ Emptied(x, b)
    BY <2>1, <2>2, EvictedTable
  <2>4. Thinner(x \o new, b, start, h)
    BY <2>1, <2>2, EvictedThinner
  <2> QED  BY <2>1, <2>3, <2>4 DEF Emptied
<1>10. Fits(r, y, start, h, DueCache)
  <2>1. Fits(r, b, start, h, DueCache)
    BY <1>1, <1>6, GoodFits DEF b, start, h, Typed
  <2>2. Len(b) \in Nat /\ Len(y) \in Nat
    BY <1>8, <1>9 DEF y
  <2> QED  BY <1>8, <1>9, <2>1, <2>2, FitsThinner
<1>11. Matches(y, NewTable(w, DueCached[r]))
  <2>1. CASE kind = "running"
    <3> DEFINE t == DueCached[r].blocks
    <3>1. Matches(b, t)
      BY <1>4, <1>6, <2>1 DEF Good, b
    <3>2. t \in Seq(BlockIds \union {Null})
      BY DEF Served, RankState
    <3>3. NewTable(w, DueCached[r]) = t \o w.new
      BY <1>4, <2>1 DEF NewTable
    <3> HIDE DEF t
    <3> DEFINE new == w.new
    <3>4. Matches(x \o new, t \o new)
      <4>1. new \in Seq(BlockIds \union {Null})
        BY <1>8
      <4> HIDE DEF new
      <4> QED  BY <1>8, <1>9, <3>1, <3>2, <4>1, MatchesCat
    <3> QED  BY <3>3, <3>4 DEF y
  <2>2. CASE kind # "running"
    <3>1. b = <<>> /\ NewTable(w, DueCached[r]) = w.new
      BY <1>4, <1>6, <2>2 DEF Good, b, NewTable
    <3>2. x = <<>>
      BY <1>9, <3>1
    <3>3. y = w.new
      BY <1>8, <3>2 DEF y
    <3> QED  BY <3>1, <3>3 DEF Matches
  <2> QED  BY <2>1, <2>2
<1>12. Chain(batches, r, TRUE, start, Len(h), version[r], Versioned(r)', inFlight[r], stale[r])
  <2>1. Chain(batches, r, status[r] = "running", start, Len(h), version[r], Versioned(r),
              inFlight[r], stale[r])
    BY <1>6 DEF Good, start, h
  <2>2. Chain(batches, r, TRUE, start, Len(h), version[r], Versioned(r), inFlight[r], stale[r])
    <3>1. CASE status[r] = "running"
      BY <2>1, <3>1
    <3>2. CASE status[r] # "running"
      <4>1. Chain(batches, r, FALSE, start, Len(h), version[r], Versioned(r), inFlight[r], stale[r])
        BY <2>1, <3>2
      <4> QED  BY <1>1, <1>8, <4>1, ChainResume
    <3> QED  BY <3>1, <3>2
  <2>3. \A p \in Len(h)..(start - 1) : p \in Versioned(r) => p \in Versioned(r)'
    BY <1>8
  <2> QED  BY <1>1, <1>8, <2>2, <2>3, ChainKept
<1>13. Right(w)'
  <2>1. IsChunk(w, r, kind, start, y) /\ w.new \in Seq(BlockIds \union {Null})
    BY <1>2, <1>8
  <2>2. start = computed'[w.r] /\ h = hist'[w.r] /\ hist[r] = h /\ version'[w.r] = version[r]
        /\ blocks'[w.r] = y
    BY <1>4, <1>8 DEF start, h
  <2>3. /\ w.new \in Seq(BlockIds \union {Null}) /\ w.kind \in {"new", "resumed", "running"}
        /\ w.start = computed'[w.r] /\ w.start < Len(h) /\ w.version = version'[w.r]
        /\ w.samples <=> w.start + w.n >= Len(h)
    BY <1>4, <2>1, <2>2 DEF IsChunk
  <2>4. IF w.samples THEN Len(h) + w.drafts = w.start + w.n ELSE w.drafts = 0
    BY <2>1, <2>2 DEF IsChunk
  <2>5. \A p \in 0..(w.start - 1) : w.before[p + 1] = h[p + 1]
    BY <2>1, <2>2 DEF IsChunk
  <2>6. \A p \in w.start..(w.start + w.n - 1) :
       w.tokens[p - w.start + 1] =
         IF p < Len(h) THEN h[p + 1] ELSE IF p < Len(h) + w.accepted THEN version'[w.r] ELSE Wrong
    BY <2>1, <2>2 DEF IsChunk
  <2>7. Len(blocks'[w.r]) * BlockSize >= w.start + w.n
    BY <2>1, <2>2 DEF IsChunk
  <2> QED  BY <2>2, <2>3, <2>4, <2>5, <2>6, <2>7, Zenon DEF Right
<1>14. Good(r)'
  <2>1. /\ DueRow'[r] = NoRow \/ DueRow'[r] = DueCached'[r].blocks
        /\ r \in finishedIds' => Unknown(r)'
        /\ Unknown(r)' /\ r \notin finishedIds' => DueRow'[r] = NoRow
    BY <1>3, <1>6, <1>7 DEF Good
  <2>2. /\ Len(hist'[r]) >= PromptLen
        /\ \A p \in 1..PromptLen :
            hist'[r][p] = IF Unknown(r)' THEN version'[r] ELSE DueCached'[r].version
    BY <1>3, <1>6, <1>7 DEF Good
  <2>3. Chain(batches', r, status'[r] = "running", computed'[r], Len(hist'[r]), version'[r],
              Versioned(r)', inFlight'[r], stale'[r])
    <3>1. /\ batches' = batches /\ (status'[r] = "running") = TRUE /\ computed'[r] = start
          /\ hist'[r] = h /\ version'[r] = version[r] /\ inFlight'[r] = inFlight[r]
          /\ stale'[r] = stale[r]
      BY <1>6 DEF start, h
    <3> QED  BY <1>12, <3>1
  <2>4. /\ PlanRows(r)' # {} /\ Fits(r, blocks'[r], computed'[r], hist'[r], DueCache')
        /\ stale'[r] > 0 => drop'[r]
    BY <1>3, <1>4, <1>8, <1>10 DEF start, h
  <2>5. \A v \in PlanRows(r)' :
          Right(v)' /\ PlanRows(r)' = {v} /\ Matches(blocks'[r], NewTable(v, DueCached'[r]))
    BY <1>3, <1>4, <1>8, <1>11, <1>13
  <2> QED  BY <1>6, <2>1, <2>2, <2>3, <2>4, <2>5, Zenon DEF Good
<1>15. \A q \in Requests : Good(q)'
  BY <1>5, <1>14
<1> QED  BY <1>1, <1>15, EngineServed

\* The two ways to be scheduled.
LEMMA ScheduleRunningServed ==
  ASSUME BlockAssumption, Life, Ran, Served, NEW r \in Requests, ScheduleRunning(r),
         executed = Len(batches), UNCHANGED rankVars
  PROVE  Served'
<1>1. /\ status[r] = "running" /\ r \notin Planned /\ Scheduled(r, "running", computed[r])
      /\ UNCHANGED <<requestVars, finishedIds, batches>>
  BY DEF ScheduleRunning
<1>2. status' = [status EXCEPT ![r] = "running"]
  BY <1>1 DEF requestVars, Life, Counters, Typed
<1>3. stale[r] > 0 => drop[r]
  <2>1. Good(r)
    BY DEF Served
  <2> QED  BY <1>1, <2>1, Zenon DEF Good
<1>4. UNCHANGED <<hist, version, computed, inFlight, stale, drop, finishedIds, batches>>
  BY <1>1 DEF requestVars
<1> DEFINE kind == "running"
<1>5. /\ kind \in {"new", "resumed", "running"} /\ Scheduled(r, kind, computed[r])
      /\ status[r] # "absent" /\ (kind = "new" <=> status[r] = "waiting")
      /\ (kind = "running" <=> status[r] = "running")
  BY <1>1
<1> HIDE DEF kind
<1> QED  BY <1>1, <1>2, <1>3, <1>4, <1>5, ScheduledServed

LEMMA ScheduleWaitingServed ==
  ASSUME BlockAssumption, Life, Ran, Served, NEW r \in Requests, ScheduleWaiting(r),
         executed = Len(batches), UNCHANGED rankVars
  PROVE  Served'
<1> DEFINE kind == IF status[r] = "waiting" THEN "new" ELSE "resumed"
<1>1. /\ status[r] \in {"waiting", "preempted"} /\ stale[r] > 0 => drop[r]
      /\ Scheduled(r, kind, 0) /\ status' = [status EXCEPT ![r] = "running"]
      /\ UNCHANGED <<hist, version, computed, inFlight, stale, drop, finishedIds, batches>>
  BY DEF ScheduleWaiting
<1>2. status[r] \in {"waiting", "preempted"} /\ (stale[r] > 0 => drop[r])
  BY DEF ScheduleWaiting
<1>3. computed[r] = 0
  <2>1. Good(r)
    BY DEF Served
  <2> QED  BY <1>2, <2>1, Zenon DEF Good
<1>4. r \notin Planned
  BY <1>2 DEF Life, PlanHeld, Planned
<1>5. /\ kind \in {"new", "resumed", "running"}
      /\ status[r] # "absent" /\ (kind = "new" <=> status[r] = "waiting")
      /\ (kind = "running" <=> status[r] = "running")
  BY <1>2
<1> HIDE DEF kind
<1>6. Scheduled(r, kind, computed[r])
  BY <1>1, <1>3
<1> QED  BY <1>1, <1>2, <1>4, <1>5, <1>6, ScheduledServed

\* r stops: it gives up its blocks, and all of its rows in flight are stale.
LEMMA StoppedGood ==
  ASSUME NEW r \in Requests, Rowed(batches), Good(r), status[r] = "running", PlanRows(r) = {},
         status'[r] = "preempted", blocks'[r] = <<>>, computed'[r] = 0, hist'[r] = hist[r],
         inFlight'[r] = inFlight[r], stale'[r] = inFlight[r], r \in finishedIds' <=> r \in finishedIds,
         PlanRows(r)' = {}, batches' = batches,
         DueCached' = DueCached, DueRow' = DueRow, DueCache' = DueCache
  PROVE  Good(r)'
<1>1. ~Unknown(r) /\ ~Unknown(r)'
  BY DEF Unknown
<1>2. /\ Len(hist[r]) >= PromptLen
      /\ \A p \in 1..PromptLen : hist[r][p] = DueCached[r].version
      /\ Chain(batches, r, TRUE, computed[r], Len(hist[r]), version[r], Versioned(r),
               inFlight[r], stale[r])
      /\ DueRow[r] = NoRow \/ DueRow[r] = DueCached[r].blocks
      /\ r \notin finishedIds
  BY <1>1 DEF Good
<1>3. Chain(batches, r, FALSE, computed'[r], Len(hist'[r]), version'[r], Versioned(r)',
            inFlight[r], inFlight[r])
  BY <1>2, ChainStop
<1>4. Chain(batches', r, status'[r] = "running", computed'[r], Len(hist'[r]), version'[r],
            Versioned(r)', inFlight'[r], stale'[r])
  BY <1>3
<1>5. /\ Len(hist'[r]) >= PromptLen
      /\ \A p \in 1..PromptLen :
           hist'[r][p] = IF Unknown(r)' THEN version'[r] ELSE DueCached'[r].version
  BY <1>1, <1>2
<1>6. /\ DueRow'[r] = NoRow \/ DueRow'[r] = DueCached'[r].blocks
      /\ r \notin finishedIds' /\ status'[r] # "running"
      /\ \A w \in PlanRows(r)' : FALSE
  BY <1>2
<1> QED  BY <1>1, <1>4, <1>5, <1>6, Zenon DEF Good

\* r loses what is behind its window.
LEMMA EvictedGood ==
  ASSUME BlockAssumption, Life, NEW r \in Requests, Good(r), status[r] = "running",
         PlanRows(r) = {}, computed[r] < Len(hist[r]), NEW n,
         status'[r] = status[r], hist'[r] = hist[r], version'[r] = version[r],
         computed'[r] = computed[r], inFlight'[r] = inFlight[r],
         stale'[r] = stale[r], drop'[r] = drop[r], r \in finishedIds' <=> r \in finishedIds,
         blocks'[r] = Evicted(blocks[r], SkippedBlocks(computed[r], n)),
         PlanRows(r)' = {}, batches' = batches,
         DueCached' = DueCached, DueRow' = DueRow, DueCache' = DueCache, Served
  PROVE  Good(r)'
<1>1. /\ Rowed(batches) /\ blocks[r] \in Seq(BlockIds \union {Null}) /\ computed[r] \in Nat
      /\ hist[r] \in Seq(Int)
  BY DEF Life, IInv, Tables, Counters, Typed
<1> DEFINE b == blocks[r]  c == computed[r]  h == hist[r]  x == blocks'[r]  t == DueCached[r].blocks
<1>2. /\ ~Unknown(r) /\ ~Unknown(r)'
  BY DEF Unknown
<1>3. /\ Len(h) >= PromptLen
      /\ \A p \in 1..PromptLen : h[p] = DueCached[r].version
      /\ Chain(batches, r, TRUE, c, Len(h), version[r], Versioned(r), inFlight[r], stale[r])
      /\ DueRow[r] = NoRow \/ DueRow[r] = t
      /\ r \notin finishedIds /\ Matches(b, t) /\ Fits(r, b, c, h, DueCache)
      /\ stale[r] > 0 => drop[r]
  BY <1>2 DEF Good
<1>4. /\ b \in Seq(BlockIds \union {Null}) /\ Len(b) \in Nat /\ c \in Nat /\ Len(h) \in Nat
      /\ c < Len(h) /\ x = Evicted(b, SkippedBlocks(c, n)) /\ t \in Seq(BlockIds \union {Null})
  <2>1. DueCached[r] \in RankState
    BY DEF Served
  <2>2. t \in Seq(BlockIds \union {Null})
    BY <2>1 DEF RankState
  <2>3. b \in Seq(BlockIds \union {Null}) /\ Len(b) \in Nat /\ c \in Nat /\ Len(h) \in Nat
    BY <1>1
  <2> QED  BY <2>2, <2>3
<1>5. /\ x \in Seq(BlockIds \union {Null}) /\ Emptied(x, b) /\ Thinner(x, b, c, h)
  <2> HIDE DEF b, c, h, x
  <2> QED  BY <1>4, EvictedTable
<1>6. Fits(r, x, c, h, DueCache)
  <2>1. Len(x) \in Nat
    BY <1>5
  <2> HIDE DEF b, c, h, x
  <2> QED  BY <1>3, <1>4, <1>5, <2>1, FitsThinner
<1>7. Matches(x, t)
  <2> DEFINE T == BlockIds \union {Null}  new == <<>>
  <2>1. new \in Seq(T) /\ b \in Seq(T) /\ x \in Seq(T) /\ t \in Seq(T)
    BY <1>4, <1>5
  <2> HIDE DEF b, x, t, T, new
  <2> QED  BY <1>3, <1>5, <2>1, MatchesCat
<1>8. Chain(batches, r, TRUE, c, Len(h), version[r], Versioned(r)', inFlight[r], stale[r])
  <2>1. \A p \in Len(h)..(c - 1) : p \in Versioned(r) => p \in Versioned(r)'
    BY <1>4
  <2> DEFINE l == Len(h)  v == version[r]  Z == Versioned(r)  Y == Versioned(r)'
             fl == inFlight[r]  st == stale[r]
  <2>2. Chain(batches, r, TRUE, c, l, v, Z, fl, st) /\ l \in Nat /\ c \in Nat
    BY <1>3, <1>4
  <2> HIDE DEF c, h, l, v, Z, Y, fl, st
  <2>3. \A p \in l..(c - 1) : p \in Z => p \in Y
    BY <2>1 DEF l, Z, Y
  <2>4. Chain(batches, r, TRUE, c, l, v, Y, fl, st)
    BY <1>1, <2>2, <2>3, ChainKept
  <2> QED  BY <2>4 DEF l, v, Y, fl, st
<1>9. Chain(batches', r, status'[r] = "running", computed'[r], Len(hist'[r]), version'[r],
            Versioned(r)', inFlight'[r], stale'[r])
  BY <1>8
<1>10. /\ Len(hist'[r]) >= PromptLen
       /\ \A p \in 1..PromptLen :
            hist'[r][p] = IF Unknown(r)' THEN version'[r] ELSE DueCached'[r].version
  BY <1>2, <1>3
<1>11. /\ DueRow'[r] = NoRow \/ DueRow'[r] = DueCached'[r].blocks
       /\ r \notin finishedIds' /\ status'[r] = "running"
       /\ \A w \in PlanRows(r)' : FALSE
       /\ Matches(blocks'[r], DueCached'[r].blocks)
       /\ Fits(r, blocks'[r], computed'[r], hist'[r], DueCache')
       /\ stale'[r] > 0 => drop'[r]
  BY <1>3, <1>6, <1>7
<1> QED  BY <1>2, <1>9, <1>10, <1>11, Zenon DEF Good

LEMMA PreemptServed ==
  ASSUME BlockAssumption, Life, Ran, Served, NEW q \in Requests, NEW r \in Requests, Preempt(q, r),
         executed = Len(batches), UNCHANGED rankVars
  PROVE  Served'
<1>1. IInv /\ Typed /\ Rowed(batches)
  BY DEF Life, Counters
<1>2. PICK chunk \in Chunks(q, computed[q]) :
        Freed({r}, [blocks EXCEPT ![q] = Pool(q, computed[q], chunk.n).table],
              Pool(q, computed[q], chunk.n).pool, deferred, lastSeq, schedSeq)
  BY Zenon DEF Preempt
<1>3. /\ status[q] = "running" /\ status[r] = "running" /\ q \notin Planned /\ r \notin Planned
      /\ status' = [status EXCEPT ![r] = "preempted"]
      /\ computed' = [computed EXCEPT ![r] = 0]
      /\ drop' = [drop EXCEPT ![r] = @ /\ stale[r] > 0]
      /\ stale' = [stale EXCEPT ![r] = inFlight[r]]
      /\ plan' = [plan EXCEPT !.preempted = TRUE]
      /\ UNCHANGED <<hist, version, inFlight, finishedIds, batches>>
  BY DEF Preempt
<1> DEFINE table == Evicted(blocks[q], SkippedBlocks(computed[q], chunk.n))
<1>4. Pool(q, computed[q], chunk.n).table = table
  BY DEF Pool
<1>5. blocks' = [o \in Requests |-> IF o \in {r} THEN <<>> ELSE [blocks EXCEPT ![q] = table][o]]
  <2> DEFINE T == [blocks EXCEPT ![q] = table]  P == Pool(q, computed[q], chunk.n).pool
  <2>1. Freed({r}, T, P, deferred, lastSeq, schedSeq)
    BY <1>2, <1>4
  <2> HIDE DEF T, P
  <2>2. blocks' = [o \in Requests |-> IF o \in {r} THEN <<>> ELSE T[o]]
    BY <2>1 DEF Freed
  <2> QED  BY <2>2 DEF T
<1>6. plan'.rows = plan.rows
  BY <1>1, <1>3 DEF Typed
<1>7. \A o \in Requests : PlanRows(o)' = PlanRows(o)
  BY <1>6 DEF PlanRows
<1>8. PlanRows(q) = {} /\ PlanRows(r) = {}
  BY <1>3 DEF PlanRows, Planned
<1>9. computed[q] < Len(hist[q]) /\ computed[q] \in Nat
  <2>1. computed[q] \in Nat
    BY <1>1 DEF Typed
  <2> QED  BY <1>1, <2>1, ChunkDrafts
<1>10. DueCached' = DueCached /\ DueRow' = DueRow /\ DueCache' = DueCache
  BY <1>1, <1>3, DueScheduling
<1>11. DOMAIN blocks = Requests /\ DOMAIN status = Requests /\ DOMAIN computed = Requests
       /\ DOMAIN stale = Requests
  BY <1>1 DEF IInv, Tables, Typed
<1> HIDE DEF table
<1>12. \A o \in Requests : Good(o)
  BY DEF Served
<1>13. Good(r)'
  <2>1. status'[r] = "preempted" /\ computed'[r] = 0 /\ stale'[r] = inFlight[r] /\ blocks'[r] = <<>>
    BY <1>3, <1>5, <1>11
  <2> QED  BY <1>1, <1>3, <1>7, <1>8, <1>10, <1>12, <2>1, StoppedGood
<1>14. ASSUME NEW o \in Requests, o # r
       PROVE  /\ status'[o] = status[o] /\ hist'[o] = hist[o] /\ version'[o] = version[o]
              /\ computed'[o] = computed[o] /\ inFlight'[o] = inFlight[o]
              /\ stale'[o] = stale[o] /\ drop'[o] = drop[o]
              /\ o \in finishedIds' <=> o \in finishedIds
              /\ blocks'[o] = IF o = q THEN table ELSE blocks[o]
  BY <1>3, <1>5, <1>11, <1>14
<1>15. ASSUME NEW o \in Requests, o # r, o # q PROVE Good(o)'
  <2>1. Still(o)
    BY <1>14, <1>15 DEF Still
  <2> QED  BY <1>3, <1>7, <1>10, <1>12, <2>1, Untouched
<1>16. ASSUME q # r PROVE Good(q)'
  <2>1. /\ status'[q] = status[q] /\ hist'[q] = hist[q] /\ version'[q] = version[q]
        /\ computed'[q] = computed[q] /\ inFlight'[q] = inFlight[q]
        /\ stale'[q] = stale[q] /\ drop'[q] = drop[q] /\ (q \in finishedIds' <=> q \in finishedIds)
        /\ blocks'[q] = table
    BY <1>14, <1>16
  <2> DEFINE n == chunk.n
  <2>2. blocks'[q] = Evicted(blocks[q], SkippedBlocks(computed[q], n))
    BY <2>1 DEF table
  <2>3. PlanRows(q) = {} /\ PlanRows(q)' = {} /\ Good(q) /\ batches' = batches
    BY <1>3, <1>7, <1>8, <1>12
  <2> HIDE DEF n
  <2> QED  BY <1>3, <1>9, <1>10, <2>1, <2>2, <2>3, EvictedGood
<1>17. \A o \in Requests : Good(o)'
  BY <1>13, <1>15, <1>16
<1> QED  BY <1>1, <1>3, <1>17, EngineServed

---------------------------------------------------------------------------
(* A batch is issued *)

\* What the batch b, made of the plan, makes of the rank.
Placing(b) ==
  /\ b.rows = plan.rows /\ b.finished = finishedIds
  /\ DueCached' \in [Requests -> RankState]
  /\ \A w \in plan.rows :
       /\ w.r \in Requests /\ status[w.r] = "running" /\ RowFacts(w) /\ Right(w)
       /\ PlanRows(w.r) = {w} /\ Has(b, w.r) /\ RowOf(b, w.r) = w
       /\ DueRow'[w.r] = DueCached'[w.r].blocks /\ Matches(blocks[w.r], DueRow'[w.r])
       /\ DueCached'[w.r].version = IF w.kind = "new" THEN w.version ELSE DueCached[w.r].version
       /\ w.kind = "new" <=> Unknown(w.r)
  /\ \A r \in Requests : PlanRows(r) = {} =>
       /\ ~Has(b, r) /\ DueRow'[r] = NoRow
       /\ DueCached'[r] = IF r \in finishedIds THEN Absent ELSE DueCached[r]
  /\ DueCache' = Written(Writes(b, DueRow'), DueCache)

LEMMA IssuePlacing ==
  ASSUME BlockAssumption, Life, Ran, Served, executed = Len(batches), UNCHANGED rankVars,
         NEW b, b.rows = plan.rows, b.finished = finishedIds, batches' = Append(batches, b)
  PROVE  /\ Placing(b)
         /\ Newest' = b /\ executed' >= Len(batches') - 1
<1>1. Rowed(batches)
  BY DEF Life, Counters
<1>2. /\ DueCached = cached /\ DueRow = row /\ DueCache = cache
      /\ DueCached' = NextCached(b) /\ DueRow' = NextRow(b)
      /\ DueCache' = Written(Writes(b, NextRow(b)), cache)
      /\ Newest' = b /\ executed' >= Len(batches') - 1
  BY <1>1, DueIssue
<1>3. \A r \in Requests : Good(r)
  BY DEF Served
<1>4. ASSUME NEW w \in plan.rows
      PROVE  /\ w.r \in Requests /\ status[w.r] = "running" /\ RowFacts(w) /\ Right(w)
             /\ PlanRows(w.r) = {w} /\ Matches(blocks[w.r], NewTable(w, cached[w.r]))
             /\ (w.kind = "new" <=> Unknown(w.r))
             /\ IsRow(w)
  <2>1. w.r \in Requests /\ status[w.r] = "running" /\ RowFacts(w)
    BY DEF Life, PlanHeld
  <2>2. w \in PlanRows(w.r)
    BY DEF PlanRows
  <2>3. Right(w) /\ PlanRows(w.r) = {w} /\ Matches(blocks[w.r], NewTable(w, cached[w.r]))
    BY <1>2, <1>3, <2>1, <2>2, Zenon DEF Good
  <2>4. w.kind = "new" <=> Unknown(w.r)
    BY <2>1, <2>3 DEF Unknown
  <2>5. IsRow(w)
    BY <2>1, <2>3, Zenon DEF Right, RowFacts, IsRow
  <2> QED  BY <2>1, <2>3, <2>4, <2>5
<1>5. \A v, w \in b.rows : v.r = w.r => v = w
  <2> SUFFICES ASSUME NEW v \in b.rows, NEW w \in b.rows, v.r = w.r PROVE v = w
    OBVIOUS
  <2>1. PlanRows(v.r) = {v} /\ PlanRows(w.r) = {w}
    BY <1>4
  <2> QED  BY <2>1
<1>6. \A w \in b.rows :
        /\ IsRow(w)
        /\ w.kind # "new" => w.r \notin b.finished
        /\ w.kind = "new" => w.r \in b.finished \/ row[w.r] = NoRow
  <2> SUFFICES ASSUME NEW w \in plan.rows
               PROVE  /\ IsRow(w)
                      /\ w.kind # "new" => w.r \notin finishedIds
                      /\ w.kind = "new" => w.r \in finishedIds \/ row[w.r] = NoRow
    OBVIOUS
  <2>1. /\ w.r \in finishedIds => Unknown(w.r)
        /\ Unknown(w.r) /\ w.r \notin finishedIds => row[w.r] = NoRow
    BY <1>2, <1>3, <1>4, Zenon DEF Good
  <2> QED  BY <1>4, <2>1
<1>7. \A r \in Requests : row[r] = NoRow \/ row[r] = cached[r].blocks
  BY <1>2, <1>3, Zenon DEF Good
<1>8. cached \in [Requests -> RankState]
  BY <1>2 DEF Served
<1>9. /\ NextCached(b) \in [Requests -> RankState]
      /\ \A w \in b.rows :
           /\ NextCached(b)[w.r].blocks = NewTable(w, cached[w.r])
           /\ NextCached(b)[w.r].version = IF w.kind = "new" THEN w.version ELSE cached[w.r].version
           /\ NextRow(b)[w.r] = NextCached(b)[w.r].blocks
      /\ \A r \in Requests :
           ~Has(b, r) => /\ NextCached(b)[r] = IF r \in b.finished THEN Absent ELSE cached[r]
                         /\ NextRow(b)[r] = NoRow
  BY <1>5, <1>6, <1>7, <1>8, NextTables
<1>10. ASSUME NEW w \in plan.rows
       PROVE  /\ w.r \in Requests /\ status[w.r] = "running" /\ RowFacts(w) /\ Right(w)
              /\ PlanRows(w.r) = {w} /\ Has(b, w.r) /\ RowOf(b, w.r) = w
              /\ DueRow'[w.r] = DueCached'[w.r].blocks /\ Matches(blocks[w.r], DueRow'[w.r])
              /\ DueCached'[w.r].version =
                   IF w.kind = "new" THEN w.version ELSE DueCached[w.r].version
              /\ (w.kind = "new" <=> Unknown(w.r))
  <2>1. Has(b, w.r) /\ RowOf(b, w.r) = w
    BY <1>5, TheRow
  <2>2. /\ NextCached(b)[w.r].blocks = NewTable(w, cached[w.r])
        /\ NextCached(b)[w.r].version = IF w.kind = "new" THEN w.version ELSE cached[w.r].version
        /\ NextRow(b)[w.r] = NextCached(b)[w.r].blocks
    BY <1>9
  <2>3. Matches(blocks[w.r], NextRow(b)[w.r])
    BY <1>4, <2>2
  <2> QED  BY <1>2, <1>4, <2>1, <2>2, <2>3
<1>11. ASSUME NEW r \in Requests, PlanRows(r) = {}
       PROVE  /\ ~Has(b, r) /\ DueRow'[r] = NoRow
              /\ DueCached'[r] = IF r \in finishedIds THEN Absent ELSE DueCached[r]
  <2>1. ~Has(b, r)
    BY <1>11 DEF PlanRows, Has
  <2> QED  BY <1>2, <1>9, <2>1
<1>12. DueCached' \in [Requests -> RankState] /\ DueCache' = Written(Writes(b, DueRow'), DueCache)
  BY <1>2, <1>9
<1>13. Placing(b)
  BY <1>10, <1>11, <1>12, Zenon DEF Placing
<1> QED  BY <1>2, <1>13

\* Evicted blocks are behind the window of the next token, and hold no position from there.
LEMMA NotNull ==
  ASSUME BlockAssumption, NEW r, NEW b, Len(b) \in Nat, NEW c \in Nat, NEW h, NEW m,
         Fits(r, b, c, h, m), NEW p \in Nat, p > c - Window, p < Len(b) * BlockSize
  PROVE  (p \div BlockSize) + 1 \in 1..Len(b) /\ b[(p \div BlockSize) + 1] # Null
<1> DEFINE i == (p \div BlockSize) + 1
<1>1. i \in 1..Len(b)
  BY RoomFor
<1>2. p < i * BlockSize
  BY BlockOf
<1>3. i \in Nat /\ BlockSize \in Nat /\ Window \in Nat
  BY <1>1 DEF BlockAssumption
<1> HIDE DEF i
<1>4. ASSUME b[i] = Null PROVE FALSE
  <2>1. i * BlockSize + Window <= c + 1
    BY <1>1, <1>4 DEF Fits
  <2> DEFINE x == i * BlockSize
  <2>2. x \in Nat
    BY <1>3
  <2>3. p < x /\ x + Window <= c + 1
    BY <1>2, <2>1
  <2> HIDE DEF x
  <2> QED  BY <1>3, <2>2, <2>3
<1> QED  BY <1>1, <1>4 DEF i

\* The slots that a row writes are its request's.
LEMMA WriteSlots ==
  ASSUME BlockAssumption, Life, Served, NEW b, Placing(b), NEW w \in plan.rows, NEW p \in Positions(w)
  PROVE  /\ p \in Nat /\ w.start <= p /\ p < w.start + w.n /\ w.start = computed[w.r]
         /\ (p \div BlockSize) + 1 \in 1..Len(blocks[w.r])
         /\ blocks[w.r][(p \div BlockSize) + 1] # Null
         /\ SlotOf(DueRow'[w.r], p) = SlotOf(blocks[w.r], p)
<1> DEFINE r == w.r  c == computed[r]  t == blocks[r]
<1>1. /\ r \in Requests /\ status[r] = "running" /\ RowFacts(w) /\ Right(w)
      /\ Matches(t, DueRow'[r])
  BY DEF Placing
<1>2. c \in Nat /\ t \in Seq(BlockIds \union {Null})
  <2>1. Typed /\ blocks \in Tables
    BY DEF Life, IInv, Counters
  <2> QED  BY <1>1, <2>1 DEF Tables, Typed
<1>3. w.start = c /\ Len(t) * BlockSize >= w.start + w.n
  BY <1>1 DEF Right
<1>4. w.n \in Nat /\ Window \in Nat /\ Window > 0 /\ BlockSize \in Nat /\ Len(t) \in Nat
  <2>1. w.n \in Nat
    BY <1>1 DEF RowFacts
  <2>2. Window \in Nat /\ Window > 0 /\ BlockSize \in Nat
    BY DEF BlockAssumption
  <2> HIDE DEF t
  <2>3. Len(t) \in Nat
    BY <1>2
  <2> QED  BY <2>1, <2>2, <2>3
<1>5. p \in Nat /\ w.start <= p /\ p < w.start + w.n
  <2> DEFINE x == w.start  n == w.n
  <2>1. x \in Nat /\ n \in Nat /\ p \in x..(x + n - 1)
    BY <1>2, <1>3, <1>4 DEF Positions
  <2> HIDE DEF x, n
  <2>2. p \in Nat /\ x <= p /\ p < x + n
    BY <2>1
  <2> QED  BY <2>2 DEF x, n
<1>6. Fits(r, t, c, hist[r], DueCache)
  BY <1>1, Zenon DEF Served, Good
<1> HIDE DEF r, c, t
<1>7. p > c - Window /\ p < Len(t) * BlockSize
  <2> DEFINE x == Len(t) * BlockSize
  <2>1. x \in Nat /\ x >= c + w.n
    BY <1>3, <1>4
  <2> HIDE DEF x
  <2>2. p > c - Window /\ p < x
    BY <1>2, <1>3, <1>4, <1>5, <2>1
  <2> QED  BY <2>2 DEF x
<1>8. (p \div BlockSize) + 1 \in 1..Len(t) /\ t[(p \div BlockSize) + 1] # Null
  BY <1>2, <1>4, <1>5, <1>6, <1>7, NotNull
<1>9. DueRow'[r][(p \div BlockSize) + 1] = t[(p \div BlockSize) + 1]
  BY <1>1, <1>8 DEF Matches, t, r
<1> QED  BY <1>3, <1>5, <1>8, <1>9 DEF SlotOf, r, c, t

\* A position of a table that no row being issued writes keeps what it holds.
LEMMA KeptHolds ==
  ASSUME BlockAssumption, Life, Served, NEW b, Placing(b), NEW r \in Requests, NEW p \in Nat,
         p < Len(blocks[r]) * BlockSize, \A w \in PlanRows(r) : p \notin Positions(w),
         NEW y, Holds(blocks[r], DueCache, p, y)
  PROVE  Holds(blocks[r], DueCache', p, y)
<1> DEFINE i == (p \div BlockSize) + 1  s == SlotOf(blocks[r], p)  t == DueRow'
<1>1. Len(blocks[r]) \in Nat
  BY DEF Life, IInv, Tables
<1>2. i \in 1..Len(blocks[r])
  BY <1>1, RoomFor
<1>3. ASSUME blocks[r][i] # Null PROVE DueCache'[s] = DueCache[s]
  <2>1. s \in Slots
    BY <1>2, <1>3, OwnSlots DEF Life
  <2>2. ASSUME NEW v \in b.rows, NEW k \in Positions(v) PROVE SlotOf(t[v.r], k) # s
    <3>1. v \in plan.rows /\ v.r \in Requests
      BY DEF Placing
    <3>2. /\ k \in Nat /\ (k \div BlockSize) + 1 \in 1..Len(blocks[v.r])
          /\ SlotOf(t[v.r], k) = SlotOf(blocks[v.r], k)
      BY <3>1, WriteSlots
    <3>3. ASSUME SlotOf(blocks[v.r], k) = s PROVE FALSE
      <4>1. r = v.r /\ p = k
        <5> DEFINE q == v.r
        <5>1. /\ q \in Requests /\ k \in Nat /\ (k \div BlockSize) + 1 \in 1..Len(blocks[q])
              /\ SlotOf(blocks[r], p) = SlotOf(blocks[q], k) /\ IInv
              /\ (p \div BlockSize) + 1 \in 1..Len(blocks[r])
              /\ blocks[r][(p \div BlockSize) + 1] # Null
              /\ r \in Requests /\ p \in Nat
          <6>1. IInv
            BY DEF Life
          <6>2. SlotOf(blocks[r], p) = SlotOf(blocks[q], k)
            BY <3>3
          <6> QED  BY <1>2, <1>3, <3>1, <3>2, <6>1, <6>2, Zenon
        <5> HIDE DEF q, s, i
        <5>2. r = q /\ p = k
          BY ONLY <5>1, BlockAssumption, OwnSlots
        <5> QED  BY <5>2 DEF q
      <4>2. v \in PlanRows(r)
        BY <3>1, <4>1 DEF PlanRows
      <4> QED  BY <4>1, <4>2
    <3> QED  BY <3>2, <3>3
  <2>3. DueCache' = Written(Writes(b, t), DueCache)
    BY DEF Placing
  <2> HIDE DEF s, t
  <2> QED  BY <2>1, <2>2, <2>3, WrittenFacts
<1> QED  BY <1>3 DEF Holds

\* A position that a row writes holds its token.
LEMMA WrittenHolds ==
  ASSUME BlockAssumption, Life, Served, NEW b, Placing(b), NEW w \in plan.rows, NEW p \in Positions(w)
  PROVE  Holds(blocks[w.r], DueCache', p, TokenAt(w, p))
<1> DEFINE r == w.r  i == (p \div BlockSize) + 1  s == SlotOf(blocks[r], p)  t == DueRow'
<1>1. /\ p \in Nat /\ i \in 1..Len(blocks[r]) /\ blocks[r][i] # Null /\ SlotOf(t[r], p) = s
      /\ r \in Requests
  <2>1. r \in Requests
    BY DEF Placing
  <2>2. /\ p \in Nat /\ (p \div BlockSize) + 1 \in 1..Len(blocks[w.r])
        /\ blocks[w.r][(p \div BlockSize) + 1] # Null
        /\ SlotOf(DueRow'[w.r], p) = SlotOf(blocks[w.r], p)
    BY WriteSlots, Zenon
  <2> QED  BY <2>1, <2>2, Zenon
<1>2. s \in Slots
  BY <1>1, OwnSlots DEF Life
<1>3. ASSUME NEW v \in b.rows, NEW k \in Positions(v), SlotOf(t[v.r], k) = s PROVE v = w /\ k = p
  <2>1. v \in plan.rows /\ v.r \in Requests
    BY DEF Placing
  <2>2. /\ k \in Nat /\ (k \div BlockSize) + 1 \in 1..Len(blocks[v.r])
        /\ SlotOf(t[v.r], k) = SlotOf(blocks[v.r], k)
    BY <2>1, WriteSlots
  <2>3. r = v.r /\ p = k
    <3> DEFINE q == v.r
    <3>1. /\ q \in Requests /\ k \in Nat /\ (k \div BlockSize) + 1 \in 1..Len(blocks[q])
          /\ SlotOf(blocks[r], p) = SlotOf(blocks[q], k) /\ IInv
          /\ (p \div BlockSize) + 1 \in 1..Len(blocks[r])
          /\ blocks[r][(p \div BlockSize) + 1] # Null /\ r \in Requests /\ p \in Nat
      BY <1>1, <1>3, <2>1, <2>2 DEF Life
    <3> HIDE DEF q, s, i, r
    <3>2. r = q /\ p = k
      BY <3>1, OwnSlots
    <3> QED  BY <3>2 DEF q, r
  <2>4. v \in PlanRows(r) /\ PlanRows(r) = {w}
    BY <2>1, <2>3 DEF PlanRows, Placing
  <2> QED  BY <2>3, <2>4
<1>4. DueCache' = Written(Writes(b, t), DueCache) /\ w \in b.rows
  BY DEF Placing
<1> HIDE DEF s, t, i
<1>5. Written(Writes(b, t), DueCache)[s] = TokenAt(w, p)
  BY <1>1, <1>2, <1>3, <1>4, WrittenFacts DEF r
<1> QED  BY <1>4, <1>5 DEF Holds, s

\* Of a request that has been scheduled all tokens known are in its slots, up to the last one
\* scheduled, and so are the drafts that are right.
LEMMA PlacedFits ==
  ASSUME BlockAssumption, Life, Served, NEW b, Placing(b), NEW w \in plan.rows
  PROVE  /\ Fits(w.r, blocks[w.r], computed[w.r] + w.n, hist[w.r], DueCache')
         /\ \A k \in 1..w.accepted : w.samples =>
              Holds(blocks[w.r], DueCache', Len(hist[w.r]) + k - 1,
                    <<w.r, Len(hist[w.r]) + k - 1, version[w.r]>>)
<1> DEFINE r == w.r  c == computed[r]  h == hist[r]  t == blocks[r]  M == DueCache'
<1>1. r \in Requests /\ status[r] = "running" /\ RowFacts(w) /\ Right(w) /\ PlanRows(r) = {w}
  BY DEF Placing
<1>2. c \in Nat /\ t \in Seq(BlockIds \union {Null}) /\ h \in Seq(Int)
  BY <1>1 DEF Life, IInv, Tables, Counters, Typed
<1>3. /\ w.n \in Nat /\ w.n > 0 /\ w.drafts \in Nat /\ w.accepted \in 0..w.drafts
      /\ Window \in Nat /\ BlockSize \in Nat
      /\ Len(t) \in Nat /\ Len(h) \in Nat /\ Len(t) * BlockSize \in Nat
  <2>1. Window \in Nat /\ BlockSize \in Nat
    BY DEF BlockAssumption
  <2>2. w.n \in Nat /\ w.n > 0 /\ w.drafts \in Nat /\ w.accepted \in 0..w.drafts
    BY <1>1 DEF RowFacts
  <2> HIDE DEF t, h
  <2>3. Len(t) \in Nat /\ Len(h) \in Nat
    BY <1>2
  <2> DEFINE x == Len(t)
  <2>4. x \in Nat
    BY <2>3
  <2> HIDE DEF x
  <2>5. x * BlockSize \in Nat
    BY <2>1, <2>4
  <2> QED  BY <2>1, <2>2, <2>3, <2>5 DEF x
<1>4. /\ w.start = c /\ c < Len(h) /\ Len(t) * BlockSize >= w.start + w.n
      /\ w.samples => Len(h) + w.drafts = c + w.n
      /\ \A p \in c..(c + w.n - 1) :
           w.tokens[p - c + 1] =
             IF p < Len(h) THEN h[p + 1] ELSE IF p < Len(h) + w.accepted THEN version[r] ELSE Wrong
  <2>1. /\ w.start = c /\ c < Len(h) /\ Len(t) * BlockSize >= w.start + w.n
        /\ w.samples => Len(h) + w.drafts = c + w.n
    BY <1>1 DEF Right
  <2>2. \A p \in w.start..(w.start + w.n - 1) :
           w.tokens[p - w.start + 1] =
             IF p < Len(h) THEN h[p + 1] ELSE IF p < Len(h) + w.accepted THEN version[r] ELSE Wrong
    BY <1>1, Zenon DEF Right
  <2> HIDE DEF c, h, t, r, M
  <2>3. \A p \in c..(c + w.n - 1) :
           w.tokens[p - c + 1] =
             IF p < Len(h) THEN h[p + 1] ELSE IF p < Len(h) + w.accepted THEN version[r] ELSE Wrong
    BY <2>1, <2>2
  <2>4. w.samples => Len(h) + w.drafts = c + w.n
    BY <2>1
  <2> QED  BY <2>1, <2>3, <2>4
<1>5. Fits(r, t, c, h, DueCache)
  BY <1>1, Zenon DEF Served, Good
<1>6. ASSUME NEW p \in c..(c + w.n - 1)
      PROVE  Holds(t, M, p, <<r, p, w.tokens[p - c + 1]>>)
  <2>1. p \in Positions(w) /\ TokenAt(w, p) = <<r, p, w.tokens[p - c + 1]>>
    BY <1>4 DEF Positions, TokenAt
  <2> QED  BY <2>1, WrittenHolds
<1>7. ASSUME NEW p \in 0..(c - 1), p < Len(h) PROVE Holds(t, M, p, <<r, p, h[p + 1]>>)
  <2>1. Holds(t, DueCache, p, <<r, p, h[p + 1]>>)
    BY <1>5, <1>7 DEF Fits
  <2>2. p \in Nat /\ p < Len(t) * BlockSize /\ p \notin Positions(w)
    <3> DEFINE x == Len(t) * BlockSize
    <3>1. x \in Nat /\ x >= c + w.n /\ w.start = c
      BY <1>3, <1>4
    <3> HIDE DEF x, c
    <3>2. p \in Nat /\ p < x /\ p \notin Positions(w)
      BY <1>2, <1>3, <1>7, <3>1 DEF Positions
    <3> QED  BY <3>2 DEF x
  <2>3. \A v \in PlanRows(r) : p \notin Positions(v)
    BY <1>1, <2>2
  <2> QED  BY <1>1, <2>1, <2>2, <2>3, KeptHolds
<1> HIDE DEF r, c, h, t, M
<1>8. \A p \in 0..(c + w.n - 1) : p < Len(h) => Holds(t, M, p, <<r, p, h[p + 1]>>)
  <2> SUFFICES ASSUME NEW p \in 0..(c + w.n - 1), p < Len(h)
               PROVE  Holds(t, M, p, <<r, p, h[p + 1]>>)
    OBVIOUS
  <2>1. CASE p < c
    <3>1. p \in 0..(c - 1)
      BY <1>2, <1>3, <2>1
    <3> QED  BY <1>7, <3>1
  <2>2. CASE ~(p < c)
    <3>1. p \in c..(c + w.n - 1)
      BY <1>2, <1>3, <2>2
    <3>2. w.tokens[p - c + 1] = h[p + 1]
      BY <1>4, <3>1
    <3> QED  BY <1>6, <3>1, <3>2
  <2> QED  BY <2>1, <2>2
<1>9. ASSUME NEW i \in 1..Len(t), t[i] = Null
      PROVE  i * BlockSize + Window <= c + w.n + 1 /\ i * BlockSize + Window <= Len(h) + 1
  <2>1. i * BlockSize + Window <= c + 1 /\ i * BlockSize + Window <= Len(h) + 1
    BY <1>5, <1>9 DEF Fits
  <2>2. i * BlockSize \in Nat
    BY <1>3
  <2> DEFINE x == i * BlockSize  n == w.n
  <2>3. x + Window <= c + 1
    BY <2>1
  <2>4. x + Window <= c + n + 1
    <3>1. x \in Nat /\ n \in Nat /\ Window \in Nat /\ c \in Nat
      BY <1>2, <1>3, <2>2
    <3> HIDE DEF x, n, c
    <3> QED  BY <2>3, <3>1
  <2> QED  BY <2>1, <2>4 DEF x
<1>10. Len(t) * BlockSize >= c + w.n
  BY <1>4
<1>11. Fits(r, t, c + w.n, h, M)
  <2> DEFINE e == c + w.n
  <2>1. \A i \in 1..Len(t) :
          t[i] = Null => i * BlockSize + Window <= e + 1 /\ i * BlockSize + Window <= Len(h) + 1
    BY <1>9
  <2>2. e - 1 = c + w.n - 1
    BY <1>2, <1>3
  <2>3. Len(t) * BlockSize >= e
    BY <1>10
  <2> HIDE DEF e
  <2>4. \A p \in 0..(e - 1) : p < Len(h) => Holds(t, M, p, <<r, p, h[p + 1]>>)
    BY <1>8, <2>2
  <2>5. Fits(r, t, e, h, M)
    BY <2>1, <2>3, <2>4, Zenon DEF Fits
  <2> QED  BY <2>5 DEF e
<1>12. ASSUME NEW k \in 1..w.accepted, w.samples
       PROVE  Holds(t, M, Len(h) + k - 1, <<r, Len(h) + k - 1, version[r]>>)
  <2> DEFINE p == Len(h) + k - 1
  <2>1. /\ p \in c..(c + w.n - 1) /\ ~(p < Len(h)) /\ p < Len(h) + w.accepted
    <3> DEFINE l == Len(h)
    <3>1. /\ l \in Nat /\ c < l /\ l + w.drafts = c + w.n /\ k \in 1..w.accepted
          /\ w.n \in Nat /\ w.drafts \in Nat /\ w.accepted \in 0..w.drafts /\ c \in Nat
      BY <1>2, <1>3, <1>4, <1>12
    <3> HIDE DEF l
    <3> DEFINE a == w.accepted  d == w.drafts  n == w.n  x == l + k - 1
    <3>2. /\ l \in Nat /\ c < l /\ l + d = c + n /\ k \in 1..a
          /\ n \in Nat /\ d \in Nat /\ a \in 0..d /\ c \in Nat
      BY <3>1
    <3> HIDE DEF a, d, n
    <3>3. x \in Int /\ c <= x /\ x <= c + n - 1 /\ ~(x < l) /\ x < l + a
      BY <3>2
    <3>4. x \in c..(c + n - 1) /\ ~(x < l) /\ x < l + a
      BY <3>2, <3>3
    <3> QED  BY <3>4 DEF l, a, n
  <2> HIDE DEF p
  <2>2. w.tokens[p - c + 1] = version[r]
    BY <1>4, <2>1
  <2>3. Holds(t, M, p, <<r, p, version[r]>>)
    BY <1>6, <2>1, <2>2
  <2> QED  BY <2>3 DEF p
<1> QED  BY <1>11, <1>12 DEF r, c, h, t, M

\* A request with a row in the batch.
LEMMA PlacedGood ==
  ASSUME BlockAssumption, Life, Served, NEW b, Placing(b), NEW w \in plan.rows, NEW r, r = w.r,
         batches' = Append(batches, b), finishedIds' = {}, PlanRows(r)' = {},
         computed'[r] = computed[r] + w.n, inFlight'[r] = inFlight[r] + w.n,
         status'[r] = status[r], hist'[r] = hist[r], version'[r] = version[r],
         stale'[r] = stale[r], drop'[r] = drop[r], blocks'[r] = blocks[r]
  PROVE  Good(r)'
<1> DEFINE c == computed[r]  h == hist[r]  l == Len(h)  n == w.n  v == version[r]
           Z == Versioned(r)  Y == Versioned(r)'  fl == inFlight[r]  st == stale[r]
<1>1. /\ r \in Requests /\ status[r] = "running" /\ RowFacts(w) /\ Right(w) /\ PlanRows(r) = {w}
      /\ Has(b, r) /\ RowOf(b, r) = w
      /\ DueRow'[r] = DueCached'[r].blocks /\ Matches(blocks[r], DueRow'[r])
      /\ DueCached'[r].version = IF w.kind = "new" THEN w.version ELSE DueCached[r].version
      /\ w.kind = "new" <=> Unknown(r)
  BY DEF Placing
<1>2. Good(r)
  BY <1>1 DEF Served
<1>3. Rowed(batches) /\ c \in Nat /\ h \in Seq(Int) /\ l \in Nat
  BY <1>1 DEF Life, Counters, Typed
<1>4. ~Unknown(r)'
  BY <1>1 DEF Unknown
<1>5. /\ l >= PromptLen
      /\ \A p \in 1..PromptLen : h[p] = IF Unknown(r) THEN v ELSE DueCached[r].version
      /\ Chain(batches, r, TRUE, c, l, v, Z, fl, st)
      /\ st > 0 => drop[r]
  BY <1>1, <1>2 DEF Good
<1>6. /\ w.start = c /\ c < l /\ w.version = v
      /\ w.samples <=> c + n >= l
      /\ IF w.samples THEN l + w.drafts = c + n ELSE w.drafts = 0
  BY <1>1 DEF Right
<1>7. \A p \in 1..PromptLen : h[p] = DueCached'[r].version
  BY <1>1, <1>5, <1>6
<1>8. /\ Fits(r, blocks[r], c + n, h, DueCache')
      /\ \A k \in 1..w.accepted : w.samples => Holds(blocks[r], DueCache', l + k - 1, <<r, l + k - 1, v>>)
  BY PlacedFits
<1>9. w.samples => Samples(w, c + n, l, v, Y)
  <2> SUFFICES ASSUME w.samples PROVE Samples(w, c + n, l, v, Y)
    OBVIOUS
  <2>1. ASSUME NEW k \in 1..w.accepted PROVE l + k - 1 \in Y
    <3> DEFINE x == l + k - 1
    <3>1. x \in Nat
      <4>1. w.accepted \in Nat
        BY <1>1 DEF RowFacts
      <4> HIDE DEF l
      <4> QED  BY <1>3, <4>1
    <3>2. Holds(blocks[r], DueCache', x, <<r, x, v>>)
      BY <1>8
    <3> HIDE DEF x
    <3>3. x \in Y
      BY <3>1, <3>2 DEF Versioned
    <3> QED  BY <3>3 DEF x
  <2> QED  BY <1>6, <2>1, Zenon DEF Samples
<1>10. ~w.samples => w.drafts = 0 /\ c + n < l
  <2>1. n \in Nat
    BY <1>1 DEF RowFacts
  <2> HIDE DEF c, l, n
  <2> QED  BY <1>3, <1>6, <2>1
<1>11. Chain(Append(batches, b), r, TRUE, c + n, l, v, Y, fl + n, st)
  <2>1. w = RowOf(b, r) /\ Has(b, r) /\ RowFacts(w)
    BY <1>1
  <2> HIDE DEF c, h, l, v, Y, Z, fl, st
  <2> QED  BY <1>3, <1>5, <1>6, <1>9, <1>10, <2>1, ChainAppendRow
<1>12. Chain(batches', r, status'[r] = "running", computed'[r], Len(hist'[r]), version'[r],
             Versioned(r)', inFlight'[r], stale'[r])
  <2>1. /\ (status'[r] = "running") = TRUE /\ batches' = Append(batches, b)
        /\ computed'[r] = c + n /\ Len(hist'[r]) = l /\ version'[r] = v
        /\ inFlight'[r] = fl + n /\ stale'[r] = st
    BY <1>1
  <2> HIDE DEF c, l, n, v, fl, st
  <2> QED  BY <1>11, <2>1
<1>13. /\ DueRow'[r] = NoRow \/ DueRow'[r] = DueCached'[r].blocks
       /\ r \notin finishedIds' /\ status'[r] = "running"
       /\ \A x \in PlanRows(r)' : FALSE
       /\ Matches(blocks'[r], DueCached'[r].blocks)
       /\ Fits(r, blocks'[r], computed'[r], hist'[r], DueCache')
       /\ stale'[r] > 0 => drop'[r]
  BY <1>1, <1>5, <1>8
<1>14. /\ Len(hist'[r]) >= PromptLen
       /\ \A p \in 1..PromptLen :
            hist'[r][p] = IF Unknown(r)' THEN version'[r] ELSE DueCached'[r].version
  BY <1>4, <1>5, <1>7
<1> QED  BY <1>4, <1>12, <1>13, <1>14, Zenon DEF Good

\* A request without a row in the batch.
LEMMA UnplacedGood ==
  ASSUME BlockAssumption, Life, Served, NEW b, Placing(b), NEW r \in Requests, PlanRows(r) = {},
         batches' = Append(batches, b), finishedIds' = {}, PlanRows(r)' = {},
         computed'[r] = computed[r], inFlight'[r] = inFlight[r],
         status'[r] = status[r], hist'[r] = hist[r], version'[r] = version[r],
         stale'[r] = stale[r], drop'[r] = drop[r], blocks'[r] = blocks[r]
  PROVE  Good(r)'
<1> DEFINE c == computed[r]  h == hist[r]  l == Len(h)  v == version[r]  run == status[r] = "running"
           Z == Versioned(r)  Y == Versioned(r)'  fl == inFlight[r]  st == stale[r]  t == blocks[r]
<1>1. /\ ~Has(b, r) /\ DueRow'[r] = NoRow
      /\ DueCached'[r] = IF r \in finishedIds THEN Absent ELSE DueCached[r]
  BY DEF Placing
<1>2. Good(r)
  BY DEF Served
<1>3. /\ Rowed(batches) /\ c \in Nat /\ h \in Seq(Int) /\ l \in Nat /\ Len(t) \in Nat
      /\ status[r] \in {"absent", "waiting", "running", "preempted"}
  <2>1. Rowed(batches) /\ Typed /\ blocks \in Tables
    BY DEF Life, IInv, Counters
  <2>2. c \in Nat /\ h \in Seq(Int) /\ status[r] \in {"absent", "waiting", "running", "preempted"}
    BY <2>1 DEF Typed
  <2>3. t \in Seq(BlockIds \union {Null})
    BY <2>1 DEF Tables
  <2> HIDE DEF c, h, t
  <2>4. Len(h) \in Nat /\ Len(t) \in Nat
    BY <2>2, <2>3
  <2> QED  BY <2>1, <2>2, <2>4
<1>4. Unknown(r)' <=> Unknown(r)
  BY DEF Unknown
<1>5. ~Unknown(r) => DueCached'[r] = DueCached[r]
  BY <1>1, <1>2 DEF Good
<1>6. status[r] # "absent" =>
        /\ l >= PromptLen
        /\ \A p \in 1..PromptLen : h[p] = IF Unknown(r) THEN v ELSE DueCached[r].version
        /\ Chain(batches, r, run, c, l, v, Z, fl, st)
  BY <1>2, Zenon DEF Good
<1>7. run => /\ Matches(t, DueCached[r].blocks) /\ Fits(r, t, c, h, DueCache)
             /\ st > 0 => drop[r]
  BY <1>2, Zenon DEF Good
<1>8. ASSUME run, NEW p \in 0..(c - 1), NEW y, Holds(t, DueCache, p, y)
      PROVE  Holds(t, DueCache', p, y)
  <2>1. p \in Nat /\ p < Len(t) * BlockSize
    <3> DEFINE x == Len(t) * BlockSize
    <3>1. x >= c /\ x \in Int
      <4>1. x >= c
        BY <1>7, <1>8 DEF Fits
      <4>2. x \in Int
        BY <1>3 DEF BlockAssumption
      <4> QED  BY <4>1, <4>2
    <3> HIDE DEF x, c
    <3>2. p \in Nat /\ p < x
      BY <1>3, <3>1
    <3> QED  BY <3>2 DEF x
  <2> QED  BY <1>8, <2>1, KeptHolds
<1>9. run => Fits(r, t, c, h, DueCache')
  <2> SUFFICES ASSUME run PROVE Fits(r, t, c, h, DueCache')
    OBVIOUS
  <2>1. ASSUME NEW p \in 0..(c - 1), p < Len(h) PROVE Holds(t, DueCache', p, <<r, p, h[p + 1]>>)
    <3>1. Holds(t, DueCache, p, <<r, p, h[p + 1]>>)
      BY <1>7, <2>1 DEF Fits
    <3> QED  BY <1>8, <3>1
  <2>2. /\ Len(t) * BlockSize >= c
        /\ \A i \in 1..Len(t) :
             t[i] = Null => i * BlockSize + Window <= c + 1 /\ i * BlockSize + Window <= Len(h) + 1
    BY <1>7, Zenon DEF Fits
  <2>3. \A p \in 0..(c - 1) : p < Len(h) => Holds(t, DueCache', p, <<r, p, h[p + 1]>>)
    BY <2>1
  <2> QED  BY <2>2, <2>3, Zenon DEF Fits
<1>10. status[r] # "absent" => \A p \in l..(c - 1) : p \in Z => p \in Y
  <2> SUFFICES ASSUME status[r] # "absent", NEW p \in l..(c - 1), p \in Z PROVE p \in Y
    OBVIOUS
  <2>1. p \in 0..(c - 1) /\ p \in Nat /\ c > 0
    BY <1>3
  <2>2. run
    BY <1>2, <1>3, <2>1 DEF Good
  <2>3. Holds(t, DueCache, p, <<r, p, v>>)
    BY DEF Versioned
  <2>4. Holds(t, DueCache', p, <<r, p, v>>)
    BY <1>8, <2>1, <2>2, <2>3
  <2> QED  BY <2>1, <2>4 DEF Versioned
<1>11. status[r] # "absent" => Chain(Append(batches, b), r, run, c, l, v, Y, fl, st)
  <2> SUFFICES ASSUME status[r] # "absent" PROVE Chain(Append(batches, b), r, run, c, l, v, Y, fl, st)
    OBVIOUS
  <2> HIDE DEF c, h, l, v, Y, Z, fl, st, run
  <2>1. Chain(batches, r, run, c, l, v, Z, fl, st)
    BY <1>6
  <2>2. Chain(batches, r, run, c, l, v, Y, fl, st)
    BY <1>3, <1>10, <2>1, ChainKept
  <2> QED  BY <1>1, <1>3, <2>2, ChainAppend
<1>12. /\ status'[r] # "absent" =>
            /\ Len(hist'[r]) >= PromptLen
            /\ \A p \in 1..PromptLen :
                 hist'[r][p] = IF Unknown(r)' THEN version'[r] ELSE DueCached'[r].version
            /\ Chain(batches', r, status'[r] = "running", computed'[r], Len(hist'[r]), version'[r],
                     Versioned(r)', inFlight'[r], stale'[r])
  <2> SUFFICES ASSUME status[r] # "absent"
               PROVE  /\ l >= PromptLen
                      /\ \A p \in 1..PromptLen :
                           h[p] = IF Unknown(r) THEN v ELSE DueCached'[r].version
                      /\ Chain(batches', r, run, c, l, v, Y, fl, st)
    BY <1>4
  <2> QED  BY <1>5, <1>6, <1>11
<1>13. status'[r] = "running" =>
         /\ PlanRows(r)' = {} => Matches(blocks'[r], DueCached'[r].blocks)
         /\ Fits(r, blocks'[r], computed'[r], hist'[r], DueCache')
         /\ stale'[r] > 0 => drop'[r]
  <2>1. run => ~Unknown(r)
    BY DEF Unknown
  <2> QED  BY <1>5, <1>7, <1>9, <2>1
<1>14. /\ DueRow'[r] = NoRow /\ r \notin finishedIds'
       /\ status'[r] # "running" => blocks'[r] = <<>>
       /\ status'[r] \in {"waiting", "preempted"} => computed'[r] = 0
       /\ \A x \in PlanRows(r)' : FALSE
  BY <1>1, <1>2 DEF Good
<1> QED  BY <1>12, <1>13, <1>14, Zenon DEF Good

\* What the batch's rows look back to.
LEMMA PlacedReady ==
  ASSUME BlockAssumption, Life, Served, NEW b, Placing(b), NEW w \in plan.rows
  PROVE  Ready(w)'
<1> DEFINE r == w.r  c == computed[r]  h == hist[r]  t == blocks[r]
<1>1. /\ r \in Requests /\ status[r] = "running" /\ RowFacts(w) /\ Right(w) /\ PlanRows(r) = {w}
      /\ Matches(t, DueRow'[r])
      /\ DueCached'[r].version = IF w.kind = "new" THEN w.version ELSE DueCached[r].version
      /\ w.kind = "new" <=> Unknown(r)
  BY DEF Placing
<1>2. c \in Nat /\ Len(t) \in Nat /\ Len(h) \in Nat /\ Window \in Nat
  <2>1. Typed /\ blocks \in Tables
    BY DEF Life, IInv, Counters
  <2>2. c \in Nat /\ h \in Seq(Int)
    BY <1>1, <2>1 DEF Typed
  <2>3. t \in Seq(BlockIds \union {Null})
    BY <1>1, <2>1 DEF Tables
  <2>4. Window \in Nat
    BY DEF BlockAssumption
  <2> HIDE DEF c, h, t
  <2> QED  BY <2>2, <2>3, <2>4
<1>3. Good(r)
  BY <1>1 DEF Served
<1>4. /\ w.start = c /\ c < Len(h) /\ w.version = version[r]
      /\ \A p \in 0..(c - 1) : w.before[p + 1] = h[p + 1]
      /\ \A p \in c..(c + w.n - 1) : p \in Positions(w)
  BY <1>1 DEF Right, Positions
<1>5. /\ Fits(r, t, c, h, DueCache)
      /\ \A p \in 1..PromptLen : h[p] = DueCached'[r].version
  <2>1. /\ Fits(r, t, c, h, DueCache)
        /\ \A p \in 1..PromptLen : h[p] = IF Unknown(r) THEN version[r] ELSE DueCached[r].version
    BY <1>1, <1>3 DEF Good
  <2> QED  BY <1>1, <1>4, <2>1
<1>6. ASSUME NEW p \in (c - Window + 1)..(c - 1), p >= 0
      PROVE  DueCache'[SlotOf(DueRow'[r], p)] = <<r, p, w.before[p + 1]>>
  <2>1. /\ p \in Nat /\ p < c /\ p > c - Window /\ p \in 0..(c - 1) /\ p < Len(h)
    <3> DEFINE l == Len(h)
    <3> HIDE DEF l, c
    <3>1. l \in Nat /\ c < l
      BY <1>2, <1>4 DEF l
    <3> QED  BY <1>2, <1>6, <3>1 DEF l
  <2>2. p < Len(t) * BlockSize
    <3> DEFINE x == Len(t) * BlockSize
    <3>1. x >= c
      BY <1>5 DEF Fits
    <3>2. x \in Int
      BY <1>2 DEF BlockAssumption
    <3> HIDE DEF x, c
    <3>3. p < x
      BY <1>2, <2>1, <3>1, <3>2
    <3> QED  BY <3>3 DEF x
  <2>3. (p \div BlockSize) + 1 \in 1..Len(t) /\ t[(p \div BlockSize) + 1] # Null
    <3> HIDE DEF c, h, t
    <3> QED  BY <1>2, <1>5, <2>1, <2>2, NotNull
  <2>4. SlotOf(DueRow'[r], p) = SlotOf(t, p)
    BY <1>1, <2>3 DEF Matches, SlotOf
  <2>5. Holds(t, DueCache, p, <<r, p, h[p + 1]>>)
    BY <1>5, <2>1 DEF Fits
  <2>6. \A v \in PlanRows(r) : p \notin Positions(v)
    <3>1. p \notin Positions(w)
      BY <1>2, <1>4, <2>1 DEF Positions
    <3> QED  BY <1>1, <3>1
  <2>7. Holds(t, DueCache', p, <<r, p, h[p + 1]>>)
    BY <1>1, <2>1, <2>2, <2>5, <2>6, KeptHolds
  <2>8. DueCache'[SlotOf(t, p)] = <<r, p, h[p + 1]>>
    BY <2>3, <2>7 DEF Holds
  <2>9. h[p + 1] = w.before[p + 1]
    BY <1>4, <2>1
  <2> QED  BY <2>4, <2>8, <2>9
<1>7. ASSUME NEW p \in 0..(c - 1), p < PromptLen PROVE w.before[p + 1] = DueCached'[r].version
  <2>1. p + 1 \in 1..PromptLen
    BY <1>2, <1>7 DEF BlockAssumption
  <2> QED  BY <1>4, <1>5, <2>1
<1>8. \A p \in (w.start - Window + 1)..(w.start - 1) :
        p >= 0 => DueCache'[SlotOf(DueRow'[w.r], p)] = Own(w, p)
  BY <1>4, <1>6 DEF Own
<1>9. \A p \in 0..(w.start - 1) : p < PromptLen => w.before[p + 1] = DueCached'[w.r].version
  BY <1>4, <1>7
<1>10. w.start \in Nat
  BY <1>2, <1>4
<1> QED  BY <1>1, <1>8, <1>9, <1>10, Zenon DEF Ready

LEMMA IssueServed ==
  ASSUME BlockAssumption, Life, Ran, Served, Issue, executed = Len(batches), UNCHANGED rankVars
  PROVE  Served'
<1> DEFINE n(r) == IF r \in Planned THEN (CHOOSE w \in plan.rows : w.r = r).n ELSE 0
           b == [rows |-> plan.rows, finished |-> finishedIds]
<1>1. /\ batches' = IF plan.rows = {} /\ finishedIds = {} THEN batches ELSE Append(batches, b)
      /\ finishedIds' = {} /\ plan' = EmptyPlan
      /\ computed' = [r \in Requests |-> computed[r] + n(r)]
      /\ inFlight' = [r \in Requests |-> inFlight[r] + n(r)]
      /\ UNCHANGED <<status, hist, version, stale, drop, blocks>>
  BY DEF Issue
<1>2. Typed /\ Rowed(batches)
  BY DEF Life, Counters
<1>3. \A r \in Requests : PlanRows(r)' = {}
  BY <1>1 DEF PlanRows, EmptyPlan
<1>4. \A r \in Requests : Good(r)
  BY DEF Served
<1>5. ASSUME NEW r \in Requests
      PROVE  /\ computed'[r] = computed[r] + n(r) /\ inFlight'[r] = inFlight[r] + n(r)
             /\ status'[r] = status[r] /\ hist'[r] = hist[r] /\ version'[r] = version[r]
             /\ stale'[r] = stale[r] /\ drop'[r] = drop[r] /\ blocks'[r] = blocks[r]
  <2> HIDE DEF n
  <2> QED  BY <1>1
<1>6. ASSUME NEW r \in Requests, PlanRows(r) = {}
      PROVE  computed'[r] = computed[r] /\ inFlight'[r] = inFlight[r]
  <2>1. r \notin Planned
    BY <1>6 DEF PlanRows, Planned
  <2>2. n(r) = 0
    BY <2>1
  <2>3. computed[r] \in Int /\ inFlight[r] \in Int
    BY <1>2 DEF Typed
  <2> HIDE DEF n
  <2> QED  BY <1>5, <2>2, <2>3
<1>7. CASE plan.rows = {} /\ finishedIds = {}
  <2>1. batches' = batches /\ finishedIds' = finishedIds
    BY <1>1, <1>7
  <2>2. DueCached' = DueCached /\ DueRow' = DueRow /\ DueCache' = DueCache
    BY <1>2, <2>1, DueScheduling
  <2>3. ASSUME NEW r \in Requests PROVE Good(r)'
    <3>1. PlanRows(r) = {} /\ PlanRows(r)' = PlanRows(r)
      BY <1>3, <1>7 DEF PlanRows
    <3>2. Still(r)
      BY <1>5, <1>6, <2>1, <3>1 DEF Still
    <3> QED  BY <1>4, <2>1, <2>2, <3>1, <3>2, Untouched
  <2> QED  BY <1>2, <2>1, <2>3, EngineServed
<1>8. CASE ~(plan.rows = {} /\ finishedIds = {})
  <2>1. b.rows = plan.rows /\ b.finished = finishedIds /\ batches' = Append(batches, b)
    BY <1>1, <1>8
  <2> HIDE DEF b
  <2>2. Placing(b) /\ Newest' = b /\ executed' >= Len(batches') - 1
    BY <2>1, IssuePlacing
  <2>3. ASSUME NEW r \in Requests, PlanRows(r) = {} PROVE Good(r)'
    <3>1. /\ computed'[r] = computed[r] /\ inFlight'[r] = inFlight[r]
          /\ status'[r] = status[r] /\ hist'[r] = hist[r] /\ version'[r] = version[r]
          /\ stale'[r] = stale[r] /\ drop'[r] = drop[r] /\ blocks'[r] = blocks[r]
          /\ PlanRows(r)' = {} /\ finishedIds' = {}
      BY <1>1, <1>3, <1>5, <1>6, <2>3
    <3> QED  BY <2>1, <2>2, <2>3, <3>1, UnplacedGood
  <2>4. ASSUME NEW w \in plan.rows PROVE Good(w.r)'
    <3> DEFINE r == w.r
    <3>1. r \in Requests /\ PlanRows(r) = {w}
      BY <2>2 DEF Placing
    <3>2. r \in Planned /\ n(r) = w.n
      <4>1. r \in Planned
        BY DEF Planned
      <4>2. \A v \in plan.rows : v.r = r <=> v = w
        BY <3>1 DEF PlanRows
      <4>3. (CHOOSE v \in plan.rows : v.r = r) = w
        BY <4>2
      <4> QED  BY <4>1, <4>3
    <3> HIDE DEF n, r
    <3>3. /\ computed'[r] = computed[r] + w.n /\ inFlight'[r] = inFlight[r] + w.n
          /\ status'[r] = status[r] /\ hist'[r] = hist[r] /\ version'[r] = version[r]
          /\ stale'[r] = stale[r] /\ drop'[r] = drop[r] /\ blocks'[r] = blocks[r]
          /\ PlanRows(r)' = {} /\ finishedIds' = {}
      BY <1>1, <1>3, <1>5, <3>1, <3>2
    <3>4. r = w.r
      BY DEF r
    <3>5. Good(r)'
      BY <2>1, <2>2, <3>3, <3>4, PlacedGood
    <3> QED  BY <3>5 DEF r
  <2>5. ASSUME NEW r \in Requests PROVE Good(r)'
    <3>1. CASE PlanRows(r) = {}
      BY <2>3, <3>1
    <3>2. CASE PlanRows(r) # {}
      <4>1. PICK w \in plan.rows : w.r = r
        BY <3>2 DEF PlanRows
      <4> QED  BY <2>4, <4>1
    <3> QED  BY <3>1, <3>2
  <2>6. \A w \in Newest'.rows : Ready(w)'
    <3>1. Newest'.rows = plan.rows
      BY <2>1, <2>2
    <3> QED  BY <2>2, <3>1, PlacedReady
  <2>7. DueCached' \in [Requests -> RankState]
    BY <2>2 DEF Placing
  <2> QED  BY <2>2, <2>5, <2>6, <2>7, Zenon DEF Served
<1> QED  BY <1>7, <1>8

---------------------------------------------------------------------------
(* Calls from outside *)

\* All that run stop.
LEMMA ForcedResetServed ==
  ASSUME BlockAssumption, Life, Ran, Served, ForcedReset, executed = Len(batches), UNCHANGED rankVars
  PROVE  Served'
<1> DEFINE S == {r \in Requests : status[r] = "running"}
<1>1. /\ plan = EmptyPlan
      /\ Freed(S, blocks, free, deferred, lastSeq, schedSeq)
      /\ status' = [r \in Requests |-> IF r \in S THEN "preempted" ELSE status[r]]
      /\ computed' = [r \in Requests |-> IF r \in S THEN 0 ELSE computed[r]]
      /\ drop' = [r \in Requests |-> r \in S \/ drop[r]]
      /\ stale' = [r \in Requests |-> IF r \in S THEN inFlight[r] ELSE stale[r]]
      /\ version' = [r \in Requests |-> IF r \in S THEN version[r] + 1 ELSE version[r]]
      /\ UNCHANGED <<hist, inFlight, finishedIds, plan, batches>>
  BY DEF ForcedReset
<1>2. Typed /\ Rowed(batches)
  BY DEF Life, Counters
<1>3. \A r \in Requests : PlanRows(r) = {} /\ PlanRows(r)' = {}
  BY <1>1 DEF PlanRows, EmptyPlan
<1>4. blocks' = [r \in Requests |-> IF r \in S THEN <<>> ELSE blocks[r]]
  <2> HIDE DEF S
  <2> QED  BY <1>1, Zenon DEF Freed
<1>5. DueCached' = DueCached /\ DueRow' = DueRow /\ DueCache' = DueCache
  BY <1>1, <1>2, DueScheduling
<1>6. \A r \in Requests : Good(r)
  BY DEF Served
<1>7. ASSUME NEW r \in Requests PROVE Good(r)'
  <2>1. CASE status[r] = "running"
    <3>1. /\ status'[r] = "preempted" /\ blocks'[r] = <<>> /\ computed'[r] = 0 /\ hist'[r] = hist[r]
          /\ inFlight'[r] = inFlight[r] /\ stale'[r] = inFlight[r]
          /\ r \in finishedIds' <=> r \in finishedIds
          /\ batches' = batches
      BY <1>1, <1>4, <2>1
    <3> QED  BY <1>2, <1>3, <1>5, <1>6, <2>1, <3>1, StoppedGood
  <2>2. CASE status[r] # "running"
    <3>1. Still(r)
      <4>1. /\ status'[r] = status[r] /\ blocks'[r] = blocks[r] /\ computed'[r] = computed[r]
            /\ hist'[r] = hist[r] /\ inFlight'[r] = inFlight[r] /\ stale'[r] = stale[r]
            /\ version'[r] = version[r] /\ r \notin S
            /\ r \in finishedIds' <=> r \in finishedIds
        BY <1>1, <1>4, <2>2
      <4>2. drop'[r] <=> drop[r]
        BY <1>1, <4>1
      <4> QED  BY <4>1, <4>2 DEF Still
    <3>2. PlanRows(r)' = PlanRows(r) /\ batches' = batches
      BY <1>1, <1>3
    <3> QED  BY <1>5, <1>6, <3>1, <3>2, Untouched
  <2> QED  BY <2>1, <2>2
<1> QED  BY <1>1, <1>2, <1>7, EngineServed

\* A request is forgotten: the ranks are told.
LEMMA AbsentGood ==
  ASSUME NEW r \in Requests, Good(r), status'[r] = "absent", blocks'[r] = <<>>,
         r \in finishedIds', PlanRows(r)' = {},
         DueCached' = DueCached, DueRow' = DueRow, DueCache' = DueCache
  PROVE  Good(r)'
<1>1. Unknown(r)'
  BY DEF Unknown
<1>2. DueRow'[r] = NoRow \/ DueRow'[r] = DueCached'[r].blocks
  BY DEF Good
<1>3. status'[r] # "running" /\ status'[r] \notin {"waiting", "preempted"}
  OBVIOUS
<1> QED  BY <1>1, <1>2, <1>3, Zenon DEF Good

LEMMA AbortServed ==
  ASSUME BlockAssumption, Life, Ran, Served, NEW r \in Requests, Abort(r),
         executed = Len(batches), UNCHANGED rankVars
  PROVE  Served'
<1>1. /\ plan = EmptyPlan
      /\ Freed({r}, blocks, free, deferred, lastSeq, schedSeq)
      /\ status' = [status EXCEPT ![r] = "absent"]
      /\ hist' = [hist EXCEPT ![r] = <<>>]
      /\ finishedIds' = finishedIds \union {r}
      /\ UNCHANGED <<version, computed, inFlight, stale, drop, plan, batches>>
  BY DEF Abort
<1>2. Typed /\ Rowed(batches)
  BY DEF Life, Counters
<1>3. \A q \in Requests : PlanRows(q) = {} /\ PlanRows(q)' = {}
  BY <1>1 DEF PlanRows, EmptyPlan
<1>4. blocks' = [q \in Requests |-> IF q \in {r} THEN <<>> ELSE blocks[q]]
  BY <1>1, Zenon DEF Freed
<1>5. DueCached' = DueCached /\ DueRow' = DueRow /\ DueCache' = DueCache
  BY <1>1, <1>2, DueScheduling
<1>6. \A q \in Requests : Good(q)
  BY DEF Served
<1>7. Good(r)'
  <2>1. status'[r] = "absent" /\ blocks'[r] = <<>> /\ r \in finishedIds'
    BY <1>1, <1>2, <1>4 DEF Typed
  <2> QED  BY <1>3, <1>5, <1>6, <2>1, AbsentGood
<1>8. ASSUME NEW q \in Requests, q # r PROVE Good(q)'
  <2>1. Still(q)
    BY <1>1, <1>2, <1>4, <1>8 DEF Still, Typed
  <2>2. PlanRows(q)' = PlanRows(q) /\ batches' = batches
    BY <1>1, <1>3
  <2> QED  BY <1>5, <1>6, <2>1, <2>2, Untouched
<1> QED  BY <1>1, <1>2, <1>7, <1>8, EngineServed

\* A new request, with a new version and nothing computed.
LEMMA ResubmitServed ==
  ASSUME BlockAssumption, Life, Ran, Served, NEW r \in Requests, Resubmit(r),
         executed = Len(batches), UNCHANGED rankVars
  PROVE  Served'
<1>1. /\ plan = EmptyPlan /\ status[r] = "absent" /\ ~InBatch(r)
      /\ status' = [status EXCEPT ![r] = "waiting"]
      /\ version' = [version EXCEPT ![r] = @ + 1]
      /\ hist' = [hist EXCEPT ![r] = [p \in 1..PromptLen |-> version'[r]]]
      /\ computed' = [computed EXCEPT ![r] = 0]
      /\ inFlight' = [inFlight EXCEPT ![r] = 0]
      /\ stale' = [stale EXCEPT ![r] = 0]
      /\ drop' = [drop EXCEPT ![r] = FALSE]
      /\ UNCHANGED <<blocks, finishedIds, plan, batches>>
  BY DEF Resubmit
<1>2. Typed /\ Rowed(batches)
  BY DEF Life, Counters
<1>3. \A q \in Requests : PlanRows(q) = {} /\ PlanRows(q)' = {}
  BY <1>1 DEF PlanRows, EmptyPlan
<1>4. DueCached' = DueCached /\ DueRow' = DueRow /\ DueCache' = DueCache
  BY <1>1, <1>2, DueScheduling
<1>5. \A q \in Requests : Good(q)
  BY DEF Served
<1>6. Good(r)'
  <2>1. /\ status'[r] = "waiting" /\ computed'[r] = 0 /\ inFlight'[r] = 0 /\ stale'[r] = 0
        /\ hist'[r] = [p \in 1..PromptLen |-> version'[r]]
    BY <1>1, <1>2 DEF Typed
  <2>2. Unknown(r) /\ Unknown(r)'
    BY <1>1, <2>1 DEF Unknown
  <2>3. /\ DueRow'[r] = NoRow \/ DueRow'[r] = DueCached'[r].blocks
        /\ r \notin finishedIds' => DueRow'[r] = NoRow
        /\ blocks'[r] = <<>>
    BY <1>1, <1>4, <1>5, <2>2 DEF Good
  <2>4. Len(hist'[r]) >= PromptLen /\ \A p \in 1..PromptLen : hist'[r][p] = version'[r]
    <3> DEFINE v == version'[r]  h == [p \in 1..PromptLen |-> v]
    <3>1. PromptLen \in Nat
      BY DEF BlockAssumption
    <3> HIDE DEF v
    <3>2. Len(h) = PromptLen /\ \A p \in 1..PromptLen : h[p] = v
      BY <3>1
    <3>3. Len(h) >= PromptLen /\ \A p \in 1..PromptLen : h[p] = v
      BY <3>1, <3>2
    <3> HIDE DEF h
    <3>4. hist'[r] = h
      BY <2>1 DEF h, v
    <3> QED  BY <3>3, <3>4 DEF v
  <2>5. \A i \in 1..Len(batches) : ~Has(batches[i], r)
    <3>1. DOMAIN batches = 1..Len(batches)
      BY <1>2, DomainBatches DEF Rowed
    <3> QED  BY <1>1, <3>1 DEF InBatch, Has
  <2>6. Chain(batches', r, status'[r] = "running", computed'[r], Len(hist'[r]), version'[r],
              Versioned(r)', inFlight'[r], stale'[r])
    <3> DEFINE l == Len(hist'[r])  v == version'[r]  Y == Versioned(r)'
    <3>1. Chain(batches, r, FALSE, 0, l, v, Y, 0, 0)
      <4> HIDE DEF l, v, Y
      <4> QED  BY <1>2, <2>5, ChainNone
    <3>2. (status'[r] = "running") = FALSE /\ batches' = batches
      BY <1>1, <2>1
    <3> HIDE DEF l, v, Y
    <3>3. Chain(batches', r, status'[r] = "running", computed'[r], l, v, Y, inFlight'[r], stale'[r])
      BY <2>1, <3>1, <3>2
    <3> QED  BY <3>3 DEF l, v, Y
  <2>7. /\ status'[r] # "running" /\ computed'[r] = 0
        /\ \A w \in PlanRows(r)' : FALSE
        /\ r \in finishedIds' => Unknown(r)'
    BY <1>3, <2>1, <2>2
  <2> QED  BY <2>2, <2>3, <2>4, <2>6, <2>7, Zenon DEF Good
<1>7. ASSUME NEW q \in Requests, q # r PROVE Good(q)'
  <2>1. Still(q)
    <3>1. /\ status'[q] = status[q] /\ hist'[q] = hist[q] /\ version'[q] = version[q]
          /\ computed'[q] = computed[q] /\ inFlight'[q] = inFlight[q]
          /\ stale'[q] = stale[q] /\ blocks'[q] = blocks[q] /\ finishedIds' = finishedIds
      BY <1>1, <1>2, <1>7 DEF Typed
    <3>2. drop'[q] = drop[q]
      BY <1>1, <1>7
    <3> QED  BY <3>1, <3>2 DEF Still
  <2>2. PlanRows(q)' = PlanRows(q) /\ batches' = batches
    BY <1>1, <1>3
  <2> QED  BY <1>4, <1>5, <2>1, <2>2, Untouched
<1> QED  BY <1>1, <1>2, <1>6, <1>7, EngineServed

---------------------------------------------------------------------------
(* A batch comes back *)

\* A request that keeps its blocks, and whose tokens may have grown.
LEMMA ReturnedGood ==
  ASSUME NEW r \in Requests, Good(r), PlanRows(r) = {}, PlanRows(r)' = {}, PromptLen \in Nat,
         Len(hist[r]) \in Nat, Len(hist'[r]) \in Nat, Len(hist'[r]) >= Len(hist[r]),
         \A p \in 1..Len(hist[r]) : hist'[r][p] = hist[r][p],
         status'[r] = status[r], version'[r] = version[r], blocks'[r] = blocks[r],
         drop'[r] = drop[r], r \in finishedIds' <=> r \in finishedIds,
         status[r] # "running" => computed'[r] = computed[r],
         status[r] # "absent" =>
           Chain(batches', r, status[r] = "running", computed'[r], Len(hist'[r]), version[r],
                 Versioned(r), inFlight'[r], stale'[r]),
         status[r] = "running" => Fits(r, blocks[r], computed'[r], hist'[r], DueCache),
         stale'[r] > 0 => stale[r] > 0,
         DueCached' = DueCached, DueRow' = DueRow, DueCache' = DueCache
  PROVE  Good(r)'
<1> DEFINE h == hist[r]  k == hist'[r]
<1>1. Unknown(r)' <=> Unknown(r)
  BY DEF Unknown
<1>2. Versioned(r)' = Versioned(r)
  BY DEF Versioned, Holds
<1>3. /\ DueRow[r] = NoRow \/ DueRow[r] = DueCached[r].blocks
      /\ r \in finishedIds => Unknown(r)
      /\ Unknown(r) /\ r \notin finishedIds => DueRow[r] = NoRow
      /\ status[r] # "running" => blocks[r] = <<>>
      /\ status[r] \in {"waiting", "preempted"} => computed[r] = 0
  BY Zenon DEF Good
<1>4. status[r] # "absent" =>
        /\ Len(h) >= PromptLen
        /\ \A p \in 1..PromptLen : h[p] = IF Unknown(r) THEN version[r] ELSE DueCached[r].version
  BY Zenon DEF Good
<1>5. status[r] = "running" =>
        /\ Matches(blocks[r], DueCached[r].blocks)
        /\ stale[r] > 0 => drop[r]
  BY Zenon DEF Good
<1>6. status[r] # "absent" =>
        /\ Len(k) >= PromptLen
        /\ \A p \in 1..PromptLen : k[p] = IF Unknown(r) THEN version[r] ELSE DueCached[r].version
  <2> SUFFICES ASSUME status[r] # "absent"
               PROVE  /\ Len(k) >= PromptLen
                      /\ \A p \in 1..PromptLen :
                           k[p] = IF Unknown(r) THEN version[r] ELSE DueCached[r].version
    OBVIOUS
  <2> DEFINE l == Len(h)  m == Len(k)
  <2>1. l \in Nat /\ m \in Nat /\ m >= l /\ l >= PromptLen
    BY <1>4
  <2>2. \A p \in 1..l : k[p] = h[p]
    OBVIOUS
  <2>3. \A p \in 1..PromptLen : h[p] = IF Unknown(r) THEN version[r] ELSE DueCached[r].version
    BY <1>4
  <2> HIDE DEF l, m, h, k
  <2>4. m >= PromptLen /\ \A p \in 1..PromptLen : p \in 1..l
    BY <2>1
  <2> QED  BY <2>2, <2>3, <2>4 DEF m
<1>7. status'[r] # "absent" =>
        /\ Len(hist'[r]) >= PromptLen
        /\ \A p \in 1..PromptLen :
             hist'[r][p] = IF Unknown(r)' THEN version'[r] ELSE DueCached'[r].version
        /\ Chain(batches', r, status'[r] = "running", computed'[r], Len(hist'[r]), version'[r],
                 Versioned(r)', inFlight'[r], stale'[r])
  BY <1>1, <1>2, <1>6
<1>8. status'[r] = "running" =>
        /\ PlanRows(r)' = {} => Matches(blocks'[r], DueCached'[r].blocks)
        /\ Fits(r, blocks'[r], computed'[r], hist'[r], DueCache')
        /\ stale'[r] > 0 => drop'[r]
  BY <1>5
<1>9. /\ DueRow'[r] = NoRow \/ DueRow'[r] = DueCached'[r].blocks
      /\ r \in finishedIds' => Unknown(r)'
      /\ Unknown(r)' /\ r \notin finishedIds' => DueRow'[r] = NoRow
      /\ status'[r] # "running" => blocks'[r] = <<>>
      /\ status'[r] \in {"waiting", "preempted"} => computed'[r] = 0
      /\ \A w \in PlanRows(r)' : FALSE
  BY <1>1, <1>3
<1> QED  BY <1>7, <1>8, <1>9, Zenon DEF Good

\* What is stale is counted in natural numbers.
LEMMA ChainStale ==
  ASSUME NEW q, Rowed(q), NEW r, NEW run, NEW c, NEW h, NEW v, NEW Z, NEW fl, NEW st,
         Chain(q, r, run, c, h, v, Z, fl, st)
  PROVE  st \in Nat
<1>1. Len(q) \in Nat
  BY QueueCounts
<1> QED  BY <1>1 DEF Chain, Sums

\* Tokens that do not reach the maximum are all kept.
LEMMA ExtendedFacts ==
  ASSUME BlockAssumption, NEW r, hist[r] \in Seq(Int), Sampled(r) \in Seq(Int),
         Len(Extended(r)) < MaxLen
  PROVE  Extended(r) = hist[r] \o Sampled(r)
<1> DEFINE all == hist[r] \o Sampled(r)  l == Len(all)  m == Min({l, MaxLen})
<1>1. all \in Seq(Int) /\ l \in Nat /\ MaxLen \in Nat
  BY DEF BlockAssumption
<1>2. Extended(r) = SubSeq(all, 1, m)
  BY DEF Extended
<1> HIDE DEF all
<1>3. m = IF l <= MaxLen THEN l ELSE MaxLen
  <2> HIDE DEF l
  <2>1. l \in Int /\ MaxLen \in Int
    BY <1>1
  <2> QED  BY <2>1, Min2
<1> HIDE DEF m
<1>4. m \in Nat /\ m <= l
  <2> HIDE DEF l
  <2> QED  BY <1>1, <1>3
<1>5. /\ SubSeq(all, 1, m) \in Seq(Int) /\ Len(SubSeq(all, 1, m)) = IF 1 <= m THEN m - 1 + 1 ELSE 0
      /\ \A i \in 1..(m - 1 + 1) : SubSeq(all, 1, m)[i] = all[1 + i - 1]
  <2>1. 1 \in Nat /\ 1 >= 1 /\ m \in Int /\ m <= Len(all)
    BY <1>4
  <2> QED  BY <1>1, <2>1, SubSeqFacts
<1>6. m = l
  <2> HIDE DEF l
  <2> QED  BY <1>1, <1>2, <1>3, <1>4, <1>5
<1> DEFINE s == SubSeq(all, 1, m)
<1>7. s \in Seq(Int) /\ Len(s) = l
  <2> HIDE DEF l
  <2> QED  BY <1>1, <1>4, <1>5, <1>6
<1>8. ASSUME NEW i \in 1..l PROVE s[i] = all[i]
  <2>1. i \in 1..(m - 1 + 1) /\ 1 + i - 1 = i
    <3> HIDE DEF l
    <3> QED  BY <1>1, <1>6
  <2>2. s[i] = all[1 + i - 1]
    BY <1>5, <2>1
  <2> QED  BY <2>1, <2>2
<1> HIDE DEF s
<1>9. s = all
  BY <1>1, <1>7, <1>8, SameSeq
<1> QED  BY <1>2, <1>9 DEF s, all

\* The history of a request, and the number of its tokens, when v is sampled m times.
LEMMA Sampling ==
  ASSUME NEW h \in Seq(Int), NEW m \in Nat, NEW v \in Int, NEW s, s = [i \in 1..m |-> v]
  PROVE  /\ s \in Seq(Int) /\ h \o s \in Seq(Int) /\ Len(h \o s) = Len(h) + m
         /\ \A i \in 1..Len(h) : (h \o s)[i] = h[i]
         /\ \A i \in 1..m : (h \o s)[Len(h) + i] = v
<1>1. s \in Seq(Int) /\ Len(s) = m /\ \A i \in 1..m : s[i] = v
  OBVIOUS
<1> QED  BY <1>1, CatFacts

\* The tokens kept were in the slots before, those that were drafts too.
LEMMA SampledFits ==
  ASSUME BlockAssumption, NEW r, NEW b, Len(b) \in Nat, NEW m, NEW h \in Seq(Int), NEW c \in Nat,
         Fits(r, b, c, h, m), NEW w, RowFacts(w), NEW v \in Int, NEW Z, Samples(w, c, Len(h), v, Z),
         \A p \in Z : Holds(b, m, p, <<r, p, v>>),
         NEW k \in Seq(Int), Len(k) = Len(h) + w.accepted + 1,
         \A i \in 1..Len(h) : k[i] = h[i], \A i \in 1..(w.accepted + 1) : k[Len(h) + i] = v
  PROVE  Fits(r, b, Len(h) + w.accepted, k, m)
<1> DEFINE l == Len(h)  a == w.accepted  d == w.drafts  e == l + a
<1>1. l \in Nat /\ a \in 0..d /\ d \in Nat /\ l + d = c /\ Len(k) = e + 1
  <2>1. a \in 0..d /\ d \in Nat
    BY DEF RowFacts
  <2>2. l + d = c
    BY DEF Samples
  <2>3. l \in Nat
    OBVIOUS
  <2> HIDE DEF l, a, d
  <2> QED  BY <2>1, <2>2, <2>3 DEF l, a
<1>2. e \in Nat /\ e <= c /\ l <= e /\ e = l + a
  <2> HIDE DEF l, a, d
  <2> QED  BY <1>1
<1>3. \A j \in 1..a : l + j - 1 \in Z
  BY DEF Samples
<1> HIDE DEF l, a, d, e
<1>4. Len(b) * BlockSize >= e
  <2> DEFINE x == Len(b) * BlockSize
  <2>1. x >= c /\ x \in Int
    <3>1. x >= c
      BY DEF Fits
    <3>2. x \in Int
      BY DEF BlockAssumption
    <3> QED  BY <3>1, <3>2
  <2> HIDE DEF x
  <2>2. x >= e
    BY <1>2, <2>1
  <2> QED  BY <2>2 DEF x
<1>5. ASSUME NEW i \in 1..Len(b), b[i] = Null
      PROVE  i * BlockSize + Window <= e + 1 /\ i * BlockSize + Window <= Len(k) + 1
  <2> DEFINE x == i * BlockSize + Window
  <2>1. x <= l + 1
    BY <1>5 DEF Fits, l
  <2>2. x \in Int
    BY DEF BlockAssumption
  <2> HIDE DEF x
  <2>3. x <= e + 1 /\ x <= (e + 1) + 1
    <3>1. l \in Nat /\ l <= e /\ e \in Nat
      BY <1>1, <1>2
    <3> QED  BY <2>1, <2>2, <3>1
  <2>4. x <= e + 1 /\ x <= Len(k) + 1
    BY <1>1, <2>3
  <2> QED  BY <2>4 DEF x
<1>6. ASSUME NEW p \in 0..(e - 1) PROVE Holds(b, m, p, <<r, p, k[p + 1]>>)
  <2>1. CASE p < l
    <3>1. p \in 0..(c - 1) /\ p + 1 \in 1..l
      BY <1>1, <1>2, <2>1
    <3>2. Holds(b, m, p, <<r, p, h[p + 1]>>)
      BY <2>1, <3>1 DEF Fits, l
    <3>3. k[p + 1] = h[p + 1]
      BY <3>1 DEF l
    <3> QED  BY <3>2, <3>3
  <2>2. CASE ~(p < l)
    <3> DEFINE j == p - l + 1
    <3>1. j \in 1..a /\ l + j - 1 = p /\ l + j = p + 1 /\ j \in 1..(a + 1)
      BY <1>1, <1>2, <2>2
    <3> HIDE DEF j
    <3>2. p \in Z
      BY <1>3, <3>1
    <3>3. Holds(b, m, p, <<r, p, v>>)
      BY <3>2
    <3>4. k[l + j] = v
      BY <3>1 DEF l, a
    <3>5. k[p + 1] = v
      BY <3>1, <3>4
    <3> QED  BY <3>3, <3>5
  <2> QED  BY <2>1, <2>2
<1>7. Fits(r, b, e, k, m)
  <2>1. \A i \in 1..Len(b) :
          b[i] = Null => i * BlockSize + Window <= e + 1 /\ i * BlockSize + Window <= Len(k) + 1
    BY <1>5
  <2>2. \A p \in 0..(e - 1) : p < Len(k) => Holds(b, m, p, <<r, p, k[p + 1]>>)
    BY <1>6
  <2> QED  BY <1>4, <2>1, <2>2, Zenon DEF Fits
<1> QED  BY <1>7 DEF e, l, a

\* What a step that takes the oldest batch in does to r.
Returning(r) ==
  LET w == RowOf(batches[1], r)
      n == IF Has(batches[1], r) THEN w.n ELSE 0
  IN
  /\ batches # <<>> /\ batches' = Tail(batches) /\ plan.rows = {} /\ plan'.rows = {}
  /\ DueCached' = DueCached /\ DueRow' = DueRow /\ DueCache' = DueCache
  /\ status'[r] = status[r] /\ version'[r] = version[r] /\ blocks'[r] = blocks[r]
  /\ drop'[r] = drop[r] /\ (r \in finishedIds' <=> r \in finishedIds)
  /\ inFlight'[r] = inFlight[r] - n
  /\ stale'[r] = IF stale[r] > 0 THEN stale[r] - n ELSE stale[r]

\* What comes back for a request that goes on.
LEMMA HistGrows ==
  ASSUME BlockAssumption, Life, batches # <<>>, NEW r \in Requests, Has(batches[1], r),
         NEW w, w = RowOf(batches[1], r), Len(Extended(r)) < MaxLen
  PROVE  /\ RowFacts(w) /\ hist[r] \in Seq(Int) /\ Extended(r) \in Seq(Int)
         /\ Len(hist[r]) \in Nat /\ Len(Extended(r)) \in Nat
         /\ Len(Extended(r)) >= Len(hist[r])
         /\ \A i \in 1..Len(hist[r]) : Extended(r)[i] = hist[r][i]
         /\ ~w.samples \/ (stale[r] > 0 /\ drop[r]) => Extended(r) = hist[r]
         /\ w.samples /\ ~(stale[r] > 0 /\ drop[r]) =>
              /\ Len(Extended(r)) = Len(hist[r]) + w.accepted + 1
              /\ \A i \in 1..(w.accepted + 1) : Extended(r)[Len(hist[r]) + i] = w.version
<1>1. Rowed(batches) /\ hist[r] \in Seq(Int)
  BY DEF Life, Counters, Typed
<1>2. Output(r) = w /\ RowFacts(w)
  BY <1>1, OutputRow
<1> DEFINE h == hist[r]  s == Sampled(r)  x == Extended(r)
           m == IF ~w.samples \/ (stale[r] > 0 /\ drop[r]) THEN 0 ELSE w.accepted + 1
           v == w.version
<1>3. m \in Nat /\ v \in Int
  BY <1>2 DEF RowFacts
<1>4. s = [i \in 1..m |-> v]
  <2>1. CASE ~w.samples \/ (stale[r] > 0 /\ drop[r])
    <3>1. s = <<>> /\ m = 0
      BY <1>2, <2>1 DEF Sampled, IsStale
    <3> HIDE DEF s, m
    <3> QED  BY <3>1
  <2>2. CASE ~(~w.samples \/ (stale[r] > 0 /\ drop[r]))
    <3>1. s = [i \in 1..(w.accepted + 1) |-> w.version] /\ m = w.accepted + 1
      BY <1>2, <2>2 DEF Sampled, IsStale
    <3> QED  BY <3>1
  <2> QED  BY <2>1, <2>2
<1> HIDE DEF h, s, x, m, v
<1>5. /\ s \in Seq(Int) /\ h \o s \in Seq(Int) /\ Len(h \o s) = Len(h) + m
      /\ \A i \in 1..Len(h) : (h \o s)[i] = h[i]
      /\ \A i \in 1..m : (h \o s)[Len(h) + i] = v
  <2>1. h \in Seq(Int)
    BY <1>1 DEF h
  <2> QED  BY <1>3, <1>4, <2>1, Sampling
<1>6. x = h \o s
  BY <1>1, <1>5, ExtendedFacts DEF x, h, s
<1>7. Len(h) \in Nat
  BY <1>1 DEF h
<1>8. /\ x \in Seq(Int) /\ Len(x) = Len(h) + m /\ Len(x) \in Nat /\ Len(x) >= Len(h)
      /\ \A i \in 1..Len(h) : x[i] = h[i]
      /\ \A i \in 1..m : x[Len(h) + i] = v
  <2>1. Len(x) = Len(h) + m
    BY <1>5, <1>6
  <2>2. Len(x) \in Nat /\ Len(x) >= Len(h)
    BY <1>3, <1>7, <2>1
  <2> QED  BY <1>5, <1>6, <2>1, <2>2
<1>9. ASSUME m = 0 PROVE x = h
  <2>1. x \in Seq(Int) /\ h \in Seq(Int) /\ Len(x) = Len(h) /\ \A i \in 1..Len(x) : x[i] = h[i]
    BY <1>1, <1>7, <1>8, <1>9 DEF h
  <2> QED  BY <2>1, SameSeq
<1>10. CASE ~w.samples \/ (stale[r] > 0 /\ drop[r])
  <2>1. m = 0
    BY <1>10 DEF m
  <2> QED  BY <1>1, <1>2, <1>7, <1>8, <1>9, <1>10, <2>1 DEF x, h
<1>11. CASE ~(~w.samples \/ (stale[r] > 0 /\ drop[r]))
  <2>1. m = w.accepted + 1 /\ w.accepted \in Nat
    BY <1>2, <1>11 DEF m, RowFacts
  <2>2. Len(x) = Len(h) + w.accepted + 1 /\ \A i \in 1..(w.accepted + 1) : x[Len(h) + i] = w.version
    <3>1. \A i \in 1..(w.accepted + 1) : x[Len(h) + i] = w.version
      BY <1>8, <2>1, Zenon DEF v
    <3> DEFINE l == Len(h)  a == w.accepted
    <3>2. l \in Nat /\ a \in Nat /\ Len(x) = l + (a + 1)
      BY <1>7, <1>8, <2>1
    <3> HIDE DEF l, a
    <3>3. Len(x) = l + a + 1
      BY <3>2
    <3> QED  BY <3>1, <3>3 DEF l, a
  <2> QED  BY <1>1, <1>2, <1>7, <1>8, <1>11, <2>2 DEF x, h
<1> QED  BY <1>10, <1>11

\* A request with nothing to take in, or that does not run, or whose output is stale.
LEMMA ReturnStale ==
  ASSUME BlockAssumption, Life, NEW r \in Requests, Good(r), Returning(r),
         status[r] # "running" \/ stale[r] > 0 \/ ~Has(batches[1], r),
         computed'[r] = computed[r],
         Len(hist'[r]) \in Nat, Len(hist'[r]) >= Len(hist[r]),
         \A i \in 1..Len(hist[r]) : hist'[r][i] = hist[r][i],
         status[r] = "running" => hist'[r] = hist[r]
  PROVE  Good(r)'
<1> DEFINE w == RowOf(batches[1], r)  n == IF Has(batches[1], r) THEN w.n ELSE 0
           c == computed[r]  l == Len(hist[r])  v == version[r]  Z == Versioned(r)
           fl == inFlight[r]  st == stale[r]  run == status[r] = "running"  k == Len(hist'[r])
<1>1. Rowed(batches) /\ l \in Nat /\ PromptLen \in Nat /\ batches # <<>> /\ batches' = Tail(batches)
      /\ st \in Int /\ fl \in Int
  BY DEF Life, Counters, Typed, BlockAssumption, Returning
<1>2. PlanRows(r) = {} /\ PlanRows(r)' = {}
  BY DEF PlanRows, Returning
<1>3. inFlight'[r] = fl - n /\ stale'[r] = IF st > 0 THEN st - n ELSE st
  BY DEF Returning
<1>4. n \in Nat /\ (~Has(batches[1], r) => n = 0)
  <2>1. Has(batches[1], r) => RowFacts(w)
    <3>1. 1 \in 1..Len(batches)
      BY <1>1, TailRows
    <3> QED  BY <1>1, <3>1, HasTokens
  <2> QED  BY <2>1 DEF RowFacts
<1>5. status[r] # "absent" => Chain(batches, r, run, c, l, v, Z, fl, st)
  BY Zenon DEF Good
<1>6. n = IF Has(batches[1], r) THEN RowOf(batches[1], r).n ELSE 0
  OBVIOUS
<1>7. run => hist'[r] = hist[r]
  OBVIOUS
<1>8. ~run \/ st > 0 \/ ~Has(batches[1], r)
  OBVIOUS
<1> HIDE DEF w, n, c, l, v, Z, fl, st, run, k
<1>9. ASSUME status[r] # "absent"
      PROVE  /\ Chain(Tail(batches), r, run, c, k, v, Z, fl - n, st - n)
             /\ stale'[r] = st - n
  <2>1. CASE run
    <3>1. Chain(batches, r, TRUE, c, l, v, Z, fl, st)
      BY <1>5, <1>9, <2>1
    <3>2. Chain(Tail(batches), r, TRUE, c, l, v, Z, fl - n, st - n)
      BY <1>1, <1>6, <1>8, <2>1, <3>1, ChainTailStale
    <3>3. k = l
      BY <1>7, <2>1 DEF k, l
    <3>4. st \in Nat
      BY <1>1, <3>1, ChainStale
    <3>5. stale'[r] = st - n
      <4>1. CASE st > 0
        BY <1>3, <4>1
      <4>2. CASE ~(st > 0)
        <5>1. n = 0
          BY <1>4, <1>8, <2>1, <4>2
        <5> QED  BY <1>1, <1>3, <4>2, <5>1
      <4> QED  BY <4>1, <4>2
    <3> QED  BY <2>1, <3>2, <3>3, <3>5
  <2>2. CASE ~run
    <3>0. run = FALSE
      BY <2>2 DEF run
    <3>1. Chain(batches, r, FALSE, c, l, v, Z, fl, st)
      BY <1>5, <1>9, <3>0
    <3>2. /\ Chain(Tail(batches), r, FALSE, c, k, v, Z, fl - n, st - n)
          /\ Has(batches[1], r) => st > 0
      BY <1>1, <1>6, <3>1, ChainTailStopped
    <3>3. stale'[r] = st - n
      <4>1. CASE st > 0
        BY <1>3, <4>1
      <4>2. CASE ~(st > 0)
        <5>1. n = 0
          BY <1>4, <3>2, <4>2
        <5> QED  BY <1>1, <1>3, <4>2, <5>1
      <4> QED  BY <4>1, <4>2
    <3> QED  BY <3>0, <3>2, <3>3
  <2> QED  BY <2>1, <2>2
<1>10. status[r] # "absent" =>
         Chain(batches', r, status[r] = "running", computed'[r], Len(hist'[r]), version[r],
               Versioned(r), inFlight'[r], stale'[r])
  <2> SUFFICES ASSUME status[r] # "absent"
               PROVE  Chain(Tail(batches), r, run, c, k, v, Z, fl - n, st - n)
    BY <1>1, <1>3, <1>9 DEF c, k, v, Z, run
  <2> QED  BY <1>9
<1>11. status[r] = "running" => Fits(r, blocks[r], computed'[r], hist'[r], DueCache)
  <2>1. status[r] = "running" => Fits(r, blocks[r], computed[r], hist[r], DueCache)
    BY Zenon DEF Good
  <2> QED  BY <2>1
<1>12. stale'[r] > 0 => stale[r] > 0
  BY <1>3 DEF st
<1>13. /\ status'[r] = status[r] /\ version'[r] = version[r] /\ blocks'[r] = blocks[r]
       /\ drop'[r] = drop[r] /\ (r \in finishedIds' <=> r \in finishedIds)
       /\ DueCached' = DueCached /\ DueRow' = DueRow /\ DueCache' = DueCache
  BY DEF Returning
<1>14. Len(hist[r]) \in Nat
  BY <1>1 DEF l
<1> QED  BY <1>1, <1>2, <1>10, <1>11, <1>12, <1>13, <1>14, ReturnedGood

\* A running request takes in the output of its oldest row, which is not stale.
LEMMA ReturnFresh ==
  ASSUME BlockAssumption, Life, Served, NEW r \in Requests, Returning(r),
         status[r] = "running", ~(stale[r] > 0), Has(batches[1], r),
         NEW w, w = RowOf(batches[1], r), Len(Extended(r)) < MaxLen,
         hist'[r] = Extended(r),
         computed'[r] = IF computed[r] > 0 THEN computed[r] - (w.drafts - w.accepted) ELSE computed[r]
  PROVE  Good(r)'
<1> DEFINE c == computed[r]  h == hist[r]  l == Len(h)  v == version[r]  Z == Versioned(r)
           fl == inFlight[r]  st == stale[r]  b == blocks[r]  M == DueCache
           k == hist'[r]  e == computed'[r]
<1>1. /\ Rowed(batches) /\ batches # <<>> /\ batches' = Tail(batches) /\ Good(r)
      /\ c \in Nat /\ h \in Seq(Int) /\ l \in Nat /\ v \in Int /\ Len(b) \in Nat /\ st \in Int
      /\ PromptLen \in Nat /\ PromptLen > 0
  <2>1. Rowed(batches) /\ Typed /\ blocks \in Tables
    BY DEF Life, IInv, Counters
  <2>2. batches # <<>> /\ batches' = Tail(batches)
    BY DEF Returning
  <2>3. c \in Nat /\ h \in Seq(Int) /\ v \in Int /\ st \in Int
    BY <2>1 DEF Typed
  <2>4. b \in Seq(BlockIds \union {Null})
    BY <2>1 DEF Tables
  <2>5. PromptLen \in Nat /\ PromptLen > 0
    BY DEF BlockAssumption
  <2>6. Good(r)
    BY DEF Served
  <2> HIDE DEF c, h, v, st, b
  <2>7. l \in Nat /\ Len(b) \in Nat
    BY <2>3, <2>4
  <2> QED  BY <2>1, <2>2, <2>3, <2>5, <2>6, <2>7
<1>2. PlanRows(r) = {} /\ PlanRows(r)' = {}
  BY DEF PlanRows, Returning
<1>3. /\ RowFacts(w) /\ k \in Seq(Int) /\ Len(k) \in Nat /\ Len(k) >= l
      /\ \A i \in 1..l : k[i] = h[i]
      /\ ~w.samples => k = h
      /\ w.samples => /\ Len(k) = l + w.accepted + 1
                      /\ \A i \in 1..(w.accepted + 1) : k[l + i] = w.version
  <2> DEFINE x == Extended(r)
  <2>1. /\ RowFacts(w) /\ x \in Seq(Int) /\ Len(x) \in Nat /\ Len(x) >= l
        /\ \A i \in 1..l : x[i] = h[i]
        /\ ~w.samples \/ (stale[r] > 0 /\ drop[r]) => x = h
        /\ w.samples /\ ~(stale[r] > 0 /\ drop[r]) =>
             /\ Len(x) = l + w.accepted + 1
             /\ \A i \in 1..(w.accepted + 1) : x[l + i] = w.version
    <3>1. batches # <<>>
      BY <1>1
    <3> HIDE DEF c, v, Z, fl, st, b, M, k, e
    <3>2. RowFacts(w) /\ Extended(r) \in Seq(Int) /\ Len(Extended(r)) \in Nat
      BY <3>1, HistGrows
    <3>3. Len(Extended(r)) >= Len(hist[r]) /\ \A i \in 1..Len(hist[r]) : Extended(r)[i] = hist[r][i]
      BY <3>1, HistGrows
    <3>4. ~w.samples \/ (stale[r] > 0 /\ drop[r]) => Extended(r) = hist[r]
      BY <3>1, HistGrows
    <3>5. w.samples /\ ~(stale[r] > 0 /\ drop[r]) =>
            /\ Len(Extended(r)) = Len(hist[r]) + w.accepted + 1
            /\ \A i \in 1..(w.accepted + 1) : Extended(r)[Len(hist[r]) + i] = w.version
      BY <3>1, HistGrows
    <3> QED  BY <3>2, <3>3, <3>4, <3>5, Zenon
  <2>2. k = x
    OBVIOUS
  <2> HIDE DEF x, k, h, l
  <2>3. ~(stale[r] > 0 /\ drop[r])
    OBVIOUS
  <2> QED  BY <2>1, <2>2, <2>3, Zenon
<1>4. /\ Chain(batches, r, TRUE, c, l, v, Z, fl, st)
      /\ Fits(r, b, c, h, M) /\ l >= PromptLen
  BY <1>1, Zenon DEF Good
<1>5. st = 0
  <2> HIDE DEF st, c, l, v, Z, fl
  <2>1. st \in Nat
    BY <1>1, <1>4, ChainStale
  <2> QED  BY <2>1 DEF st
<1>6. inFlight'[r] = fl - w.n /\ stale'[r] = st
  BY DEF Returning
<1>7. /\ e = IF c > 0 THEN c - (w.drafts - w.accepted) ELSE c
      /\ w.drafts \in Nat /\ w.accepted \in 0..w.drafts
  BY <1>3 DEF RowFacts
<1>8. \A p \in Z : Holds(b, M, p, <<r, p, v>>)
  BY DEF Versioned
<1> HIDE DEF c, h, l, v, Z, fl, st, b, M, k, e
<1>9. /\ w.samples =>
           /\ Samples(w, c, l, v, Z)
           /\ \A d, x, Y : ~(d >= x) => Chain(Tail(batches), r, TRUE, d, x, v, Y, fl - w.n, 0)
      /\ ~w.samples => w.drafts = 0 /\ Chain(Tail(batches), r, TRUE, c, l, v, Z, fl - w.n, 0)
  <2>1. Chain(batches, r, TRUE, c, l, v, Z, fl, 0)
    BY <1>4, <1>5
  <2> QED  BY <1>1, <2>1, ChainTailFresh
<1>10. Chain(Tail(batches), r, TRUE, e, Len(k), v, Z, fl - w.n, 0) /\ Fits(r, b, e, k, M)
  <2>1. CASE w.samples
    <3>1. Samples(w, c, l, v, Z)
      BY <1>9, <2>1
    <3>2. w.version = v /\ l + w.drafts = c
      BY <3>1 DEF Samples
    <3>3. e = l + w.accepted /\ Len(k) = l + w.accepted + 1 /\ e \in Nat /\ ~(e >= Len(k))
      <4>1. Len(k) = l + w.accepted + 1
        BY <1>3, <2>1
      <4> DEFINE a == w.accepted  d == w.drafts
      <4>2. l + d = c /\ e = IF c > 0 THEN c - (d - a) ELSE c
        BY <1>7, <3>2
      <4>3. d \in Nat /\ a \in 0..d
        BY <1>7
      <4> HIDE DEF a, d
      <4>4. e = l + a /\ e \in Nat
        BY <1>1, <1>4, <4>2, <4>3
      <4>5. Len(k) = l + a + 1
        BY <4>1 DEF a
      <4>6. ~(e >= Len(k))
        BY <1>1, <4>3, <4>4, <4>5
      <4> QED  BY <4>1, <4>4, <4>6 DEF a
    <3>4. Chain(Tail(batches), r, TRUE, e, Len(k), v, Z, fl - w.n, 0)
      BY <1>9, <2>1, <3>3
    <3>5. Fits(r, b, e, k, M)
      <4>1. /\ Len(k) = Len(h) + w.accepted + 1 /\ Samples(w, c, Len(h), v, Z)
            /\ \A i \in 1..Len(h) : k[i] = h[i]
            /\ \A i \in 1..(w.accepted + 1) : k[Len(h) + i] = v
        BY <1>3, <2>1, <3>1, <3>2 DEF l
      <4>2. Fits(r, b, Len(h) + w.accepted, k, M)
        BY <1>1, <1>3, <1>4, <1>8, <4>1, SampledFits
      <4> QED  BY <3>3, <4>2 DEF l
    <3> QED  BY <3>4, <3>5
  <2>2. CASE ~w.samples
    <3>1. k = h /\ w.drafts = 0
      BY <1>3, <1>9, <2>2
    <3>2. e = c
      BY <1>1, <1>7, <3>1
    <3> QED  BY <1>4, <1>9, <2>2, <3>1, <3>2 DEF l
  <2> QED  BY <2>1, <2>2
<1>11. status[r] # "absent" =>
         Chain(batches', r, status[r] = "running", computed'[r], Len(hist'[r]), version[r],
               Versioned(r), inFlight'[r], stale'[r])
  <2>1. (status[r] = "running") = TRUE
    OBVIOUS
  <2>2. Chain(batches', r, status[r] = "running", e, Len(k), v, Z, inFlight'[r], stale'[r])
    BY <1>1, <1>5, <1>6, <1>10, <2>1
  <2> QED  BY <2>2 DEF e, k, v, Z
<1>12. status[r] = "running" => Fits(r, blocks[r], computed'[r], hist'[r], DueCache)
  BY <1>10 DEF b, e, k, M
<1>13. /\ status'[r] = status[r] /\ version'[r] = version[r] /\ blocks'[r] = blocks[r]
       /\ drop'[r] = drop[r] /\ (r \in finishedIds' <=> r \in finishedIds)
       /\ DueCached' = DueCached /\ DueRow' = DueRow /\ DueCache' = DueCache
  BY DEF Returning
<1>14. /\ Len(hist[r]) \in Nat /\ Len(hist'[r]) \in Nat /\ Len(hist'[r]) >= Len(hist[r])
       /\ \A p \in 1..Len(hist[r]) : hist'[r][p] = hist[r][p]
  BY <1>1, <1>3 DEF l, h, k
<1>15. (stale'[r] > 0 => stale[r] > 0) /\ (status[r] # "running" => computed'[r] = computed[r])
  BY <1>6 DEF st
<1> QED  BY <1>1, <1>2, <1>11, <1>12, <1>13, <1>14, <1>15, ReturnedGood

LEMMA ProcessedServed ==
  ASSUME BlockAssumption, Life, Ran, Served, Processed
  PROVE  Served'
<1>1. /\ Update /\ executed > 0 /\ plan = EmptyPlan /\ batches' = Tail(batches)
      /\ inFlight' = [r \in Requests |-> IF r \in Back THEN inFlight[r] - Output(r).n ELSE inFlight[r]]
      /\ stale' = [r \in Requests |->
                     IF r \in Back /\ IsStale(r) THEN stale[r] - Output(r).n ELSE stale[r]]
      /\ computed' = [r \in Requests |->
                        IF r \in Back /\ ~IsStale(r) /\ computed[r] > 0
                        THEN computed[r] - (Output(r).drafts - Output(r).accepted) ELSE computed[r]]
      /\ hist' = [r \in Requests |->
                    IF r \in Stopped THEN <<>> ELSE IF r \in Back THEN Extended(r) ELSE hist[r]]
      /\ status' = [r \in Requests |-> IF r \in Stopped THEN "absent" ELSE status[r]]
      /\ finishedIds' = finishedIds \union Stopped
      /\ UNCHANGED <<version, drop, plan>>
  BY DEF Processed, Update
<1>2. blocks' = [r \in Requests |-> IF r \in Stopped THEN <<>> ELSE blocks[r]]
  <2>1. \E pool, pending, last, seq : Freed(Stopped, blocks, pool, pending, last, seq)
    BY <1>1, Zenon DEF Update
  <2> QED  BY <2>1, Zenon DEF Freed
<1>3. Rowed(batches) /\ Typed /\ Len(batches) \in Nat
  BY QueueCounts DEF Life, Counters
<1>4. batches # <<>>
  <2>1. Len(batches) > 0
    BY <1>1, <1>3 DEF Ran
  <2> QED  BY <2>1
<1>5. /\ DueCached' = DueCached /\ DueRow' = DueRow /\ DueCache' = DueCache
      /\ executed' >= Len(batches') - 1
      /\ executed' < Len(batches') => executed < Len(batches) /\ Newest' = Newest
  BY <1>3, <1>4, DueProcessed DEF Served
<1>6. plan.rows = {} /\ plan'.rows = {}
  BY <1>1 DEF EmptyPlan
<1>7. \A r \in Requests : PlanRows(r)' = {} /\ Good(r)
  BY <1>6 DEF PlanRows, Served
<1>8. ASSUME NEW r \in Requests
      PROVE  /\ r \in Back <=> status[r] # "absent" /\ Has(batches[1], r)
             /\ Output(r) = RowOf(batches[1], r)
  <2>1. /\ (\E w \in Head(batches).rows : w.r = r) <=> Has(batches[1], r)
        /\ Output(r) = RowOf(batches[1], r)
    BY <1>3, <1>4, OutputRow
  <2> QED  BY <2>1 DEF Back
<1>9. ASSUME NEW r \in Requests, r \in Stopped PROVE Good(r)'
  <2>1. status'[r] = "absent" /\ blocks'[r] = <<>> /\ r \in finishedIds'
    BY <1>1, <1>2, <1>9
  <2> QED  BY <1>5, <1>7, <2>1, AbsentGood
<1>10. ASSUME NEW r \in Requests, r \notin Stopped, status[r] = "absent" PROVE Good(r)'
  <2>1. status'[r] = "absent" /\ blocks'[r] = <<>> /\ DueRow'[r] = DueRow[r]
        /\ (r \in finishedIds' <=> r \in finishedIds)
    BY <1>1, <1>2, <1>5, <1>7, <1>10 DEF Good
  <2>2. Unknown(r) /\ Unknown(r)'
    BY <1>10, <2>1 DEF Unknown
  <2>3. /\ DueRow'[r] = NoRow \/ DueRow'[r] = DueCached'[r].blocks
        /\ r \notin finishedIds' => DueRow'[r] = NoRow
    BY <1>5, <1>7, <2>1, <2>2 DEF Good
  <2>4. status'[r] # "running" /\ status'[r] \notin {"waiting", "preempted"}
        /\ \A w \in PlanRows(r)' : FALSE
    BY <1>7, <2>1
  <2> QED  BY <2>1, <2>2, <2>3, <2>4, Zenon DEF Good
<1>11. ASSUME NEW r \in Requests, r \notin Stopped, status[r] # "absent" PROVE Returning(r) /\ Good(r)'
  <2> DEFINE w == RowOf(batches[1], r)  n == IF Has(batches[1], r) THEN w.n ELSE 0
  <2>1. inFlight[r] \in Int /\ stale[r] \in Int /\ hist[r] \in Seq(Int) /\ Len(hist[r]) \in Nat
    BY <1>3 DEF Typed
  <2>2. r \in Back <=> Has(batches[1], r)
    BY <1>8, <1>11
  <2>3. inFlight'[r] = inFlight[r] - n
    <3>1. CASE r \in Back
      BY <1>1, <1>8, <2>2, <3>1
    <3>2. CASE r \notin Back
      <4>1. inFlight'[r] = inFlight[r] /\ n = 0
        BY <1>1, <2>2, <3>2
      <4> HIDE DEF n
      <4> QED  BY <2>1, <4>1
    <3> QED  BY <3>1, <3>2
  <2>4. stale'[r] = IF stale[r] > 0 THEN stale[r] - n ELSE stale[r]
    <3>1. CASE r \in Back
      BY <1>1, <1>8, <2>2, <3>1 DEF IsStale
    <3>2. CASE r \notin Back
      <4>1. stale'[r] = stale[r] /\ n = 0
        BY <1>1, <2>2, <3>2
      <4> HIDE DEF n
      <4> QED  BY <2>1, <4>1
    <3> QED  BY <3>1, <3>2
  <2>5. /\ status'[r] = status[r] /\ version'[r] = version[r] /\ blocks'[r] = blocks[r]
        /\ drop'[r] = drop[r] /\ (r \in finishedIds' <=> r \in finishedIds)
    BY <1>1, <1>2, <1>11
  <2>6. Returning(r)
    BY <1>1, <1>4, <1>5, <1>6, <2>3, <2>4, <2>5 DEF Returning
  <2>7. CASE ~Has(batches[1], r)
    <3>1. hist'[r] = hist[r] /\ computed'[r] = computed[r]
      BY <1>1, <1>11, <2>2, <2>7
    <3>2. /\ Len(hist'[r]) \in Nat /\ Len(hist'[r]) >= Len(hist[r])
          /\ \A i \in 1..Len(hist[r]) : hist'[r][i] = hist[r][i]
      BY <2>1, <3>1
    <3> QED  BY <1>7, <2>6, <2>7, <3>1, <3>2, ReturnStale
  <2>8. CASE Has(batches[1], r)
    <3>1. /\ r \in Back /\ hist'[r] = Extended(r)
          /\ computed'[r] = IF ~(stale[r] > 0) /\ computed[r] > 0
                            THEN computed[r] - (w.drafts - w.accepted) ELSE computed[r]
      BY <1>1, <1>8, <1>11, <2>2, <2>8 DEF IsStale
    <3>2. Len(Extended(r)) < MaxLen
      <4>1. Output(r) = w /\ RowFacts(w)
        BY <1>3, <1>4, <2>8, OutputRow
      <4>2. Extended(r) \in Seq(Int)
        BY <1>3, <4>1, ExtendedType DEF RowFacts
      <4>3. ~(Len(Extended(r)) >= MaxLen)
        BY <1>11, <3>1 DEF Stopped
      <4>4. Len(Extended(r)) \in Nat /\ MaxLen \in Nat
        BY <4>2 DEF BlockAssumption
      <4> QED  BY <4>3, <4>4
    <3>3. /\ Len(Extended(r)) \in Nat /\ Len(Extended(r)) >= Len(hist[r])
          /\ \A i \in 1..Len(hist[r]) : Extended(r)[i] = hist[r][i]
          /\ ~w.samples \/ (stale[r] > 0 /\ drop[r]) => Extended(r) = hist[r]
      <4> HIDE DEF n
      <4> QED  BY <1>4, <2>8, <3>2, HistGrows
    <3>4. CASE status[r] # "running" \/ stale[r] > 0
      <4>1. computed'[r] = computed[r]
        <5>1. status[r] # "running" => computed[r] = 0
          BY <1>3, <1>7, <1>11 DEF Good, Typed
        <5> QED  BY <3>1, <3>4, <5>1
      <4>2. status[r] = "running" => Extended(r) = hist[r]
        <5>1. status[r] = "running" /\ stale[r] > 0 => drop[r]
          BY <1>7, Zenon DEF Good
        <5> QED  BY <3>3, <3>4, <5>1
      <4> QED  BY <1>7, <2>6, <3>1, <3>3, <3>4, <4>1, <4>2, ReturnStale
    <3>5. CASE status[r] = "running" /\ ~(stale[r] > 0)
      <4>1. computed'[r] = IF computed[r] > 0 THEN computed[r] - (w.drafts - w.accepted) ELSE computed[r]
        BY <3>1, <3>5
      <4> QED  BY <2>6, <2>8, <3>1, <3>2, <3>5, <4>1, ReturnFresh
    <3> QED  BY <2>6, <3>4, <3>5
  <2> QED  BY <2>6, <2>7, <2>8
<1>12. \A r \in Requests : Good(r)'
  BY <1>9, <1>10, <1>11
<1>13. DueCached' \in [Requests -> RankState]
  BY <1>5 DEF Served
<1>14. executed' < Len(batches') => \A w \in Newest'.rows : Ready(w)'
  <2> SUFFICES ASSUME executed' < Len(batches'), NEW w \in Newest'.rows PROVE Ready(w)'
    OBVIOUS
  <2>1. Ready(w)
    BY <1>5 DEF Served
  <2> QED  BY <1>5, <2>1 DEF Ready
<1> QED  BY <1>5, <1>12, <1>13, <1>14, Zenon DEF Served

---------------------------------------------------------------------------
(* The rank's own steps *)

\* The rank counts the newest batch in: what was due of it is there.
LEMMA RankServed ==
  ASSUME Life, Ran, Served, UNCHANGED schedulerVars,
         WriteHashCache \/ HashIds \/ UNCHANGED vars
  PROVE  Served'
<1>1. Rowed(batches) /\ executed >= Len(batches) - 1
  BY DEF Life, Counters, Served
<1>2. batches' = batches /\ plan' = plan /\ Newest' = Newest
  BY DEF schedulerVars, Newest
<1>3. /\ DueCached' = DueCached /\ DueRow' = DueRow /\ DueCache' = DueCache
      /\ executed' >= Len(batches') - 1
      /\ executed' < Len(batches') => executed < Len(batches)
  <2>1. CASE WriteHashCache
    <3>1. executed' = executed
      BY <2>1 DEF WriteHashCache
    <3> QED  BY <1>1, <1>2, <2>1, <3>1, DueWrite
  <2>2. CASE HashIds
    <3>1. Len(batches) \in Nat
      BY <1>1, QueueCounts
    <3> QED  BY <1>1, <1>2, <2>2, <3>1, DueHash
  <2>3. CASE UNCHANGED vars
    <3>1. executed' = executed /\ rankPc' = rankPc /\ cached' = cached /\ row' = row /\ cache' = cache
      BY <2>3 DEF vars, rankVars
    <3>2. Due' <=> Due
      BY <1>2, <3>1 DEF Due
    <3>3. NextCached(Newest)' = NextCached(Newest) /\ NextRow(Newest)' = NextRow(Newest)
      BY <1>2, <3>1 DEF NextCached, NextRow, Known, Kept
    <3>4. DueCached' = DueCached /\ DueRow' = DueRow
      BY <3>1, <3>2, <3>3 DEF DueCached, DueRow
    <3>5. DueCache' = DueCache
      BY <1>2, <3>1, <3>2, <3>3 DEF DueCache, Written
    <3> QED  BY <1>1, <1>2, <3>1, <3>4, <3>5
  <2> QED  BY <2>1, <2>2, <2>3
<1>4. ASSUME NEW r \in Requests PROVE Good(r)'
  <2>1. Still(r) /\ PlanRows(r)' = PlanRows(r)
    BY DEF Still, PlanRows, schedulerVars, requestVars, poolVars
  <2>2. Good(r)
    BY DEF Served
  <2> QED  BY <1>2, <1>3, <2>1, <2>2, Untouched
<1>5. DueCached' \in [Requests -> RankState]
  BY <1>3 DEF Served
<1>6. executed' < Len(batches') => \A w \in Newest'.rows : Ready(w)'
  <2> SUFFICES ASSUME executed' < Len(batches'), NEW w \in Newest'.rows PROVE Ready(w)'
    OBVIOUS
  <2>1. Ready(w)
    BY <1>2, <1>3 DEF Served
  <2> QED  BY <1>3, <2>1 DEF Ready
<1> QED  BY <1>3, <1>4, <1>5, <1>6, Zenon DEF Served

\* At first no rank knows of any request, and the requests have their prompts.
LEMMA InitServed == BlockAssumption /\ Init => Served
<1> SUFFICES ASSUME BlockAssumption, Init PROVE Served
  OBVIOUS
<1>1. /\ batches = <<>> /\ plan.rows = {} /\ finishedIds = {} /\ executed = 0
      /\ cached = [r \in Requests |-> Absent] /\ row = [r \in Requests |-> NoRow]
      /\ status = [r \in Requests |-> "waiting"] /\ computed = [r \in Requests |-> 0]
      /\ hist = [r \in Requests |-> [p \in 1..PromptLen |-> 0]]
      /\ version = [r \in Requests |-> 0] /\ blocks = [r \in Requests |-> <<>>]
      /\ inFlight = [r \in Requests |-> 0] /\ stale = [r \in Requests |-> 0]
  BY DEF Init, InitScheduler, EmptyPlan
<1>2. Rowed(batches) /\ Len(batches) = 0
  BY <1>1, InitLife DEF Life, Counters
<1>3. ~Due
  BY <1>1, <1>2 DEF Due
<1>4. DueCached = cached /\ DueRow = row
  BY <1>3 DEF DueCached, DueRow
<1>5. DueCached \in [Requests -> RankState]
  <2>1. Absent \in RankState
    BY DEF Absent, RankState, Wrong
  <2> QED  BY <1>1, <1>4, <2>1
<1>6. PromptLen \in Nat /\ Len([p \in 1..PromptLen |-> 0]) = PromptLen
  BY DEF BlockAssumption
<1>7. ASSUME NEW r \in Requests PROVE Good(r)
  <2>1. DueRow[r] = NoRow /\ PlanRows(r) = {} /\ Unknown(r)
    BY <1>1, <1>4 DEF PlanRows, Unknown
  <2>2. /\ status[r] = "waiting" /\ r \notin finishedIds /\ blocks[r] = <<>> /\ computed[r] = 0
        /\ inFlight[r] = 0 /\ stale[r] = 0 /\ version[r] = 0
        /\ hist[r] = [p \in 1..PromptLen |-> 0]
    BY <1>1
  <2>3. Len(hist[r]) >= PromptLen /\ \A p \in 1..PromptLen : hist[r][p] = version[r]
    BY <1>6, <2>2
  <2>4. Chain(batches, r, status[r] = "running", computed[r], Len(hist[r]), version[r],
              Versioned(r), inFlight[r], stale[r])
    <3>1. \A i \in 1..Len(batches) : ~Has(batches[i], r)
      BY <1>2
    <3>2. Chain(batches, r, FALSE, computed[r], Len(hist[r]), version[r], Versioned(r), 0, 0)
      BY <1>2, <3>1, ChainNone
    <3>3. (status[r] = "running") = FALSE
      BY <2>2
    <3> QED  BY <2>2, <3>2, <3>3
  <2>5. status[r] # "running" /\ \A w \in PlanRows(r) : FALSE
    BY <2>1, <2>2
  <2> QED  BY <2>1, <2>2, <2>3, <2>4, <2>5, Zenon DEF Good
<1> QED  BY <1>1, <1>2, <1>5, <1>7 DEF Served

\* Every step keeps it.
LEMMA NextServed ==
  ASSUME BlockAssumption, Life, Ran, Served, [Next]_vars
  PROVE  Served'
<1>1. ASSUME executed = Len(batches), UNCHANGED rankVars, NEW r \in Requests, ScheduleRunning(r)
      PROVE  Served'
  BY <1>1, ScheduleRunningServed
<1>2. ASSUME executed = Len(batches), UNCHANGED rankVars, NEW r \in Requests, ScheduleWaiting(r)
      PROVE  Served'
  BY <1>2, ScheduleWaitingServed
<1>3. ASSUME executed = Len(batches), UNCHANGED rankVars,
             NEW q \in Requests, NEW r \in Requests, Preempt(q, r)
      PROVE  Served'
  BY <1>3, PreemptServed
<1>4. ASSUME executed = Len(batches), UNCHANGED rankVars, Issue PROVE Served'
  BY <1>4, IssueServed
<1>5. ASSUME executed = Len(batches), UNCHANGED rankVars, ForcedReset PROVE Served'
  BY <1>5, ForcedResetServed
<1>6. ASSUME executed = Len(batches), UNCHANGED rankVars, NEW r \in Requests, Abort(r) PROVE Served'
  BY <1>6, AbortServed
<1>7. ASSUME executed = Len(batches), UNCHANGED rankVars, NEW r \in Requests, Resubmit(r) PROVE Served'
  BY <1>7, ResubmitServed
<1>8. CASE Engine
  BY <1>1, <1>2, <1>3, <1>4, <1>5, <1>6, <1>7, <1>8 DEF Engine, Schedule, Client
<1>9. CASE Processed
  BY <1>9, ProcessedServed
<1>10. CASE WriteHashCache \/ HashIds
  <2>1. UNCHANGED schedulerVars
    BY <1>10 DEF WriteHashCache, HashIds
  <2> QED  BY <1>10, <2>1, RankServed
<1>11. CASE Idle \/ UNCHANGED vars
  <2>1. UNCHANGED vars
    BY <1>11 DEF Idle
  <2>2. UNCHANGED schedulerVars
    BY <2>1 DEF vars
  <2> QED  BY <2>1, <2>2, RankServed
<1> QED  BY <1>8, <1>9, <1>10, <1>11 DEF Next

\* Between its two kernels the rank is at the newest batch, and has counted it in.
LEMMA Hashing ==
  ASSUME Life, Ran, Served, rankPc = "hash"
  PROVE  /\ DueCached = cached /\ DueRow = row /\ DueCache = cache
         /\ \A w \in Rows : Ready(w)
<1>1. Len(batches) \in Nat /\ executed \in Nat /\ executed < Len(batches) /\ executed >= Len(batches) - 1
  BY QueueCounts DEF Life, Counters, Ran, Served
<1>2. executed + 1 = Len(batches)
  BY <1>1
<1>3. Rows = Newest.rows
  BY <1>2 DEF Rows, Current, Newest
<1>4. ~Due
  BY DEF Due
<1> QED  BY <1>1, <1>3, <1>4 DEF DueCached, DueRow, DueCache, Served

LEMMA HeldWindow ==
  ASSUME Life, Ran, Served
  PROVE  WindowHeld
<1> SUFFICES ASSUME rankPc = "hash", NEW w \in Rows,
                    NEW p \in (w.start - Window + 1)..(w.start - 1), p >= 0
             PROVE  cache[SlotOf(row[w.r], p)] = Own(w, p)
  BY DEF WindowHeld
<1>1. Ready(w) /\ DueRow = row /\ DueCache = cache
  BY Hashing
<1> QED  BY <1>1 DEF Ready

\* The lookback is shorter than the window: the n-grams that the batch is hashed with are right.
LEMMA ExactLookback ==
  ASSUME BlockAssumption, LookbackAssumption, Life, Ran, Served
  PROVE  LookbackExact
<1> SUFFICES ASSUME rankPc = "hash", NEW w \in Rows,
                    NEW p \in (w.start - Depth)..(w.start - 1), p >= 0
             PROVE  Source(w, p) = Own(w, p)
  BY DEF LookbackExact
<1>1. Ready(w) /\ DueRow = row /\ DueCache = cache /\ DueCached = cached
  BY Hashing
<1>2. w.start \in Int
  BY <1>1 DEF Ready
<1>3. CASE InWindow(p)
  <2>1. p \in 0..(w.start - 1) /\ p < PromptLen
    BY <1>2, <1>3 DEF InWindow, LookbackAssumption
  <2>2. w.before[p + 1] = cached[w.r].version
    BY <1>1, <2>1 DEF Ready
  <2> QED  BY <1>3, <2>2 DEF Source, Own
<1>4. CASE ~InWindow(p)
  <2>1. p \in (w.start - Window + 1)..(w.start - 1)
    BY <1>2 DEF LookbackAssumption, BlockAssumption
  <2>2. cache[SlotOf(row[w.r], p)] = Own(w, p)
    BY <1>1, <2>1 DEF Ready
  <2> QED  BY <1>4, <2>2 DEF Source
<1> QED  BY <1>3, <1>4

(***************************************************************************)
(* When a batch is executed, the whole sliding window before each chunk is *)
(* in the slots of its request, for any requests, blocks, block size,      *)
(* window, drafts, budget and queue.                                       *)
(***************************************************************************)
THEOREM WindowStaysHeld == Spec => []WindowHeld
<1>1. Init => Life /\ Ran /\ Served
  BY BlockAssumption, InitLife, InitServed
<1>2. Life /\ Ran /\ Served /\ [Next]_vars => Life' /\ Ran' /\ Served'
  BY BlockAssumption, NextLife, NextRan, NextServed
<1>3. Life /\ Ran /\ Served => WindowHeld
  BY HeldWindow
<1> QED  BY <1>1, <1>2, <1>3, PTL DEF Spec

(***************************************************************************)
(* Every n-gram that reaches back before a chunk is made of the request's  *)
(* own accepted tokens, with or without defer_block_free, for any lookback *)
(* shorter than the window.                                                *)
(***************************************************************************)
THEOREM LookbackStaysExact == Spec => []LookbackExact
<1>1. Init => Life /\ Ran /\ Served
  BY BlockAssumption, InitLife, InitServed
<1>2. Life /\ Ran /\ Served /\ [Next]_vars => Life' /\ Ran' /\ Served'
  BY BlockAssumption, NextLife, NextRan, NextServed
<1>3. Life /\ Ran /\ Served => LookbackExact
  BY BlockAssumption, LookbackAssumption, ExactLookback
<1> QED  BY <1>1, <1>2, <1>3, PTL DEF Spec
=============================================================================
