------------------------- MODULE PPRecvRingProofs --------------------------
(***************************************************************************)
(* The three invariants of PPRecvRing for every number of ranks, requests, *)
(* slots, drafts and steps: a decode continues from the token that was     *)
(* sampled for it, the device's count of computed tokens is exact when a   *)
(* request runs, and the ranks agree on the sequence of collectives.       *)
(*                                                                         *)
(* A rank may be several steps behind the scheduler, so what it holds is   *)
(* right with respect to the requests as they were, not as they are, and   *)
(* the outputs that every rank has executed are forgotten.  The invariant  *)
(* therefore says that some history of the schedule (H, the requests after *)
(* each step, and B, the output for it) explains the state of every rank   *)
(* at the step that rank has come to.                                      *)
(***************************************************************************)
EXTENDS PPRecvRing, DataTheorems, FunctionTheorems

---------------------------------------------------------------------------
(* The history of the schedule *)

RequestState == [life : Nat, computed : Nat, prefill : Nat, eligible : Nat, sampled : Nat]
RowState == [life : Nat, old : Nat, prefill : Nat, sampled : Nat, num : Nat]
BatchState ==
  [drop : SUBSET Requests, add : SUBSET Requests,
   rows : UNION {[S -> RowState] : S \in SUBSET Requests}]

Needs(b, r) == r \in NeedSampled(b)

\* The row that step s gives r in b, a being the state of r before the step.
GivenRow(a, b, r, s) ==
  /\ b.rows[r].num > 0
  /\ IF r \in b.add
       THEN /\ b.rows[r].life = s /\ b.rows[r].old = 0
            /\ b.rows[r].prefill > 0 /\ b.rows[r].sampled = 0
       ELSE /\ r \notin b.drop /\ a.life # 0 /\ s >= a.eligible
            /\ b.rows[r].life = a.life /\ b.rows[r].old = a.computed
            /\ b.rows[r].prefill = a.prefill /\ b.rows[r].sampled = a.sampled

\* The state of r after a row is scheduled in step s.
GoneOn(a, b, z, r, s) ==
  /\ z.life = b.rows[r].life /\ z.prefill = b.rows[r].prefill
  /\ z.computed = b.rows[r].old + b.rows[r].num
  /\ IF Needs(b, r)
       THEN z.sampled = s /\ z.eligible = s + NumRanks
       ELSE z.sampled = b.rows[r].sampled /\ z.eligible = IF r \in b.add THEN 0 ELSE a.eligible

\* Step s takes r from state a to z with the batch b.
Follows(a, b, z, r, s) ==
  /\ r \in b.drop => a.life # 0
  /\ r \in b.add => r \in DOMAIN b.rows /\ (a.life = 0 \/ r \in b.drop)
  /\ r \in DOMAIN b.rows => GivenRow(a, b, r, s) /\ GoneOn(a, b, z, r, s)
  /\ r \notin DOMAIN b.rows => z = IF r \in b.drop THEN Absent ELSE a

\* The state of a request after step s.
Sound(a, s) ==
  a.life # 0 =>
    /\ a.life <= s /\ a.prefill > 0
    /\ a.computed >= a.prefill => a.sampled # 0
    /\ a.sampled # 0 => a.life <= a.sampled /\ a.sampled <= s /\ a.eligible = a.sampled + NumRanks

\* The samples of a life are NumRanks steps apart, and sampled is the latest.
Spaced(B, a, r, s) ==
  a.life # 0 =>
    \A t \in a.life..s : Needs(B[t], r) => t = a.sampled \/ t + NumRanks <= a.sampled

AliveIn(h) == {r \in Requests : h[r].life # 0}

(***************************************************************************)
(* H[s] is the state of every request after step s, B[s] the output of the *)
(* scheduler for step s: all of it, also what is forgotten since.          *)
(***************************************************************************)
History(H, B) ==
  /\ H \in [0..currentStep -> [Requests -> RequestState]]
  /\ B \in [1..currentStep -> BatchState]
  /\ H[currentStep] = req
  /\ \A r \in Requests : H[0][r] = Absent
  /\ \A s \in 1..currentStep, r \in Requests : Follows(H[s - 1][r], B[s], H[s][r], r, s)
  /\ \A s \in 0..currentStep, r \in Requests : Sound(H[s][r], s) /\ Spaced(B, H[s][r], r, s)
  /\ \A s \in 0..currentStep : Cardinality(AliveIn(H[s])) <= NumSlots

\* What some rank has still to execute is kept.
Kept(B) ==
  /\ issued = [s \in DOMAIN issued |-> issued[s]] /\ DOMAIN issued \subseteq 1..currentStep
  /\ \A k \in Ranks : \A s \in (pos[k] + 1)..currentStep : s \in DOMAIN issued /\ issued[s] = B[s]

---------------------------------------------------------------------------
(* The ranks *)

\* The step the rank has begun, and the last one whose rejections it has applied.
Begun(k) == IF phase[k] = "sample" THEN pos[k] + 1 ELSE pos[k]
Through(k) == IF k = NumRanks THEN pos[k] ELSE Begun(k) - NumRanks

InForward(B, k, r) == phase[k] = "sample" /\ r \in DOMAIN B[Begun(k)].rows
Life(H, k, r) == H[Begun(k)][r].life
Done(H, B, k, r) == IF InForward(B, k, r) THEN B[Begun(k)].rows[r].old ELSE H[Begun(k)][r].computed
Latest(H, B, k, r) ==
  IF InForward(B, k, r) THEN B[Begun(k)].rows[r].sampled ELSE H[Begun(k)][r].sampled

RejectedOf(rej, r) == [t \in 1..MaxSteps |-> rej[t][r]]
Lost(rej, r, l, u) == Total(RejectedOf(rej, r), l..u)

RowEntry == [idx : Slots, gen : Nat, need : BOOLEAN]
RingEntry == [nth : Nat, rows : UNION {[S -> RowEntry] : S \in SUBSET Requests}]

Typed ==
  /\ currentStep \in 0..MaxSteps
  /\ req \in [Requests -> RequestState]
  /\ pos \in [Ranks -> Nat] /\ phase \in [Ranks -> {"execute", "sample"}]
  /\ \A k \in Ranks : Begun(k) <= currentStep
  /\ index \in [Ranks -> [Requests -> 0..NumSlots]]
  /\ gen \in [Ranks -> [Slots -> Nat]]
  /\ ring \in [Receivers -> Seq(RingEntry)] /\ \A k \in Receivers : Len(ring[k]) = NumRanks
  /\ posted \in [Receivers -> Seq(Nat)] /\ sent \in Seq(Nat)
  /\ computed \in [Ranks -> [Slots -> Int]]
  /\ last = [k \in Ranks |-> last[k]]
  /\ rejected \in [1..MaxSteps -> [Requests -> 0..NumSpec]]

\* Only what was sampled was rejected.
Rejections(B) ==
  \A t \in 1..MaxSteps, r \in Requests :
    rejected[t][r] # 0 => t <= pos[NumRanks] /\ Needs(B[t], r)

\* Exactly the requests that run have a slot, each its own.
Slotted(H, k) ==
  /\ \A r \in Requests : index[k][r] # NoSlot <=> Life(H, k, r) # 0
  /\ \A r, q \in Requests : index[k][r] = index[k][q] /\ index[k][r] # NoSlot => r = q

\* What the device holds for r in its slot i.
DataOf(H, B, k, r, i) ==
  /\ Latest(H, B, k, r) \in 1..Through(k) => last[k][i] = <<r, Latest(H, B, k, r)>>
  /\ computed[k][i] = Done(H, B, k, r) - Lost(rejected, r, Life(H, k, r), Through(k))
  /\ \A t \in Life(H, k, r)..Through(k) : Needs(B[t], r) => t <= pos[NumRanks]

Data(H, B, k) ==
  \A r \in Requests : Life(H, k, r) # 0 => DataOf(H, B, k, r, index[k][r])

\* The row of r in the entry e of step u is about the request that has the slot.
Owned(H, B, k, e, r, u) ==
  /\ e.rows[r].gen <= gen[k][e.rows[r].idx]
  /\ StillOwned(k, e.rows[r]) =>
       Life(H, k, r) # 0 /\ index[k][r] = e.rows[r].idx /\ Latest(H, B, k, r) = u

Entries(H, B, k) ==
  \A j \in 1..NumRanks :
    /\ DOMAIN ring[k][j].rows # {} =>
         /\ ring[k][j].nth \in 1..Len(posted[k])
         /\ posted[k][ring[k][j].nth] = Through(k) + j
    /\ \A r \in DOMAIN ring[k][j].rows : Owned(H, B, k, ring[k][j], r, Through(k) + j)

\* The entry e is to deliver the sample of r to the slot that r has.
Awaits(k, e, r) ==
  /\ r \in DOMAIN e.rows
  /\ e.rows[r].need /\ e.rows[r].idx = index[k][r] /\ e.rows[r].gen = gen[k][index[k][r]]

UnderWay(H, B, k) ==
  \A r \in Requests :
    Life(H, k, r) # 0 /\ Latest(H, B, k, r) # 0 /\ Latest(H, B, k, r) > Through(k) =>
      Awaits(k, ring[k][Latest(H, B, k, r) - Through(k)], r)

RanksRight(H, B) ==
  /\ \A k \in Ranks : Slotted(H, k) /\ Data(H, B, k)
  /\ \A k \in Receivers : Entries(H, B, k) /\ UnderWay(H, B, k)

---------------------------------------------------------------------------
(* The collectives *)

Joined(b) == NeedSampled(b) # {}

\* q lists the steps up to p that are broadcast, in order.
Lists(q, B, p) ==
  /\ \A n \in 1..Len(q) : q[n] \in 1..p /\ Joined(B[q[n]])
  /\ \A m, n \in 1..Len(q) : m < n => q[m] < q[n]
  /\ \A s \in 1..p : Joined(B[s]) => \E n \in 1..Len(q) : q[n] = s

Agree(q, s) == \A n \in 1..Len(q) : n <= Len(s) => q[n] = s[n]

Paired(B) ==
  /\ Lists(sent, B, pos[NumRanks])
  /\ \A k \in Receivers : Lists(posted[k], B, pos[k]) /\ Agree(posted[k], sent)

RingInv(H, B) ==
  Typed /\ History(H, B) /\ Kept(B) /\ Rejections(B) /\ RanksRight(H, B) /\ Paired(B)

---------------------------------------------------------------------------
(* Types *)

LEMMA RankNumbers ==
  /\ NumRanks \in Nat /\ NumRanks >= 2 /\ NumRanks \in Ranks
  /\ Receivers \subseteq Ranks /\ NumRanks \notin Receivers
  /\ \A k \in Ranks : k # NumRanks => k \in Receivers
  /\ IsFiniteSet(Requests) /\ NumSlots \in Nat /\ NumSpec \in Nat /\ MaxSteps \in Nat
BY RingAssumption DEF Ranks, Receivers

LEMMA BatchFacts ==
  ASSUME NEW b \in BatchState
  PROVE  /\ b.drop \subseteq Requests /\ b.add \subseteq Requests
         /\ DOMAIN b.rows \subseteq Requests /\ b.rows = [r \in DOMAIN b.rows |-> b.rows[r]]
         /\ \A r \in DOMAIN b.rows :
              /\ b.rows[r].life \in Nat /\ b.rows[r].old \in Nat /\ b.rows[r].prefill \in Nat
              /\ b.rows[r].sampled \in Nat /\ b.rows[r].num \in Nat
<1>1. PICK S \in SUBSET Requests : b.rows \in [S -> RowState]
  BY DEF BatchState
<1>2. DOMAIN b.rows = S /\ \A r \in S : b.rows[r] \in RowState
  BY <1>1
<1>3. b.rows = [r \in DOMAIN b.rows |-> b.rows[r]]
  BY <1>1, <1>2
<1> QED  BY <1>2, <1>3 DEF BatchState, RowState

LEMMA StateFacts ==
  ASSUME NEW a \in RequestState
  PROVE  /\ a.life \in Nat /\ a.computed \in Nat /\ a.prefill \in Nat
         /\ a.eligible \in Nat /\ a.sampled \in Nat
BY DEF RequestState

LEMMA NeedsFacts ==
  ASSUME NEW b, NEW r
  PROVE  Needs(b, r) <=> r \in DOMAIN b.rows /\ b.rows[r].old + b.rows[r].num >= b.rows[r].prefill
BY DEF Needs, NeedSampled, ProducesSample

---------------------------------------------------------------------------
(* A step of the scheduler *)

\* Step s takes the requests from h to z with the batch b.
StepTaken(h, b, z, s) ==
  /\ b \in BatchState /\ z \in [Requests -> RequestState]
  /\ \A r \in Requests : Follows(h[r], b, z[r], r, s)
  /\ Cardinality(AliveIn(z)) <= NumSlots

LEMMA LengthsFacts ==
  ASSUME NEW q \in RequestState, NEW n, n \in Lengths(q)
  PROVE  n \in Nat /\ n > 0
<1>1. CASE q.computed < q.prefill
  BY <1>1, StateFacts DEF Lengths
<1>2. CASE ~(q.computed < q.prefill)
  BY <1>2, RankNumbers DEF Lengths
<1> QED  BY <1>1, <1>2

LEMMA AdvancedFacts ==
  ASSUME NEW q \in RequestState, NEW n \in Nat, currentStep \in Nat
  PROVE  /\ Advanced(q, n) \in RequestState
         /\ Advanced(q, n).life = q.life /\ Advanced(q, n).prefill = q.prefill
         /\ Advanced(q, n).computed = q.computed + n
         /\ IF q.computed + n >= q.prefill
              THEN /\ Advanced(q, n).sampled = currentStep + 1
                   /\ Advanced(q, n).eligible = currentStep + 1 + NumRanks
              ELSE Advanced(q, n).sampled = q.sampled /\ Advanced(q, n).eligible = q.eligible
<1> DEFINE z == Advanced(q, n)
<1>1. /\ q.life \in Nat /\ q.computed \in Nat /\ q.prefill \in Nat /\ q.sampled \in Nat
      /\ q.eligible \in Nat /\ NumRanks \in Nat
  BY StateFacts, RankNumbers
<1>2. CASE q.computed + n < q.prefill
  <2>1. z = [q EXCEPT !.computed = @ + n]
    BY <1>2 DEF Advanced
  <2>2. /\ z.life = q.life /\ z.prefill = q.prefill /\ z.computed = q.computed + n
        /\ z.sampled = q.sampled /\ z.eligible = q.eligible
    BY <2>1 DEF RequestState
  <2>3. z \in RequestState
    BY <1>1, <2>1 DEF RequestState
  <2> QED  BY <1>1, <1>2, <2>2, <2>3
<1>3. CASE ~(q.computed + n < q.prefill)
  <2>1. z = [q EXCEPT !.computed = @ + n, !.eligible = currentStep + 1 + NumRanks,
                      !.sampled = currentStep + 1]
    BY <1>3 DEF Advanced
  <2>2. /\ z.life = q.life /\ z.prefill = q.prefill /\ z.computed = q.computed + n
        /\ z.sampled = currentStep + 1 /\ z.eligible = currentStep + 1 + NumRanks
    BY <2>1 DEF RequestState
  <2>3. /\ q.computed + n \in Nat /\ currentStep + 1 \in Nat
        /\ currentStep + 1 + NumRanks \in Nat
    BY <1>1
  <2>4. z = [life |-> q.life, computed |-> q.computed + n, prefill |-> q.prefill,
             eligible |-> currentStep + 1 + NumRanks, sampled |-> currentStep + 1]
    BY <2>1 DEF RequestState
  <2>5. z \in RequestState
    BY <1>1, <2>3, <2>4 DEF RequestState
  <2> QED  BY <1>1, <1>3, <2>2, <2>5
<1> QED  BY <1>2, <1>3

\* What Schedule does, seen request by request.
LEMMA ScheduleStep ==
  ASSUME Typed, Schedule
  PROVE  \E b : issued' = Issued(b) /\ StepTaken(req, b, req', currentStep + 1)
<1>1. currentStep \in Nat /\ req \in [Requests -> RequestState]
  BY DEF Typed
<1> DEFINE s == currentStep + 1
<1>2. PICK drop \in SUBSET Running :
        \E add \in SUBSET ((Requests \ Running) \union drop),
           run \in SUBSET {r \in Running \ drop : ~Throttled(r)} :
          /\ Running # {} \/ add # {}
          /\ drop \union add # {} => currentStep < LastAdmission
          /\ Cardinality(Running \ drop) + Cardinality(add) <= NumSlots
          /\ \E prefill \in [add -> Prefills],
                num \in [run \union add -> 1..(Max(Prefills) + NumSpec)] :
               LET now == RequestsOf(run, add, prefill)
               IN  /\ \A r \in DOMAIN now : num[r] \in Lengths(now[r])
                   /\ issued' = Issued(Output(drop, add, now, num))
                   /\ req' = [r \in Requests |->
                        IF r \in DOMAIN now THEN Advanced(now[r], num[r])
                        ELSE IF r \in drop THEN Absent
                        ELSE req[r]]
  BY Zenon DEF Schedule
<1>3. PICK add \in SUBSET ((Requests \ Running) \union drop),
           run \in SUBSET {r \in Running \ drop : ~Throttled(r)} :
        /\ Running # {} \/ add # {}
        /\ drop \union add # {} => currentStep < LastAdmission
        /\ Cardinality(Running \ drop) + Cardinality(add) <= NumSlots
        /\ \E prefill \in [add -> Prefills],
              num \in [run \union add -> 1..(Max(Prefills) + NumSpec)] :
             LET now == RequestsOf(run, add, prefill)
             IN  /\ \A r \in DOMAIN now : num[r] \in Lengths(now[r])
                 /\ issued' = Issued(Output(drop, add, now, num))
                 /\ req' = [r \in Requests |->
                      IF r \in DOMAIN now THEN Advanced(now[r], num[r])
                      ELSE IF r \in drop THEN Absent
                      ELSE req[r]]
  BY <1>2, Zenon
<1>4. PICK prefill \in [add -> Prefills],
           num \in [run \union add -> 1..(Max(Prefills) + NumSpec)] :
        LET now == RequestsOf(run, add, prefill)
        IN  /\ \A r \in DOMAIN now : num[r] \in Lengths(now[r])
            /\ issued' = Issued(Output(drop, add, now, num))
            /\ req' = [r \in Requests |->
                 IF r \in DOMAIN now THEN Advanced(now[r], num[r])
                 ELSE IF r \in drop THEN Absent
                 ELSE req[r]]
  BY <1>3, Zenon
<1> DEFINE D == run \union add
           now == RequestsOf(run, add, prefill)
           b == Output(drop, add, now, num)
<1>5. /\ D \subseteq Requests /\ drop \subseteq Requests /\ add \subseteq Requests
      /\ run \subseteq Running /\ run \intersect drop = {} /\ run \intersect add = {}
      /\ Running \subseteq Requests
      /\ \A r \in run : ~Throttled(r)
      /\ DOMAIN now = D
  BY <1>2, <1>3 DEF Running, RequestsOf
<1>13. /\ \A r \in D : num[r] \in Lengths(now[r])
       /\ issued' = Issued(b)
       /\ \A r \in Requests : req'[r] = IF r \in D THEN Advanced(now[r], num[r])
                                         ELSE IF r \in drop THEN Absent ELSE req[r]
       /\ DOMAIN req' = Requests /\ req' = [r \in Requests |-> req'[r]]
  <2> HIDE DEF now, b
  <2>1. /\ \A r \in DOMAIN now : num[r] \in Lengths(now[r])
        /\ issued' = Issued(b)
        /\ req' = [r \in Requests |->
             IF r \in DOMAIN now THEN Advanced(now[r], num[r])
             ELSE IF r \in drop THEN Absent
             ELSE req[r]]
    BY <1>4, Zenon DEF now, b
  <2>2. DOMAIN now = D
    BY <1>5
  <2> HIDE DEF D
  <2>3. req' = [r \in Requests |-> IF r \in D THEN Advanced(now[r], num[r])
                                   ELSE IF r \in drop THEN Absent ELSE req[r]]
    BY <2>1, <2>2
  <2>4. \A r \in D : num[r] \in Lengths(now[r])
    BY <2>1, <2>2
  <2> QED  BY <2>1, <2>3, <2>4
<1>12. b.drop = drop /\ b.add = add /\ DOMAIN b.rows = D
  BY <1>5 DEF Output
<1>6. \A r \in D :
        /\ now[r] \in RequestState
        /\ r \in run => now[r] = req[r]
        /\ r \in add => /\ now[r].life = s /\ now[r].computed = 0 /\ now[r].prefill > 0
                        /\ now[r].eligible = 0 /\ now[r].sampled = 0
  <2> TAKE r \in D
  <2>0. now[r] = IF r \in run THEN req[r]
                  ELSE [Absent EXCEPT !.life = s, !.prefill = prefill[r]]
    BY DEF RequestsOf
  <2>1. CASE r \in run
    BY <2>0, <1>1, <1>5, <2>1 DEF RequestsOf
  <2>2. CASE r \notin run
    <3>1. r \in add /\ now[r] = [Absent EXCEPT !.life = s, !.prefill = prefill[r]]
      BY <2>0, <2>2
    <3>2. prefill[r] \in Nat \ {0}
      BY <1>4, <3>1, RingAssumption
    <3>3. now[r] = [life |-> s, computed |-> 0, prefill |-> prefill[r], eligible |-> 0,
                    sampled |-> 0]
      BY <3>1 DEF Absent
    <3>4. s \in Nat /\ prefill[r] \in Nat /\ prefill[r] > 0
      BY <1>1, <3>2
    <3> HIDE DEF now, s
    <3>5. now[r] \in RequestState
      BY <3>3, <3>4 DEF RequestState
    <3> QED  BY <1>5, <2>2, <3>3, <3>4, <3>5
  <2> QED  BY <2>1, <2>2
<1> HIDE DEF now
<1>7. \A r \in D : num[r] \in Nat /\ num[r] > 0
  BY <1>13, <1>5, <1>6, LengthsFacts
<1>8. b \in BatchState
  <2> DEFINE Row(r) == [life |-> now[r].life, old |-> now[r].computed, prefill |-> now[r].prefill,
                        sampled |-> now[r].sampled, num |-> num[r]]
  <2>1. \A r \in D : Row(r) \in RowState
    BY <1>6, <1>7, StateFacts DEF RowState
  <2>2. b.rows = [r \in D |-> Row(r)]
    BY <1>5 DEF Output
  <2>3. b.rows \in [D -> RowState]
    BY <2>1, <2>2
  <2>4. b = [drop |-> drop, add |-> add, rows |-> b.rows]
    BY DEF Output
  <2> HIDE DEF b
  <2> QED  BY <1>5, <2>3, <2>4 DEF BatchState
<1>9. req' \in [Requests -> RequestState]
  <2> SUFFICES ASSUME NEW r \in Requests PROVE req'[r] \in RequestState
    BY <1>13
  <2>1. CASE r \in D
    BY <1>1, <1>13, <1>5, <1>6, <1>7, <2>1, AdvancedFacts
  <2>2. CASE r \notin D
    BY <1>1, <1>13, <1>5, <2>2 DEF Absent, RequestState
  <2> QED  BY <2>1, <2>2
<1>10. ASSUME NEW r \in Requests PROVE Follows(req[r], b, req'[r], r, s)
  <2> DEFINE w == b.rows[r]  z == req'[r]  a == req[r]
  <2>0. b.drop = drop /\ b.add = add /\ DOMAIN b.rows = D
    BY <1>12
  <2>1. r \in drop => a.life # 0
    BY <1>2 DEF Running
  <2>2. r \in add => r \in D /\ (a.life = 0 \/ r \in drop)
    BY <1>3 DEF Running
  <2>3. r \notin D => z = IF r \in drop THEN Absent ELSE a
    BY <1>13, <1>5
  <2>4. ASSUME r \in D PROVE GivenRow(a, b, r, s) /\ GoneOn(a, b, z, r, s)
    <3>1. /\ w.life = now[r].life /\ w.old = now[r].computed /\ w.prefill = now[r].prefill
          /\ w.sampled = now[r].sampled /\ w.num = num[r]
      BY <1>5, <2>4 DEF Output
    <3>2. z = Advanced(now[r], num[r])
      BY <1>13, <1>5, <2>4
    <3>3. num[r] \in Nat /\ num[r] > 0 /\ now[r] \in RequestState
      BY <1>6, <1>7, <2>4
    <3>4. Needs(b, r) <=> w.old + w.num >= w.prefill
      BY <2>0, <2>4, NeedsFacts
    <3>5. /\ z.life = now[r].life /\ z.prefill = now[r].prefill
          /\ z.computed = now[r].computed + num[r]
          /\ IF now[r].computed + num[r] >= now[r].prefill
               THEN z.sampled = s /\ z.eligible = s + NumRanks
               ELSE z.sampled = now[r].sampled /\ z.eligible = now[r].eligible
      BY <1>1, <3>2, <3>3, AdvancedFacts
    <3>6. r \in add => now[r].life = s /\ now[r].computed = 0 /\ now[r].prefill > 0
                       /\ now[r].eligible = 0 /\ now[r].sampled = 0
      BY <1>6, <2>4
    <3>7. r \notin add => /\ now[r] = a /\ r \notin drop /\ a.life # 0 /\ s >= a.eligible
      <4> SUFFICES ASSUME r \notin add
                   PROVE  now[r] = a /\ r \notin drop /\ a.life # 0 /\ s >= a.eligible
        OBVIOUS
      <4>1. r \in run
        BY <2>4
      <4>2. now[r] = a /\ r \notin drop /\ r \in Running /\ ~Throttled(r)
        BY <1>5, <1>6, <2>4, <4>1
      <4>3. a.eligible \in Nat
        BY <1>1, StateFacts
      <4> QED  BY <1>1, <4>2, <4>3 DEF Running, Throttled
    <3> HIDE DEF w, z, a, b, s
    <3>8. GivenRow(a, b, r, s)
      BY <2>0, <3>1, <3>3, <3>6, <3>7 DEF GivenRow, w
    <3>9. GoneOn(a, b, z, r, s)
      BY <2>0, <3>1, <3>4, <3>5, <3>6, <3>7 DEF GoneOn, w
    <3> QED  BY <3>8, <3>9
  <2> HIDE DEF w, z, a, b, s
  <2> QED  BY <2>0, <2>1, <2>2, <2>3, <2>4 DEF Follows, a, z
<1>11. Cardinality(AliveIn(req')) <= NumSlots
  <2> DEFINE A == Running \ drop
  <2>1. AliveIn(req') \subseteq A \union add
    <3> SUFFICES ASSUME NEW r \in Requests, req'[r].life # 0, r \notin A, r \notin add PROVE FALSE
      BY DEF AliveIn
    <3>1. r \notin D
      BY <1>5
    <3>2. req'[r] = IF r \in drop THEN Absent ELSE req[r]
      BY <1>13, <1>5, <3>1
    <3> QED  BY <3>2 DEF Running, Absent
  <2>2. IsFiniteSet(A) /\ IsFiniteSet(add)
    BY <1>5, RankNumbers, FS_Subset
  <2> HIDE DEF A
  <2>3. IsFiniteSet(A \union add) /\ Cardinality(A \union add) <= Cardinality(A) + Cardinality(add)
    <3>1. /\ IsFiniteSet(A \union add)
          /\ Cardinality(A \union add) =
               Cardinality(A) + Cardinality(add) - Cardinality(A \intersect add)
      BY <2>2, FS_Union
    <3>2. IsFiniteSet(A \intersect add)
      BY <2>2, FS_Subset
    <3>3. /\ Cardinality(A) \in Nat /\ Cardinality(add) \in Nat
          /\ Cardinality(A \intersect add) \in Nat
      BY <2>2, <3>2, FS_CardinalityType
    <3> QED  BY <3>1, <3>3
  <2>4. Cardinality(AliveIn(req')) <= Cardinality(A \union add)
    BY <2>1, <2>3, FS_Subset
  <2>5. Cardinality(A) + Cardinality(add) <= NumSlots
    BY <1>3 DEF A
  <2>6. /\ Cardinality(A) \in Nat /\ Cardinality(add) \in Nat
        /\ Cardinality(A \union add) \in Nat /\ Cardinality(AliveIn(req')) \in Nat
    <3>1. IsFiniteSet(AliveIn(req'))
      BY <2>1, <2>3, FS_Subset
    <3> QED  BY <2>2, <2>3, <3>1, FS_CardinalityType
  <2> QED  BY <2>3, <2>4, <2>5, <2>6, RankNumbers
<1> HIDE DEF b
<1> QED  BY <1>13, <1>8, <1>9, <1>10, <1>11 DEF StepTaken

\* The longer history agrees with the shorter one.
Prolongs(H, B, Z, C) ==
  /\ \A s \in 0..currentStep : Z[s] = H[s]
  /\ \A s \in 1..currentStep : C[s] = B[s]

\* One more step keeps the samples of a life NumRanks apart: a decode was throttled until then.
LEMMA SpacedOn ==
  ASSUME NEW B, NEW a \in RequestState, NEW b, NEW z \in RequestState, NEW r, NEW s \in Nat,
         s > 0, Sound(a, s - 1), Spaced(B, a, r, s - 1), B[s] = b, Follows(a, b, z, r, s)
  PROVE  Sound(z, s) /\ Spaced(B, z, r, s)
<1> DEFINE w == b.rows[r]
<1>1. /\ a.life \in Nat /\ a.computed \in Nat /\ a.prefill \in Nat
      /\ a.eligible \in Nat /\ a.sampled \in Nat
      /\ z.life \in Nat /\ z.computed \in Nat /\ z.prefill \in Nat
      /\ z.eligible \in Nat /\ z.sampled \in Nat
  BY StateFacts
<1>2. NumRanks \in Nat /\ NumRanks >= 2
  BY RankNumbers
<1>3. Needs(b, r) <=> r \in DOMAIN b.rows /\ w.old + w.num >= w.prefill
  BY NeedsFacts
<1> SUFFICES ASSUME z.life # 0
             PROVE  /\ z.life <= s /\ z.prefill > 0
                    /\ z.computed >= z.prefill => z.sampled # 0
                    /\ z.sampled # 0 => /\ z.life <= z.sampled /\ z.sampled <= s
                                        /\ z.eligible = z.sampled + NumRanks
                    /\ \A t \in z.life..s :
                         Needs(B[t], r) => t = z.sampled \/ t + NumRanks <= z.sampled
  BY DEF Sound, Spaced
<1>4. CASE r \notin DOMAIN b.rows
  <2>1. z = a
    BY <1>4 DEF Follows, Absent
  <2>2. ~Needs(B[s], r)
    BY <1>3, <1>4
  <2>3. \A t \in a.life..(s - 1) : Needs(B[t], r) => t = a.sampled \/ t + NumRanks <= a.sampled
    BY <2>1 DEF Spaced
  <2>4. \A t \in z.life..s : t = s \/ t \in a.life..(s - 1)
    BY <1>1, <2>1
  <2>5. \A t \in z.life..s : Needs(B[t], r) => t = z.sampled \/ t + NumRanks <= z.sampled
    BY <2>1, <2>2, <2>3, <2>4
  <2> QED  BY <1>1, <2>1, <2>5 DEF Sound
<1>5. CASE r \in DOMAIN b.rows
  <2>1. GivenRow(a, b, r, s) /\ GoneOn(a, b, z, r, s)
    BY <1>5 DEF Follows
  <2>2. /\ w.num > 0 /\ z.life = w.life /\ z.prefill = w.prefill /\ z.computed = w.old + w.num
        /\ Needs(b, r) => z.sampled = s /\ z.eligible = s + NumRanks
        /\ ~Needs(b, r) => z.sampled = w.sampled
                           /\ z.eligible = IF r \in b.add THEN 0 ELSE a.eligible
    BY <2>1 DEF GivenRow, GoneOn
  <2>3. CASE r \in b.add
    <3>1. w.life = s /\ w.prefill > 0 /\ w.sampled = 0
      BY <2>1, <2>3 DEF GivenRow
    <3>2. z.life = s /\ z.prefill > 0
      BY <2>2, <3>1
    <3>3. \A t \in z.life..s : t = s
      BY <3>2
    <3>4. z.computed >= z.prefill => Needs(b, r)
      BY <1>3, <1>5, <2>2
    <3> QED  BY <1>1, <2>2, <3>1, <3>2, <3>3, <3>4
  <2>4. CASE r \notin b.add
    <3>1. /\ a.life # 0 /\ s >= a.eligible /\ w.life = a.life /\ w.old = a.computed
          /\ w.prefill = a.prefill /\ w.sampled = a.sampled
      BY <2>1, <2>4 DEF GivenRow
    <3>2. /\ a.life <= s - 1 /\ a.prefill > 0
          /\ a.sampled # 0 => /\ a.life <= a.sampled /\ a.sampled <= s - 1
                              /\ a.eligible = a.sampled + NumRanks
      BY <3>1 DEF Sound
    <3>3. \A t \in a.life..(s - 1) :
            Needs(B[t], r) => t = a.sampled \/ t + NumRanks <= a.sampled
      BY <3>1 DEF Spaced
    <3>4. \A t \in z.life..s : t = s \/ t \in a.life..(s - 1)
      BY <1>1, <2>2, <3>1
    <3>5. z.computed >= z.prefill => Needs(b, r)
      BY <1>3, <1>5, <2>2
    <3>6. \A t \in a.life..(s - 1) : Needs(B[t], r) => a.sampled # 0
      BY <1>1, <1>2, <3>1, <3>3
    <3>7. \A t \in z.life..s : Needs(B[t], r) => t = z.sampled \/ t + NumRanks <= z.sampled
      <4> SUFFICES ASSUME NEW t \in z.life..s, Needs(B[t], r)
                   PROVE  t = z.sampled \/ t + NumRanks <= z.sampled
        OBVIOUS
      <4>1. CASE t = s
        BY <2>2, <4>1
      <4>2. CASE t \in a.life..(s - 1)
        <5>1. (t = a.sampled \/ t + NumRanks <= a.sampled) /\ a.sampled # 0
          BY <3>3, <3>6, <4>2
        <5>2. a.sampled + NumRanks <= s
          BY <3>1, <3>2, <5>1
        <5>3. t \in Int /\ s \in Int
          OBVIOUS
        <5> QED  BY <1>1, <1>2, <2>2, <3>1, <5>1, <5>2, <5>3
      <4> QED  BY <3>4, <4>1, <4>2
    <3>8. z.life = a.life /\ z.prefill = a.prefill
      BY <2>2, <3>1
    <3>9. z.sampled # 0 => /\ z.life <= z.sampled /\ z.sampled <= s
                           /\ z.eligible = z.sampled + NumRanks
      BY <1>1, <1>2, <2>2, <2>4, <3>1, <3>2, <3>8
    <3> QED  BY <1>1, <2>2, <3>2, <3>5, <3>7, <3>8, <3>9
  <2> QED  BY <2>3, <2>4
<1> QED  BY <1>4, <1>5

\* Schedule prolongs the history by its step.
LEMMA HistoryGrows ==
  ASSUME NEW H, NEW B, Typed, History(H, B), Kept(B), Schedule
  PROVE  \E Z, C : Prolongs(H, B, Z, C) /\ History(Z, C)' /\ Kept(C)'
<1> DEFINE n == currentStep
<1>1. n \in Nat /\ currentStep' = n + 1 /\ pos' = pos
  BY DEF Typed, Schedule
<1>2. PICK b : issued' = Issued(b) /\ StepTaken(req, b, req', n + 1)
  BY ScheduleStep
<1>3. PICK Z : Z = [s \in 0..(n + 1) |-> IF s = n + 1 THEN req' ELSE H[s]]
  OBVIOUS
<1>4. PICK C : C = [s \in 1..(n + 1) |-> IF s = n + 1 THEN b ELSE B[s]]
  OBVIOUS
<1>5. PICK m : m = n
  OBVIOUS
<1>6. /\ H \in [0..m -> [Requests -> RequestState]] /\ B \in [1..m -> BatchState]
      /\ H[m] = req /\ \A r \in Requests : H[0][r] = Absent
      /\ \A s \in 1..m, r \in Requests : Follows(H[s - 1][r], B[s], H[s][r], r, s)
      /\ \A s \in 0..m, r \in Requests : Sound(H[s][r], s) /\ Spaced(B, H[s][r], r, s)
      /\ \A s \in 0..m : Cardinality(AliveIn(H[s])) <= NumSlots
  BY <1>5 DEF History
<1>7. m \in Nat /\ currentStep = m /\ currentStep' = m + 1
  BY <1>1, <1>5
<1>8. /\ Z \in [0..(m + 1) -> [Requests -> RequestState]] /\ C \in [1..(m + 1) -> BatchState]
      /\ \A s \in 0..m : Z[s] = H[s] /\ \A s2 \in 1..m : C[s2] = B[s2]
      /\ Z[m + 1] = req' /\ C[m + 1] = b
  <2>1. req' \in [Requests -> RequestState] /\ b \in BatchState
    BY <1>2 DEF StepTaken
  <2>2. \A s \in 0..m : Z[s] = H[s]
    BY <1>3, <1>5, <1>7
  <2>3. \A s \in 1..m : C[s] = B[s]
    BY <1>4, <1>5, <1>7
  <2>4. Z[m + 1] = req' /\ C[m + 1] = b
    BY <1>3, <1>4, <1>5, <1>7
  <2>5. Z \in [0..(m + 1) -> [Requests -> RequestState]]
    BY <1>3, <1>5, <1>6, <1>7, <2>1
  <2>6. C \in [1..(m + 1) -> BatchState]
    BY <1>4, <1>5, <1>6, <1>7, <2>1
  <2> QED  BY <2>2, <2>3, <2>4, <2>5, <2>6
<1>9. \A r \in Requests : Z[0][r] = Absent
  BY <1>6, <1>7, <1>8
<1>10. ASSUME NEW s \in 1..(m + 1), NEW r \in Requests
       PROVE  Follows(Z[s - 1][r], C[s], Z[s][r], r, s)
  <2>1. CASE s \in 1..m
    <3>1. s - 1 \in 0..m /\ s \in 0..m
      BY <1>7, <2>1
    <3> QED  BY <1>6, <1>8, <2>1, <3>1
  <2>2. CASE s = m + 1
    <3>1. Z[s - 1] = req
      BY <1>6, <1>7, <1>8, <2>2
    <3> QED  BY <1>2, <1>5, <1>8, <2>2, <3>1 DEF StepTaken
  <2> QED  BY <1>7, <2>1, <2>2
<1>11. ASSUME NEW s \in 0..m, NEW r \in Requests
       PROVE  Sound(Z[s][r], s) /\ Spaced(C, Z[s][r], r, s)
  <2>1. Sound(H[s][r], s) /\ Spaced(B, H[s][r], r, s) /\ Z[s] = H[s]
    BY <1>6, <1>8
  <2>2. H[s][r].life \in Nat
    BY <1>6, StateFacts
  <2>3. H[s][r].life # 0 => \A t \in H[s][r].life..s : C[t] = B[t]
    BY <1>7, <1>8, <2>2
  <2> QED  BY <2>1, <2>3 DEF Spaced
<1>12. ASSUME NEW r \in Requests
       PROVE  Sound(Z[m + 1][r], m + 1) /\ Spaced(C, Z[m + 1][r], r, m + 1)
  <2> DEFINE a == Z[m][r]  z == Z[m + 1][r]  s == m + 1
  <2>1. m \in 0..m /\ s - 1 = m /\ s \in Nat /\ s > 0 /\ s \in 1..(m + 1)
    BY <1>7
  <2>2. Sound(a, s - 1) /\ Spaced(C, a, r, s - 1)
    BY <1>11, <2>1
  <2>3. Follows(Z[s - 1][r], C[s], Z[s][r], r, s)
    BY <1>10, <2>1
  <2>4. a \in RequestState /\ z \in RequestState
    BY <1>7, <1>8
  <2>5. Follows(a, C[s], z, r, s)
    BY <2>1, <2>3
  <2> HIDE DEF a, z, s
  <2>6. Sound(z, s) /\ Spaced(C, z, r, s)
    BY <2>1, <2>2, <2>4, <2>5, SpacedOn
  <2> QED  BY <2>6 DEF z, s
<1>13. \A s \in 0..(m + 1), r \in Requests : Sound(Z[s][r], s) /\ Spaced(C, Z[s][r], r, s)
  <2>1. \A s \in 0..(m + 1) : s = m + 1 \/ s \in 0..m
    BY <1>7
  <2> QED  BY <1>11, <1>12, <2>1
<1>14. \A s \in 0..(m + 1) : Cardinality(AliveIn(Z[s])) <= NumSlots
  <2>1. \A s \in 0..(m + 1) : s = m + 1 \/ s \in 0..m
    BY <1>7
  <2> QED  BY <1>2, <1>6, <1>8, <2>1 DEF StepTaken
<1>15. History(Z, C)'
  BY <1>7, <1>8, <1>9, <1>10, <1>13, <1>14 DEF History
<1>16. Kept(C)'
  <2>1. /\ DOMAIN issued \subseteq 1..m
        /\ \A k \in Ranks : \A s \in (pos[k] + 1)..m : s \in DOMAIN issued /\ issued[s] = B[s]
    BY <1>7 DEF Kept
  <2>2. /\ DOMAIN issued' = DOMAIN issued \union {m + 1}
        /\ \A s \in DOMAIN issued' : issued'[s] = IF s = m + 1 THEN b ELSE issued[s]
        /\ issued' = [s \in DOMAIN issued' |-> issued'[s]]
    BY <1>2, <1>7 DEF Issued
  <2>3. DOMAIN issued' \subseteq 1..(m + 1)
    BY <1>7, <2>1, <2>2
  <2>4. ASSUME NEW k \in Ranks, NEW s \in (pos[k] + 1)..(m + 1)
        PROVE  s \in DOMAIN issued' /\ issued'[s] = C[s]
    <3>1. pos[k] \in Nat
      BY DEF Typed
    <3>2. s = m + 1 \/ (s \in (pos[k] + 1)..m /\ s \in 1..m /\ s # m + 1)
      BY <1>7, <3>1
    <3> QED  BY <1>8, <2>1, <2>2, <3>2
  <2> QED  BY <1>1, <1>7, <2>2, <2>3, <2>4 DEF Kept
<1>17. Prolongs(H, B, Z, C)
  BY <1>7, <1>8 DEF Prolongs
<1> QED  BY <1>15, <1>16, <1>17

---------------------------------------------------------------------------
(* The steps of a rank *)

LEMMA StepsKept ==
  ASSUME NEW B, NEW k \in Ranks, Typed, Kept(B), pos[k] < currentStep
  PROVE  Step(k) \in 1..currentStep /\ Step(k) = pos[k] + 1 /\ Batch(k) = B[Step(k)]
BY DEF Typed, Kept, Step, Batch

\* Ending a step forgets no output that some rank has still to execute.
LEMMA KeptOn ==
  ASSUME NEW B, NEW k \in Ranks, Typed, Kept(B), StepDone(k), currentStep' = currentStep
  PROVE  /\ Kept(B)'
         /\ pos' = [pos EXCEPT ![k] = pos[k] + 1] /\ pos'[k] = pos[k] + 1
         /\ \A l \in Ranks : l # k => pos'[l] = pos[l]
         /\ phase' = [phase EXCEPT ![k] = "execute"] /\ phase'[k] = "execute"
         /\ \A l \in Ranks : l # k => phase'[l] = phase[l]
<1>1. pos \in [Ranks -> Nat] /\ phase \in [Ranks -> {"execute", "sample"}] /\ currentStep \in Nat
  BY DEF Typed
<1>2. /\ pos' = [pos EXCEPT ![k] = pos[k] + 1] /\ phase' = [phase EXCEPT ![k] = "execute"]
      /\ pos' \in [Ranks -> Nat]
  BY <1>1 DEF StepDone
<1> DEFINE P == {pos'[q] : q \in Ranks}  seen == Min(P)
<1>3. seen \in P /\ \A y \in P : seen <= y
  <2>1. SomeNats(P)
    BY <1>2 DEF SomeNats
  <2> HIDE DEF P
  <2> QED  BY <2>1, MinOfNat
<1>4. issued' = [s \in {s \in DOMAIN issued : s > seen} |-> issued[s]]
  BY DEF StepDone
<1>5. /\ DOMAIN issued \subseteq 1..currentStep
      /\ \A l \in Ranks : \A s \in (pos[l] + 1)..currentStep :
           s \in DOMAIN issued /\ issued[s] = B[s]
  BY DEF Kept
<1>6. ASSUME NEW l \in Ranks, NEW s \in (pos'[l] + 1)..currentStep
      PROVE  s \in DOMAIN issued' /\ issued'[s] = B[s]
  <2>1. pos[l] <= pos'[l] /\ pos[l] \in Nat /\ pos'[l] \in Nat
    BY <1>1, <1>2
  <2>2. s \in DOMAIN issued /\ issued[s] = B[s]
    <3>1. s \in (pos[l] + 1)..currentStep
      BY <1>1, <2>1
    <3> QED  BY <1>5, <3>1
  <2>3. seen <= pos'[l] /\ seen \in Nat
    BY <1>2, <1>3
  <2>4. s > seen
    <3> HIDE DEF seen
    <3> QED  BY <2>1, <2>3
  <2> HIDE DEF seen
  <2> QED  BY <1>4, <2>2, <2>4
<1>7. Kept(B)'
  <2>1. DOMAIN issued' \subseteq 1..currentStep /\ issued' = [s \in DOMAIN issued' |-> issued'[s]]
    <3> HIDE DEF seen
    <3> QED  BY <1>4, <1>5
  <2> QED  BY <1>6, <2>1 DEF Kept
<1> QED  BY <1>1, <1>2, <1>7

---------------------------------------------------------------------------
(* The broadcasts and the receives *)

\* A step without a broadcast adds nothing to the list.
LEMMA ListsPast ==
  ASSUME NEW q \in Seq(Nat), NEW B, NEW p \in Nat, Lists(q, B, p), ~Joined(B[p + 1])
  PROVE  Lists(q, B, p + 1)
<1>1. /\ \A n \in 1..Len(q) : q[n] \in 1..p /\ Joined(B[q[n]])
      /\ \A s \in 1..p : Joined(B[s]) => \E n \in 1..Len(q) : q[n] = s
      /\ \A m, n \in 1..Len(q) : m < n => q[m] < q[n]
  BY DEF Lists
<1>2. \A s \in 1..(p + 1) : s \in 1..p \/ s = p + 1
  OBVIOUS
<1>3. 1..p \subseteq 1..(p + 1)
  OBVIOUS
<1> QED  BY <1>1, <1>2, <1>3 DEF Lists

\* A step with a broadcast is the next of the list.
LEMMA ListsOn ==
  ASSUME NEW q \in Seq(Nat), NEW B, NEW p \in Nat, Lists(q, B, p), Joined(B[p + 1])
  PROVE  Lists(Append(q, p + 1), B, p + 1)
<1> DEFINE z == Append(q, p + 1)  L == Len(q)
<1>1. /\ \A n \in 1..L : q[n] \in 1..p /\ Joined(B[q[n]])
      /\ \A s \in 1..p : Joined(B[s]) => \E n \in 1..L : q[n] = s
      /\ \A m, n \in 1..L : m < n => q[m] < q[n]
  BY DEF Lists
<1>2. L \in Nat /\ Len(z) = L + 1 /\ z[L + 1] = p + 1 /\ \A n \in 1..L : z[n] = q[n]
  BY AppendFacts
<1>3. \A n \in 1..(L + 1) : n \in 1..L \/ n = L + 1
  BY <1>2
<1>4. \A s \in 1..(p + 1) : s \in 1..p \/ s = p + 1
  OBVIOUS
<1>5. L + 1 \in 1..(L + 1) /\ 1..L \subseteq 1..(L + 1)
  BY <1>2
<1> HIDE DEF z, L
<1>6. \A n \in 1..Len(z) : z[n] \in 1..(p + 1) /\ Joined(B[z[n]])
  <2> TAKE n \in 1..Len(z)
  <2>1. CASE n \in 1..L
    <3>1. z[n] = q[n] /\ q[n] \in 1..p /\ Joined(B[q[n]])
      BY <1>1, <1>2, <2>1
    <3>2. 1..p \subseteq 1..(p + 1)
      OBVIOUS
    <3> QED  BY <3>1, <3>2
  <2>2. CASE n = L + 1
    BY <1>2, <2>2
  <2> QED  BY <1>2, <1>3, <2>1, <2>2
<1>7. \A m, n \in 1..Len(z) : m < n => z[m] < z[n]
  <2> SUFFICES ASSUME NEW m \in 1..Len(z), NEW n \in 1..Len(z), m < n PROVE z[m] < z[n]
    OBVIOUS
  <2>1. m \in 1..L
    BY <1>2
  <2>2. z[m] = q[m] /\ q[m] \in 1..p
    BY <1>1, <1>2, <2>1
  <2>3. CASE n \in 1..L
    BY <1>1, <1>2, <2>1, <2>3
  <2>4. CASE n = L + 1
    BY <1>2, <2>2, <2>4
  <2> QED  BY <1>2, <1>3, <2>3, <2>4
<1>8. \A s \in 1..(p + 1) : Joined(B[s]) => \E n \in 1..Len(z) : z[n] = s
  <2> SUFFICES ASSUME NEW s \in 1..(p + 1), Joined(B[s]) PROVE \E n \in 1..Len(z) : z[n] = s
    OBVIOUS
  <2>1. CASE s \in 1..p
    <3>1. PICK n \in 1..L : q[n] = s
      BY <1>1, <2>1
    <3>2. n \in 1..Len(z) /\ z[n] = s
      BY <1>2, <1>5, <3>1
    <3> QED  BY <3>2
  <2>2. CASE s = p + 1
    BY <1>2, <1>5, <2>2
  <2> QED  BY <1>4, <2>1, <2>2
<1> QED  BY <1>6, <1>7, <1>8 DEF Lists, z

\* Two lists of the same steps, each in order, agree as far as both go.
LEMMA AgreeOn ==
  ASSUME NEW q \in Seq(Nat), NEW s \in Seq(Nat), NEW B, NEW p \in Nat, NEW o \in Nat,
         Lists(q, B, p), Lists(s, B, o), Agree(q, s), Joined(B[p + 1])
  PROVE  Agree(Append(q, p + 1), s)
<1> DEFINE z == Append(q, p + 1)  L == Len(q)  K == Len(s)
<1>1. /\ \A n \in 1..L : q[n] \in 1..p
      /\ \A t \in 1..p : Joined(B[t]) => \E n \in 1..L : q[n] = t
      /\ \A m, n \in 1..L : m < n => q[m] < q[n]
  BY DEF Lists
<1>2. /\ \A n \in 1..K : s[n] \in 1..o /\ Joined(B[s[n]])
      /\ \A t \in 1..o : Joined(B[t]) => \E n \in 1..K : s[n] = t
      /\ \A m, n \in 1..K : m < n => s[m] < s[n]
  BY DEF Lists
<1>3. L \in Nat /\ K \in Nat /\ Len(z) = L + 1 /\ z[L + 1] = p + 1 /\ \A n \in 1..L : z[n] = q[n]
  BY AppendFacts
<1>4. \A n \in 1..L : n <= K => q[n] = s[n]
  BY DEF Agree
<1> HIDE DEF z, L, K
<1>5. ASSUME L + 1 <= K PROVE s[L + 1] = p + 1
  <2> DEFINE x == s[L + 1]
  <2>1. L + 1 \in 1..K /\ x \in 1..o /\ Joined(B[x])
    BY <1>2, <1>3, <1>5
  <2>2. x < p + 1 => FALSE
    <3> SUFFICES ASSUME x < p + 1 PROVE FALSE
      OBVIOUS
    <3>1. x \in 1..p
      BY <2>1
    <3>2. PICK n \in 1..L : q[n] = x
      BY <1>1, <2>1, <3>1
    <3>3. n \in 1..K /\ s[n] = x
      BY <1>3, <1>4, <1>5, <3>2
    <3>4. n < L + 1
      BY <1>3
    <3>5. s[n] < s[L + 1]
      BY <1>2, <2>1, <3>3, <3>4
    <3> QED  BY <2>1, <3>3, <3>5
  <2>3. x > p + 1 => FALSE
    <3> SUFFICES ASSUME x > p + 1 PROVE FALSE
      OBVIOUS
    <3>1. p + 1 \in 1..o
      BY <2>1
    <3>2. PICK n \in 1..K : s[n] = p + 1
      BY <1>2, <3>1
    <3>3. CASE n <= L
      <4>1. n \in 1..L
        BY <1>3, <3>3
      <4> QED  BY <1>1, <1>4, <3>2, <4>1
    <3>4. CASE n > L
      <4>1. n = L + 1 \/ L + 1 < n
        BY <1>3, <3>4
      <4>2. L + 1 < n => s[L + 1] < s[n]
        BY <1>2, <2>1
      <4> QED  BY <2>1, <3>2, <4>1, <4>2
    <3> QED  BY <1>3, <3>3, <3>4
  <2> QED  BY <2>1, <2>2, <2>3
<1>6. ASSUME NEW n \in 1..Len(z), n <= K PROVE z[n] = s[n]
  <2>1. n \in 1..L \/ n = L + 1
    BY <1>3
  <2> QED  BY <1>3, <1>4, <1>5, <1>6, <2>1
<1> QED  BY <1>6 DEF Agree, K, z

LEMMA AgreeBack ==
  ASSUME NEW q \in Seq(Nat), NEW s \in Seq(Nat), Agree(q, s)
  PROVE  Agree(s, q)
<1>1. ASSUME NEW n \in 1..Len(s), n <= Len(q) PROVE s[n] = q[n]
  <2>1. n \in 1..Len(q)
    BY <1>1
  <2> QED  BY <2>1 DEF Agree
<1> QED  BY <1>1 DEF Agree

LEMMA ListsSame ==
  ASSUME NEW q, NEW B, NEW C, NEW p, Lists(q, B, p), \A s \in 1..p : C[s] = B[s]
  PROVE  Lists(q, C, p)
BY DEF Lists

LEMMA JoinedFacts ==
  ASSUME NEW b
  PROVE  /\ Joined(b) <=> Joins(b)
         /\ Joined(b) <=> Broadcasts(b)
         /\ DOMAIN b.rows = {} => ~Joined(b)
BY DEF Joined, Joins, Broadcasts, NeedSampled

\* The lists of broadcasts under each action.
LEMMA PairedSchedule ==
  ASSUME NEW H, NEW B, NEW Z, NEW C, Typed, Paired(B), Prolongs(H, B, Z, C), Schedule
  PROVE  Paired(C)'
<1>1. pos' = pos /\ sent' = sent /\ posted' = posted
  BY DEF Schedule
<1>2. ASSUME NEW k \in Ranks PROVE \A s \in 1..pos[k] : C[s] = B[s]
  <2>1. pos[k] \in Nat /\ pos[k] <= currentStep /\ currentStep \in Nat
    BY DEF Typed, Begun
  <2> QED  BY <2>1 DEF Prolongs
<1>3. Lists(sent, C, pos[NumRanks])
  BY <1>2, ListsSame, RankNumbers DEF Paired
<1>4. ASSUME NEW k \in Receivers PROVE Lists(posted[k], C, pos[k]) /\ Agree(posted[k], sent)
  BY <1>2, ListsSame, RankNumbers DEF Paired
<1> QED  BY <1>1, <1>3, <1>4 DEF Paired

LEMMA PairedExecute ==
  ASSUME NEW B, NEW k \in Ranks, Typed, Kept(B), Paired(B), ExecuteModel(k)
  PROVE  Paired(B)'
<1>1. posted' = posted /\ sent' = sent /\ pos[k] < currentStep /\ currentStep' = currentStep
  BY DEF ExecuteModel
<1>2. Step(k) = pos[k] + 1 /\ Batch(k) = B[pos[k] + 1]
  BY <1>1, StepsKept
<1>3. CASE DOMAIN Batch(k).rows # {}
  <2>1. pos' = pos
    BY <1>3 DEF ExecuteModel
  <2> QED  BY <1>1, <2>1 DEF Paired
<1>4. CASE DOMAIN Batch(k).rows = {}
  <2>1. StepDone(k)
    BY <1>4 DEF ExecuteModel
  <2>2. pos'[k] = pos[k] + 1 /\ \A l \in Ranks : l # k => pos'[l] = pos[l]
    BY <1>1, <2>1, KeptOn
  <2>3. ~Joined(B[pos[k] + 1])
    BY <1>2, <1>4, JoinedFacts
  <2>4. ASSUME NEW l \in Ranks, NEW q \in Seq(Nat), Lists(q, B, pos[l])
        PROVE  Lists(q, B, pos'[l])
    <3>1. pos[l] \in Nat
      BY DEF Typed
    <3>2. CASE l = k
      BY <2>2, <2>3, <2>4, <3>1, <3>2, ListsPast
    <3>3. CASE l # k
      BY <2>2, <2>4, <3>3
    <3> QED  BY <3>2, <3>3
  <2>5. Lists(sent, B, pos'[NumRanks])
    BY <2>4, RankNumbers DEF Typed, Paired
  <2>6. ASSUME NEW l \in Receivers PROVE Lists(posted[l], B, pos'[l]) /\ Agree(posted[l], sent)
    BY <2>4, RankNumbers DEF Typed, Paired
  <2> QED  BY <1>1, <2>5, <2>6 DEF Paired
<1> QED  BY <1>3, <1>4

LEMMA PairedReceive ==
  ASSUME NEW B, NEW k \in Ranks, Typed, Kept(B), Paired(B), Receive(k)
  PROVE  Paired(B)'
<1>1. /\ sent' = sent /\ currentStep' = currentStep /\ k \in Receivers /\ phase[k] = "sample"
      /\ StepDone(k)
  BY RankNumbers DEF Receive
<1>2. pos[k] < currentStep
  BY <1>1 DEF Typed, Begun
<1>3. Step(k) = pos[k] + 1 /\ Batch(k) = B[pos[k] + 1]
  BY <1>2, StepsKept
<1>4. pos'[k] = pos[k] + 1 /\ \A l \in Ranks : l # k => pos'[l] = pos[l]
  BY <1>1, KeptOn
<1> DEFINE q == posted[k]  p == pos[k]  o == pos[NumRanks]
<1>5. q \in Seq(Nat) /\ sent \in Seq(Nat) /\ p \in Nat /\ o \in Nat
      /\ posted \in [Receivers -> Seq(Nat)]
  BY <1>1, RankNumbers DEF Typed
<1>6. Lists(q, B, p) /\ Lists(sent, B, o) /\ Agree(q, sent)
  BY <1>1 DEF Paired
<1>7. pos'[NumRanks] = o
  BY <1>1, <1>4, RankNumbers
<1>8. /\ Lists(posted'[k], B, p + 1) /\ Agree(posted'[k], sent)
      /\ \A l \in Receivers : l # k => posted'[l] = posted[l]
  <2>1. CASE Joins(Batch(k))
    <3>1. posted' = [posted EXCEPT ![k] = Append(@, Step(k))]
      BY <2>1 DEF Receive
    <3>2. posted'[k] = Append(q, p + 1) /\ \A l \in Receivers : l # k => posted'[l] = posted[l]
      BY <1>1, <1>3, <1>5, <3>1
    <3>3. Joined(B[p + 1])
      BY <1>3, <2>1, JoinedFacts
    <3> HIDE DEF p, q, o
    <3>4. Lists(Append(q, p + 1), B, p + 1)
      BY <1>5, <1>6, <3>3, ListsOn
    <3>5. Agree(Append(q, p + 1), sent)
      BY <1>5, <1>6, <3>3, AgreeOn
    <3> QED  BY <3>2, <3>4, <3>5
  <2>2. CASE ~Joins(Batch(k))
    <3>1. posted' = posted
      BY <2>2 DEF Receive
    <3>2. ~Joined(B[p + 1])
      BY <1>3, <2>2, JoinedFacts
    <3>3. Lists(q, B, p + 1)
      BY <1>5, <1>6, <3>2, ListsPast
    <3> QED  BY <1>6, <3>1, <3>3
  <2> QED  BY <2>1, <2>2
<1>9. ASSUME NEW l \in Receivers PROVE Lists(posted'[l], B, pos'[l]) /\ Agree(posted'[l], sent)
  <2>1. CASE l = k
    BY <1>4, <1>8, <2>1
  <2>2. CASE l # k
    <3>1. pos'[l] = pos[l] /\ posted'[l] = posted[l]
      BY <1>4, <1>8, <2>2, RankNumbers
    <3> QED  BY <3>1 DEF Paired
  <2> QED  BY <2>1, <2>2
<1> QED  BY <1>1, <1>6, <1>7, <1>9 DEF Paired

LEMMA PairedSample ==
  ASSUME NEW B, Typed, Kept(B), Paired(B), Sample
  PROVE  Paired(B)'
<1> DEFINE k == NumRanks
<1>1. /\ k \in Ranks /\ posted' = posted /\ currentStep' = currentStep
      /\ phase[k] = "sample" /\ StepDone(k)
  BY RankNumbers DEF Sample
<1>2. pos[k] < currentStep
  BY <1>1 DEF Typed, Begun
<1>3. Step(k) = pos[k] + 1 /\ Batch(k) = B[pos[k] + 1]
  BY <1>1, <1>2, StepsKept
<1>4. pos'[k] = pos[k] + 1 /\ \A l \in Ranks : l # k => pos'[l] = pos[l]
  BY <1>1, KeptOn
<1>5. sent \in Seq(Nat) /\ pos[k] \in Nat /\ posted \in [Receivers -> Seq(Nat)]
  BY <1>1 DEF Typed
<1>6. Lists(sent, B, pos[k])
  BY DEF Paired
<1>7. \A l \in Receivers : /\ pos'[l] = pos[l] /\ pos[l] \in Nat /\ posted[l] \in Seq(Nat)
                           /\ Lists(posted[l], B, pos[l]) /\ Agree(posted[l], sent)
  <2> TAKE l \in Receivers
  <2>1. l \in Ranks /\ l # k
    BY RankNumbers
  <2> QED  BY <1>4, <1>5, <2>1 DEF Paired, Typed
<1>8. sent' = IF Broadcasts(Batch(k)) THEN Append(sent, Step(k)) ELSE sent
  BY DEF Sample
<1> HIDE DEF k
<1>9. CASE Broadcasts(Batch(k))
  <2>1. Joined(B[pos[k] + 1]) /\ sent' = Append(sent, pos[k] + 1)
    BY <1>3, <1>8, <1>9, JoinedFacts
  <2>2. Lists(sent', B, pos'[k])
    BY <1>4, <1>5, <1>6, <2>1, ListsOn
  <2>3. ASSUME NEW l \in Receivers PROVE Lists(posted[l], B, pos'[l]) /\ Agree(posted[l], sent')
    <3>1. Agree(sent, posted[l])
      BY <1>5, <1>7, AgreeBack
    <3>2. Agree(sent', posted[l])
      BY <1>5, <1>6, <1>7, <2>1, <3>1, AgreeOn
    <3>3. sent' \in Seq(Nat)
      BY <1>5, <2>1
    <3> QED  BY <1>7, <3>2, <3>3, AgreeBack
  <2> QED  BY <1>1, <2>2, <2>3 DEF Paired, k
<1>10. CASE ~Broadcasts(Batch(k))
  <2>1. ~Joined(B[pos[k] + 1]) /\ sent' = sent
    BY <1>3, <1>8, <1>10, JoinedFacts
  <2>2. Lists(sent', B, pos'[k])
    BY <1>4, <1>5, <1>6, <2>1, ListsPast
  <2> QED  BY <1>1, <1>7, <2>1, <2>2 DEF Paired, k
<1> QED  BY <1>9, <1>10

\* What the pairs say of any collective: it is the same one, or it is still to come.
LEMMA PairsMatch ==
  ASSUME NEW B, Typed, Paired(B)
  PROVE  BroadcastsPaired
<1> SUFFICES ASSUME NEW k \in Receivers, NEW n \in 1..Len(posted[k])
             PROVE  IF n <= Len(sent) THEN posted[k][n] = sent[n] ELSE posted[k][n] > pos[NumRanks]
  BY DEF BroadcastsPaired
<1> DEFINE q == posted[k]  o == pos[NumRanks]
<1>1. q \in Seq(Nat) /\ sent \in Seq(Nat) /\ o \in Nat /\ pos[k] \in Nat
  BY RankNumbers DEF Typed
<1>2. Lists(q, B, pos[k]) /\ Lists(sent, B, o) /\ Agree(q, sent)
  BY DEF Paired
<1> HIDE DEF q, o
<1>3. CASE n <= Len(sent)
  BY <1>2, <1>3 DEF Agree, q
<1>4. ASSUME ~(n <= Len(sent)), ~(q[n] > o) PROVE FALSE
  <2>1. n \in 1..Len(q)
    BY DEF q
  <2>2. q[n] \in 1..pos[k] /\ Joined(B[q[n]])
    BY <1>2, <2>1 DEF Lists
  <2>3. q[n] \in 1..o
    BY <1>1, <1>4, <2>2
  <2>4. PICK m \in 1..Len(sent) : sent[m] = q[n]
    BY <1>2, <2>2, <2>3 DEF Lists
  <2>5. m < n /\ m \in 1..Len(q) /\ m <= Len(sent)
    BY <1>1, <1>4, <2>1
  <2>6. q[m] = sent[m] /\ q[m] < q[n]
    BY <1>2, <2>1, <2>5 DEF Agree, Lists
  <2> QED  BY <2>2, <2>4, <2>6
<1> QED  BY <1>3, <1>4 DEF q, o

---------------------------------------------------------------------------
(* Sums of rejections *)

RejectionsTyped(rej) == rej \in [1..MaxSteps -> [Requests -> 0..NumSpec]]

\* Rejections are integers, and a life that has not begun has none.
LEMMA LostFacts ==
  ASSUME NEW rej, RejectionsTyped(rej), NEW r \in Requests,
         NEW l \in Nat, l > 0, NEW u \in Int, u <= MaxSteps
  PROVE  /\ IntOn(RejectedOf(rej, r), l..u) /\ IsFiniteSet(l..u)
         /\ Lost(rej, r, l, u) \in Int
         /\ u < l => Lost(rej, r, l, u) = 0
<1> DEFINE f == RejectedOf(rej, r)
<1>1. \A t \in l..u : t \in 1..MaxSteps /\ f[t] = rej[t][r] /\ f[t] \in Int
  <2> TAKE t \in l..u
  <2>1. t \in 1..MaxSteps
    BY RankNumbers
  <2>2. f[t] = rej[t][r]
    BY <2>1 DEF RejectedOf
  <2>3. rej[t][r] \in 0..NumSpec
    BY <2>1 DEF RejectionsTyped
  <2> QED  BY <2>1, <2>2, <2>3, RankNumbers
<1>2. IntOn(f, l..u)
  BY <1>1 DEF IntOn
<1>3. IsFiniteSet(l..u)
  BY FS_Interval
<1>4. u < l => l..u = {}
  OBVIOUS
<1> HIDE DEF f
<1>5. u < l => Total(f, l..u) = 0
  BY <1>4, TotalEmpty
<1>6. Total(f, l..u) \in Int
  BY <1>2, <1>3, TotalInt
<1> QED  BY <1>2, <1>3, <1>5, <1>6 DEF Lost, f

\* The rejections of one more step.
LEMMA LostNext ==
  ASSUME NEW rej, RejectionsTyped(rej), NEW r \in Requests,
         NEW l \in Nat, l > 0, NEW u \in Int, u + 1 <= MaxSteps, l <= u + 1
  PROVE  Lost(rej, r, l, u + 1) = Lost(rej, r, l, u) + rej[u + 1][r]
<1> DEFINE f == RejectedOf(rej, r)  S == l..u  A == l..(u + 1)  x == u + 1
<1>1. IsFiniteSet(S) /\ IntOn(f, A)
  <2>1. u <= MaxSteps /\ u + 1 \in Int
    BY RankNumbers
  <2> QED  BY <2>1, LostFacts
<1>2. Adds(A, S, x)
  BY DEF Adds
<1>3. f[x] = rej[u + 1][r]
  BY RankNumbers DEF RejectedOf
<1> HIDE DEF f, S, A, x
<1>4. Total(f, A) = Total(f, S) + f[x]
  BY <1>1, <1>2, TotalAdd
<1> QED  BY <1>3, <1>4 DEF Lost, f, S, A

\* A sum of rejections depends on the rejections of its steps only.
LEMMA LostSame ==
  ASSUME NEW rej, RejectionsTyped(rej), NEW new, RejectionsTyped(new), NEW r \in Requests,
         NEW l \in Nat, l > 0, NEW u \in Int, u <= MaxSteps,
         \A t \in l..u : new[t][r] = rej[t][r]
  PROVE  Lost(new, r, l, u) = Lost(rej, r, l, u)
<1> DEFINE f == RejectedOf(rej, r)  g == RejectedOf(new, r)  S == l..u
<1>1. IsFiniteSet(S) /\ IntOn(f, S)
  BY LostFacts
<1>2. SameOn(g, f, S)
  <2> SUFFICES ASSUME NEW t \in S PROVE g[t] = f[t]
    BY DEF SameOn
  <2>1. t \in 1..MaxSteps
    BY RankNumbers
  <2> QED  BY <2>1 DEF RejectedOf
<1> HIDE DEF f, g, S
<1>3. Total(g, S) = Total(f, S)
  BY <1>1, <1>2, TotalCongruence
<1> QED  BY <1>3 DEF Lost, f, g, S

---------------------------------------------------------------------------
(* What is known of a rank *)

\* The cases of a request in a step: admitted, dropped, run, or left alone.
LEMMA FollowsCases ==
  ASSUME NEW a, NEW b, NEW z, NEW r, NEW s, Follows(a, b, z, r, s)
  PROVE  /\ r \in b.add => /\ r \in DOMAIN b.rows /\ z.life = s
                           /\ b.rows[r].old = 0 /\ b.rows[r].sampled = 0
                           /\ b.rows[r].life = s /\ b.rows[r].prefill > 0
         /\ r \notin b.add /\ r \in b.drop => r \notin DOMAIN b.rows /\ z.life = 0
         /\ r \notin b.add /\ r \notin b.drop =>
              /\ z.life = a.life
              /\ r \notin DOMAIN b.rows => z = a
              /\ r \in DOMAIN b.rows => /\ a.life # 0 /\ b.rows[r].life = a.life
                                        /\ b.rows[r].old = a.computed
                                        /\ b.rows[r].sampled = a.sampled
                                        /\ b.rows[r].prefill = a.prefill
                                        /\ s >= a.eligible
         /\ r \in DOMAIN b.rows => /\ b.rows[r].num > 0 /\ z.life = b.rows[r].life
                                   /\ z.computed = b.rows[r].old + b.rows[r].num
                                   /\ IF Needs(b, r) THEN z.sampled = s
                                      ELSE z.sampled = b.rows[r].sampled
BY DEF Follows, GivenRow, GoneOn, Absent

\* Where a rank stands.
LEMMA RankFacts ==
  ASSUME NEW H, NEW B, NEW k \in Ranks, Typed, History(H, B)
  PROVE  /\ Begun(k) \in 0..currentStep /\ Begun(k) \in Nat /\ Begun(k) <= MaxSteps
         /\ pos[k] \in Nat /\ pos[k] <= Begun(k)
         /\ Through(k) \in Int /\ Through(k) <= pos[k]
         /\ phase[k] = "sample" => /\ Begun(k) = pos[k] + 1 /\ Begun(k) \in 1..currentStep
                                   /\ B[Begun(k)] \in BatchState
         /\ phase[k] # "sample" => Begun(k) = pos[k]
         /\ \A r \in Requests : /\ H[Begun(k)][r] \in RequestState
                                /\ Sound(H[Begun(k)][r], Begun(k))
                                /\ Spaced(B, H[Begun(k)][r], r, Begun(k))
<1>1. /\ pos[k] \in Nat /\ phase[k] \in {"execute", "sample"} /\ Begun(k) <= currentStep
      /\ currentStep \in Nat /\ currentStep <= MaxSteps
  BY RankNumbers DEF Typed
<1>2. /\ Begun(k) \in 0..currentStep /\ Begun(k) \in Nat /\ Begun(k) <= MaxSteps
      /\ pos[k] <= Begun(k) /\ Begun(k) <= pos[k] + 1
      /\ phase[k] = "sample" => Begun(k) = pos[k] + 1 /\ Begun(k) \in 1..currentStep
      /\ phase[k] # "sample" => Begun(k) = pos[k]
  BY <1>1, RankNumbers DEF Begun
<1>3. Through(k) \in Int /\ Through(k) <= pos[k]
  BY <1>1, <1>2, RankNumbers DEF Through
<1>4. H \in [0..currentStep -> [Requests -> RequestState]] /\ B \in [1..currentStep -> BatchState]
  BY DEF History
<1>5. \A r \in Requests : /\ H[Begun(k)][r] \in RequestState
                          /\ Sound(H[Begun(k)][r], Begun(k))
                          /\ Spaced(B, H[Begun(k)][r], r, Begun(k))
  BY <1>2, <1>4 DEF History
<1> QED  BY <1>1, <1>2, <1>3, <1>4, <1>5

\* What a rank is to hold of a request, between its admission and the step begun.
LEMMA ViewFacts ==
  ASSUME NEW H, NEW B, NEW k \in Ranks, Typed, History(H, B), NEW r \in Requests
  PROVE  /\ Life(H, k, r) \in Nat /\ Latest(H, B, k, r) \in Nat /\ Done(H, B, k, r) \in Nat
         /\ Life(H, k, r) # 0 =>
              /\ Life(H, k, r) <= Begun(k) /\ Latest(H, B, k, r) <= pos[k]
              /\ Latest(H, B, k, r) # 0 => Life(H, k, r) <= Latest(H, B, k, r)
<1> DEFINE e == Begun(k)  a == H[e][r]
<1>1. /\ a \in RequestState /\ Sound(a, e) /\ e \in Nat /\ pos[k] \in Nat
      /\ a.life \in Nat /\ a.computed \in Nat /\ a.sampled \in Nat
  BY RankFacts, StateFacts
<1>2. a.life # 0 => a.life <= e /\ (a.sampled # 0 => a.life <= a.sampled /\ a.sampled <= e)
  BY <1>1 DEF Sound
<1>3. CASE phase[k] # "sample"
  <2>1. /\ Life(H, k, r) = a.life /\ Latest(H, B, k, r) = a.sampled
        /\ Done(H, B, k, r) = a.computed
    BY <1>3 DEF Life, Latest, Done, InForward
  <2>2. e = pos[k]
    BY <1>3, RankFacts
  <2> HIDE DEF e, a
  <2> QED  BY <1>1, <1>2, <2>1, <2>2 DEF e
<1>4. CASE phase[k] = "sample"
  <2> DEFINE b == B[e]  c == H[e - 1][r]
  <2>1. e = pos[k] + 1 /\ e \in 1..currentStep /\ b \in BatchState
    BY <1>4, RankFacts
  <2>2. c \in RequestState /\ Sound(c, e - 1) /\ Follows(c, b, a, r, e)
    <3>1. e - 1 \in 0..currentStep /\ currentStep \in Nat
      BY <2>1 DEF Typed
    <3>2. H \in [0..currentStep -> [Requests -> RequestState]]
      BY DEF History
    <3> HIDE DEF e
    <3> QED  BY <2>1, <3>1, <3>2 DEF History
  <2>3. c.life \in Nat /\ c.computed \in Nat /\ c.sampled \in Nat
    BY <2>2, StateFacts
  <2>4. c.life # 0 => /\ c.life <= e - 1
                      /\ c.sampled # 0 => c.life <= c.sampled /\ c.sampled <= e - 1
    BY <2>2 DEF Sound
  <2>5. r \in DOMAIN b.rows => b.rows[r].old \in Nat /\ b.rows[r].sampled \in Nat
    BY <2>1, BatchFacts
  <2>6. /\ Life(H, k, r) = a.life
        /\ r \in DOMAIN b.rows => /\ Latest(H, B, k, r) = b.rows[r].sampled
                                  /\ Done(H, B, k, r) = b.rows[r].old
        /\ r \notin DOMAIN b.rows => /\ Latest(H, B, k, r) = a.sampled
                                     /\ Done(H, B, k, r) = a.computed
    BY <1>4 DEF Life, Latest, Done, InForward
  <2>7. /\ r \in b.add => r \in DOMAIN b.rows /\ b.rows[r].sampled = 0
        /\ r \notin b.add /\ r \in b.drop => a.life = 0
        /\ r \notin b.add /\ r \notin b.drop =>
             /\ a.life = c.life
             /\ r \notin DOMAIN b.rows => a = c
             /\ r \in DOMAIN b.rows => b.rows[r].sampled = c.sampled
    BY <2>2, FollowsCases
  <2>8. a.life # 0 => /\ Latest(H, B, k, r) <= e - 1
                      /\ Latest(H, B, k, r) # 0 => a.life <= Latest(H, B, k, r)
    <3> DEFINE n == Latest(H, B, k, r)
    <3>0. e \in Nat /\ e - 1 \in Int
      BY <1>1
    <3> HIDE DEF e, a, b, c, n
    <3>1. CASE r \in b.add
      <4>1. n = 0
        BY <2>6, <2>7, <3>1 DEF n
      <4> QED  BY <2>1, <4>1 DEF n
    <3>2. CASE r \notin b.add /\ r \in b.drop
      BY <2>7, <3>2
    <3>3. CASE r \notin b.add /\ r \notin b.drop
      <4>1. a.life = c.life /\ n = c.sampled
        BY <2>6, <2>7, <3>3 DEF n
      <4>2. CASE c.sampled = 0
        BY <2>1, <4>1, <4>2 DEF n
      <4>3. CASE c.sampled # 0
        BY <2>3, <2>4, <4>1, <4>3 DEF n
      <4> QED  BY <4>2, <4>3
    <3> QED  BY <3>1, <3>2, <3>3
  <2>9. Latest(H, B, k, r) \in Nat /\ Done(H, B, k, r) \in Nat
    <3> HIDE DEF e, a, b, c
    <3> QED  BY <1>1, <2>5, <2>6
  <2> HIDE DEF e, a, b, c
  <2> QED  BY <1>1, <1>2, <2>1, <2>6, <2>8, <2>9 DEF e
<1> QED  BY <1>3, <1>4

---------------------------------------------------------------------------
(* The steps of others *)

\* Nothing of rank k changes; the last rank may go on.
Undisturbed(k) ==
  /\ phase'[k] = phase[k] /\ pos'[k] = pos[k] /\ index'[k] = index[k] /\ gen'[k] = gen[k]
  /\ computed'[k] = computed[k] /\ last'[k] = last[k]
  /\ k \in Receivers => ring'[k] = ring[k] /\ posted'[k] = posted[k]
  /\ pos[NumRanks] <= pos'[NumRanks]

\* The rejections that rank k has applied are final.
Final(H, k) ==
  \A r \in Requests : Life(H, k, r) # 0 =>
    \A t \in Life(H, k, r)..Through(k) : rejected'[t][r] = rejected[t][r]

\* What a rank holds stays right while others move.
LEMMA RankKept ==
  ASSUME NEW H, NEW B, NEW Z, NEW C, NEW k \in Ranks, Typed, Typed', History(H, B),
         Prolongs(H, B, Z, C), Undisturbed(k), Final(H, k)
  PROVE  /\ Slotted(H, k) => Slotted(Z, k)'
         /\ Data(H, B, k) => Data(Z, C, k)'
         /\ k \in Receivers /\ Entries(H, B, k) => Entries(Z, C, k)'
         /\ k \in Receivers /\ UnderWay(H, B, k) => UnderWay(Z, C, k)'
<1>1. /\ Begun(k) \in 0..currentStep /\ Begun(k) \in Nat /\ Begun(k) <= MaxSteps
      /\ Through(k) \in Int /\ Through(k) <= Begun(k) /\ pos[k] \in Nat
      /\ phase[k] = "sample" => Begun(k) \in 1..currentStep
  <2>1. /\ Begun(k) \in 0..currentStep /\ Begun(k) \in Nat /\ Begun(k) <= MaxSteps
        /\ Through(k) \in Int /\ Through(k) <= pos[k] /\ pos[k] <= Begun(k) /\ pos[k] \in Nat
        /\ phase[k] = "sample" => Begun(k) \in 1..currentStep
    BY RankFacts
  <2> QED  BY <2>1
<1>2. Begun(k)' = Begun(k) /\ Through(k)' = Through(k)
  BY DEF Undisturbed, Begun, Through
<1>3. Z[Begun(k)] = H[Begun(k)] /\ (phase[k] = "sample" => C[Begun(k)] = B[Begun(k)])
  BY <1>1 DEF Prolongs
<1>4. \A r : /\ Life(Z, k, r)' = Life(H, k, r) /\ Latest(Z, C, k, r)' = Latest(H, B, k, r)
             /\ Done(Z, C, k, r)' = Done(H, B, k, r)
  <2> TAKE r
  <2>1. Life(Z, k, r)' = Life(H, k, r)
    BY <1>2, <1>3 DEF Life
  <2>2. phase'[k] = phase[k]
    BY DEF Undisturbed
  <2>3. Latest(Z, C, k, r)' = Latest(H, B, k, r)
    BY <1>2, <1>3, <2>2 DEF Latest, InForward
  <2>4. Done(Z, C, k, r)' = Done(H, B, k, r)
    BY <1>2, <1>3, <2>2 DEF Done, InForward
  <2> QED  BY <2>1, <2>3, <2>4
<1>5. Slotted(H, k) => Slotted(Z, k)'
  BY <1>4 DEF Slotted, Undisturbed
<1>6. ASSUME Data(H, B, k) PROVE Data(Z, C, k)'
  <2> SUFFICES ASSUME NEW r \in Requests, Life(H, k, r) # 0
               PROVE  DataOf(Z, C, k, r, index[k][r])'
    BY <1>4 DEF Data
  <2> DEFINE i == index[k][r]  l == Life(H, k, r)  u == Through(k)
  <2>1. DataOf(H, B, k, r, i)
    BY <1>6 DEF Data
  <2>2. index'[k][r] = i
    BY DEF Undisturbed
  <2>3. l \in Nat /\ l > 0 /\ l <= Begun(k)
    BY ViewFacts
  <2>4. \A t \in l..u : C[t] = B[t]
    <3>0. currentStep \in Nat
      BY RankNumbers DEF Typed
    <3>1. \A t \in l..u : t \in 1..currentStep
      <4> HIDE DEF l, u
      <4>1. u \in Int /\ u <= currentStep
        BY <1>1, <3>0 DEF u
      <4> QED  BY <2>3, <3>0, <4>1
    <3> QED  BY <3>1 DEF Prolongs
  <2>5. Lost(rejected', r, l, u) = Lost(rejected, r, l, u)
    <3>1. RejectionsTyped(rejected) /\ RejectionsTyped(rejected')
      BY DEF Typed, RejectionsTyped
    <3>2. \A t \in l..u : rejected'[t][r] = rejected[t][r]
      BY DEF Final
    <3>3. u \in Int /\ u <= MaxSteps
      BY <1>1, RankNumbers
    <3> HIDE DEF l, u
    <3> QED  BY <2>3, <3>1, <3>2, <3>3, LostSame
  <2>6. last'[k] = last[k] /\ computed'[k] = computed[k] /\ pos[NumRanks] <= pos'[NumRanks]
    BY DEF Undisturbed
  <2>7. pos[NumRanks] \in Nat /\ pos'[NumRanks] \in Nat
    BY RankNumbers DEF Typed
  <2>8. /\ Latest(H, B, k, r) \in 1..u => last'[k][i] = <<r, Latest(H, B, k, r)>>
        /\ computed'[k][i] = Done(H, B, k, r) - Lost(rejected', r, l, u)
    BY <2>1, <2>5, <2>6 DEF DataOf
  <2>9. \A t \in l..u : Needs(C[t], r) => t <= pos'[NumRanks]
    <3>1. \A t \in l..u : Needs(C[t], r) => t <= pos[NumRanks] /\ t \in Int
      BY <2>1, <2>4 DEF DataOf
    <3> QED  BY <2>6, <2>7, <3>1
  <2> HIDE DEF i, l, u
  <2> QED  BY <1>2, <1>4, <2>2, <2>8, <2>9 DEF DataOf, l, u
<1>7. ASSUME k \in Receivers, Entries(H, B, k) PROVE Entries(Z, C, k)'
  <2>1. ring'[k] = ring[k] /\ posted'[k] = posted[k] /\ gen'[k] = gen[k] /\ index'[k] = index[k]
    BY <1>7 DEF Undisturbed
  <2>2. \A e, r, u : Owned(H, B, k, e, r, u) => Owned(Z, C, k, e, r, u)'
    BY <1>4, <2>1 DEF Owned, StillOwned
  <2> QED  BY <1>2, <1>7, <2>1, <2>2 DEF Entries
<1>8. ASSUME k \in Receivers, UnderWay(H, B, k) PROVE UnderWay(Z, C, k)'
  <2>1. ring'[k] = ring[k] /\ gen'[k] = gen[k] /\ index'[k] = index[k]
    BY <1>8 DEF Undisturbed
  <2> QED  BY <1>2, <1>4, <1>8, <2>1 DEF UnderWay, Awaits
<1> QED  BY <1>5, <1>6, <1>7, <1>8

---------------------------------------------------------------------------
(* The slots *)

\* A finite set can be mapped one to one into a set that is no smaller.
LEMMA InjectionExists ==
  ASSUME NEW S, NEW T, IsFiniteSet(S), IsFiniteSet(T), Cardinality(S) <= Cardinality(T)
  PROVE  \E f \in [S -> T] : \A x, y \in S : f[x] = f[y] => x = y
<1> DEFINE n == Cardinality(S)  m == Cardinality(T)
<1>1. n \in Nat /\ m \in Nat /\ ExistsBijection(1..n, S) /\ ExistsBijection(1..m, T)
  BY FS_CardinalityType
<1>2. ExistsBijection(S, 1..n)
  BY <1>1, Fun_ExistsBijSymmetric
<1>3. PICK g : g \in Bijection(S, 1..n)
  BY <1>2 DEF ExistsBijection
<1>4. PICK h : h \in Bijection(1..m, T)
  BY <1>1 DEF ExistsBijection
<1> HIDE DEF n, m
<1>5. g \in [S -> 1..n] /\ \A x, y \in S : g[x] = g[y] => x = y
  BY <1>3, Fun_BijectionProperties
<1>6. h \in [1..m -> T] /\ \A x, y \in 1..m : h[x] = h[y] => x = y
  BY <1>4, Fun_BijectionProperties
<1>7. 1..n \subseteq 1..m
  BY <1>1 DEF n, m
<1> DEFINE f == [x \in S |-> h[g[x]]]
<1>8. \A x \in S : g[x] \in 1..m
  BY <1>5, <1>7
<1>9. f \in [S -> T]
  BY <1>6, <1>8
<1>10. \A x, y \in S : f[x] = f[y] => x = y
  BY <1>5, <1>6, <1>8
<1> QED  BY <1>9, <1>10

\* There is room for the requests that a step adds.
LEMMA RoomLeft ==
  ASSUME NEW D \in SUBSET Requests, NEW A \in SUBSET Requests, NEW f \in [Requests -> 0..NumSlots],
         \A r, q \in Requests : f[r] = f[q] /\ f[r] # NoSlot => r = q,
         NEW h, NEW z,
         \A r \in Requests : f[r] # NoSlot <=> h[r].life # 0,
         \A r \in A : z[r].life # 0,
         \A r \in Requests \ (D \union A) : z[r].life = h[r].life,
         Cardinality(AliveIn(z)) <= NumSlots
  PROVE  Cardinality(A) <= Cardinality(Slots \ {f[r] : r \in Requests \ (D \union A)})
<1> DEFINE O == {r \in Requests \ (D \union A) : f[r] # NoSlot}
           K == {f[r] : r \in O}
           J == {f[r] : r \in Requests \ (D \union A)}
<1>1. IsFiniteSet(A) /\ IsFiniteSet(O) /\ IsFiniteSet(Slots) /\ NumSlots \in Nat
      /\ Cardinality(Slots) = NumSlots /\ IsFiniteSet(AliveIn(z))
  <2>1. A \subseteq Requests /\ O \subseteq Requests /\ AliveIn(z) \subseteq Requests
    BY DEF AliveIn
  <2>2. IsFiniteSet(Requests) /\ NumSlots \in Nat
    BY RankNumbers
  <2>3. IsFiniteSet(Slots) /\ Cardinality(Slots) = NumSlots
    BY <2>2, FS_Interval DEF Slots
  <2> HIDE DEF O
  <2> QED  BY <2>1, <2>2, <2>3, FS_Subset
<1>2. IsFiniteSet(K) /\ Cardinality(K) <= Cardinality(O)
  <2> DEFINE g == [r \in O |-> f[r]]
  <2>1. g \in [O -> K] /\ \A t \in K : \E r \in O : g[r] = t
    OBVIOUS
  <2> HIDE DEF O, K, g
  <2>2. g \in Surjection(O, K)
    BY <2>1, Fun_IsSurj
  <2> QED  BY <1>1, <2>2, FS_Surjection
<1>3. Slots \ J = Slots \ K
  BY DEF Slots, NoSlot
<1>4. K \subseteq Slots
  BY DEF Slots, NoSlot
<1>5. A \union O \subseteq AliveIn(z) /\ A \cap O = {}
  BY DEF AliveIn
<1> HIDE DEF O, K, J
<1>6. Cardinality(A \union O) = Cardinality(A) + Cardinality(O) /\ IsFiniteSet(A \union O)
  <2>1. Cardinality(A \cap O) = 0
    BY <1>5, FS_EmptySet
  <2>2. Cardinality(A) \in Nat /\ Cardinality(O) \in Nat
    BY <1>1, FS_CardinalityType
  <2>3. /\ IsFiniteSet(A \union O)
        /\ Cardinality(A \union O) = Cardinality(A) + Cardinality(O) - Cardinality(A \cap O)
    BY <1>1, FS_Union
  <2> QED  BY <2>1, <2>2, <2>3
<1>7. Cardinality(A \union O) <= Cardinality(AliveIn(z))
  BY <1>1, <1>5, FS_Subset
<1>8. Cardinality(Slots \ K) = Cardinality(Slots) - Cardinality(K)
  <2>1. Slots \cap K = K
    BY <1>4
  <2>2. Cardinality(Slots \ K) = Cardinality(Slots) - Cardinality(Slots \cap K)
    BY <1>1, FS_Difference
  <2> QED  BY <2>1, <2>2
<1>9. /\ Cardinality(A) \in Nat /\ Cardinality(O) \in Nat /\ Cardinality(K) \in Nat
      /\ Cardinality(AliveIn(z)) \in Nat
  BY <1>1, <1>2, FS_CardinalityType
<1>10. Cardinality(A) <= Cardinality(Slots \ K)
  BY <1>1, <1>2, <1>6, <1>7, <1>8, <1>9
<1> QED  BY <1>3, <1>10 DEF J

\* The added requests get slots of their own, which no other request keeps.
LEMMA PlacementFacts ==
  ASSUME NEW H, NEW B, NEW k \in Ranks, Typed, History(H, B), Kept(B), Slotted(H, k),
         phase[k] = "execute", pos[k] < currentStep
  PROVE  /\ Placement(k) \in [Batch(k).add -> Slots]
         /\ \A r, q \in Batch(k).add : Placement(k)[r] = Placement(k)[q] => r = q
         /\ \A r \in Batch(k).add, q \in Requests :
              Placement(k)[r] = index[k][q] => q \in Batch(k).drop \union Batch(k).add
<1> DEFINE s == Step(k)  b == Batch(k)  D == b.drop  A == b.add  f == index[k]
           h == H[s - 1]  z == H[s]  J == {f[r] : r \in Requests \ (D \union A)}
<1>1. s \in 1..currentStep /\ s = pos[k] + 1 /\ b = B[s] /\ pos[k] \in Nat /\ currentStep \in Nat
  <2>1. pos[k] \in Nat /\ currentStep \in Nat
    BY RankNumbers DEF Typed
  <2>2. Step(k) \in 1..currentStep /\ Step(k) = pos[k] + 1 /\ Batch(k) = B[Step(k)]
    BY StepsKept
  <2> QED  BY <2>1, <2>2
<1>2. Begun(k) = s - 1
  <2>1. Begun(k) = pos[k]
    BY DEF Begun
  <2> HIDE DEF s
  <2> QED  BY <1>1, <2>1
<1>3. b \in BatchState /\ D \subseteq Requests /\ A \subseteq Requests
  <2>1. B[s] \in BatchState
    <3> HIDE DEF s
    <3> QED  BY <1>1 DEF History
  <2>2. b \in BatchState
    BY <1>1, <2>1
  <2> HIDE DEF b
  <2> QED  BY <2>2, BatchFacts
<1>4. f \in [Requests -> 0..NumSlots]
  BY DEF Typed
<1>5. /\ \A r, q \in Requests : f[r] = f[q] /\ f[r] # NoSlot => r = q
      /\ \A r \in Requests : f[r] # NoSlot <=> h[r].life # 0
  BY <1>2 DEF Slotted, Life
<1>6. \A r \in Requests : Follows(h[r], b, z[r], r, s)
  BY <1>1 DEF History
<1>7. Cardinality(AliveIn(z)) <= NumSlots
  <2>1. s \in 0..currentStep
    BY <1>1
  <2> HIDE DEF s
  <2> QED  BY <2>1 DEF History
<1> HIDE DEF s, b, h, z, f
<1>8. /\ \A r \in A : z[r].life # 0
      /\ \A r \in Requests \ (D \union A) : z[r].life = h[r].life
  BY <1>1, <1>3, <1>6, FollowsCases
<1>9. Cardinality(A) <= Cardinality(Slots \ J)
  BY <1>3, <1>4, <1>5, <1>7, <1>8, RoomLeft
<1>10. IsFiniteSet(A) /\ IsFiniteSet(Slots \ J)
  <2>1. IsFiniteSet(Slots)
    BY FS_Interval, RankNumbers DEF Slots
  <2>2. IsFiniteSet(Slots \ J)
    BY <2>1, FS_Difference
  <2> QED  BY <1>3, <2>2, FS_Subset, RankNumbers
<1> HIDE DEF D, A, J
<1>11. \E p \in [A -> Slots \ J] : \A r, q \in A : p[r] = p[q] => r = q
  BY <1>9, <1>10, InjectionExists
<1>12. Placement(k) = CHOOSE p \in [A -> Slots \ J] : \A r, q \in A : p[r] = p[q] => r = q
  BY DEF Placement, A, D, J, b, f
<1> DEFINE P == Placement(k)
<1> HIDE DEF P
<1>13. P \in [A -> Slots \ J] /\ \A r, q \in A : P[r] = P[q] => r = q
  BY <1>11, <1>12 DEF P
<1>14. P \in [A -> Slots] /\ \A r \in A : P[r] \notin J
  BY <1>13
<1>15. \A r \in A, q \in Requests : P[r] = f[q] => q \in D \union A
  BY <1>14 DEF J
<1> QED  BY <1>13, <1>14, <1>15 DEF P, A, D, b, f

---------------------------------------------------------------------------
(* A rank begins a step *)

\* What rank k applies is the sample that the owner of the slot waits for.
LEMMA WrittenFacts ==
  ASSUME NEW H, NEW B, NEW k \in Ranks, Typed, RanksRight(H, B), Paired(B), Arrived(k),
         NEW i \in Slots, NEW r \in Requests, r \in WrittenFor(k, i)
  PROVE  /\ k \in Receivers /\ WrittenFor(k, i) = {r}
         /\ index[k][r] = i /\ Life(H, k, r) # 0 /\ Latest(H, B, k, r) = Through(k) + 1
         /\ sent[Pending(k).nth] = Through(k) + 1
         /\ Through(k) + 1 \in 1..pos[NumRanks]
<1> DEFINE e == Pending(k)  u == Through(k) + 1
<1>1. r \in Applied(k) /\ e.rows[r].idx = i /\ r \in DOMAIN e.rows /\ StillOwned(k, e.rows[r])
  BY DEF WrittenFor, Applied
<1>2. k \in Receivers
  <2>1. CASE k = NumRanks
    BY <1>1, <2>1 DEF Pending, None
  <2> QED  BY <2>1, RankNumbers
<1>3. e = ring[k][1] /\ 1 \in 1..NumRanks
  <2>1. ring[k] \in Seq(RingEntry) /\ Len(ring[k]) = NumRanks
    BY <1>2 DEF Typed
  <2>2. k # NumRanks
    BY <1>2, RankNumbers
  <2> QED  BY <2>1, <2>2, RankNumbers DEF Pending
<1>4. Entries(H, B, k) /\ Slotted(H, k)
  BY <1>2, RankNumbers DEF RanksRight
<1> HIDE DEF e, u
<1>5. e.nth \in 1..Len(posted[k]) /\ posted[k][e.nth] = u
  BY <1>1, <1>3, <1>4 DEF Entries, u
<1>6. \A q \in DOMAIN e.rows : Owned(H, B, k, e, q, u)
  BY <1>3, <1>4 DEF Entries, u
<1>7. \A q \in WrittenFor(k, i) : /\ index[k][q] = i /\ Life(H, k, q) # 0 /\ Latest(H, B, k, q) = u
                                  /\ q \in DOMAIN e.rows
  <2> TAKE q \in WrittenFor(k, i)
  <2>1. e.rows[q].idx = i /\ q \in DOMAIN e.rows /\ StillOwned(k, e.rows[q])
    BY DEF WrittenFor, Applied, e
  <2> QED  BY <1>6, <2>1 DEF Owned
<1>8. \A q \in WrittenFor(k, i) : q \in Requests
  <2> TAKE q \in WrittenFor(k, i)
  <2>1. ring[k] \in Seq(RingEntry) /\ Len(ring[k]) = NumRanks
    BY <1>2 DEF Typed
  <2>2. e \in RingEntry
    BY <1>3, <2>1
  <2>3. DOMAIN e.rows \subseteq Requests
    BY <2>2 DEF RingEntry
  <2> QED  BY <1>7, <2>3
<1>9. WrittenFor(k, i) = {r}
  <2>1. i # NoSlot
    BY DEF Slots, NoSlot
  <2>2. \A q \in WrittenFor(k, i) : q = r
    BY <1>4, <1>7, <1>8, <2>1 DEF Slotted
  <2> QED  BY <2>2
<1>10. Len(sent) >= e.nth
  BY <1>1 DEF Arrived, e
<1>11. posted[k] \in Seq(Nat) /\ sent \in Seq(Nat) /\ pos[NumRanks] \in Nat
  BY <1>2, RankNumbers DEF Typed
<1>12. sent[e.nth] = u /\ e.nth \in 1..Len(sent)
  BY <1>2, <1>5, <1>10, <1>11 DEF Paired, Agree
<1>13. u \in 1..pos[NumRanks]
  BY <1>12 DEF Paired, Lists
<1> QED  BY <1>2, <1>7, <1>9, <1>12, <1>13 DEF e, u

\* What it is for rank k to begin step s with the batch b.
Begins(H, B, k, s, b) ==
  /\ s = Step(k) /\ b = Batch(k)
  /\ s \in 1..currentStep /\ s \in Nat /\ s - 1 \in Nat /\ pos[k] = s - 1 /\ b = B[s]
  /\ b \in BatchState /\ Begun(k) = s - 1 /\ phase[k] = "execute" /\ phase[k] # "sample"
  /\ \A r \in Requests : /\ Follows(H[s - 1][r], b, H[s][r], r, s)
                         /\ H[s - 1][r] \in RequestState /\ H[s][r] \in RequestState
  /\ Begun(k)' = s /\ Through(k) = IF k = NumRanks THEN s - 1 ELSE s - 1 - NumRanks
  /\ DOMAIN b.rows # {} => phase'[k] = "sample" /\ pos'[k] = s - 1
  /\ DOMAIN b.rows = {} => phase'[k] = "execute" /\ pos'[k] = s
  /\ Kept(B)' /\ \A l \in Ranks : l # k => Undisturbed(l)
  /\ currentStep' = currentStep /\ req' = req /\ rejected' = rejected
  /\ sent' = sent /\ posted' = posted /\ pos[NumRanks] <= pos'[NumRanks]
  /\ pos' \in [Ranks -> Nat] /\ phase' \in [Ranks -> {"execute", "sample"}]

\* Beginning a step: what changes besides the slots.
LEMMA ExecuteFacts ==
  ASSUME NEW H, NEW B, NEW k \in Ranks, Typed, History(H, B), Kept(B), ExecuteModel(k)
  PROVE  \E s, b : Begins(H, B, k, s, b)
<1> PICK s, b : s = Step(k) /\ b = Batch(k)
  OBVIOUS
<1>1. /\ phase[k] = "execute" /\ pos[k] < currentStep
      /\ currentStep' = currentStep /\ req' = req /\ rejected' = rejected
      /\ sent' = sent /\ posted' = posted
  BY DEF ExecuteModel
<1>2. /\ currentStep \in Nat /\ pos[k] \in Nat /\ pos \in [Ranks -> Nat] /\ pos[NumRanks] \in Nat
      /\ phase \in [Ranks -> {"execute", "sample"}]
  BY RankNumbers DEF Typed
<1>3. s \in 1..currentStep /\ s = pos[k] + 1 /\ b = B[s]
  BY <1>1, StepsKept
<1>4. /\ s \in Nat /\ s - 1 \in Nat /\ pos[k] = s - 1
      /\ s - 1 \in 0..currentStep /\ s \in 0..currentStep
  BY <1>2, <1>3
<1>5. /\ b \in BatchState /\ Begun(k) = s - 1
      /\ Through(k) = IF k = NumRanks THEN s - 1 ELSE s - 1 - NumRanks
  BY <1>1, <1>3, <1>4 DEF Begun, Through, History
<1>6. \A r \in Requests : /\ Follows(H[s - 1][r], b, H[s][r], r, s)
                          /\ H[s - 1][r] \in RequestState /\ H[s][r] \in RequestState
  BY <1>3, <1>4 DEF History
<1>7. /\ Kept(B)'
      /\ DOMAIN b.rows # {} => /\ pos' = pos /\ phase'[k] = "sample"
                               /\ phase' = [phase EXCEPT ![k] = "sample"]
      /\ DOMAIN b.rows = {} => pos'[k] = s /\ phase'[k] = "execute" /\ pos' = [pos EXCEPT ![k] = s]
                               /\ phase' = [phase EXCEPT ![k] = "execute"]
  <2>1. CASE DOMAIN b.rows # {}
    <3>1. phase' = [phase EXCEPT ![k] = "sample"] /\ pos' = pos /\ issued' = issued
      BY <2>1 DEF ExecuteModel
    <3>2. Kept(B)'
      BY <1>1, <3>1 DEF Kept
    <3> QED  BY <1>2, <2>1, <3>1, <3>2
  <2>2. CASE DOMAIN b.rows = {}
    <3>1. StepDone(k)
      BY <2>2 DEF ExecuteModel
    <3> QED  BY <1>1, <1>3, <2>2, <3>1, KeptOn
  <2> QED  BY <2>1, <2>2
<1>8. \A l \in Ranks : l # k => pos'[l] = pos[l] /\ phase'[l] = phase[l]
  BY <1>2, <1>7
<1>9. pos[NumRanks] <= pos'[NumRanks]
  BY <1>2, <1>3, <1>7, RankNumbers
<1>10. \A l \in Ranks : l # k => Undisturbed(l)
  <2> TAKE l \in Ranks
  <2> HAVE l # k
  <2>1. /\ index'[l] = index[l] /\ gen'[l] = gen[l]
        /\ computed'[l] = computed[l] /\ last'[l] = last[l]
        /\ l \in Receivers => ring'[l] = ring[l]
    <3>1. /\ index = [q \in Ranks |-> index[q]] /\ gen = [q \in Ranks |-> gen[q]]
          /\ computed = [q \in Ranks |-> computed[q]] /\ last = [q \in Ranks |-> last[q]]
          /\ ring = [q \in Receivers |-> ring[q]]
      BY DEF Typed
    <3>2. index'[l] = index[l] /\ gen'[l] = gen[l]
      BY <3>1 DEF ExecuteModel
    <3>3. computed'[l] = computed[l] /\ last'[l] = last[l]
      BY <3>1 DEF ExecuteModel
    <3>4. l \in Receivers => ring'[l] = ring[l]
      BY <3>1 DEF ExecuteModel
    <3> QED  BY <3>2, <3>3, <3>4
  <2> QED  BY <1>1, <1>8, <1>9, <2>1 DEF Undisturbed
<1>11. Begun(k)' = s
  BY <1>4, <1>7 DEF Begun
<1>12. DOMAIN b.rows # {} => pos'[k] = s - 1
  BY <1>4, <1>7
<1>13. pos' \in [Ranks -> Nat] /\ phase' \in [Ranks -> {"execute", "sample"}]
  BY <1>2, <1>4, <1>7
<1> QED  BY <1>1, <1>3, <1>4, <1>5, <1>6, <1>7, <1>9, <1>10, <1>11, <1>12, <1>13
     DEF Begins

Fresh(k) == {Placement(k)[r] : r \in Batch(k).add}

\* What is written to the slots when a step begins.
LEMMA ExecuteWrites ==
  ASSUME NEW k \in Ranks, Typed, ExecuteModel(k), NEW b, b = Batch(k)
  PROVE  /\ \A r \in Requests :
              index'[k][r] = IF r \in b.add THEN Placement(k)[r]
                             ELSE IF r \in b.drop THEN NoSlot ELSE index[k][r]
         /\ \A i \in Slots :
              /\ gen'[k][i] = gen[k][i] + (IF i \in Freed(k) THEN 1 ELSE 0)
              /\ gen[k][i] \in Nat /\ gen'[k][i] \in Nat
              /\ last'[k][i] = IF i \in Fresh(k) THEN NoToken ELSE AppliedLast(k)[i]
              /\ computed'[k][i] = IF i \in Fresh(k) THEN 0 ELSE AppliedComputed(k)[i]
         /\ k \in Receivers =>
              /\ Len(ring'[k]) = NumRanks /\ ring'[k][NumRanks] = None
              /\ \A j \in 1..(NumRanks - 1) : ring'[k][j] = ring[k][j + 1]
<1>1. /\ index \in [Ranks -> [Requests -> 0..NumSlots]] /\ gen \in [Ranks -> [Slots -> Nat]]
      /\ last = [l \in Ranks |-> last[l]] /\ computed \in [Ranks -> [Slots -> Int]]
      /\ ring \in [Receivers -> Seq(RingEntry)]
  BY DEF Typed
<1>2. index'[k] = [r \in Requests |->
          IF r \in b.add THEN Placement(k)[r]
          ELSE IF r \in b.drop THEN NoSlot ELSE index[k][r]]
  BY <1>1 DEF ExecuteModel
<1>3. gen'[k] = Bumped(k)
  BY <1>1 DEF ExecuteModel
<1>4. last'[k] = [i \in Slots |-> IF i \in Fresh(k) THEN NoToken ELSE AppliedLast(k)[i]]
  BY <1>1 DEF ExecuteModel, Fresh
<1>5. computed'[k] = [i \in Slots |-> IF i \in Fresh(k) THEN 0 ELSE AppliedComputed(k)[i]]
  BY <1>1 DEF ExecuteModel, Fresh
<1>6. \A i \in Slots : /\ gen'[k][i] = gen[k][i] + (IF i \in Freed(k) THEN 1 ELSE 0)
                       /\ gen[k][i] \in Nat /\ gen'[k][i] \in Nat
  <2> TAKE i \in Slots
  <2>1. gen[k][i] \in Nat
    BY <1>1
  <2>2. gen'[k][i] = gen[k][i] + (IF i \in Freed(k) THEN 1 ELSE 0)
    BY <1>3 DEF Bumped
  <2>3. (IF i \in Freed(k) THEN 1 ELSE 0) \in Nat
    OBVIOUS
  <2> QED  BY <2>1, <2>2, <2>3
<1>7. ASSUME k \in Receivers
      PROVE  /\ Len(ring'[k]) = NumRanks /\ ring'[k][NumRanks] = None
             /\ \A j \in 1..(NumRanks - 1) : ring'[k][j] = ring[k][j + 1]
  <2> DEFINE q == ring[k]  t == Tail(q)
  <2>1. q \in Seq(RingEntry) /\ Len(q) = NumRanks /\ q # <<>>
    <3>1. q \in Seq(RingEntry) /\ Len(q) = NumRanks
      BY <1>7 DEF Typed
    <3> HIDE DEF q
    <3> QED  BY <3>1, RankNumbers
  <2>2. ring'[k] = Append(t, None)
    <3>1. k # NumRanks
      BY <1>7, RankNumbers
    <3> QED  BY <1>1, <1>7, <3>1 DEF ExecuteModel
  <2> HIDE DEF q
  <2>3. /\ t \in Seq(RingEntry) /\ Len(t) = NumRanks - 1
        /\ \A j \in 1..(NumRanks - 1) : t[j] = q[j + 1]
    BY <2>1, TailFacts
  <2> DEFINE W == RingEntry \union {None}
  <2> HIDE DEF t, W
  <2>4. t \in Seq(W) /\ None \in W
    <3>1. RingEntry \subseteq W /\ None \in W
      BY DEF W
    <3> QED  BY <2>3, <3>1
  <2>5. /\ Len(Append(t, None)) = Len(t) + 1 /\ Append(t, None)[Len(t) + 1] = None
        /\ \A j \in 1..Len(t) : Append(t, None)[j] = t[j]
    BY <2>4, AppendFacts
  <2>6. Len(t) + 1 = NumRanks
    BY <2>3, RankNumbers
  <2> QED  BY <2>2, <2>3, <2>5, <2>6 DEF q
<1> QED  BY <1>2, <1>4, <1>5, <1>6, <1>7

\* What a rank holds when it begins a step: the new requests, those that leave, the others.
LEMMA ExecuteViews ==
  ASSUME NEW H, NEW B, NEW k \in Ranks, Typed, History(H, B), Kept(B), ExecuteModel(k),
         NEW b, b = Batch(k), NEW r \in Requests
  PROVE  /\ r \in b.add => /\ Life(H, k, r)' = Step(k) /\ Latest(H, B, k, r)' = 0
                           /\ Done(H, B, k, r)' = 0
         /\ r \notin b.add /\ r \in b.drop => Life(H, k, r)' = 0
         /\ r \notin b.add /\ r \notin b.drop =>
              /\ Life(H, k, r)' = Life(H, k, r) /\ Latest(H, B, k, r)' = Latest(H, B, k, r)
              /\ Done(H, B, k, r)' = Done(H, B, k, r)
<1>1. PICK s : Begins(H, B, k, s, b)
  <2>1. PICK s, c : Begins(H, B, k, s, c)
    BY ExecuteFacts
  <2>2. c = b
    BY <2>1 DEF Begins
  <2> QED  BY <2>1, <2>2
<1> DEFINE h == H[s - 1][r]  z == H[s][r]
<1>2. /\ s \in Nat /\ b = B[s] /\ Follows(h, b, z, r, s) /\ Begun(k) = s - 1 /\ Begun(k)' = s
      /\ ~InForward(B, k, r) /\ (InForward(B, k, r)' <=> r \in DOMAIN b.rows) /\ s = Step(k)
  <2>1. /\ s \in Nat /\ b = B[s] /\ Follows(h, b, z, r, s) /\ Begun(k) = s - 1
        /\ Begun(k)' = s /\ phase[k] # "sample" /\ s = Step(k)
        /\ DOMAIN b.rows # {} => phase'[k] = "sample"
        /\ DOMAIN b.rows = {} => phase'[k] = "execute"
    BY <1>1 DEF Begins
  <2>2. ~InForward(B, k, r)
    BY <2>1 DEF InForward
  <2>3. InForward(B, k, r)' <=> r \in DOMAIN b.rows
    BY <2>1 DEF InForward
  <2> QED  BY <2>1, <2>2, <2>3
<1>3. /\ Life(H, k, r) = h.life /\ Latest(H, B, k, r) = h.sampled /\ Done(H, B, k, r) = h.computed
  BY <1>2 DEF Life, Latest, Done
<1>4. /\ Life(H, k, r)' = z.life
      /\ Latest(H, B, k, r)' = IF r \in DOMAIN b.rows THEN b.rows[r].sampled ELSE z.sampled
      /\ Done(H, B, k, r)' = IF r \in DOMAIN b.rows THEN b.rows[r].old ELSE z.computed
  <2>1. Life(H, k, r)' = z.life
    BY <1>2 DEF Life
  <2>2. Latest(H, B, k, r)' = IF r \in DOMAIN b.rows THEN b.rows[r].sampled ELSE z.sampled
    BY <1>2 DEF Latest
  <2>3. Done(H, B, k, r)' = IF r \in DOMAIN b.rows THEN b.rows[r].old ELSE z.computed
    BY <1>2 DEF Done
  <2> QED  BY <2>1, <2>2, <2>3
<1> HIDE DEF h, z
<1> QED  BY <1>2, <1>3, <1>4, FollowsCases

\* After it, exactly the requests that run have a slot.
LEMMA ExecuteSlotted ==
  ASSUME NEW H, NEW B, NEW k \in Ranks, Typed, History(H, B), Kept(B), Slotted(H, k),
         ExecuteModel(k)
  PROVE  /\ Slotted(H, k)' /\ index' \in [Ranks -> [Requests -> 0..NumSlots]]
         /\ \A r \in Requests : index'[k][r] \in Fresh(k) => r \in Batch(k).add
<1> DEFINE b == Batch(k)  P == Placement(k)
<1>1. /\ P \in [b.add -> Slots] /\ \A r, q \in b.add : P[r] = P[q] => r = q
      /\ \A r \in b.add, q \in Requests : P[r] = index[k][q] => q \in b.drop \union b.add
  BY PlacementFacts DEF ExecuteModel
<1>2. \A r \in Requests : index'[k][r] = IF r \in b.add THEN P[r]
                             ELSE IF r \in b.drop THEN NoSlot ELSE index[k][r]
  BY ExecuteWrites
<1>3. Step(k) \in Nat /\ Step(k) # 0
  <2>1. pos[k] \in Nat
    BY DEF Typed
  <2> QED  BY <2>1 DEF Step
<1>4. \A r \in Requests :
        /\ r \in b.add => Life(H, k, r)' # 0
        /\ r \notin b.add /\ r \in b.drop => Life(H, k, r)' = 0
        /\ r \notin b.add /\ r \notin b.drop => Life(H, k, r)' = Life(H, k, r)
  BY <1>3, ExecuteViews
<1>5. /\ \A r \in Requests : index[k][r] # NoSlot <=> Life(H, k, r) # 0
      /\ \A r, q \in Requests : index[k][r] = index[k][q] /\ index[k][r] # NoSlot => r = q
  BY DEF Slotted
<1> DEFINE f == index'[k]
<1>6. \A r \in Requests : f[r] # NoSlot <=> Life(H, k, r)' # 0
  <2>1. \A i \in Slots : i # NoSlot
    BY DEF Slots, NoSlot
  <2> HIDE DEF b, P, f
  <2> QED  BY <1>1, <1>2, <1>4, <1>5, <2>1 DEF f
<1>7. \A r, q \in Requests : f[r] = f[q] /\ f[r] # NoSlot => r = q
  <2> HIDE DEF b, P
  <2> QED  BY <1>1, <1>2, <1>5
<1>8. Slotted(H, k)'
  BY <1>6, <1>7 DEF Slotted
<1>9. index' \in [Ranks -> [Requests -> 0..NumSlots]]
  <2>1. index \in [Ranks -> [Requests -> 0..NumSlots]] /\ NumSlots \in Nat
    BY RankNumbers DEF Typed
  <2>2. index' = [index EXCEPT ![k] = [r \in Requests |->
          IF r \in b.add THEN P[r] ELSE IF r \in b.drop THEN NoSlot ELSE index[k][r]]]
    BY <2>1 DEF ExecuteModel
  <2>3. \A r \in Requests :
          (IF r \in b.add THEN P[r]
           ELSE IF r \in b.drop THEN NoSlot ELSE index[k][r]) \in 0..NumSlots
    <3>1. NoSlot \in 0..NumSlots /\ Slots \subseteq 0..NumSlots
      BY <2>1 DEF NoSlot, Slots
    <3>2. \A r \in Requests : index[k][r] \in 0..NumSlots
      BY <2>1
    <3> HIDE DEF b, P
    <3> QED  BY <1>1, <3>1, <3>2
  <2> HIDE DEF b, P
  <2> QED  BY <2>1, <2>2, <2>3
<1>10. \A r \in Requests : f[r] \in Fresh(k) => r \in b.add
  <2> SUFFICES ASSUME NEW r \in Requests, f[r] \in Fresh(k), r \notin b.add PROVE FALSE
    OBVIOUS
  <2>1. PICK q \in b.add : f[r] = P[q]
    BY DEF Fresh
  <2>2. P[q] \in Slots /\ P[q] # NoSlot
    BY <1>1, <2>1 DEF Slots, NoSlot
  <2>3. f[r] = index[k][r] /\ r \notin b.drop
    BY <1>2, <2>1, <2>2
  <2> QED  BY <1>1, <2>1, <2>3
<1> QED  BY <1>8, <1>9, <1>10

\* The rejections of one more step, whether the life has begun by then or not.
LEMMA LostOn ==
  ASSUME NEW rej, RejectionsTyped(rej), NEW r \in Requests,
         NEW l \in Nat, l > 0, NEW x \in Int, NEW y, y = x + 1, y <= MaxSteps
  PROVE  /\ Lost(rej, r, l, x) \in Int /\ Lost(rej, r, l, y) \in Int
         /\ l <= y => Lost(rej, r, l, y) = Lost(rej, r, l, x) + rej[y][r]
         /\ l > y => Lost(rej, r, l, y) = 0 /\ Lost(rej, r, l, x) = 0
<1>1. x <= MaxSteps /\ x + 1 <= MaxSteps /\ y \in Int
  BY RankNumbers
<1>2. /\ Lost(rej, r, l, x) \in Int /\ (x < l => Lost(rej, r, l, x) = 0)
      /\ Lost(rej, r, l, y) \in Int /\ (y < l => Lost(rej, r, l, y) = 0)
  BY <1>1, LostFacts
<1>3. l <= y => Lost(rej, r, l, y) = Lost(rej, r, l, x) + rej[y][r]
  BY <1>1, LostNext
<1>4. l > y => x < l /\ y < l
  BY <1>1
<1> QED  BY <1>2, <1>3, <1>4

\* What is applied to the slot i of r, which goes on: its sample of step y, if it has one.
LEMMA AppliedTo ==
  ASSUME NEW H, NEW B, NEW k \in Ranks, Typed, RanksRight(H, B), Paired(B), Arrived(k),
         NEW r \in Requests, NEW i \in Slots, index[k][r] = i
  PROVE  /\ k = NumRanks => WrittenFor(k, i) = {}
         /\ WrittenFor(k, i) = {} => AppliedLast(k)[i] = last[k][i]
                                     /\ AppliedComputed(k)[i] = computed[k][i]
         /\ WrittenFor(k, i) # {} =>
              /\ Life(H, k, r) # 0 /\ Latest(H, B, k, r) = Through(k) + 1
              /\ Through(k) + 1 > 0 /\ Through(k) + 1 <= pos[NumRanks]
              /\ AppliedLast(k)[i] = <<r, Through(k) + 1>>
              /\ AppliedComputed(k)[i] = computed[k][i] - rejected[Through(k) + 1][r]
<1>1. k = NumRanks => WrittenFor(k, i) = {}
  BY DEF WrittenFor, Applied, Pending, None
<1>2. WrittenFor(k, i) = {} => AppliedLast(k)[i] = last[k][i]
                               /\ AppliedComputed(k)[i] = computed[k][i]
  BY DEF AppliedLast, AppliedComputed
<1>3. ASSUME WrittenFor(k, i) # {}
      PROVE  /\ Life(H, k, r) # 0 /\ Latest(H, B, k, r) = Through(k) + 1
             /\ Through(k) + 1 > 0 /\ Through(k) + 1 <= pos[NumRanks]
             /\ WrittenFor(k, i) = {r} /\ sent[Pending(k).nth] = Through(k) + 1
  <2>1. PICK q : q \in WrittenFor(k, i)
    BY <1>3
  <2>2. q \in Requests
    <3>1. q \in DOMAIN Pending(k).rows /\ k \in Receivers
      BY <1>1, <1>3, <2>1, RankNumbers DEF WrittenFor, Applied
    <3>2. ring[k] \in Seq(RingEntry) /\ Len(ring[k]) = NumRanks /\ Pending(k) = Head(ring[k])
      BY <1>1, <1>3, <3>1 DEF Typed, Pending
    <3>3. Pending(k) \in RingEntry
      <4>1. ring[k] # <<>>
        BY <3>2, RankNumbers
      <4> QED  BY <3>2, <4>1, TailFacts
    <3>4. DOMAIN Pending(k).rows \subseteq Requests
      BY <3>3 DEF RingEntry
    <3> QED  BY <3>1, <3>4
  <2>3. /\ WrittenFor(k, i) = {q}
        /\ index[k][q] = i /\ Life(H, k, q) # 0 /\ Latest(H, B, k, q) = Through(k) + 1
        /\ sent[Pending(k).nth] = Through(k) + 1
        /\ Through(k) + 1 \in 1..pos[NumRanks]
    BY <2>1, <2>2, WrittenFacts
  <2>4. q = r
    BY <2>2, <2>3 DEF RanksRight, Slotted, Slots, NoSlot
  <2>5. Through(k) + 1 > 0 /\ Through(k) + 1 <= pos[NumRanks]
    <3> DEFINE u == Through(k) + 1
    <3>1. u \in 1..pos[NumRanks]
      BY <2>3
    <3> HIDE DEF u
    <3>2. u > 0 /\ u <= pos[NumRanks]
      BY <3>1
    <3> QED  BY <3>2 DEF u
  <2> QED  BY <2>3, <2>4, <2>5
<1>4. ASSUME WrittenFor(k, i) # {}
      PROVE  /\ AppliedLast(k)[i] = <<r, Through(k) + 1>>
             /\ AppliedComputed(k)[i] = computed[k][i] - rejected[Through(k) + 1][r]
  <2>1. WrittenFor(k, i) = {r} /\ sent[Pending(k).nth] = Through(k) + 1
    BY <1>3, <1>4
  <2>2. (CHOOSE q \in WrittenFor(k, i) : TRUE) = r
    BY <2>1
  <2> QED  BY <1>4, <2>1, <2>2 DEF AppliedLast, AppliedComputed
<1> QED  BY <1>1, <1>2, <1>3, <1>4

\* The sample that is awaited for step y is applied when it falls due.
LEMMA DueApplied ==
  ASSUME NEW H, NEW B, NEW k \in Receivers, Typed, RanksRight(H, B),
         NEW r \in Requests, Life(H, k, r) # 0, Latest(H, B, k, r) # 0,
         Latest(H, B, k, r) = Through(k) + 1, Through(k) \in Int
  PROVE  WrittenFor(k, index[k][r]) # {}
<1>1. UnderWay(H, B, k)
  BY DEF RanksRight
<1>2. Latest(H, B, k, r) > Through(k) /\ Latest(H, B, k, r) - Through(k) = 1
  OBVIOUS
<1>3. Awaits(k, ring[k][1], r)
  BY <1>1, <1>2 DEF UnderWay
<1>4. Pending(k) = ring[k][1]
  <2>1. ring[k] \in Seq(RingEntry) /\ Len(ring[k]) = NumRanks
    BY DEF Typed
  <2> QED  BY <2>1, RankNumbers DEF Pending
<1>5. r \in Applied(k)
  BY <1>3, <1>4 DEF Awaits, Applied, StillOwned
<1>6. r \in WrittenFor(k, index[k][r])
  BY <1>3, <1>4, <1>5 DEF Awaits, WrittenFor
<1> QED  BY <1>6

\* The data of every slot is right after what arrived is applied and the new requests are placed.
LEMMA ExecuteData ==
  ASSUME NEW H, NEW B, NEW k \in Ranks, Typed, History(H, B), Kept(B), Rejections(B),
         RanksRight(H, B), Paired(B), ExecuteModel(k)
  PROVE  Data(H, B, k)'
<1>1. PICK s, b : Begins(H, B, k, s, b)
  BY ExecuteFacts
<1> SUFFICES ASSUME NEW r \in Requests, Life(H, k, r)' # 0
             PROVE  DataOf(H, B, k, r, index[k][r])'
  BY DEF Data
<1>2. PICK i : i = index'[k][r]
  OBVIOUS
<1> SUFFICES DataOf(H, B, k, r, i)'
  BY <1>2 DEF DataOf
<1>3. /\ s \in Nat /\ s - 1 \in Nat /\ s \in 1..currentStep /\ pos[k] = s - 1 /\ b = B[s]
      /\ b = Batch(k) /\ s = Step(k) /\ Begun(k) = s - 1 /\ phase[k] # "sample" /\ Begun(k)' = s
      /\ Through(k) = IF k = NumRanks THEN s - 1 ELSE s - 1 - NumRanks
      /\ Follows(H[s - 1][r], b, H[s][r], r, s)
      /\ rejected' = rejected /\ pos[NumRanks] <= pos'[NumRanks]
      /\ DOMAIN b.rows # {} => pos'[k] = s - 1
      /\ DOMAIN b.rows = {} => pos'[k] = s
  BY <1>1 DEF Begins
<1>4. /\ RejectionsTyped(rejected) /\ currentStep <= MaxSteps /\ s <= MaxSteps
      /\ pos[NumRanks] \in Nat /\ pos'[NumRanks] \in Nat
  <2>1. pos' \in [Ranks -> Nat]
    BY <1>1 DEF Begins
  <2>2. currentStep \in 0..MaxSteps /\ RejectionsTyped(rejected) /\ pos[NumRanks] \in Nat
    BY RankNumbers DEF Typed, RejectionsTyped
  <2> QED  BY <1>3, <2>1, <2>2, RankNumbers
<1> DEFINE x == Through(k)  y == Through(k)'
<1>5. /\ k = NumRanks /\ DOMAIN b.rows # {} => x = s - 1 /\ y = x
      /\ k = NumRanks /\ DOMAIN b.rows = {} => x = s - 1 /\ y = x + 1
      /\ k # NumRanks => x = s - 1 - NumRanks /\ y = x + 1
      /\ y = x \/ y = x + 1
  BY <1>3, RankNumbers DEF Through
<1>6. x \in Int /\ y \in Int /\ x <= s - 1 /\ y <= s
  BY <1>3, <1>5, RankNumbers
<1>7. i \in Slots
  <2>1. Slotted(H, k)' /\ index' \in [Ranks -> [Requests -> 0..NumSlots]]
    BY ExecuteSlotted DEF RanksRight
  <2>2. i # NoSlot /\ i \in 0..NumSlots
    BY <1>2, <2>1 DEF Slotted
  <2> QED  BY <2>2, RankNumbers DEF Slots, NoSlot
<1>8. PICK l, n, d : l = Life(H, k, r)' /\ n = Latest(H, B, k, r)' /\ d = Done(H, B, k, r)'
  OBVIOUS
<1> HIDE DEF x, y
<1> SUFFICES /\ n \in 1..y => last'[k][i] = <<r, n>>
             /\ computed'[k][i] = d - Lost(rejected, r, l, y)
             /\ \A t \in l..y : Needs(B[t], r) => t <= pos'[NumRanks]
  BY <1>3, <1>8 DEF DataOf, y
<1>9. CASE r \in b.add
  <2>1. l = s /\ n = 0 /\ d = 0
    BY <1>3, <1>8, <1>9, ExecuteViews
  <2>2. i \in Fresh(k)
    <3>1. i = Placement(k)[r]
      BY <1>2, <1>3, <1>9, ExecuteWrites
    <3> QED  BY <1>3, <1>9, <3>1 DEF Fresh
  <2>3. computed'[k][i] = 0
    BY <1>7, <2>2, ExecuteWrites
  <2>4. y < s
    <3>1. r \in DOMAIN b.rows
      BY <1>3, <1>9, FollowsCases
    <3> QED  BY <1>3, <1>5, <1>6, <3>1, RankNumbers
  <2>5. Lost(rejected, r, s, y) = 0
    <3>1. s > 0 /\ y <= MaxSteps
      BY <1>3, <1>4, <1>6, <2>4, RankNumbers
    <3> QED  BY <1>3, <1>4, <1>6, <2>4, <3>1, LostFacts
  <2>6. l..y = {} /\ n \notin 1..y
    BY <1>3, <1>6, <2>1, <2>4
  <2> QED  BY <2>1, <2>3, <2>5, <2>6
<1>10. CASE r \notin b.add
  <2>1. r \notin b.drop
    <3>1. r \notin b.add /\ r \in b.drop => Life(H, k, r)' = 0
      BY <1>3, ExecuteViews
    <3> QED  BY <1>10, <3>1
  <2>2. l = Life(H, k, r) /\ n = Latest(H, B, k, r) /\ d = Done(H, B, k, r) /\ l # 0
    BY <1>3, <1>8, <1>10, <2>1, ExecuteViews
  <2>3. i = index[k][r]
    BY <1>2, <1>3, <1>10, <2>1, ExecuteWrites
  <2>4. i \notin Fresh(k)
    <3>1. index'[k][r] \in Fresh(k) => r \in Batch(k).add
      BY ExecuteSlotted DEF RanksRight
    <3> QED  BY <1>2, <1>3, <1>10, <3>1
  <2>5. last'[k][i] = AppliedLast(k)[i] /\ computed'[k][i] = AppliedComputed(k)[i]
    BY <1>7, <2>4, ExecuteWrites
  <2>6. DataOf(H, B, k, r, i)
    BY <2>2, <2>3 DEF RanksRight, Data
  <2>7. /\ n \in 1..x => last[k][i] = <<r, n>>
        /\ computed[k][i] = d - Lost(rejected, r, l, x)
        /\ \A t \in l..x : Needs(B[t], r) => t <= pos[NumRanks]
    BY <2>2, <2>6 DEF DataOf, x
  <2>8. /\ l \in Nat /\ n \in Nat /\ d \in Nat /\ l > 0 /\ l <= s - 1 /\ n <= s - 1
        /\ n # 0 => l <= n
    <3>1. /\ Life(H, k, r) \in Nat /\ Latest(H, B, k, r) \in Nat /\ Done(H, B, k, r) \in Nat
          /\ Life(H, k, r) # 0 =>
              /\ Life(H, k, r) <= Begun(k) /\ Latest(H, B, k, r) <= pos[k]
              /\ Latest(H, B, k, r) # 0 => Life(H, k, r) <= Latest(H, B, k, r)
      BY ViewFacts
    <3>2. l > 0
      BY <2>2, <3>1
    <3> QED  BY <1>3, <2>2, <3>1, <3>2
  <2>9. \A t \in l..(s - 1) : Needs(B[t], r) => t = n \/ t + NumRanks <= n
    <3>1. l = H[s - 1][r].life /\ n = H[s - 1][r].sampled
      BY <1>3, <2>2 DEF Life, Latest, InForward
    <3>2. Spaced(B, H[s - 1][r], r, s - 1)
      <4>1. s - 1 \in 0..currentStep
        <5>1. currentStep \in Nat
          BY RankNumbers DEF Typed
        <5> QED  BY <1>3, <5>1
      <4> QED  BY <4>1 DEF History
    <3> QED  BY <2>2, <3>1, <3>2 DEF Spaced
  <2>10. Arrived(k)
    BY DEF ExecuteModel
  <2>11. /\ k = NumRanks => WrittenFor(k, i) = {}
         /\ WrittenFor(k, i) = {} => AppliedLast(k)[i] = last[k][i]
                                     /\ AppliedComputed(k)[i] = computed[k][i]
         /\ WrittenFor(k, i) # {} =>
              /\ n = x + 1 /\ x + 1 > 0 /\ x + 1 <= pos[NumRanks]
              /\ AppliedLast(k)[i] = <<r, x + 1>>
              /\ AppliedComputed(k)[i] = computed[k][i] - rejected[x + 1][r]
    BY <1>7, <2>2, <2>3, <2>10, AppliedTo DEF x
  <2>12. n # 0 /\ n = x + 1 /\ k # NumRanks => WrittenFor(k, i) # {}
    <3> SUFFICES ASSUME n # 0, n = x + 1, k # NumRanks PROVE WrittenFor(k, i) # {}
      OBVIOUS
    <3>1. k \in Receivers
      BY RankNumbers
    <3>2. Through(k) \in Int /\ Latest(H, B, k, r) = Through(k) + 1
      BY <1>6, <2>2 DEF x
    <3> QED  BY <2>2, <2>3, <3>1, <3>2, DueApplied
  <2>13. CASE y = x
    <3>1. k = NumRanks
      BY <1>5, <1>6, <2>13
    <3> QED  BY <1>3, <1>4, <1>6, <2>5, <2>7, <2>8, <2>11, <2>13, <3>1
  <2>14. CASE y = x + 1
    <3>1. Needs(B[y], r) /\ l <= y => n = y /\ WrittenFor(k, i) # {}
      <4> SUFFICES ASSUME Needs(B[y], r), l <= y PROVE n = y /\ WrittenFor(k, i) # {}
        OBVIOUS
      <4>1. CASE k = NumRanks
        <5>1. y = s /\ DOMAIN b.rows = {}
          BY <1>3, <1>5, <2>14, <4>1
        <5> QED  BY <1>3, <5>1, NeedsFacts
      <4>2. CASE k # NumRanks
        <5>1. y = s - NumRanks /\ y \in l..(s - 1)
          BY <1>3, <1>5, <1>6, <2>8, <4>2, RankNumbers
        <5>2. n = y \/ y + NumRanks <= n
          BY <2>9, <5>1
        <5>3. n = y
          BY <1>3, <2>8, <5>1, <5>2, RankNumbers
        <5> QED  BY <2>8, <2>12, <2>14, <4>2, <5>3
      <4> QED  BY <4>1, <4>2
    <3>2. l <= y => y \in 1..MaxSteps
      BY <1>4, <1>6, <2>8, <1>3, RankNumbers
    <3>3. l <= y /\ WrittenFor(k, i) = {} => rejected[y][r] = 0
      BY <3>1, <3>2 DEF Rejections
    <3>4. WrittenFor(k, i) # {} => l <= y
      BY <1>6, <2>8, <2>11, <2>14
    <3>5. /\ Lost(rejected, r, l, x) \in Int /\ Lost(rejected, r, l, y) \in Int
          /\ l <= y => Lost(rejected, r, l, y) = Lost(rejected, r, l, x) + rejected[y][r]
          /\ l > y => Lost(rejected, r, l, y) = 0 /\ Lost(rejected, r, l, x) = 0
      <4>1. y <= MaxSteps
        BY <1>3, <1>4, <1>6, RankNumbers
      <4> QED  BY <1>4, <1>6, <2>8, <2>14, <4>1, LostOn
    <3>6. l <= y => rejected[y][r] \in Int
      BY <1>4, <3>2, RankNumbers DEF RejectionsTyped
    <3>7. computed'[k][i] = d - Lost(rejected, r, l, y)
      <4> DEFINE L == Lost(rejected, r, l, x)  M == Lost(rejected, r, l, y)  j == rejected[y][r]
      <4>1. L \in Int /\ M \in Int /\ d \in Int /\ (l <= y => M = L + j /\ j \in Int)
            /\ (l > y => M = 0 /\ L = 0) /\ l \in Int
        BY <2>8, <3>5, <3>6
      <4>2. computed[k][i] = d - L
        BY <2>7
      <4>3. /\ WrittenFor(k, i) = {} => computed'[k][i] = computed[k][i] /\ (l <= y => j = 0)
            /\ WrittenFor(k, i) # {} => computed'[k][i] = computed[k][i] - j /\ l <= y
        BY <2>5, <2>11, <2>14, <3>3, <3>4
      <4> HIDE DEF L, M, j
      <4>4. computed'[k][i] = d - M
        BY <1>6, <4>1, <4>2, <4>3
      <4> QED  BY <4>4 DEF M
    <3>8. n \in 1..y => last'[k][i] = <<r, n>>
      <4> SUFFICES ASSUME n \in 1..y PROVE last'[k][i] = <<r, n>>
        OBVIOUS
      <4>1. CASE n = y
        <5>1. k = NumRanks => FALSE
          BY <1>3, <1>5, <2>8, <2>14, <4>1
        <5>2. WrittenFor(k, i) # {}
          BY <2>8, <2>12, <2>14, <4>1, <5>1
        <5> QED  BY <2>5, <2>11, <2>14, <4>1, <5>2
      <4>2. CASE n # y
        <5>1. WrittenFor(k, i) = {} /\ n \in 1..x
          BY <1>6, <2>8, <2>11, <2>14, <4>2
        <5> QED  BY <2>5, <2>7, <2>11, <5>1
      <4> QED  BY <4>1, <4>2
    <3>9. \A t \in l..y : Needs(B[t], r) => t <= pos'[NumRanks]
      <4> SUFFICES ASSUME NEW t \in l..y, Needs(B[t], r) PROVE t <= pos'[NumRanks]
        OBVIOUS
      <4>1. t <= pos[NumRanks]
        <5>1. CASE t = y
          BY <1>6, <2>8, <2>11, <2>14, <3>1, <5>1
        <5>2. CASE t # y
          <6>1. t \in l..x
            BY <1>6, <2>8, <2>14, <5>2
          <6> QED  BY <2>7, <6>1
        <5> QED  BY <5>1, <5>2
      <4> QED  BY <1>3, <1>4, <2>8, <1>6, <4>1
    <3> QED  BY <3>7, <3>8, <3>9
  <2> QED  BY <1>5, <2>13, <2>14
<1> QED  BY <1>9, <1>10

LEMMA ReceiverViews ==
  ASSUME NEW H, NEW B, NEW k \in Receivers, Typed, History(H, B), Kept(B), ExecuteModel(k)
  PROVE  /\ k \in Ranks /\ Through(k) \in Int /\ Through(k)' = Through(k) + 1
         /\ Through(k) + NumRanks = pos[k] /\ NumRanks \in Nat /\ NumRanks > 1
<1>1. k \in Ranks /\ k # NumRanks /\ NumRanks \in Nat /\ NumRanks > 1
  BY RankNumbers
<1>2. PICK s, b : Begins(H, B, k, s, b)
  BY <1>1, ExecuteFacts
<1>3. s \in Nat /\ Begun(k)' = s /\ Through(k) = s - 1 - NumRanks /\ pos[k] = s - 1
  BY <1>1, <1>2 DEF Begins
<1>4. Through(k)' = s - NumRanks
  BY <1>1, <1>3 DEF Through
<1> QED  BY <1>1, <1>3, <1>4

\* The entries of the ring move up by one, and freed slots leave none that is owned.
LEMMA ExecuteEntries ==
  ASSUME NEW H, NEW B, NEW k \in Receivers, Typed, History(H, B), Kept(B),
         Slotted(H, k), Entries(H, B, k), ExecuteModel(k)
  PROVE  Entries(H, B, k)'
<1>1. /\ k \in Ranks /\ Through(k) \in Int /\ Through(k)' = Through(k) + 1
      /\ NumRanks \in Nat /\ NumRanks > 1
  BY ReceiverViews
<1>2. posted' = posted
  BY DEF ExecuteModel
<1>3. /\ ring'[k][NumRanks] = None
      /\ \A j \in 1..(NumRanks - 1) : ring'[k][j] = ring[k][j + 1]
  BY <1>1, ExecuteWrites
<1>4. ASSUME NEW j \in 1..NumRanks, NEW e, e = ring'[k][j], NEW u, u = Through(k)' + j
      PROVE  /\ DOMAIN e.rows # {} => e.nth \in 1..Len(posted[k]) /\ posted[k][e.nth] = u
             /\ \A r \in DOMAIN e.rows : Owned(H, B, k, e, r, u)'
  <2>1. CASE j = NumRanks
    BY <1>3, <1>4, <2>1 DEF None
  <2>2. CASE j # NumRanks
    <3> DEFINE m == j + 1
    <3>1. m \in 1..NumRanks /\ e = ring[k][m] /\ Through(k) + m = u
      BY <1>1, <1>3, <1>4, <2>2
    <3> HIDE DEF m
    <3>2. /\ DOMAIN e.rows # {} => e.nth \in 1..Len(posted[k]) /\ posted[k][e.nth] = u
          /\ \A r \in DOMAIN e.rows : Owned(H, B, k, e, r, u)
      BY <3>1 DEF Entries
    <3>3. e \in RingEntry
      BY <3>1 DEF Typed
    <3>4. ASSUME NEW r \in DOMAIN e.rows PROVE Owned(H, B, k, e, r, u)'
      <4>1. r \in Requests /\ e.rows[r] \in RowEntry
        BY <3>3 DEF RingEntry
      <4> DEFINE i == e.rows[r].idx  g == e.rows[r].gen
      <4>2. i \in Slots /\ g \in Nat
        BY <4>1 DEF RowEntry
      <4>3. /\ g <= gen[k][i]
            /\ StillOwned(k, e.rows[r]) =>
                 Life(H, k, r) # 0 /\ index[k][r] = i /\ Latest(H, B, k, r) = u
        BY <3>2, <3>4 DEF Owned
      <4>4. /\ gen[k][i] \in Nat /\ gen'[k][i] \in Nat
            /\ gen'[k][i] = gen[k][i] + (IF i \in Freed(k) THEN 1 ELSE 0)
        BY <1>1, <4>2, ExecuteWrites
      <4>5. g <= gen'[k][i] /\ (g = gen'[k][i] => g = gen[k][i] /\ i \notin Freed(k))
        <5>1. CASE i \in Freed(k)
          BY <4>2, <4>3, <4>4, <5>1
        <5>2. CASE i \notin Freed(k)
          BY <4>2, <4>3, <4>4, <5>2
        <5> QED  BY <5>1, <5>2
      <4>6. ASSUME e.rows[r].need, gen'[k][i] = g
            PROVE  Life(H, k, r)' # 0 /\ index'[k][r] = i /\ Latest(H, B, k, r)' = u
        <5>1. i \notin Freed(k) /\ StillOwned(k, e.rows[r])
          BY <4>5, <4>6 DEF StillOwned
        <5>2. Life(H, k, r) # 0 /\ index[k][r] = i /\ Latest(H, B, k, r) = u
          BY <4>3, <5>1
        <5>3. r \notin Batch(k).drop /\ r \notin Batch(k).add
          BY <4>2, <5>1, <5>2 DEF Freed, Slots, NoSlot
        <5>4. index'[k][r] = i
          BY <1>1, <4>1, <5>2, <5>3, ExecuteWrites
        <5>5. Life(H, k, r)' = Life(H, k, r) /\ Latest(H, B, k, r)' = Latest(H, B, k, r)
          BY <1>1, <4>1, <5>3, ExecuteViews
        <5> QED  BY <5>2, <5>4, <5>5
      <4> QED  BY <4>5, <4>6 DEF Owned, StillOwned
    <3> QED  BY <3>1, <3>2, <3>4 DEF Owned
  <2> QED  BY <2>1, <2>2
<1>5. ASSUME NEW j \in 1..NumRanks
      PROVE  /\ DOMAIN ring'[k][j].rows # {} =>
                  /\ ring'[k][j].nth \in 1..Len(posted'[k])
                  /\ posted'[k][ring'[k][j].nth] = Through(k)' + j
             /\ \A r \in DOMAIN ring'[k][j].rows : Owned(H, B, k, ring[k][j], r, Through(k) + j)'
  <2>1. PICK e, u : e = ring'[k][j] /\ u = Through(k)' + j
    OBVIOUS
  <2>2. /\ DOMAIN e.rows # {} => e.nth \in 1..Len(posted[k]) /\ posted[k][e.nth] = u
        /\ \A r \in DOMAIN e.rows : Owned(H, B, k, e, r, u)'
    BY <1>4, <2>1
  <2> QED  BY <1>2, <2>1, <2>2 DEF Owned
<1> QED  BY <1>5 DEF Entries

\* A sample not applied yet is still awaited after the ring has moved.
LEMMA ExecuteUnderWay ==
  ASSUME NEW H, NEW B, NEW k \in Receivers, Typed, History(H, B), Kept(B),
         Slotted(H, k), UnderWay(H, B, k), ExecuteModel(k)
  PROVE  UnderWay(H, B, k)'
<1>1. /\ k \in Ranks /\ Through(k) \in Int /\ Through(k)' = Through(k) + 1
      /\ Through(k) + NumRanks = pos[k] /\ NumRanks \in Nat /\ NumRanks > 1
  BY ReceiverViews
<1>2. \A j \in 1..(NumRanks - 1) : ring'[k][j] = ring[k][j + 1]
  BY <1>1, ExecuteWrites
<1> SUFFICES ASSUME NEW r \in Requests, Life(H, k, r)' # 0, Latest(H, B, k, r)' # 0,
                    Latest(H, B, k, r)' > Through(k)'
             PROVE  Awaits(k, ring[k][Latest(H, B, k, r) - Through(k)], r)'
  BY DEF UnderWay
<1>3. r \notin Batch(k).add /\ r \notin Batch(k).drop
  BY <1>1, ExecuteViews
<1>4. Life(H, k, r)' = Life(H, k, r) /\ Latest(H, B, k, r)' = Latest(H, B, k, r)
  BY <1>1, <1>3, ExecuteViews
<1>5. PICK n : n = Latest(H, B, k, r)
  OBVIOUS
<1>6. n \in Nat /\ n <= pos[k] /\ Life(H, k, r) # 0
  BY <1>1, <1>4, <1>5, ViewFacts
<1> DEFINE m == n - Through(k) - 1
<1>7. m \in 1..(NumRanks - 1) /\ m + 1 = n - Through(k) /\ m = n - Through(k)'
  BY <1>1, <1>4, <1>5, <1>6
<1> HIDE DEF m
<1>8. Awaits(k, ring[k][m + 1], r)
  BY <1>1, <1>4, <1>5, <1>6, <1>7 DEF UnderWay
<1> DEFINE i == index[k][r]
<1>9. PICK e : e = ring'[k][m] /\ e = ring[k][m + 1]
  BY <1>2, <1>7
<1>10. index'[k][r] = i
  BY <1>1, <1>3, ExecuteWrites
<1>11. i \in Slots /\ i # NoSlot
  <2>1. i \in 0..NumSlots /\ i # NoSlot
    BY <1>1, <1>6 DEF Slotted, Typed
  <2> QED  BY <2>1, RankNumbers DEF Slots, NoSlot
<1>12. i \notin Freed(k)
  <2>1. PICK s, b : Begins(H, B, k, s, b)
    BY <1>1, ExecuteFacts
  <2>2. Batch(k).drop \subseteq Requests /\ Batch(k).add \subseteq Requests
    BY <2>1, BatchFacts DEF Begins
  <2> QED  BY <1>3, <1>11, <2>2 DEF Freed, Slotted
<1>13. gen'[k][i] = gen[k][i]
  <2>1. gen'[k][i] = gen[k][i] + 0 /\ gen[k][i] \in Nat
    BY <1>1, <1>11, <1>12, ExecuteWrites
  <2> QED  BY <2>1
<1>14. Awaits(k, e, r)'
  <2>1. /\ r \in DOMAIN e.rows /\ e.rows[r].need
        /\ e.rows[r].idx = i /\ e.rows[r].gen = gen[k][i]
    BY <1>8, <1>9 DEF Awaits
  <2> QED  BY <1>10, <1>13, <2>1 DEF Awaits
<1>15. e = ring'[k][Latest(H, B, k, r)' - Through(k)']
  BY <1>4, <1>5, <1>7, <1>9
<1> QED  BY <1>14, <1>15 DEF Awaits

LEMMA NoneTyped == None \in RingEntry
<1>1. <<>> \in [{} -> RowEntry]
  OBVIOUS
<1>2. {} \in SUBSET Requests
  OBVIOUS
<1>3. <<>> \in UNION {[S -> RowEntry] : S \in SUBSET Requests}
  BY <1>1, <1>2
<1> QED  BY <1>3 DEF None, RingEntry

\* The requests of the rows that a rank is to apply.
LEMMA WrittenTyped ==
  ASSUME NEW k \in Ranks, Typed, NEW i \in Slots, NEW q, q \in WrittenFor(k, i)
  PROVE  q \in Requests
<1>1. q \in DOMAIN Pending(k).rows
  BY DEF WrittenFor, Applied
<1>2. k \in Receivers
  BY <1>1, RankNumbers DEF Pending, None
<1>3. ring[k] \in Seq(RingEntry) /\ Len(ring[k]) = NumRanks /\ ring[k] # <<>>
  <2>1. ring[k] \in Seq(RingEntry) /\ Len(ring[k]) = NumRanks
    BY <1>2 DEF Typed
  <2> QED  BY <2>1, RankNumbers
<1>4. Pending(k) \in RingEntry
  <2>1. Pending(k) = Head(ring[k])
    BY <1>2, RankNumbers DEF Pending
  <2> QED  BY <1>3, <2>1, TailFacts
<1>5. DOMAIN Pending(k).rows \subseteq Requests
  BY <1>4 DEF RingEntry
<1> QED  BY <1>1, <1>5

LEMMA ExecuteTyped ==
  ASSUME NEW H, NEW B, NEW k \in Ranks, Typed, History(H, B), Kept(B), RanksRight(H, B),
         Paired(B), ExecuteModel(k)
  PROVE  Typed'
<1>1. PICK s, b : Begins(H, B, k, s, b)
  BY ExecuteFacts
<1>2. /\ s \in 1..currentStep /\ Begun(k)' = s /\ currentStep' = currentStep /\ req' = req
      /\ \A l \in Ranks : l # k => Undisturbed(l)
      /\ pos' \in [Ranks -> Nat] /\ phase' \in [Ranks -> {"execute", "sample"}]
      /\ rejected' = rejected /\ sent' = sent /\ posted' = posted
  BY <1>1 DEF Begins
<1>3. currentStep \in 0..MaxSteps /\ currentStep \in Nat /\ req \in [Requests -> RequestState]
  BY RankNumbers DEF Typed
<1>4. \A l \in Ranks : Begun(l)' <= currentStep'
  <2> TAKE l \in Ranks
  <2>1. CASE l = k
    BY <1>2, <1>3, <2>1
  <2>2. CASE l # k
    <3>1. Begun(l)' = Begun(l)
      BY <1>2, <2>2 DEF Undisturbed, Begun
    <3> QED  BY <1>2, <3>1 DEF Typed
  <2> QED  BY <2>1, <2>2
<1>5. index' \in [Ranks -> [Requests -> 0..NumSlots]]
  BY ExecuteSlotted DEF RanksRight
<1>6. gen' \in [Ranks -> [Slots -> Nat]]
  <2>1. gen \in [Ranks -> [Slots -> Nat]] /\ gen' = [gen EXCEPT ![k] = Bumped(k)]
    BY DEF Typed, ExecuteModel
  <2>2. Bumped(k) \in [Slots -> Nat]
    <3>1. \A i \in Slots : gen[k][i] + (IF i \in Freed(k) THEN 1 ELSE 0) \in Nat
      <4> TAKE i \in Slots
      <4>1. gen[k][i] \in Nat
        BY <2>1
      <4>2. (IF i \in Freed(k) THEN 1 ELSE 0) \in Nat
        OBVIOUS
      <4> QED  BY <4>1, <4>2
    <3> QED  BY <3>1 DEF Bumped
  <2> QED  BY <2>1, <2>2
<1>7. ring' \in [Receivers -> Seq(RingEntry)] /\ \A l \in Receivers : Len(ring'[l]) = NumRanks
  <2>1. /\ ring \in [Receivers -> Seq(RingEntry)] /\ \A l \in Receivers : Len(ring[l]) = NumRanks
    BY DEF Typed
  <2>2. CASE k = NumRanks
    BY <2>1, <2>2 DEF ExecuteModel
  <2>3. CASE k # NumRanks
    <3>1. ring' = [ring EXCEPT ![k] = Append(Tail(ring[k]), None)] /\ k \in Receivers
      BY <2>1, <2>3, RankNumbers DEF ExecuteModel
    <3> DEFINE q == ring[k]
    <3>2. q \in Seq(RingEntry) /\ Len(q) = NumRanks
      BY <2>1, <3>1
    <3> HIDE DEF q
    <3>3. q # <<>>
      BY <3>2, RankNumbers
    <3>4. Tail(q) \in Seq(RingEntry) /\ Len(Tail(q)) = NumRanks - 1
      BY <3>2, <3>3, TailFacts
    <3>5. /\ Append(Tail(q), None) \in Seq(RingEntry)
          /\ Len(Append(Tail(q), None)) = Len(Tail(q)) + 1
      BY <3>4, NoneTyped, AppendFacts
    <3>6. Len(Append(Tail(q), None)) = NumRanks
      BY <3>4, <3>5, RankNumbers
    <3>7. ring' = [ring EXCEPT ![k] = Append(Tail(q), None)]
      BY <3>1 DEF q
    <3> QED  BY <2>1, <3>1, <3>5, <3>6, <3>7
  <2> QED  BY <2>2, <2>3
<1>8. computed' \in [Ranks -> [Slots -> Int]]
  <2>1. computed \in [Ranks -> [Slots -> Int]]
    BY DEF Typed
  <2>2. computed' = [computed EXCEPT ![k] = [i \in Slots |->
          IF i \in Fresh(k) THEN 0 ELSE AppliedComputed(k)[i]]]
    BY DEF ExecuteModel, Fresh
  <2>3. \A i \in Slots : AppliedComputed(k)[i] \in Int
    <3> TAKE i \in Slots
    <3>1. computed[k][i] \in Int
      BY <2>1
    <3>2. CASE WrittenFor(k, i) = {}
      BY <3>1, <3>2 DEF AppliedComputed
    <3>3. CASE WrittenFor(k, i) # {}
      <4>1. PICK q : q \in WrittenFor(k, i)
        BY <3>3
      <4>2. q \in Requests
        BY <4>1, WrittenTyped
      <4>3. Arrived(k)
        BY DEF ExecuteModel
      <4>4. /\ WrittenFor(k, i) = {q} /\ sent[Pending(k).nth] = Through(k) + 1
            /\ Through(k) + 1 \in 1..pos[NumRanks]
        BY <4>1, <4>2, <4>3, WrittenFacts
      <4> DEFINE t == sent[Pending(k).nth]
      <4>5. t \in 1..pos[NumRanks]
        BY <4>4
      <4>6. pos[NumRanks] \in Nat /\ pos[NumRanks] <= MaxSteps
        <5>1. pos[NumRanks] \in Nat /\ Begun(NumRanks) <= currentStep /\ currentStep <= MaxSteps
          BY <1>3, RankNumbers DEF Typed
        <5>2. pos[NumRanks] <= Begun(NumRanks) /\ Begun(NumRanks) \in Nat
          BY <5>1 DEF Begun
        <5> QED  BY <1>3, <5>1, <5>2, RankNumbers
      <4>7. (CHOOSE r \in WrittenFor(k, i) : TRUE) = q
        BY <4>4
      <4>8. AppliedComputed(k)[i] = computed[k][i] - rejected[t][q]
        BY <3>3, <4>7 DEF AppliedComputed
      <4> HIDE DEF t
      <4>9. t \in 1..MaxSteps
        BY <4>5, <4>6, RankNumbers
      <4>10. rejected[t][q] \in 0..NumSpec
        BY <4>2, <4>9 DEF Typed
      <4>11. rejected[t][q] \in Int
        BY <4>10, RankNumbers
      <4> QED  BY <3>1, <4>8, <4>11
    <3> QED  BY <3>2, <3>3
  <2>4. 0 \in Int
    OBVIOUS
  <2> QED  BY <2>1, <2>2, <2>3, <2>4
<1>9. last' = [l \in Ranks |-> last'[l]]
  <2>1. last = [l \in Ranks |-> last[l]]
    BY DEF Typed
  <2>2. last' = [last EXCEPT ![k] = [i \in Slots |->
          IF i \in Fresh(k) THEN NoToken ELSE AppliedLast(k)[i]]]
    BY DEF ExecuteModel, Fresh
  <2>3. PICK v : last' = [last EXCEPT ![k] = v]
    BY <2>2
  <2>4. DOMAIN last = Ranks
    BY <2>1
  <2> QED  BY <2>3, <2>4
<1>10. posted \in [Receivers -> Seq(Nat)] /\ sent \in Seq(Nat)
       /\ rejected \in [1..MaxSteps -> [Requests -> 0..NumSpec]]
  BY DEF Typed
<1> QED  BY <1>2, <1>3, <1>4, <1>5, <1>6, <1>7, <1>8, <1>9, <1>10 DEF Typed

\* ExecuteModel keeps the invariant.
LEMMA ExecuteKept ==
  ASSUME NEW H, NEW B, NEW k \in Ranks, RingInv(H, B), ExecuteModel(k)
  PROVE  RingInv(H, B)'
<1>1. /\ Typed /\ History(H, B) /\ Kept(B) /\ Rejections(B) /\ RanksRight(H, B) /\ Paired(B)
  BY DEF RingInv
<1>2. PICK s, b : Begins(H, B, k, s, b)
  BY <1>1, ExecuteFacts
<1>3. /\ currentStep' = currentStep /\ req' = req /\ rejected' = rejected
      /\ \A l \in Ranks : l # k => Undisturbed(l)
      /\ Kept(B)' /\ pos[NumRanks] <= pos'[NumRanks] /\ pos' \in [Ranks -> Nat]
  BY <1>2 DEF Begins
<1>4. Typed'
  BY <1>1, ExecuteTyped
<1>5. History(H, B)'
  BY <1>1, <1>3 DEF History
<1>6. Rejections(B)'
  <2>1. pos[NumRanks] \in Nat /\ pos'[NumRanks] \in Nat
    BY <1>1, <1>3, RankNumbers DEF Typed
  <2> QED  BY <1>1, <1>3, <2>1 DEF Rejections
<1>7. Paired(B)'
  BY <1>1, PairedExecute
<1>8. \A l \in Ranks : Slotted(H, l) /\ Data(H, B, l)
  BY <1>1 DEF RanksRight
<1>9. \A l \in Receivers : Entries(H, B, l) /\ UnderWay(H, B, l)
  BY <1>1 DEF RanksRight
<1>10. ASSUME NEW l \in Ranks, l # k
       PROVE  /\ Slotted(H, l)' /\ Data(H, B, l)'
              /\ l \in Receivers => Entries(H, B, l)' /\ UnderWay(H, B, l)'
  <2>1. Prolongs(H, B, H, B)
    BY DEF Prolongs
  <2>2. Final(H, l)
    BY <1>3 DEF Final
  <2> QED  BY <1>1, <1>3, <1>4, <1>8, <1>9, <1>10, <2>1, <2>2, RankKept
<1>11. Slotted(H, k)' /\ Data(H, B, k)'
  BY <1>1, <1>8, ExecuteSlotted, ExecuteData
<1>12. k \in Receivers => Entries(H, B, k)' /\ UnderWay(H, B, k)'
  BY <1>1, <1>8, <1>9, ExecuteEntries, ExecuteUnderWay
<1>13. RanksRight(H, B)'
  BY <1>10, <1>11, <1>12, RankNumbers DEF RanksRight
<1> QED  BY <1>3, <1>4, <1>5, <1>6, <1>7, <1>13 DEF RingInv

---------------------------------------------------------------------------
(* A rank ends a step *)

\* What it is for rank k to end step s with the batch b.
Ends(H, B, k, s, b) ==
  /\ s = Step(k) /\ b = Batch(k)
  /\ s \in 1..currentStep /\ s \in Nat /\ s > 0 /\ s <= MaxSteps /\ pos[k] = s - 1
  /\ b = B[s] /\ b \in BatchState /\ Begun(k) = s /\ phase[k] = "sample"
  /\ \A r \in Requests : /\ Follows(H[s - 1][r], b, H[s][r], r, s) /\ Sound(H[s - 1][r], s - 1)
                         /\ H[s - 1][r] \in RequestState /\ H[s][r] \in RequestState
  /\ Begun(k)' = s /\ phase'[k] = "execute" /\ pos'[k] = s
  /\ Through(k) = IF k = NumRanks THEN s - 1 ELSE s - NumRanks
  /\ Through(k)' = IF k = NumRanks THEN s ELSE s - NumRanks
  /\ Kept(B)' /\ \A l \in Ranks : l # k => phase'[l] = phase[l] /\ pos'[l] = pos[l]
  /\ currentStep' = currentStep /\ req' = req
  /\ pos[NumRanks] \in Nat /\ pos[NumRanks] <= pos'[NumRanks]
  /\ pos' \in [Ranks -> Nat] /\ phase' \in [Ranks -> {"execute", "sample"}]
  /\ \A l \in Ranks : Begun(l)' = Begun(l)

\* A rank that samples or receives ends its step.
LEMMA EndFacts ==
  ASSUME NEW H, NEW B, NEW k \in Ranks, Typed, History(H, B), Kept(B), phase[k] = "sample",
         StepDone(k), currentStep' = currentStep, req' = req
  PROVE  \E s, b : Ends(H, B, k, s, b)
<1> PICK s, b : s = Step(k) /\ b = Batch(k)
  OBVIOUS
<1>1. /\ currentStep \in Nat /\ pos[k] \in Nat /\ pos \in [Ranks -> Nat] /\ pos[NumRanks] \in Nat
      /\ phase \in [Ranks -> {"execute", "sample"}] /\ Begun(k) <= currentStep
      /\ currentStep <= MaxSteps
  BY RankNumbers DEF Typed
<1>2. Begun(k) = pos[k] + 1 /\ pos[k] < currentStep
  BY <1>1 DEF Begun
<1>3. s \in 1..currentStep /\ s = pos[k] + 1 /\ b = B[s]
  BY <1>2, StepsKept
<1>4. s \in Nat /\ s > 0 /\ pos[k] = s - 1 /\ s - 1 \in 0..currentStep /\ s \in 0..currentStep
      /\ s <= MaxSteps
  BY <1>1, <1>3, RankNumbers
<1>5. b \in BatchState
  BY <1>3 DEF History
<1>6. \A r \in Requests : /\ Follows(H[s - 1][r], b, H[s][r], r, s) /\ Sound(H[s - 1][r], s - 1)
                          /\ H[s - 1][r] \in RequestState /\ H[s][r] \in RequestState
  BY <1>3, <1>4 DEF History
<1>7. /\ Kept(B)' /\ pos' = [pos EXCEPT ![k] = pos[k] + 1] /\ pos'[k] = s
      /\ \A l \in Ranks : l # k => pos'[l] = pos[l] /\ phase'[l] = phase[l]
      /\ phase' = [phase EXCEPT ![k] = "execute"] /\ phase'[k] = "execute"
  BY <1>2, <1>3, KeptOn
<1>8. Begun(k)' = s /\ Begun(k) = s
  BY <1>2, <1>3, <1>7 DEF Begun
<1>9. \A l \in Ranks : Begun(l)' = Begun(l)
  <2> TAKE l \in Ranks
  <2>1. l # k => Begun(l)' = Begun(l)
    BY <1>7 DEF Begun
  <2> QED  BY <1>8, <2>1
<1>10. /\ Through(k) = IF k = NumRanks THEN s - 1 ELSE s - NumRanks
       /\ Through(k)' = IF k = NumRanks THEN s ELSE s - NumRanks
  <2>1. Through(k) = IF k = NumRanks THEN s - 1 ELSE s - NumRanks
    BY <1>4, <1>8 DEF Through
  <2>2. Through(k)' = IF k = NumRanks THEN s ELSE s - NumRanks
    BY <1>7, <1>8 DEF Through
  <2> QED  BY <2>1, <2>2
<1>11. pos[NumRanks] <= pos'[NumRanks]
  BY <1>1, <1>4, <1>7, RankNumbers
<1>12. pos' \in [Ranks -> Nat] /\ phase' \in [Ranks -> {"execute", "sample"}]
  BY <1>1, <1>7
<1> QED  BY <1>1, <1>3, <1>4, <1>5, <1>6, <1>7, <1>8, <1>9, <1>10, <1>11, <1>12 DEF Ends

\* A request that ran is as the scheduler advanced it; its last sample is NumRanks steps old.
Advances(H, B, k, s, b, r) ==
  /\ Life(H, k, r)' = Life(H, k, r)
  /\ r \in DOMAIN b.rows =>
       /\ Life(H, k, r) # 0
       /\ b.rows[r].num \in Nat /\ b.rows[r].old \in Nat
       /\ Done(H, B, k, r) = b.rows[r].old
       /\ Done(H, B, k, r)' = b.rows[r].old + b.rows[r].num
       /\ Latest(H, B, k, r)' = IF Needs(b, r) THEN s ELSE Latest(H, B, k, r)
       /\ Latest(H, B, k, r) # 0 => Latest(H, B, k, r) + NumRanks <= s
  /\ r \notin DOMAIN b.rows =>
       /\ ~Needs(b, r) /\ Done(H, B, k, r)' = Done(H, B, k, r)
       /\ Latest(H, B, k, r)' = Latest(H, B, k, r)

\* What the rank is to hold of each request afterwards.
LEMMA EndViews ==
  ASSUME NEW H, NEW B, NEW k \in Ranks, NEW s, NEW b, Ends(H, B, k, s, b), NEW r \in Requests
  PROVE  Advances(H, B, k, s, b, r)
<1> DEFINE h == H[s - 1][r]  z == H[s][r]
<1>1. /\ Follows(h, b, z, r, s) /\ Sound(h, s - 1) /\ h \in RequestState /\ b \in BatchState
      /\ b = B[s] /\ Begun(k) = s /\ Begun(k)' = s /\ s \in Nat /\ s > 0
      /\ phase[k] = "sample" /\ phase'[k] = "execute"
  BY DEF Ends
<1>2. (InForward(B, k, r) <=> r \in DOMAIN b.rows) /\ ~InForward(B, k, r)'
  BY <1>1 DEF InForward
<1>3. /\ Life(H, k, r) = z.life /\ Life(H, k, r)' = z.life
      /\ Latest(H, B, k, r)' = z.sampled /\ Done(H, B, k, r)' = z.computed
  <2>1. Life(H, k, r) = z.life /\ Life(H, k, r)' = z.life
    BY <1>1 DEF Life
  <2>2. Latest(H, B, k, r)' = z.sampled
    BY <1>1, <1>2 DEF Latest
  <2>3. Done(H, B, k, r)' = z.computed
    BY <1>1, <1>2 DEF Done
  <2> QED  BY <2>1, <2>2, <2>3
<1>4. /\ Latest(H, B, k, r) = IF r \in DOMAIN b.rows THEN b.rows[r].sampled ELSE z.sampled
      /\ Done(H, B, k, r) = IF r \in DOMAIN b.rows THEN b.rows[r].old ELSE z.computed
  BY <1>1, <1>2 DEF Latest, Done
<1>5. ASSUME r \notin DOMAIN b.rows
      PROVE  /\ ~Needs(b, r) /\ Done(H, B, k, r)' = Done(H, B, k, r)
             /\ Latest(H, B, k, r)' = Latest(H, B, k, r)
  <2>1. ~Needs(b, r)
    BY <1>5, NeedsFacts
  <2> QED  BY <1>3, <1>4, <1>5, <2>1
<1>6. ASSUME r \in DOMAIN b.rows
      PROVE  /\ Life(H, k, r) # 0
             /\ b.rows[r].num \in Nat /\ b.rows[r].old \in Nat
             /\ Done(H, B, k, r) = b.rows[r].old
             /\ Done(H, B, k, r)' = b.rows[r].old + b.rows[r].num
             /\ Latest(H, B, k, r)' = IF Needs(b, r) THEN s ELSE Latest(H, B, k, r)
             /\ Latest(H, B, k, r) # 0 => Latest(H, B, k, r) + NumRanks <= s
  <2>1. b.rows[r].num \in Nat /\ b.rows[r].old \in Nat
    BY <1>1, <1>6, BatchFacts
  <2>2. /\ z.life = b.rows[r].life /\ z.computed = b.rows[r].old + b.rows[r].num
        /\ z.sampled = IF Needs(b, r) THEN s ELSE b.rows[r].sampled
    BY <1>1, <1>6, FollowsCases
  <2>3. r \notin b.add => h.life # 0 /\ b.rows[r].life = h.life /\ b.rows[r].sampled = h.sampled
                          /\ s >= h.eligible
    BY <1>1, <1>6 DEF Follows, GivenRow
  <2>4. r \in b.add => b.rows[r].life = s /\ b.rows[r].sampled = 0
    BY <1>1, FollowsCases
  <2>5. z.life # 0
    BY <1>1, <2>2, <2>3, <2>4
  <2>6. b.rows[r].sampled # 0 => b.rows[r].sampled + NumRanks <= s
    <3> SUFFICES ASSUME b.rows[r].sampled # 0 PROVE b.rows[r].sampled + NumRanks <= s
      OBVIOUS
    <3>1. h.life # 0 /\ h.sampled # 0 /\ b.rows[r].sampled = h.sampled /\ s >= h.eligible
      BY <2>3, <2>4
    <3>2. h.eligible = h.sampled + NumRanks
      BY <1>1, <3>1 DEF Sound
    <3>3. h.eligible \in Nat
      BY <1>1, StateFacts
    <3> QED  BY <1>1, <3>1, <3>2, <3>3
  <2> HIDE DEF h, z
  <2> QED  BY <1>3, <1>4, <1>6, <2>1, <2>2, <2>5, <2>6
<1>7. (r \notin DOMAIN b.rows =>
        /\ ~Needs(b, r) /\ Done(H, B, k, r)' = Done(H, B, k, r)
        /\ Latest(H, B, k, r)' = Latest(H, B, k, r)) /\ Life(H, k, r)' = Life(H, k, r)
  BY <1>3, <1>5
<1> QED  BY <1>6, <1>7 DEF Advances

\* The device count of a slot advances by the tokens of the request that has it.
LEMMA AdvanceFacts ==
  ASSUME NEW H, NEW k \in Ranks, Typed, Slotted(H, k), Batch(k) \in BatchState,
         NEW lost \in [Requests -> Int]
  PROVE  /\ Advance(k, lost) \in [Slots -> Int]
         /\ \A r \in Requests : index[k][r] \in Slots =>
              Advance(k, lost)[index[k][r]] =
                computed[k][index[k][r]] +
                  (IF r \in DOMAIN Batch(k).rows THEN Batch(k).rows[r].num - lost[r] ELSE 0)
<1> DEFINE b == Batch(k)  gain == [r \in DOMAIN b.rows |-> b.rows[r].num - lost[r]]
           At(i) == {r \in DOMAIN b.rows : index[k][r] = i}
<1>1. /\ DOMAIN b.rows \subseteq Requests
      /\ \A r \in DOMAIN b.rows : b.rows[r].num \in Nat
  BY BatchFacts
<1>2. \A r \in DOMAIN b.rows : gain[r] \in Int
  BY <1>1
<1>3. Advance(k, lost) = [i \in Slots |-> computed[k][i] + Total(gain, At(i))]
  BY DEF Advance, Total
<1>4. \A i \in Slots : IsFiniteSet(At(i)) /\ IntOn(gain, At(i)) /\ computed[k][i] \in Int
  <2> TAKE i \in Slots
  <2>1. At(i) \subseteq Requests
    BY <1>1
  <2>2. IsFiniteSet(At(i))
    BY <2>1, FS_Subset, RankNumbers
  <2>3. IntOn(gain, At(i))
    BY <1>2 DEF IntOn
  <2>4. computed[k][i] \in Int
    BY DEF Typed
  <2> QED  BY <2>2, <2>3, <2>4
<1>5. \A i \in Slots : Total(gain, At(i)) \in Int
  <2> TAKE i \in Slots
  <2> DEFINE g == gain  S == At(i)
  <2>1. IsFiniteSet(S) /\ IntOn(g, S)
    BY <1>4
  <2> HIDE DEF g, S
  <2>2. Total(g, S) \in Int
    BY <2>1, TotalInt
  <2> QED  BY <2>2 DEF g, S
<1>6. ASSUME NEW r \in Requests, NEW i \in Slots, i = index[k][r]
      PROVE  Total(gain, At(i)) = IF r \in DOMAIN b.rows THEN gain[r] ELSE 0
  <2>1. \A q \in DOMAIN b.rows : index[k][q] = i => q = r
    BY <1>1, <1>6 DEF Slotted, Slots, NoSlot
  <2> DEFINE g == gain
  <2>2. CASE r \in DOMAIN b.rows
    <3>1. At(i) = {r}
      BY <1>6, <2>1, <2>2
    <3>2. IntOn(g, {r}) /\ IsFiniteSet({}) /\ g[r] \in Int
      BY <1>2, <2>2, FS_EmptySet DEF IntOn
    <3> HIDE DEF g
    <3>3. Adds({r}, {}, r)
      BY DEF Adds
    <3>4. Total(g, {r}) = Total(g, {}) + g[r] /\ Total(g, {}) = 0
      BY <3>2, <3>3, TotalAdd, TotalEmpty
    <3>5. Total(g, {r}) = g[r]
      BY <3>2, <3>4
    <3> QED  BY <2>2, <3>1, <3>5 DEF g
  <2>3. CASE r \notin DOMAIN b.rows
    <3>1. At(i) = {}
      BY <2>1, <2>3
    <3> HIDE DEF g
    <3>2. Total(g, {}) = 0
      BY TotalEmpty
    <3> QED  BY <2>3, <3>1, <3>2 DEF g
  <2> QED  BY <2>2, <2>3
<1>7. Advance(k, lost) \in [Slots -> Int]
  <2> HIDE DEF gain, At
  <2> QED  BY <1>3, <1>4, <1>5
<1>8. ASSUME NEW r \in Requests, index[k][r] \in Slots
      PROVE  Advance(k, lost)[index[k][r]] = computed[k][index[k][r]] +
               (IF r \in DOMAIN b.rows THEN b.rows[r].num - lost[r] ELSE 0)
  <2>1. Total(gain, At(index[k][r])) = IF r \in DOMAIN b.rows THEN gain[r] ELSE 0
    BY <1>6, <1>8
  <2>2. Total(gain, At(index[k][r])) =
          IF r \in DOMAIN b.rows THEN b.rows[r].num - lost[r] ELSE 0
    BY <2>1
  <2> HIDE DEF gain, At
  <2> QED  BY <1>3, <1>8, <2>2
<1> QED  BY <1>7, <1>8

\* The entry that rank k leaves in the ring for the batch b.
Awaited(k, b) ==
  [nth |-> Len(posted[k]) + 1,
   rows |-> [r \in DOMAIN b.rows |->
     [idx |-> index[k][r], gen |-> gen[k][index[k][r]], need |-> r \in NeedSampled(b)]]]

Joining(k, s, b) ==
  /\ posted' = [posted EXCEPT ![k] = Append(posted[k], s)]
  /\ ring' = [ring EXCEPT ![k] = [ring[k] EXCEPT ![NumRanks] = Awaited(k, b)]]

\* What Receive writes to the ring and to the counts.
LEMMA ReceiveWrites ==
  ASSUME NEW H, NEW B, NEW k \in Ranks, Typed, Receive(k), NEW s, NEW b, Ends(H, B, k, s, b)
  PROVE  /\ k \in Receivers /\ k # NumRanks
         /\ index' = index /\ gen' = gen /\ sent' = sent /\ last' = last /\ rejected' = rejected
         /\ computed'[k] = Advance(k, [r \in Requests |-> 0])
         /\ computed' = [computed EXCEPT ![k] = Advance(k, [r \in Requests |-> 0])]
         /\ \A l \in Ranks : l # k => Undisturbed(l)
         /\ pos'[NumRanks] = pos[NumRanks]
         /\ Joined(b) => Joining(k, s, b)
         /\ ~Joined(b) => posted' = posted /\ ring' = ring
<1>1. /\ k \in Receivers /\ k # NumRanks
      /\ index' = index /\ gen' = gen /\ sent' = sent /\ last' = last /\ rejected' = rejected
  BY RankNumbers DEF Receive
<1>2. /\ b = Batch(k) /\ s = Step(k)
      /\ \A l \in Ranks : l # k => phase'[l] = phase[l] /\ pos'[l] = pos[l]
  BY DEF Ends
<1>3. /\ computed \in [Ranks -> [Slots -> Int]] /\ ring \in [Receivers -> Seq(RingEntry)]
      /\ posted \in [Receivers -> Seq(Nat)] /\ Len(ring[k]) = NumRanks /\ pos[NumRanks] \in Nat
  BY <1>1, RankNumbers DEF Typed
<1>4. computed' = [computed EXCEPT ![k] = Advance(k, [r \in Requests |-> 0])]
  BY DEF Receive
<1>5. /\ Joined(b) => Joining(k, s, b)
      /\ ~Joined(b) => posted' = posted /\ ring' = ring
  <2>1. Joined(b) <=> Joins(b)
    BY JoinedFacts
  <2>2. CASE Joins(b)
    <3>1. /\ posted' = [posted EXCEPT ![k] = Append(@, s)]
          /\ ring' = [ring EXCEPT ![k] = [@ EXCEPT ![Len(@)] =
                     [nth |-> Len(posted[k]) + 1,
                      rows |-> [r \in DOMAIN b.rows |->
                        [idx |-> index[k][r], gen |-> gen[k][index[k][r]],
                         need |-> r \in NeedSampled(b)]]]]]
      BY <1>2, <2>2 DEF Receive
    <3>2. ring' = [ring EXCEPT ![k] = [@ EXCEPT ![Len(@)] = Awaited(k, b)]]
      BY <3>1 DEF Awaited
    <3> QED  BY <1>3, <2>1, <2>2, <3>1, <3>2 DEF Joining
  <2>3. CASE ~Joins(b)
    BY <1>2, <2>1, <2>3 DEF Receive
  <2> QED  BY <2>2, <2>3
<1>6. \A l \in Receivers : l # k => ring'[l] = ring[l] /\ posted'[l] = posted[l]
  BY <1>3, <1>5 DEF Joining
<1>7. \A l \in Ranks : l # k => computed'[l] = computed[l]
  BY <1>3, <1>4
<1>8. pos'[NumRanks] = pos[NumRanks]
  BY <1>1, <1>2, RankNumbers
<1>9. \A l \in Ranks : l # k => Undisturbed(l)
  BY <1>1, <1>2, <1>3, <1>6, <1>7, <1>8 DEF Undisturbed
<1>10. computed'[k] = Advance(k, [r \in Requests |-> 0])
  BY <1>3, <1>4
<1> QED  BY <1>1, <1>4, <1>5, <1>8, <1>9, <1>10

\* Advancing the counts of a receiver keeps its data right.
LEMMA ReceiveData ==
  ASSUME NEW H, NEW B, NEW k \in Ranks, Typed, Slotted(H, k), Data(H, B, k), Receive(k),
         NEW s, NEW b, Ends(H, B, k, s, b)
  PROVE  Data(H, B, k)'
<1>1. /\ index' = index /\ last' = last /\ rejected' = rejected /\ k # NumRanks
      /\ computed'[k] = Advance(k, [r \in Requests |-> 0]) /\ pos'[NumRanks] = pos[NumRanks]
  BY ReceiveWrites
<1>2. /\ b = Batch(k) /\ b \in BatchState /\ s \in Nat /\ s <= MaxSteps
      /\ Through(k) = s - NumRanks /\ Through(k)' = s - NumRanks
  BY <1>1 DEF Ends
<1> SUFFICES ASSUME NEW r \in Requests, Life(H, k, r)' # 0
             PROVE  DataOf(H, B, k, r, index[k][r])'
  BY DEF Data
<1>3. PICK i : i = index[k][r]
  OBVIOUS
<1>4. PICK l, n, d : l = Life(H, k, r) /\ n = Latest(H, B, k, r)' /\ d = Done(H, B, k, r)'
  OBVIOUS
<1>5. /\ Life(H, k, r)' = Life(H, k, r)
      /\ r \in DOMAIN b.rows =>
           /\ b.rows[r].num \in Nat /\ b.rows[r].old \in Nat
           /\ Done(H, B, k, r) = b.rows[r].old /\ d = b.rows[r].old + b.rows[r].num
           /\ n = IF Needs(b, r) THEN s ELSE Latest(H, B, k, r)
      /\ r \notin DOMAIN b.rows => d = Done(H, B, k, r) /\ n = Latest(H, B, k, r)
  BY <1>4, EndViews DEF Advances
<1>6. DataOf(H, B, k, r, i) /\ l # 0
  BY <1>3, <1>4, <1>5 DEF Data
<1>7. i \in Slots
  <2>1. i # NoSlot /\ i \in 0..NumSlots
    BY <1>3, <1>4, <1>6 DEF Slotted, Typed
  <2> QED  BY <2>1, RankNumbers DEF Slots, NoSlot
<1> DEFINE x == Through(k)  L == Lost(rejected, r, l, x)
<1>8. /\ Latest(H, B, k, r) \in 1..x => last[k][i] = <<r, Latest(H, B, k, r)>>
      /\ computed[k][i] = Done(H, B, k, r) - L
      /\ \A t \in l..x : Needs(B[t], r) => t <= pos[NumRanks]
  BY <1>4, <1>6 DEF DataOf
<1>9. x = s - NumRanks /\ x \in Int /\ x < s /\ Through(k)' = x /\ x <= MaxSteps
  BY <1>2, RankNumbers
<1>10. L \in Int
  <2>1. RejectionsTyped(rejected) /\ l \in Nat /\ l > 0
    <3>1. r \in DOMAIN b.rows \/ r \notin DOMAIN b.rows
      OBVIOUS
    <3>2. H[Begun(k)][r] \in RequestState
      BY DEF Ends
    <3>3. l \in Nat
      BY <1>4, <3>2, StateFacts DEF Life
    <3> QED  BY <1>6, <3>3 DEF Typed, RejectionsTyped
  <2> HIDE DEF x
  <2> QED  BY <1>9, <2>1, LostFacts
<1>11. computed'[k][i] = d - L
  <2> DEFINE zero == [q \in Requests |-> 0]
             g == IF r \in DOMAIN b.rows THEN b.rows[r].num - zero[r] ELSE 0
  <2>1. zero \in [Requests -> Int]
    OBVIOUS
  <2>2. Advance(k, zero)[i] = computed[k][i] + g
    <3> HIDE DEF zero
    <3> QED  BY <1>2, <1>3, <1>7, <2>1, AdvanceFacts
  <2>3. computed'[k][i] = computed[k][i] + g
    BY <1>1, <2>2
  <2>4. zero[r] = 0
    OBVIOUS
  <2> HIDE DEF L, zero
  <2>5. CASE r \in DOMAIN b.rows
    BY <1>5, <1>8, <1>10, <2>3, <2>4, <2>5
  <2>6. CASE r \notin DOMAIN b.rows
    <3>1. computed[k][i] \in Int
      BY <1>7 DEF Typed
    <3> QED  BY <1>5, <1>8, <2>3, <2>6, <3>1
  <2> QED  BY <2>5, <2>6
<1>12. n \in 1..x => last'[k][i] = <<r, n>>
  <2> HIDE DEF x
  <2>1. n = s => n \notin 1..x
    BY <1>2, <1>9
  <2>2. n # s => n = Latest(H, B, k, r)
    BY <1>5
  <2> QED  BY <1>1, <1>8, <2>1, <2>2
<1> HIDE DEF x
<1>13. DataOf(H, B, k, r, i)'
  BY <1>1, <1>4, <1>5, <1>8, <1>9, <1>11, <1>12 DEF DataOf, L
<1> QED  BY <1>1, <1>3, <1>13 DEF DataOf

\* The entry of the step is about the requests that have the slots.
LEMMA ReceiveEntries ==
  ASSUME NEW H, NEW B, NEW k \in Ranks, Typed, Slotted(H, k), Entries(H, B, k), Paired(B),
         Receive(k), NEW s, NEW b, Ends(H, B, k, s, b)
  PROVE  Entries(H, B, k)'
<1>1. /\ k \in Receivers /\ k # NumRanks /\ index' = index /\ gen' = gen
      /\ Joined(b) => Joining(k, s, b)
      /\ ~Joined(b) => posted' = posted /\ ring' = ring
  BY ReceiveWrites
<1>2. /\ b = Batch(k) /\ b \in BatchState /\ s \in Nat /\ pos[k] = s - 1
      /\ Through(k) = s - NumRanks /\ Through(k)' = s - NumRanks
  BY <1>1 DEF Ends
<1>3. /\ ring \in [Receivers -> Seq(RingEntry)] /\ ring[k] \in Seq(RingEntry)
      /\ Len(ring[k]) = NumRanks /\ posted \in [Receivers -> Seq(Nat)] /\ posted[k] \in Seq(Nat)
      /\ NumRanks \in Nat /\ NumRanks \in 1..NumRanks /\ gen[k] \in [Slots -> Nat]
  BY <1>1, RankNumbers DEF Typed
<1> DEFINE q == posted[k]
<1>4. /\ \A n \in 1..Len(q) : q[n] \in 1..(s - 1)
      /\ \A n \in 1..Len(q) : n \in 1..Len(posted'[k]) /\ posted'[k][n] = q[n]
      /\ Joined(b) => Len(q) + 1 \in 1..Len(posted'[k]) /\ posted'[k][Len(q) + 1] = s
  <2>1. \A n \in 1..Len(q) : q[n] \in 1..(s - 1)
    BY <1>1, <1>2 DEF Paired, Lists
  <2>2. CASE ~Joined(b)
    BY <1>1, <2>1, <2>2
  <2>3. CASE Joined(b)
    <3>1. posted'[k] = Append(q, s)
      BY <1>1, <1>3, <2>3 DEF Joining
    <3> HIDE DEF q
    <3>2. /\ Len(Append(q, s)) = Len(q) + 1 /\ Append(q, s)[Len(q) + 1] = s
          /\ \A n \in 1..Len(q) : Append(q, s)[n] = q[n]
      BY <1>2, <1>3, AppendFacts DEF q
    <3>3. Len(q) \in Nat
      BY <1>3 DEF q
    <3>4. Len(q) + 1 \in 1..(Len(q) + 1) /\ \A n \in 1..Len(q) : n \in 1..(Len(q) + 1)
      BY <3>3
    <3> QED  BY <2>1, <3>1, <3>2, <3>4
  <2> QED  BY <2>2, <2>3
<1> DEFINE x == Through(k)
<1>5. x \in Int /\ x = s - NumRanks /\ Through(k)' = x
  BY <1>2, <1>3

\* An entry that was there already.
<1>6. ASSUME NEW j \in 1..NumRanks, NEW e, e = ring[k][j], NEW u, u = x + j
      PROVE  /\ DOMAIN e.rows # {} =>
                  e.nth \in 1..Len(posted'[k]) /\ posted'[k][e.nth] = u
             /\ \A r \in DOMAIN e.rows : Owned(H, B, k, e, r, u)'
  <2>1. /\ DOMAIN e.rows # {} => e.nth \in 1..Len(q) /\ q[e.nth] = u
        /\ \A r \in DOMAIN e.rows : Owned(H, B, k, e, r, u)
    BY <1>6 DEF Entries
  <2>2. e \in RingEntry
    BY <1>3, <1>6
  <2>3. ASSUME NEW r \in DOMAIN e.rows PROVE Owned(H, B, k, e, r, u)'
    <3>1. r \in Requests
      BY <2>2 DEF RingEntry
    <3>2. u \in 1..(s - 1)
      BY <1>4, <2>1
    <3>3. u > x
      <4> HIDE DEF x
      <4> QED  BY <1>5, <1>6
    <3>4. Life(H, k, r)' = Life(H, k, r)
      BY <3>1, EndViews DEF Advances
    <3>5. ASSUME Latest(H, B, k, r) = u PROVE Latest(H, B, k, r)' = u
      <4>1. CASE r \in DOMAIN b.rows /\ Needs(b, r)
        <5>1. u # 0 => u + NumRanks <= s
          BY <3>1, <3>5, <4>1, EndViews DEF Advances
        <5> HIDE DEF x
        <5> QED  BY <1>2, <1>3, <1>5, <3>2, <3>3, <5>1
      <4>2. CASE ~(r \in DOMAIN b.rows /\ Needs(b, r))
        BY <3>1, <3>5, <4>2, EndViews DEF Advances
      <4> QED  BY <4>1, <4>2
    <3>6. Owned(H, B, k, e, r, u)
      BY <2>1, <2>3
    <3> QED  BY <1>1, <3>4, <3>5, <3>6 DEF Owned, StillOwned
  <2> QED  BY <1>4, <2>1, <2>3

\* The entry that is left in this step.
<1>7. ASSUME NEW e, e = Awaited(k, b), Joined(b)
      PROVE  /\ e.nth \in 1..Len(posted'[k]) /\ posted'[k][e.nth] = s
             /\ \A r \in DOMAIN e.rows : Owned(H, B, k, e, r, s)'
  <2>1. /\ e.nth = Len(q) + 1 /\ DOMAIN e.rows = DOMAIN b.rows
        /\ \A r \in DOMAIN b.rows : /\ e.rows[r].idx = index[k][r]
                                    /\ e.rows[r].gen = gen[k][index[k][r]]
                                    /\ e.rows[r].need <=> Needs(b, r)
    BY <1>7 DEF Awaited, Needs
  <2>2. ASSUME NEW r \in DOMAIN b.rows PROVE Owned(H, B, k, e, r, s)'
    <3>1. r \in Requests
      BY <1>2, BatchFacts
    <3>2. /\ Life(H, k, r)' = Life(H, k, r) /\ Life(H, k, r) # 0
          /\ Latest(H, B, k, r)' = IF Needs(b, r) THEN s ELSE Latest(H, B, k, r)
      BY <3>1, EndViews DEF Advances
    <3>3. index[k][r] \in Slots
      <4>1. index[k][r] # NoSlot /\ index[k][r] \in 0..NumSlots
        BY <3>1, <3>2 DEF Slotted, Typed
      <4> QED  BY <4>1, RankNumbers DEF Slots, NoSlot
    <3>4. gen[k][index[k][r]] \in Nat
      BY <1>3, <3>3
    <3>5. gen[k][index[k][r]] <= gen[k][index[k][r]]
      BY <3>4
    <3> QED  BY <1>1, <2>1, <3>2, <3>5 DEF Owned, StillOwned
  <2> QED  BY <1>4, <1>7, <2>1, <2>2
<1>8. ASSUME NEW j \in 1..NumRanks
      PROVE  /\ DOMAIN ring'[k][j].rows # {} =>
                  /\ ring'[k][j].nth \in 1..Len(posted'[k])
                  /\ posted'[k][ring'[k][j].nth] = Through(k)' + j
             /\ \A r \in DOMAIN ring'[k][j].rows : Owned(H, B, k, ring[k][j], r, Through(k) + j)'
  <2>1. PICK e, u : e = ring'[k][j] /\ u = x + j
    OBVIOUS
  <2>2. CASE Joined(b) /\ j = NumRanks
    <3>1. e = Awaited(k, b)
      BY <1>1, <1>3, <2>1, <2>2 DEF Joining
    <3>2. u = s
      <4> HIDE DEF x
      <4> QED  BY <1>2, <1>3, <1>5, <2>1, <2>2
    <3> QED  BY <1>5, <1>7, <2>1, <2>2, <3>1, <3>2 DEF Owned
  <2>3. CASE ~(Joined(b) /\ j = NumRanks)
    <3>1. e = ring[k][j]
      <4>1. CASE Joined(b)
        <5>1. ring'[k] = [ring[k] EXCEPT ![NumRanks] = Awaited(k, b)] /\ j # NumRanks
          BY <1>1, <1>3, <2>3, <4>1 DEF Joining
        <5>2. j \in 1..Len(ring[k])
          BY <1>3
        <5> HIDE DEF x
        <5> QED  BY <1>3, <2>1, <5>1, <5>2
      <4>2. CASE ~Joined(b)
        BY <1>1, <2>1, <4>2
      <4> QED  BY <4>1, <4>2
    <3>2. /\ DOMAIN e.rows # {} => e.nth \in 1..Len(posted'[k]) /\ posted'[k][e.nth] = u
          /\ \A r \in DOMAIN e.rows : Owned(H, B, k, e, r, u)'
      BY <1>6, <2>1, <3>1
    <3> QED  BY <1>5, <2>1, <3>2 DEF Owned
  <2> QED  BY <2>2, <2>3
<1> QED  BY <1>8 DEF Entries

\* What the step sampled is awaited from now on.
LEMMA ReceiveUnderWay ==
  ASSUME NEW H, NEW B, NEW k \in Ranks, Typed, History(H, B), UnderWay(H, B, k), Receive(k),
         NEW s, NEW b, Ends(H, B, k, s, b)
  PROVE  UnderWay(H, B, k)'
<1>1. /\ k \in Receivers /\ k # NumRanks /\ index' = index /\ gen' = gen
      /\ Joined(b) => Joining(k, s, b)
      /\ ~Joined(b) => ring' = ring
  BY ReceiveWrites
<1>2. /\ s \in Nat /\ pos[k] = s - 1 /\ NumRanks \in Nat /\ NumRanks > 1
      /\ Through(k) = s - NumRanks /\ Through(k)' = s - NumRanks
  BY <1>1, RankNumbers DEF Ends
<1>3. /\ ring \in [Receivers -> Seq(RingEntry)] /\ ring[k] \in Seq(RingEntry)
      /\ Len(ring[k]) = NumRanks
  BY <1>1 DEF Typed
<1> SUFFICES ASSUME NEW r \in Requests, Life(H, k, r)' # 0, Latest(H, B, k, r)' # 0,
                    Latest(H, B, k, r)' > Through(k)'
             PROVE  Awaits(k, ring[k][Latest(H, B, k, r) - Through(k)], r)'
  BY DEF UnderWay
<1>4. PICK n : n = Latest(H, B, k, r)'
  OBVIOUS
<1> DEFINE m == n - (s - NumRanks)
<1>5. ASSUME NEW e, e = ring'[k][m], Awaits(k, e, r)'
      PROVE  Awaits(k, ring[k][Latest(H, B, k, r) - Through(k)], r)'
  <2>1. e = ring'[k][Latest(H, B, k, r)' - Through(k)']
    BY <1>2, <1>4, <1>5
  <2> QED  BY <1>5, <2>1 DEF Awaits
<1>6. CASE r \in DOMAIN b.rows /\ Needs(b, r)
  <2>1. n = s
    <3>1. r \in DOMAIN b.rows =>
              /\ Life(H, k, r) # 0
              /\ Done(H, B, k, r) = b.rows[r].old
              /\ n = IF Needs(b, r) THEN s ELSE Latest(H, B, k, r)
      BY <1>4, EndViews DEF Advances
    <3> QED  BY <1>6, <3>1
  <2>2. m = NumRanks /\ NumRanks \in 1..NumRanks
    BY <1>2, <2>1
  <2>3. Joined(b)
    BY <1>6 DEF Joined, Needs
  <2>4. PICK e : e = ring'[k][m]
    OBVIOUS
  <2>5. e = Awaited(k, b)
    BY <1>1, <1>3, <2>2, <2>3, <2>4 DEF Joining
  <2>6. Awaits(k, e, r)'
    BY <1>1, <1>6, <2>5 DEF Awaits, Awaited, Needs
  <2> QED  BY <1>5, <2>4, <2>6
<1>7. CASE ~(r \in DOMAIN b.rows /\ Needs(b, r))
  <2>1. n = Latest(H, B, k, r) /\ Life(H, k, r)' = Life(H, k, r)
    BY <1>4, <1>7, EndViews DEF Advances
  <2>2. n \in Nat /\ n <= s - 1
    BY <1>2, <2>1, ViewFacts
  <2>3. m \in 1..NumRanks /\ m # NumRanks
    BY <1>2, <1>4, <2>2
  <2>4. PICK e : e = ring'[k][m]
    OBVIOUS
  <2>5. e = ring[k][m]
    BY <1>1, <1>3, <2>3, <2>4 DEF Joining
  <2>6. Awaits(k, ring[k][m], r)
    BY <1>2, <1>4, <2>1 DEF UnderWay
  <2>7. Awaits(k, e, r)'
    BY <1>1, <2>5, <2>6 DEF Awaits
  <2> QED  BY <1>5, <2>4, <2>7
<1> QED  BY <1>6, <1>7

\* The entry that Receive posts has its type.
LEMMA AwaitedTyped ==
  ASSUME NEW H, NEW B, NEW k \in Receivers, Typed, Slotted(H, k),
         NEW s, NEW b, Ends(H, B, k, s, b)
  PROVE  Awaited(k, b) \in RingEntry
<1>1. b \in BatchState /\ k \in Ranks /\ DOMAIN b.rows \subseteq Requests
  BY BatchFacts, RankNumbers DEF Ends
<1> DEFINE f == [r \in DOMAIN b.rows |->
     [idx |-> index[k][r], gen |-> gen[k][index[k][r]], need |-> r \in NeedSampled(b)]]
<1>2. \A r \in DOMAIN b.rows : f[r] \in RowEntry
  <2> TAKE r \in DOMAIN b.rows
  <2>1. r \in Requests /\ Life(H, k, r) # 0
    <3>1. r \in Requests
      BY <1>1
    <3>2. r \in DOMAIN b.rows => /\ Life(H, k, r) # 0
                                 /\ Done(H, B, k, r) = b.rows[r].old
      BY <1>1, <3>1, EndViews DEF Advances
    <3> QED  BY <3>1, <3>2
  <2>2. index[k][r] \in Slots
    <3>1. index[k][r] # NoSlot /\ index[k][r] \in 0..NumSlots
      BY <1>1, <2>1 DEF Slotted, Typed
    <3> QED  BY <3>1, RankNumbers DEF Slots, NoSlot
  <2>3. gen[k][index[k][r]] \in Nat
    BY <1>1, <2>2 DEF Typed
  <2>4. (r \in NeedSampled(b)) \in BOOLEAN
    OBVIOUS
  <2> QED  BY <2>2, <2>3, <2>4 DEF RowEntry
<1>3. Len(posted[k]) + 1 \in Nat
  <2>1. posted[k] \in Seq(Nat)
    BY DEF Typed
  <2> QED  BY <2>1
<1>4. f \in [DOMAIN b.rows -> RowEntry]
  BY <1>2
<1>5. DOMAIN b.rows \in SUBSET Requests
  BY <1>1
<1> HIDE DEF f
<1>6. f \in UNION {[S -> RowEntry] : S \in SUBSET Requests}
  BY <1>4, <1>5
<1> QED  BY <1>3, <1>6 DEF Awaited, RingEntry, f

LEMMA ReceiveTyped ==
  ASSUME NEW H, NEW B, NEW k \in Ranks, Typed, Slotted(H, k), Receive(k),
         NEW s, NEW b, Ends(H, B, k, s, b)
  PROVE  Typed'
<1>1. /\ k \in Receivers /\ k # NumRanks
      /\ index' = index /\ gen' = gen /\ sent' = sent /\ last' = last /\ rejected' = rejected
      /\ computed' = [computed EXCEPT ![k] = Advance(k, [r \in Requests |-> 0])]
      /\ Joined(b) => Joining(k, s, b)
      /\ ~Joined(b) => posted' = posted /\ ring' = ring
  BY ReceiveWrites
<1>2. /\ currentStep' = currentStep /\ req' = req /\ s \in Nat /\ b = Batch(k) /\ b \in BatchState
      /\ pos' \in [Ranks -> Nat] /\ phase' \in [Ranks -> {"execute", "sample"}]
      /\ \A l \in Ranks : Begun(l)' = Begun(l)
  BY DEF Ends
<1>3. /\ currentStep \in 0..MaxSteps /\ req \in [Requests -> RequestState]
      /\ \A l \in Ranks : Begun(l) <= currentStep
      /\ index \in [Ranks -> [Requests -> 0..NumSlots]] /\ gen \in [Ranks -> [Slots -> Nat]]
      /\ last = [l \in Ranks |-> last[l]]
      /\ rejected \in [1..MaxSteps -> [Requests -> 0..NumSpec]] /\ sent \in Seq(Nat)
      /\ computed \in [Ranks -> [Slots -> Int]]
  BY DEF Typed
<1>4. /\ ring \in [Receivers -> Seq(RingEntry)] /\ \A l \in Receivers : Len(ring[l]) = NumRanks
      /\ posted \in [Receivers -> Seq(Nat)]
  BY DEF Typed
<1>5. computed' \in [Ranks -> [Slots -> Int]]
  <2> DEFINE zero == [r \in Requests |-> 0]
  <2>1. zero \in [Requests -> Int]
    OBVIOUS
  <2> HIDE DEF zero
  <2>2. Advance(k, zero) \in [Slots -> Int]
    BY <1>2, <2>1, AdvanceFacts
  <2> QED  BY <1>1, <1>3, <2>2 DEF zero
<1>6. /\ ring' \in [Receivers -> Seq(RingEntry)] /\ \A l \in Receivers : Len(ring'[l]) = NumRanks
      /\ posted' \in [Receivers -> Seq(Nat)]
  <2>1. CASE Joined(b)
    <3>1. /\ posted' = [posted EXCEPT ![k] = Append(posted[k], s)]
          /\ ring' = [ring EXCEPT ![k] = [ring[k] EXCEPT ![NumRanks] = Awaited(k, b)]]
      BY <1>1, <2>1 DEF Joining
    <3>2. Awaited(k, b) \in RingEntry
      BY <1>1, AwaitedTyped
    <3> DEFINE q == ring[k]  z == [q EXCEPT ![NumRanks] = Awaited(k, b)]
    <3>3. q \in Seq(RingEntry) /\ Len(q) = NumRanks
      BY <1>1, <1>4
    <3> HIDE DEF q
    <3>4. z \in Seq(RingEntry) /\ Len(z) = NumRanks
      <4>1. q \in [1..NumRanks -> RingEntry] /\ NumRanks \in Nat
        BY <3>3, RankNumbers
      <4>2. z \in [1..NumRanks -> RingEntry]
        BY <3>2, <4>1
      <4> HIDE DEF z
      <4> QED  BY <4>1, <4>2
    <3>5. Append(posted[k], s) \in Seq(Nat)
      BY <1>1, <1>2, <1>4
    <3>6. ring' = [ring EXCEPT ![k] = z]
      BY <3>1 DEF q
    <3> HIDE DEF z
    <3>7. ring' \in [Receivers -> Seq(RingEntry)]
      BY <1>4, <3>4, <3>6
    <3>8. \A l \in Receivers : ring'[l] = z \/ ring'[l] = ring[l]
      BY <1>4, <3>6
    <3>9. posted' \in [Receivers -> Seq(Nat)]
      BY <1>4, <3>1, <3>5
    <3>10. \A l \in Receivers : Len(ring'[l]) = NumRanks
      <4> TAKE l \in Receivers
      <4>1. CASE ring'[l] = z
        BY <3>4, <4>1
      <4>2. CASE ring'[l] = ring[l]
        BY <1>4, <4>2
      <4> QED  BY <3>8, <4>1, <4>2
    <3> QED  BY <3>7, <3>9, <3>10
  <2>2. CASE ~Joined(b)
    BY <1>1, <1>4, <2>2
  <2> QED  BY <2>1, <2>2
<1> QED  BY <1>1, <1>2, <1>3, <1>5, <1>6 DEF Typed

\* Receive keeps the invariant.
LEMMA ReceiveKept ==
  ASSUME NEW H, NEW B, NEW k \in Ranks, RingInv(H, B), Receive(k)
  PROVE  RingInv(H, B)'
<1>1. /\ Typed /\ History(H, B) /\ Kept(B) /\ Rejections(B) /\ RanksRight(H, B) /\ Paired(B)
  BY DEF RingInv
<1>2. PICK s, b : Ends(H, B, k, s, b)
  <2>1. phase[k] = "sample" /\ StepDone(k) /\ currentStep' = currentStep /\ req' = req
    BY DEF Receive
  <2> QED  BY <1>1, <2>1, EndFacts
<1>3. /\ currentStep' = currentStep /\ req' = req /\ Kept(B)'
  BY <1>2 DEF Ends
<1>4. /\ k \in Receivers /\ rejected' = rejected /\ pos'[NumRanks] = pos[NumRanks]
      /\ \A l \in Ranks : l # k => Undisturbed(l)
  BY <1>1, <1>2, ReceiveWrites
<1>5. \A l \in Ranks : Slotted(H, l) /\ Data(H, B, l)
  BY <1>1 DEF RanksRight
<1>6. \A l \in Receivers : Entries(H, B, l) /\ UnderWay(H, B, l)
  BY <1>1 DEF RanksRight
<1>7. Typed'
  BY <1>1, <1>2, <1>5, ReceiveTyped
<1>8. History(H, B)'
  BY <1>1, <1>3 DEF History
<1>9. Rejections(B)'
  BY <1>1, <1>4 DEF Rejections
<1>10. Paired(B)'
  BY <1>1, PairedReceive
<1>11. ASSUME NEW l \in Ranks, l # k
       PROVE  /\ Slotted(H, l)' /\ Data(H, B, l)'
              /\ l \in Receivers => Entries(H, B, l)' /\ UnderWay(H, B, l)'
  <2>1. Prolongs(H, B, H, B)
    BY DEF Prolongs
  <2>2. Final(H, l)
    BY <1>4 DEF Final
  <2> QED  BY <1>1, <1>4, <1>5, <1>6, <1>7, <1>11, <2>1, <2>2, RankKept
<1>12. Slotted(H, k)'
  <2>1. index' = index /\ gen' = gen
    BY <1>1, <1>2, ReceiveWrites
  <2>2. \A r \in Requests : Life(H, k, r)' = Life(H, k, r)
    BY <1>2, EndViews DEF Advances
  <2> QED  BY <1>5, <2>1, <2>2 DEF Slotted
<1>13. Data(H, B, k)'
  BY <1>1, <1>2, <1>5, ReceiveData
<1>14. Entries(H, B, k)' /\ UnderWay(H, B, k)'
  BY <1>1, <1>2, <1>4, <1>5, <1>6, ReceiveEntries, ReceiveUnderWay
<1>15. RanksRight(H, B)'
  BY <1>11, <1>12, <1>13, <1>14, RankNumbers DEF RanksRight
<1> QED  BY <1>3, <1>7, <1>8, <1>9, <1>10, <1>15 DEF RingInv

---------------------------------------------------------------------------
(* The last rank samples *)

\* What Sample writes to the counts and tokens of the last rank.
LEMMA SampleWrites ==
  ASSUME NEW H, NEW B, NEW k, k = NumRanks, Typed, Sample, NEW s, NEW b, Ends(H, B, k, s, b)
  PROVE  \E lost \in [Requests -> 0..NumSpec] :
           /\ \A r \in Requests : lost[r] # 0 => Needs(b, r)
           /\ rejected' = [rejected EXCEPT ![s] = lost]
           /\ computed' = [computed EXCEPT ![k] = Advance(k, lost)]
<1>1. s = Step(k) /\ b = Batch(k) /\ b \in BatchState
  BY DEF Ends
<1>2. PICK lost \in [Requests -> 0..NumSpec] :
        /\ \A r \in Requests \ {r \in DOMAIN b.rows : Decodes(b.rows[r])} : lost[r] = 0
        /\ rejected' = [rejected EXCEPT ![s] = lost]
        /\ computed' = [computed EXCEPT ![k] = Advance(k, lost)]
  BY <1>1 DEF Sample
<1>3. ASSUME NEW r \in Requests, lost[r] # 0 PROVE Needs(b, r)
  <2>1. r \in DOMAIN b.rows /\ Decodes(b.rows[r])
    BY <1>2, <1>3
  <2>2. b.rows[r].old \in Nat /\ b.rows[r].num \in Nat /\ b.rows[r].prefill \in Nat
    BY <1>1, <2>1, BatchFacts
  <2>3. b.rows[r].old + b.rows[r].num >= b.rows[r].prefill
    BY <2>1, <2>2 DEF Decodes
  <2> QED  BY <2>1, <2>3, NeedsFacts
<1> QED  BY <1>2, <1>3

\* The last rank has its own samples and rejections at once.
LEMMA SampleData ==
  ASSUME NEW H, NEW B, NEW k \in Ranks, k = NumRanks, Typed, History(H, B), Rejections(B),
         Slotted(H, k), Data(H, B, k), Sample, NEW s, NEW b, Ends(H, B, k, s, b)
  PROVE  Data(H, B, k)'
<1>1. PICK lost \in [Requests -> 0..NumSpec] :
        /\ \A r \in Requests : lost[r] # 0 => Needs(b, r)
        /\ rejected' = [rejected EXCEPT ![s] = lost]
        /\ computed' = [computed EXCEPT ![k] = Advance(k, lost)]
  BY SampleWrites
<1>2. /\ s \in Nat /\ s > 0 /\ s <= MaxSteps /\ b = B[s] /\ b \in BatchState /\ b = Batch(k)
      /\ s = Step(k) /\ Through(k) = s - 1 /\ Through(k)' = s /\ pos'[k] = s /\ Begun(k) = s
      /\ pos[k] = s - 1
  BY DEF Ends
<1>3. /\ rejected \in [1..MaxSteps -> [Requests -> 0..NumSpec]]
      /\ computed \in [Ranks -> [Slots -> Int]] /\ last = [l \in Ranks |-> last[l]]
      /\ NumSpec \in Nat /\ MaxSteps \in Nat
  BY RankNumbers DEF Typed
<1>4. /\ \A t \in 1..MaxSteps : t # s => rejected'[t] = rejected[t]
      /\ rejected'[s] = lost /\ s \in 1..MaxSteps
      /\ RejectionsTyped(rejected) /\ RejectionsTyped(rejected')
  BY <1>1, <1>2, <1>3 DEF RejectionsTyped
<1>5. index' = index
  BY DEF Sample
<1> SUFFICES ASSUME NEW r \in Requests, Life(H, k, r)' # 0
             PROVE  DataOf(H, B, k, r, index[k][r])'
  BY DEF Data
<1>6. PICK i : i = index[k][r]
  OBVIOUS
<1>7. PICK l, n, d : l = Life(H, k, r) /\ n = Latest(H, B, k, r)' /\ d = Done(H, B, k, r)'
  OBVIOUS
<1>8. /\ Life(H, k, r)' = Life(H, k, r)
      /\ r \in DOMAIN b.rows =>
           /\ b.rows[r].num \in Nat /\ b.rows[r].old \in Nat
           /\ Done(H, B, k, r) = b.rows[r].old /\ d = b.rows[r].old + b.rows[r].num
           /\ n = IF Needs(b, r) THEN s ELSE Latest(H, B, k, r)
      /\ r \notin DOMAIN b.rows => d = Done(H, B, k, r) /\ n = Latest(H, B, k, r)
      /\ r \notin DOMAIN b.rows => ~Needs(b, r)
  <2>1. r \notin DOMAIN b.rows => ~Needs(b, r)
    BY NeedsFacts
  <2>2. /\ Life(H, k, r)' = Life(H, k, r)
        /\ r \in DOMAIN b.rows =>
             /\ b.rows[r].num \in Nat /\ b.rows[r].old \in Nat
             /\ Done(H, B, k, r) = b.rows[r].old /\ d = b.rows[r].old + b.rows[r].num
             /\ n = IF Needs(b, r) THEN s ELSE Latest(H, B, k, r)
        /\ r \notin DOMAIN b.rows => d = Done(H, B, k, r) /\ n = Latest(H, B, k, r)
    <3>1. Advances(H, B, k, s, b, r)
      BY EndViews
    <3> QED  BY <1>7, <3>1 DEF Advances
  <2> QED  BY <2>1, <2>2
<1>9. DataOf(H, B, k, r, i) /\ l # 0
  BY <1>6, <1>7, <1>8 DEF Data
<1>10. i \in Slots
  <2>1. i # NoSlot /\ i \in 0..NumSlots
    BY <1>6, <1>7, <1>9 DEF Slotted, Typed
  <2> QED  BY <2>1, RankNumbers DEF Slots, NoSlot
<1>11. /\ l \in Nat /\ l > 0 /\ l <= s /\ Latest(H, B, k, r) \in Nat /\ Latest(H, B, k, r) <= s - 1
  <2>1. /\ Life(H, k, r) \in Nat /\ Latest(H, B, k, r) \in Nat
        /\ Life(H, k, r) # 0 => Life(H, k, r) <= Begun(k) /\ Latest(H, B, k, r) <= pos[k]
    BY ViewFacts
  <2> QED  BY <1>2, <1>7, <1>9, <2>1
<1> DEFINE L == Lost(rejected, r, l, s - 1)  M == Lost(rejected', r, l, s)
<1>12. /\ Latest(H, B, k, r) \in 1..(s - 1) => last[k][i] = <<r, Latest(H, B, k, r)>>
       /\ computed[k][i] = Done(H, B, k, r) - L
  BY <1>2, <1>7, <1>9 DEF DataOf
<1>13. L \in Int /\ M = L + lost[r] /\ lost[r] \in Int
  <2>1. s - 1 \in Int /\ s - 1 <= MaxSteps /\ s - 1 + 1 = s
    BY <1>2, RankNumbers
  <2>2. L \in Int
    BY <1>4, <1>11, <2>1, LostFacts
  <2>3. Lost(rejected', r, l, s - 1) = L
    <3>1. \A t \in l..(s - 1) : t \in 1..MaxSteps /\ t # s
      BY <1>2, <1>3, <1>11
    <3>2. \A t \in l..(s - 1) : rejected'[t][r] = rejected[t][r]
      BY <1>4, <3>1
    <3>3. RejectionsTyped(rejected')
      BY <1>4
    <3>4. PICK new : new = rejected'
      OBVIOUS
    <3>5. Lost(new, r, l, s - 1) = L
      BY <1>4, <1>11, <2>1, <3>2, <3>3, <3>4, LostSame
    <3> QED  BY <3>4, <3>5
  <2>4. M = Lost(rejected', r, l, s - 1) + rejected'[s][r]
    <3>1. PICK new : new = rejected'
      OBVIOUS
    <3>2. RejectionsTyped(new)
      BY <1>4, <3>1
    <3>3. Lost(new, r, l, s - 1 + 1) = Lost(new, r, l, s - 1) + new[s - 1 + 1][r]
      BY <1>2, <1>11, <2>1, <3>2, LostNext
    <3> QED  BY <2>1, <3>1, <3>3
  <2>5. lost[r] \in Int
    BY <1>3
  <2> QED  BY <1>4, <2>2, <2>3, <2>4, <2>5
<1>14. computed'[k][i] = d - M
  <2> DEFINE g == IF r \in DOMAIN b.rows THEN b.rows[r].num - lost[r] ELSE 0
  <2>1. lost \in [Requests -> Int]
    BY <1>3
  <2>2. Advance(k, lost)[i] = computed[k][i] + g
    BY <1>2, <1>6, <1>10, <2>1, AdvanceFacts
  <2>3. computed'[k][i] = computed[k][i] + g
    BY <1>1, <1>3, <2>2
  <2>4. computed[k][i] \in Int
    BY <1>3, <1>10
  <2> HIDE DEF L, M
  <2>5. CASE r \in DOMAIN b.rows
    BY <1>8, <1>12, <1>13, <2>3, <2>5
  <2>6. CASE r \notin DOMAIN b.rows
    <3>1. lost[r] = 0
      BY <1>1, <1>8, <2>6
    <3> QED  BY <1>8, <1>12, <1>13, <2>3, <2>4, <2>6, <3>1
  <2> QED  BY <2>5, <2>6
<1>15. n \in 1..s => last'[k][i] = <<r, n>>
  <2> SUFFICES ASSUME n \in 1..s PROVE last'[k][i] = <<r, n>>
    OBVIOUS
  <2>1. last'[k][i] = IF \E q \in NeedSampled(b) : index[k][q] = i
                      THEN <<CHOOSE q \in NeedSampled(b) : index[k][q] = i, s>> ELSE last[k][i]
    BY <1>2, <1>3, <1>10 DEF Sample
  <2>2. \A q \in NeedSampled(b) : index[k][q] = i => q = r
    <3>1. NeedSampled(b) \subseteq Requests
      BY <1>2, BatchFacts DEF NeedSampled
    <3> QED  BY <1>6, <1>10, <3>1 DEF Slotted, Slots, NoSlot
  <2>3. CASE Needs(b, r)
    <3>1. n = s
      BY <1>8, <2>3
    <3>2. r \in NeedSampled(b) /\ index[k][r] = i
      BY <1>6, <2>3 DEF Needs
    <3>3. (CHOOSE q \in NeedSampled(b) : index[k][q] = i) = r
      BY <2>2, <3>2
    <3> QED  BY <2>1, <3>1, <3>2, <3>3
  <2>4. CASE ~Needs(b, r)
    <3>1. n = Latest(H, B, k, r)
      BY <1>8, <2>4
    <3>2. last'[k][i] = last[k][i]
      BY <2>1, <2>2, <2>4 DEF Needs
    <3>3. n \in 1..(s - 1)
      BY <1>2, <1>11, <3>1
    <3> QED  BY <1>12, <3>1, <3>2, <3>3
  <2> QED  BY <2>3, <2>4
<1>16. \A t \in l..s : t <= pos'[NumRanks]
  BY <1>2, <1>11
<1>17. DataOf(H, B, k, r, i)'
  BY <1>2, <1>7, <1>8, <1>14, <1>15, <1>16 DEF DataOf
<1> QED  BY <1>5, <1>6, <1>17 DEF DataOf

LEMMA SampleTyped ==
  ASSUME NEW H, NEW B, NEW k \in Ranks, k = NumRanks, Typed, Slotted(H, k), Sample,
         NEW s, NEW b, Ends(H, B, k, s, b)
  PROVE  Typed'
<1>1. PICK lost \in [Requests -> 0..NumSpec] :
        /\ rejected' = [rejected EXCEPT ![s] = lost]
        /\ computed' = [computed EXCEPT ![k] = Advance(k, lost)]
  BY SampleWrites
<1>2. /\ currentStep' = currentStep /\ req' = req /\ s \in Nat /\ b = Batch(k) /\ b \in BatchState
      /\ pos' \in [Ranks -> Nat] /\ phase' \in [Ranks -> {"execute", "sample"}]
      /\ \A l \in Ranks : Begun(l)' = Begun(l)
      /\ s = Step(k)
  BY DEF Ends
<1>3. /\ index' = index /\ gen' = gen /\ ring' = ring /\ posted' = posted
      /\ sent' = IF Broadcasts(b) THEN Append(sent, s) ELSE sent
  BY <1>2 DEF Sample
<1>4. /\ currentStep \in 0..MaxSteps /\ req \in [Requests -> RequestState]
      /\ \A l \in Ranks : Begun(l) <= currentStep
      /\ index \in [Ranks -> [Requests -> 0..NumSlots]] /\ gen \in [Ranks -> [Slots -> Nat]]
      /\ last = [l \in Ranks |-> last[l]]
      /\ rejected \in [1..MaxSteps -> [Requests -> 0..NumSpec]] /\ sent \in Seq(Nat)
      /\ computed \in [Ranks -> [Slots -> Int]]
      /\ ring \in [Receivers -> Seq(RingEntry)] /\ \A l \in Receivers : Len(ring[l]) = NumRanks
      /\ posted \in [Receivers -> Seq(Nat)]
  BY DEF Typed
<1>5. computed' \in [Ranks -> [Slots -> Int]]
  <2>1. lost \in [Requests -> Int]
    BY RankNumbers
  <2>2. Advance(k, lost) \in [Slots -> Int]
    BY <1>2, <2>1, AdvanceFacts
  <2> QED  BY <1>1, <1>4, <2>2
<1>6. rejected' \in [1..MaxSteps -> [Requests -> 0..NumSpec]]
  BY <1>1, <1>4
<1>7. sent' \in Seq(Nat)
  BY <1>2, <1>3, <1>4
<1>8. last' = [l \in Ranks |-> last'[l]]
  <2>1. PICK v : last' = [last EXCEPT ![k] = v]
    BY DEF Sample
  <2>2. DOMAIN last = Ranks
    BY <1>4
  <2> QED  BY <2>1, <2>2
<1> QED  BY <1>2, <1>3, <1>4, <1>5, <1>6, <1>7, <1>8 DEF Typed

\* Sample keeps the invariant.
LEMMA SampleKept ==
  ASSUME NEW H, NEW B, RingInv(H, B), Sample
  PROVE  RingInv(H, B)'
<1>1. /\ Typed /\ History(H, B) /\ Kept(B) /\ Rejections(B) /\ RanksRight(H, B) /\ Paired(B)
  BY DEF RingInv
<1> PICK k : k = NumRanks
  OBVIOUS
<1>2. PICK s, b : Ends(H, B, k, s, b)
  <2>1. phase[k] = "sample" /\ StepDone(k) /\ currentStep' = currentStep /\ req' = req
    BY DEF Sample
  <2> QED  BY <1>1, <2>1, EndFacts, RankNumbers
<1>3. /\ currentStep' = currentStep /\ req' = req /\ Kept(B)' /\ s \in Nat /\ s > 0 /\ s <= MaxSteps
      /\ b = B[s] /\ b \in BatchState /\ pos[k] = s - 1 /\ pos'[k] = s
      /\ pos[NumRanks] <= pos'[NumRanks]
      /\ \A l \in Ranks : l # k => phase'[l] = phase[l] /\ pos'[l] = pos[l]
  BY <1>2 DEF Ends
<1>4. k \in Ranks /\ MaxSteps \in Nat
  BY RankNumbers
<1>5. PICK lost \in [Requests -> 0..NumSpec] :
        /\ \A r \in Requests : lost[r] # 0 => Needs(b, r)
        /\ rejected' = [rejected EXCEPT ![s] = lost]
        /\ computed' = [computed EXCEPT ![k] = Advance(k, lost)]
  BY <1>1, <1>2, SampleWrites
<1>6. /\ index' = index /\ gen' = gen /\ ring' = ring /\ posted' = posted
      /\ rejected \in [1..MaxSteps -> [Requests -> 0..NumSpec]]
      /\ computed \in [Ranks -> [Slots -> Int]] /\ last = [l \in Ranks |-> last[l]]
  BY <1>1 DEF Sample, Typed
<1>7. /\ s \in 1..MaxSteps /\ rejected'[s] = lost
      /\ \A t \in 1..MaxSteps : t # s => rejected'[t] = rejected[t]
  BY <1>3, <1>4, <1>5, <1>6
<1>8. \A l \in Ranks : Slotted(H, l) /\ Data(H, B, l)
  BY <1>1 DEF RanksRight
<1>9. \A l \in Receivers : Entries(H, B, l) /\ UnderWay(H, B, l)
  BY <1>1 DEF RanksRight
<1>10. Typed'
  BY <1>1, <1>2, <1>4, <1>8, SampleTyped
<1>11. History(H, B)'
  BY <1>1, <1>3 DEF History
<1>12. Rejections(B)'
  <2> SUFFICES ASSUME NEW t \in 1..MaxSteps, NEW r \in Requests, rejected'[t][r] # 0
               PROVE  t <= pos'[NumRanks] /\ Needs(B[t], r)
    BY DEF Rejections
  <2>1. CASE t = s
    BY <1>3, <1>5, <1>7, <2>1
  <2>2. CASE t # s
    <3>1. t <= pos[NumRanks] /\ Needs(B[t], r)
      BY <1>1, <1>7, <2>2 DEF Rejections
    <3> QED  BY <1>3, <1>4, <3>1
  <2> QED  BY <2>1, <2>2
<1>13. Paired(B)'
  BY <1>1, PairedSample
<1>14. ASSUME NEW l \in Ranks, l # k PROVE Undisturbed(l) /\ Final(H, l)
  <2>1. Undisturbed(l)
    <3>1. computed'[l] = computed[l]
      BY <1>5, <1>6, <1>14
    <3>2. last'[l] = last[l]
      BY <1>6, <1>14 DEF Sample
    <3> QED  BY <1>3, <1>6, <1>14, <3>1, <3>2 DEF Undisturbed
  <2>2. ASSUME NEW r \in Requests, Life(H, l, r) # 0, NEW t \in Life(H, l, r)..Through(l)
        PROVE  rejected'[t][r] = rejected[t][r]
    <3>1. t \in 1..MaxSteps
      <4>1. Life(H, l, r) \in Nat /\ Through(l) \in Int /\ Through(l) <= MaxSteps
        <5>1. /\ Begun(l) <= MaxSteps /\ Begun(l) \in Nat
              /\ pos[l] \in Nat /\ pos[l] <= Begun(l)
              /\ Through(l) \in Int /\ Through(l) <= pos[l]
          BY <1>1, RankFacts
        <5>2. Life(H, l, r) \in Nat
          BY <1>1, ViewFacts
        <5> QED  BY <1>4, <5>1, <5>2
      <4> QED  BY <1>4, <2>2, <4>1
    <3>2. CASE t # s
      BY <1>7, <3>1, <3>2
    <3>3. CASE t = s
      <4>1. rejected[s][r] = 0
        BY <1>1, <1>3, <1>7 DEF Rejections
      <4>2. lost[r] = 0
        <5> SUFFICES ASSUME lost[r] # 0 PROVE FALSE
          OBVIOUS
        <5>1. Needs(B[t], r)
          BY <1>3, <1>5, <3>3
        <5>2. DataOf(H, B, l, r, index[l][r])
          BY <1>8, <2>2 DEF Data
        <5>3. t <= pos[NumRanks]
          BY <2>2, <5>1, <5>2 DEF DataOf
        <5> QED  BY <1>3, <3>3, <5>3
      <4> QED  BY <1>7, <3>3, <4>1, <4>2
    <3> QED  BY <3>2, <3>3
  <2> QED  BY <2>1, <2>2 DEF Final
<1>15. ASSUME NEW l \in Ranks, l # k
       PROVE  /\ Slotted(H, l)' /\ Data(H, B, l)'
              /\ l \in Receivers => Entries(H, B, l)' /\ UnderWay(H, B, l)'
  <2>1. Prolongs(H, B, H, B)
    BY DEF Prolongs
  <2> QED  BY <1>1, <1>8, <1>9, <1>10, <1>14, <1>15, <2>1, RankKept
<1>16. Slotted(H, k)'
  <2>1. \A r \in Requests : Life(H, k, r)' = Life(H, k, r)
    BY <1>2, <1>4, EndViews DEF Advances
  <2> QED  BY <1>4, <1>6, <1>8, <2>1 DEF Slotted
<1>17. Data(H, B, k)'
  BY <1>1, <1>2, <1>4, <1>8, SampleData
<1>18. \A l \in Receivers : l \in Ranks /\ l # k
  BY RankNumbers
<1>19. RanksRight(H, B)'
  BY <1>15, <1>16, <1>17, <1>18 DEF RanksRight
<1> QED  BY <1>3, <1>10, <1>11, <1>12, <1>13, <1>19 DEF RingInv

\* Schedule keeps the invariant, of a longer history.
LEMMA ScheduleKept ==
  ASSUME NEW H, NEW B, RingInv(H, B), Schedule
  PROVE  \E Z, C : RingInv(Z, C)'
<1>1. /\ Typed /\ History(H, B) /\ Kept(B) /\ Rejections(B) /\ RanksRight(H, B) /\ Paired(B)
  BY DEF RingInv
<1>2. PICK Z, C : Prolongs(H, B, Z, C) /\ History(Z, C)' /\ Kept(C)'
  BY <1>1, HistoryGrows
<1>3. /\ currentStep < MaxSteps /\ currentStep' = currentStep + 1 /\ pos' = pos /\ phase' = phase
      /\ index' = index /\ gen' = gen /\ ring' = ring /\ posted' = posted /\ sent' = sent
      /\ computed' = computed /\ last' = last /\ rejected' = rejected
  BY DEF Schedule
<1>4. /\ currentStep \in Nat /\ currentStep' \in 0..MaxSteps /\ currentStep' \in Nat
  BY <1>1, <1>3, RankNumbers DEF Typed
<1>5. \A l \in Ranks : Begun(l)' = Begun(l) /\ Begun(l) \in Nat /\ Begun(l) <= currentStep
  <2> TAKE l \in Ranks
  <2>1. Begun(l)' = Begun(l)
    BY <1>3 DEF Begun
  <2>2. Begun(l) \in Nat /\ Begun(l) <= currentStep
    BY <1>1, RankFacts DEF Typed
  <2> QED  BY <2>1, <2>2
<1>6. req' \in [Requests -> RequestState]
  <2>1. PICK c : c = currentStep'
    OBVIOUS
  <2>2. Z \in [0..c -> [Requests -> RequestState]] /\ Z[c] = req'
    BY <1>2, <2>1 DEF History
  <2>3. c \in 0..c
    BY <1>4, <2>1
  <2> QED  BY <2>2, <2>3
<1>7. \A l \in Ranks : Begun(l)' <= currentStep'
  BY <1>3, <1>4, <1>5
<1>8. Typed'
  <2>1. Typed
    BY <1>1
  <2> QED  BY <1>3, <1>4, <1>6, <1>7, <2>1 DEF Typed
<1>9. Rejections(C)'
  <2> SUFFICES ASSUME NEW t \in 1..MaxSteps, NEW r \in Requests, rejected[t][r] # 0
               PROVE  t <= pos[NumRanks] /\ Needs(C[t], r)
    BY <1>3 DEF Rejections
  <2>1. t <= pos[NumRanks] /\ Needs(B[t], r)
    BY <1>1 DEF Rejections
  <2>2. pos[NumRanks] \in Nat /\ pos[NumRanks] <= currentStep
    <3>1. pos[NumRanks] \in Nat
      BY <1>1, RankNumbers DEF Typed
    <3>2. pos[NumRanks] <= Begun(NumRanks)
      BY <3>1 DEF Begun
    <3> QED  BY <1>4, <1>5, <3>1, <3>2, RankNumbers
  <2>3. t \in 1..currentStep
    BY <1>4, <2>1, <2>2
  <2> QED  BY <1>2, <2>1, <2>3 DEF Prolongs
<1>10. Paired(C)'
  BY <1>1, <1>2, PairedSchedule
<1>11. ASSUME NEW l \in Ranks
       PROVE  /\ Slotted(Z, l)' /\ Data(Z, C, l)'
              /\ l \in Receivers => Entries(Z, C, l)' /\ UnderWay(Z, C, l)'
  <2>1. Slotted(H, l) /\ Data(H, B, l)
    BY <1>1 DEF RanksRight
  <2>2. l \in Receivers => Entries(H, B, l) /\ UnderWay(H, B, l)
    BY <1>1 DEF RanksRight
  <2>3. pos[NumRanks] \in Nat
    BY <1>1, RankNumbers DEF Typed
  <2>4. Undisturbed(l) /\ Final(H, l)
    BY <1>3, <2>3 DEF Undisturbed, Final
  <2> QED  BY <1>1, <1>2, <1>8, <2>1, <2>2, <2>4, RankKept
<1>12. RanksRight(Z, C)'
  BY <1>11, RankNumbers DEF RanksRight
<1> QED  BY <1>2, <1>8, <1>9, <1>10, <1>12 DEF RingInv

---------------------------------------------------------------------------
(* The invariant *)

\* Some history explains the state.
RingRight == \E H, B : RingInv(H, B)

LEMMA SeedTyped == RingSeed \in Seq(RingEntry) /\ Len(RingSeed) = NumRanks
<1>1. RingSeed \in [1..NumRanks -> RingEntry]
  BY NoneTyped DEF RingSeed
<1>2. NumRanks \in Nat
  BY RankNumbers
<1> HIDE DEF RingSeed
<1> QED  BY <1>1, <1>2

LEMMA InitTyped ==
  ASSUME Init
  PROVE  Typed
<1>1. /\ currentStep = 0 /\ pos = [k \in Ranks |-> 0] /\ phase = [k \in Ranks |-> "execute"]
      /\ posted = [k \in Receivers |-> <<>>] /\ sent = <<>>
      /\ last = [k \in Ranks |-> [i \in Slots |-> NoToken]]
  BY DEF Init
<1>2. 0 \in 0..MaxSteps /\ 0 \in 0..NumSpec /\ NoSlot \in 0..NumSlots
  BY RankNumbers DEF NoSlot
<1>3. Absent \in RequestState
  BY DEF Absent, RequestState
<1>4. req \in [Requests -> RequestState]
  BY <1>3 DEF Init
<1>5. index \in [Ranks -> [Requests -> 0..NumSlots]]
  BY <1>2 DEF Init
<1>6. gen \in [Ranks -> [Slots -> Nat]] /\ computed \in [Ranks -> [Slots -> Int]]
  BY DEF Init
<1>7. rejected \in [1..MaxSteps -> [Requests -> 0..NumSpec]]
  BY <1>2 DEF Init
<1>8. ring \in [Receivers -> Seq(RingEntry)] /\ \A k \in Receivers : Len(ring[k]) = NumRanks
  <2> HIDE DEF RingSeed
  <2> QED  BY SeedTyped DEF Init
<1>9. \A k \in Ranks : Begun(k) <= currentStep
  BY <1>1 DEF Begun
<1>10. pos \in [Ranks -> Nat] /\ phase \in [Ranks -> {"execute", "sample"}]
  BY <1>1
<1>11. last = [k \in Ranks |-> last[k]]
  BY <1>1
<1>12. posted \in [Receivers -> Seq(Nat)] /\ sent \in Seq(Nat)
  BY <1>1
<1> QED  BY <1>1, <1>2, <1>4, <1>5, <1>6, <1>7, <1>8, <1>9, <1>10, <1>11, <1>12 DEF Typed

\* The empty history explains the initial state.
LEMMA RingInit ==
  ASSUME Init
  PROVE  RingRight
<1> DEFINE H == [s \in 0..0 |-> [r \in Requests |-> Absent]]  B == [s \in 1..0 |-> 0]
<1>1. Typed
  BY InitTyped
<1>2. /\ currentStep = 0 /\ req = [r \in Requests |-> Absent] /\ issued = <<>>
      /\ pos = [k \in Ranks |-> 0] /\ phase = [k \in Ranks |-> "execute"]
      /\ index = [k \in Ranks |-> [r \in Requests |-> NoSlot]]
      /\ ring = [k \in Receivers |-> RingSeed] /\ posted = [k \in Receivers |-> <<>>]
      /\ sent = <<>> /\ rejected = [s \in 1..MaxSteps |-> [r \in Requests |-> 0]]
  BY DEF Init
<1>3. Absent.life = 0 /\ Absent \in RequestState
  BY DEF Absent, RequestState
<1>4. 0..0 = {0} /\ 1..0 = {}
  OBVIOUS
<1>5. History(H, B)
  <2>1. H \in [0..0 -> [Requests -> RequestState]] /\ B \in [1..0 -> BatchState]
    BY <1>3, <1>4
  <2>2. H[0] = [r \in Requests |-> Absent] /\ \A r \in Requests : H[0][r] = Absent
    BY <1>4
  <2> HIDE DEF H, B
  <2>3. \A r \in Requests : Sound(H[0][r], 0) /\ Spaced(B, H[0][r], r, 0)
    BY <1>3, <2>2 DEF Sound, Spaced
  <2>4. Cardinality(AliveIn(H[0])) <= NumSlots
    <3>1. AliveIn(H[0]) = {}
      BY <1>3, <2>2 DEF AliveIn
    <3>2. Cardinality({}) = 0 /\ NumSlots \in Nat
      BY FS_EmptySet, RankNumbers
    <3> QED  BY <3>1, <3>2
  <2> QED  BY <1>2, <1>4, <2>1, <2>2, <2>3, <2>4 DEF History
<1>6. Kept(B)
  <2>1. DOMAIN issued = {} /\ issued = [s \in DOMAIN issued |-> issued[s]]
    BY <1>2
  <2>2. \A k \in Ranks : (pos[k] + 1)..currentStep = {}
    BY <1>2
  <2> HIDE DEF B
  <2> QED  BY <2>1, <2>2 DEF Kept
<1>7. Rejections(B)
  BY <1>2 DEF Rejections
<1>8. \A k \in Ranks, r \in Requests : Life(H, k, r) = 0
  <2> TAKE k \in Ranks, r \in Requests
  <2>1. Begun(k) = 0
    BY <1>2 DEF Begun
  <2>2. H[0][r].life = 0
    BY <1>3, <1>4
  <2> HIDE DEF H
  <2> QED  BY <2>1, <2>2 DEF Life
<1>9. RanksRight(H, B)
  <2>1. ASSUME NEW k \in Ranks PROVE Slotted(H, k) /\ Data(H, B, k)
    <3> HIDE DEF H, B
    <3>1. Data(H, B, k)
      BY <1>8 DEF Data
    <3>2. Slotted(H, k)
      BY <1>2, <1>8 DEF Slotted
    <3> QED  BY <3>1, <3>2
  <2>2. ASSUME NEW k \in Receivers PROVE Entries(H, B, k) /\ UnderWay(H, B, k)
    <3> HIDE DEF H, B
    <3>1. k \in Ranks
      BY RankNumbers
    <3>2. UnderWay(H, B, k)
      BY <1>8, <3>1 DEF UnderWay
    <3>3. \A j \in 1..NumRanks : ring[k][j] = None
      BY <1>2 DEF RingSeed
    <3>4. DOMAIN None.rows = {}
      BY DEF None
    <3>5. Entries(H, B, k)
      BY <3>3, <3>4 DEF Entries
    <3> QED  BY <3>2, <3>5
  <2> HIDE DEF H, B
  <2> QED  BY <2>1, <2>2 DEF RanksRight
<1>10. Paired(B)
  <2> HIDE DEF B
  <2>1. Lists(<<>>, B, 0) /\ Agree(<<>>, <<>>)
    <3>1. Len(<<>>) = 0 /\ 1..0 = {}
      OBVIOUS
    <3> QED  BY <3>1 DEF Lists, Agree
  <2>2. \A k \in Receivers : posted[k] = <<>> /\ pos[k] = 0
    BY <1>2, RankNumbers
  <2>3. sent = <<>> /\ pos[NumRanks] = 0
    BY <1>2, RankNumbers
  <2> QED  BY <2>1, <2>2, <2>3 DEF Paired
<1>11. RingInv(H, B)
  <2> HIDE DEF H, B
  <2> QED  BY <1>1, <1>5, <1>6, <1>7, <1>9, <1>10 DEF RingInv
<1> HIDE DEF H, B
<1> QED  BY <1>11 DEF RingRight

\* Every step keeps some history.
LEMMA RingStep ==
  ASSUME RingRight, [Next]_vars
  PROVE  RingRight'
<1>1. PICK H, B : RingInv(H, B)
  BY DEF RingRight
<1>2. CASE Schedule
  <2>1. \E Z, C : RingInv(Z, C)'
    BY <1>1, <1>2, ScheduleKept
  <2> QED  BY <2>1 DEF RingRight
<1>3. ASSUME NEW k \in Ranks, RankStep(k) PROVE RingRight'
  <2>1. CASE ExecuteModel(k)
    <3>1. RingInv(H, B)'
      BY <1>1, <2>1, ExecuteKept
    <3> QED  BY <3>1 DEF RingRight
  <2>2. CASE Receive(k)
    <3>1. RingInv(H, B)'
      BY <1>1, <2>2, ReceiveKept
    <3> QED  BY <3>1 DEF RingRight
  <2>3. CASE Sample
    <3>1. RingInv(H, B)'
      BY <1>1, <2>3, SampleKept
    <3> QED  BY <3>1 DEF RingRight
  <2> QED  BY <1>3, <2>1, <2>2, <2>3 DEF RankStep
<1>4. CASE UNCHANGED vars
  <2>1. Typed' /\ History(H, B)' /\ Kept(B)'
    <3>1. Typed /\ History(H, B) /\ Kept(B)
      BY <1>1 DEF RingInv
    <3>2. \A k \in Ranks : Begun(k)' = Begun(k)
      BY <1>4 DEF vars, Begun
    <3>3. Typed'
      BY <1>4, <3>1, <3>2 DEF vars, Typed
    <3> QED  BY <1>4, <3>1, <3>3 DEF vars, History, Kept
  <2>2. Rejections(B)' /\ Paired(B)'
    BY <1>1, <1>4 DEF vars, RingInv, Rejections, Paired
  <2>3. \A k \in Ranks : Undisturbed(k) /\ Final(H, k)
    <3>1. pos[NumRanks] \in Nat
      BY <1>1, RankNumbers DEF RingInv, Typed
    <3> QED  BY <1>4, <3>1 DEF vars, Undisturbed, Final
  <2>4. RanksRight(H, B)'
    <3>1. Prolongs(H, B, H, B)
      BY DEF Prolongs
    <3>2. \A k \in Ranks : Slotted(H, k)' /\ Data(H, B, k)'
      BY <1>1, <2>1, <2>3, <3>1, RankKept DEF RingInv, RanksRight
    <3>3. \A k \in Receivers : Entries(H, B, k)' /\ UnderWay(H, B, k)'
      BY <1>1, <2>1, <2>3, <3>1, RankKept, RankNumbers DEF RingInv, RanksRight
    <3> QED  BY <3>2, <3>3 DEF RanksRight
  <2>5. RingInv(H, B)'
    BY <2>1, <2>2, <2>4 DEF RingInv
  <2> QED  BY <2>5 DEF RingRight
<1> QED  BY <1>2, <1>3, <1>4 DEF Next, Idle

(***************************************************************************)
(* Whatever the interleaving of the ranks, the state is that of one        *)
(* history of the schedule, seen by each rank as far as it has come.       *)
(***************************************************************************)
THEOREM RingKept == Spec => []RingRight
<1>1. Init => RingRight
  BY RingInit
<1>2. RingRight /\ [Next]_vars => RingRight'
  BY RingStep
<1> QED  BY <1>1, <1>2, PTL DEF Spec

---------------------------------------------------------------------------
(* What the invariant says of a forward pass *)

\* Rejections that are none do not count.
LEMMA LostQuiet ==
  ASSUME NEW rej, RejectionsTyped(rej), NEW r \in Requests, NEW l \in Nat, l > 0,
         NEW u \in Int, NEW w \in Int, u <= w, w <= MaxSteps,
         \A t \in l..w : t > u => rej[t][r] = 0
  PROVE  Lost(rej, r, l, w) = Lost(rej, r, l, u)
<1> DEFINE T == {n \in Nat : u + n <= w => Lost(rej, r, l, u + n) = Lost(rej, r, l, u)}
<1>1. 0 \in T
  <2>1. u + 0 = u
    OBVIOUS
  <2> QED  BY <2>1
<1>2. ASSUME NEW n \in Nat, n \in T PROVE n + 1 \in T
  <2> SUFFICES ASSUME u + (n + 1) <= w
               PROVE  Lost(rej, r, l, u + (n + 1)) = Lost(rej, r, l, u)
    OBVIOUS
  <2> DEFINE x == u + n  y == u + (n + 1)
  <2>1. Lost(rej, r, l, x) = Lost(rej, r, l, u)
    <3>1. u + n <= w
      OBVIOUS
    <3> QED  BY <1>2, <3>1
  <2>2. x \in Int /\ y = x + 1 /\ y <= MaxSteps /\ y > u /\ y <= w
    BY RankNumbers
  <2>3. l <= y => y \in l..w
    BY <2>2
  <2> HIDE DEF x, y
  <2>4. /\ Lost(rej, r, l, x) \in Int /\ Lost(rej, r, l, y) \in Int
        /\ l <= y => Lost(rej, r, l, y) = Lost(rej, r, l, x) + rej[y][r]
        /\ l > y => Lost(rej, r, l, y) = 0 /\ Lost(rej, r, l, x) = 0
    BY <2>2, LostOn
  <2>5. l <= y => rej[y][r] = 0
    BY <2>2, <2>3
  <2>6. Lost(rej, r, l, y) = Lost(rej, r, l, x)
    BY <2>2, <2>4, <2>5
  <2> QED  BY <2>1, <2>6 DEF y
<1>3. Nat \subseteq T
  <2> HIDE DEF T
  <2> QED  BY <1>1, <1>2, NatSetInduction
<1>4. w - u \in Nat /\ u + (w - u) = w
  OBVIOUS
<1>5. w - u \in T
  <2> HIDE DEF T
  <2> QED  BY <1>3, <1>4
<1> QED  BY <1>4, <1>5

\* What is known of r when rank k runs step s with its row.
Runs(H, B, k, s, r) ==
  LET row == Batch(k).rows[r]
      a == H[s - 1][r]
  IN  /\ s = Step(k) /\ s \in 1..currentStep /\ s \in Nat /\ s <= MaxSteps
      /\ issued[s] = Batch(k) /\ r \in Requests
      /\ Life(H, k, r) = row.life /\ row.life \in Nat /\ row.life > 0
      /\ Latest(H, B, k, r) = row.sampled /\ row.sampled \in Nat
      /\ Done(H, B, k, r) = row.old /\ row.old \in Nat
      /\ row.sampled # 0 => row.sampled + NumRanks <= s
      /\ Decodes(row) => row.sampled # 0
      /\ \A t \in row.life..(s - 1) : Needs(B[t], r) => t + NumRanks <= s
      /\ Through(k) = IF k = NumRanks THEN s - 1 ELSE s - NumRanks

\* A row is the request as it was before the step, its samples NumRanks steps apart.
LEMMA RowFacts ==
  ASSUME NEW H, NEW B, NEW k \in Ranks, Typed, History(H, B), Kept(B), phase[k] = "sample",
         NEW r \in DOMAIN Batch(k).rows
  PROVE  Runs(H, B, k, Step(k), r)
<1> PICK s, b : s = Step(k) /\ b = Batch(k)
  OBVIOUS
<1>1. /\ Begun(k) = pos[k] + 1 /\ Begun(k) \in 1..currentStep /\ pos[k] \in Nat
      /\ Begun(k) <= MaxSteps
  BY RankFacts
<1>2. currentStep \in Nat /\ pos[k] < currentStep
  <2>1. currentStep \in Nat
    BY RankNumbers DEF Typed
  <2> QED  BY <1>1, <2>1
<1>3. s \in 1..currentStep /\ s = pos[k] + 1 /\ b = B[s]
  BY <1>2, StepsKept
<1>4. Begun(k) = s /\ s \in Nat /\ s > 0 /\ s <= MaxSteps /\ pos[k] = s - 1
      /\ s - 1 \in 0..currentStep /\ s \in 0..currentStep
  BY <1>1, <1>2, <1>3
<1>5. issued[s] = b
  BY <1>2, <1>3 DEF Kept
<1>6. b \in BatchState
  BY <1>3 DEF History
<1>7. r \in Requests /\ b.rows[r].life \in Nat /\ b.rows[r].old \in Nat
      /\ b.rows[r].sampled \in Nat /\ b.rows[r].prefill \in Nat
  BY <1>6, BatchFacts
<1> DEFINE a == H[s - 1][r]  z == H[s][r]  row == b.rows[r]
<1>8. /\ a \in RequestState /\ Sound(a, s - 1) /\ Spaced(B, a, r, s - 1)
      /\ Follows(a, b, z, r, s)
  BY <1>3, <1>4, <1>7 DEF History
<1>9. InForward(B, k, r)
  BY <1>3, <1>4 DEF InForward
<1>10. Life(H, k, r) = z.life /\ Latest(H, B, k, r) = row.sampled /\ Done(H, B, k, r) = row.old
  BY <1>3, <1>4, <1>9 DEF Life, Latest, Done
<1>11. /\ z.life = row.life
       /\ r \in b.add => row.life = s /\ row.sampled = 0 /\ row.old = 0 /\ row.prefill > 0
       /\ r \notin b.add => /\ a.life # 0 /\ row.life = a.life /\ row.old = a.computed
                            /\ row.sampled = a.sampled /\ row.prefill = a.prefill
                            /\ s >= a.eligible
  BY <1>8, FollowsCases
<1>12. a.life \in Nat /\ a.sampled \in Nat /\ a.eligible \in Nat /\ a.computed \in Nat
       /\ a.prefill \in Nat /\ NumRanks \in Nat
  BY <1>8, StateFacts, RankNumbers
<1>13. a.life # 0 =>
         /\ a.computed >= a.prefill => a.sampled # 0
         /\ a.sampled # 0 => a.eligible = a.sampled + NumRanks
         /\ \A t \in a.life..(s - 1) : Needs(B[t], r) => t = a.sampled \/ t + NumRanks <= a.sampled
  BY <1>8 DEF Sound, Spaced
<1>14. Decodes(row) <=> row.old >= row.prefill
  BY DEF Decodes
<1>15. Through(k) = IF k = NumRanks THEN s - 1 ELSE s - NumRanks
  BY <1>4 DEF Through
<1> HIDE DEF a, z, row
<1>16. row.life > 0 /\ (row.sampled # 0 => row.sampled + NumRanks <= s)
       /\ (Decodes(row) => row.sampled # 0)
  <2>1. CASE r \in b.add
    BY <1>4, <1>7, <1>11, <1>14, <2>1 DEF row
  <2>2. CASE r \notin b.add
    BY <1>4, <1>11, <1>12, <1>13, <1>14, <2>2
  <2> QED  BY <2>1, <2>2
<1>17. ASSUME NEW t \in row.life..(s - 1), Needs(B[t], r) PROVE t + NumRanks <= s
  <2>1. row.life \in Nat /\ row.life > 0 /\ row.life <= s - 1 /\ t \in Int /\ t > 0
    BY <1>4, <1>7, <1>16 DEF row
  <2>2. r \notin b.add
    BY <1>4, <1>11, <2>1
  <2>3. t = a.sampled \/ t + NumRanks <= a.sampled
    BY <1>11, <1>13, <1>17, <2>2
  <2>4. a.sampled # 0
    BY <1>12, <2>1, <2>3
  <2>5. a.sampled + NumRanks <= s
    BY <1>11, <1>13, <2>2, <2>4
  <2> QED  BY <1>4, <1>12, <2>1, <2>3, <2>5
<1>18. /\ row.life \in Nat /\ row.sampled \in Nat /\ row.old \in Nat
       /\ Life(H, k, r) = row.life /\ row = Batch(k).rows[r]
  BY <1>7, <1>10, <1>11 DEF row
<1> QED  BY <1>3, <1>4, <1>5, <1>7, <1>10, <1>15, <1>16, <1>17, <1>18 DEF Runs

\* The latest sample was applied before the step: it is NumRanks steps old.
LEMMA TokensRight ==
  ASSUME NEW H, NEW B, RingInv(H, B)
  PROVE  TokensOfOwner
<1> SUFFICES ASSUME NEW k \in Ranks, phase[k] = "sample",
                    NEW r \in DOMAIN Batch(k).rows, Decodes(Batch(k).rows[r])
             PROVE  FirstToken(k, r) = <<r, Batch(k).rows[r].sampled>>
  BY DEF TokensOfOwner
<1> DEFINE row == Batch(k).rows[r]  s == Step(k)
<1>1. Typed /\ History(H, B) /\ Kept(B) /\ RanksRight(H, B)
  BY DEF RingInv
<1>2. Runs(H, B, k, s, r)
  BY <1>1, RowFacts
<1>3. /\ r \in Requests /\ Life(H, k, r) # 0 /\ Latest(H, B, k, r) = row.sampled
      /\ row.sampled \in Nat /\ row.sampled # 0 /\ row.sampled + NumRanks <= s /\ s \in Nat
      /\ Through(k) = IF k = NumRanks THEN s - 1 ELSE s - NumRanks
  BY <1>2 DEF Runs
<1>4. DataOf(H, B, k, r, index[k][r])
  BY <1>1, <1>3 DEF RanksRight, Data
<1> HIDE DEF row, s
<1>5. row.sampled \in 1..Through(k)
  BY <1>3, RankNumbers
<1>6. last[k][index[k][r]] = <<r, row.sampled>>
  BY <1>3, <1>4, <1>5 DEF DataOf
<1> QED  BY <1>6 DEF FirstToken, row

\* Between what is applied and the step nothing was rejected, for nothing was sampled.
LEMMA PositionsRight ==
  ASSUME NEW H, NEW B, RingInv(H, B)
  PROVE  PositionsExact
<1> SUFFICES ASSUME NEW k \in Ranks, phase[k] = "sample", NEW r \in DOMAIN Batch(k).rows
             PROVE  FirstPosition(k, r) = TrueComputed(Step(k), r)
  BY DEF PositionsExact
<1> DEFINE row == Batch(k).rows[r]  s == Step(k)  u == Through(k)
<1>1. Typed /\ History(H, B) /\ Kept(B) /\ RanksRight(H, B) /\ Rejections(B)
  BY DEF RingInv
<1>2. Runs(H, B, k, s, r)
  BY <1>1, RowFacts
<1>3. /\ r \in Requests /\ Life(H, k, r) = row.life /\ row.life \in Nat /\ row.life > 0
      /\ Done(H, B, k, r) = row.old /\ s \in Nat /\ s <= MaxSteps
      /\ issued[s] = Batch(k)
      /\ \A t \in row.life..(s - 1) : Needs(B[t], r) => t + NumRanks <= s
      /\ u = IF k = NumRanks THEN s - 1 ELSE s - NumRanks
  BY <1>2 DEF Runs
<1>4. DataOf(H, B, k, r, index[k][r])
  <2>1. Data(H, B, k) /\ Life(H, k, r) # 0
    BY <1>1, <1>3 DEF RanksRight
  <2> QED  BY <1>3, <2>1 DEF Data
<1>5. FirstPosition(k, r) = row.old - Lost(rejected, r, row.life, u)
  BY <1>3, <1>4 DEF DataOf, FirstPosition
<1>6. TrueComputed(s, r) = row.old - Lost(rejected, r, row.life, s - 1)
  BY <1>3 DEF TrueComputed, Lost, RejectedOf, Total
<1> HIDE DEF row, s, u
<1>7. u \in Int /\ s - 1 \in Int /\ u <= s - 1 /\ s - 1 <= MaxSteps
  BY <1>3, RankNumbers
<1>8. ASSUME NEW t \in row.life..(s - 1), t > u PROVE rejected[t][r] = 0
  <2>1. t \in 1..MaxSteps /\ t \in Int
    BY <1>3, RankNumbers
  <2>2. rejected[t][r] # 0 => Needs(B[t], r)
    BY <1>1, <1>3, <2>1 DEF Rejections
  <2>3. ~(t + NumRanks <= s)
    BY <1>3, <1>8, <2>1, RankNumbers
  <2> QED  BY <1>3, <2>2, <2>3
<1>9. RejectionsTyped(rejected)
  BY <1>1 DEF Typed, RejectionsTyped
<1>10. Lost(rejected, r, row.life, s - 1) = Lost(rejected, r, row.life, u)
  BY <1>3, <1>7, <1>8, <1>9, LostQuiet
<1> QED  BY <1>5, <1>6, <1>10 DEF s

\* The invariant implies the three properties.
LEMMA RingSuffices ==
  ASSUME RingRight
  PROVE  TokensOfOwner /\ PositionsExact /\ BroadcastsPaired
<1>1. PICK H, B : RingInv(H, B)
  BY DEF RingRight
<1>2. TokensOfOwner /\ PositionsExact
  BY <1>1, TokensRight, PositionsRight
<1>3. BroadcastsPaired
  BY <1>1, PairsMatch DEF RingInv
<1> QED  BY <1>2, <1>3

(***************************************************************************)
(* Every rank continues a decode from the token that was last sampled for  *)
(* this request in this life of it, although the receive was posted before *)
(* the token existed and slots change hands meanwhile (pp_utils.py).       *)
(***************************************************************************)
THEOREM TokensKept == Spec => []TokensOfOwner
<1>1. RingRight => TokensOfOwner
  BY RingSuffices
<1> QED  BY <1>1, RingKept, PTL

(***************************************************************************)
(* The optimistic count of computed tokens on a device is exact whenever   *)
(* its request runs: the correction has arrived, once, at its own slot     *)
(* (postprocess_sampled and update_pp_decode_requests).                    *)
(***************************************************************************)
THEOREM PositionsKept == Spec => []PositionsExact
<1>1. RingRight => PositionsExact
  BY RingSuffices
<1> QED  BY <1>1, RingKept, PTL

(***************************************************************************)
(* The ranks agree on the sequence of collectives, although each decides   *)
(* alone whether a step has one (receive and broadcast of pp_utils.py).    *)
(***************************************************************************)
THEOREM PairsKept == Spec => []BroadcastsPaired
<1>1. RingRight => BroadcastsPaired
  BY RingSuffices
<1> QED  BY <1>1, RingKept, PTL
============================================================================
