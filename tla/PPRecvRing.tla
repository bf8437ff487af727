---------------------------- MODULE PPRecvRing ----------------------------
(***************************************************************************)
(* The sampled-token ring of the V2 model runner under pipeline            *)
(* parallelism (src/overlay/vllm/v1/worker/gpu/pp_utils.py and its use in  *)
(* gpu/model_runner.py).                                                   *)
(*                                                                         *)
(* Every rank executes the same steps.  The last rank samples and          *)
(* broadcasts; the others post a receive for it on a side stream and apply *)
(* what arrived NumRanks steps later, when the request it was sampled for  *)
(* may have finished and its slot may belong to another request.           *)
(*                                                                         *)
(* The GPU work of a rank is in the order its host code enqueued it, so a  *)
(* step of the host stands for the work it enqueues, and an event the main *)
(* stream waits for is a guard of that step.                               *)
(***************************************************************************)
EXTENDS Integers, FiniteSets, FiniteSetsExt, Sequences

CONSTANTS
  NumRanks,     \* pipeline stages; rank NumRanks samples
  Requests,     \* request ids
  NumSlots,     \* request indices of a rank, max_num_reqs
  NumSpec,      \* drafts of a decode step
  Prefills,     \* numbers of tokens a request may start with
  MaxSteps,     \* bound: steps scheduled
  LastAdmission \* bound: the step after which no request is added or dropped

ASSUME RingAssumption ==
  /\ NumRanks \in Nat \ {0, 1}
  /\ IsFiniteSet(Requests) /\ NumSlots \in Nat
  /\ NumSpec \in Nat
  /\ IsFiniteSet(Prefills) /\ Prefills \subseteq Nat \ {0}
  /\ MaxSteps \in Nat /\ LastAdmission \in Nat

VARIABLES
  currentStep,  \* steps scheduled so far
  req,        \* per request: the scheduler's fields, life 0 when it is not running
  issued,     \* the scheduler outputs some rank has still to execute, by step
  pos,        \* per rank: steps completed
  phase,      \* per rank: next is execute_model or sample_tokens
  index,      \* per rank: req_id_to_index, NoSlot when absent
  gen,        \* per rank and slot: req_idx_gen_np
  ring,       \* per rank but the last: PPHandler.queue
  posted,     \* per rank but the last: the steps whose broadcast it joined
  sent,       \* the steps the last rank broadcast
  computed,   \* per rank and slot: req_states.num_computed_tokens on the device
  last,       \* per rank and slot: req_states.last_sampled_tokens
  rejected    \* per step: rejected drafts of each request, decided when sampling

vars == <<currentStep, req, issued, pos, phase, index, gen, ring, posted, sent,
          computed, last, rejected>>

Ranks == 1..NumRanks
Receivers == 1..(NumRanks - 1)
Slots == 1..NumSlots
NoSlot == 0

\* No postprocess is pending for a step.
None == [nth |-> 0, rows |-> <<>>]

\* life is the step of a request's admission, sampled that of its latest sample.
Absent == [life |-> 0, computed |-> 0, prefill |-> 0, eligible |-> 0, sampled |-> 0]

\* A token is the request and the step it was sampled for.
NoToken == <<>>

RingSeed == [i \in 1..NumRanks |-> None]

Init ==
  /\ req = [r \in Requests |-> Absent]
  /\ currentStep = 0
  /\ issued = <<>>
  /\ pos = [k \in Ranks |-> 0]
  /\ phase = [k \in Ranks |-> "execute"]
  /\ index = [k \in Ranks |-> [r \in Requests |-> NoSlot]]
  /\ gen = [k \in Ranks |-> [i \in Slots |-> 0]]
  /\ ring = [k \in Receivers |-> RingSeed]
  /\ posted = [k \in Receivers |-> <<>>]
  /\ sent = <<>>
  /\ computed = [k \in Ranks |-> [i \in Slots |-> 0]]
  /\ last = [k \in Ranks |-> [i \in Slots |-> NoToken]]
  /\ rejected = [s \in 1..MaxSteps |-> [r \in Requests |-> 0]]

---------------------------------------------------------------------------
(* The scheduler, as far as the ring depends on it *)

Running == {r \in Requests : req[r].life # 0}

\* Mutation: a decode may be scheduled again one step too early.
ThrottledShort(r) == currentStep + 1 < req[r].eligible - 1

\* V2 with pipeline parallelism: NumRanks steps between two decodes of a request.
Throttled(r) == currentStep + 1 < req[r].eligible

\* A prefill is scheduled in chunks, a decode with its drafts.
Lengths(q) == IF q.computed < q.prefill THEN 1..(q.prefill - q.computed) ELSE {1 + NumSpec}

\* The fields of a request after n of its tokens are scheduled in this step.
Advanced(q, n) ==
  IF q.computed + n < q.prefill
    THEN [q EXCEPT !.computed = @ + n]
    ELSE [q EXCEPT !.computed = @ + n, !.eligible = currentStep + 1 + NumRanks,
                   !.sampled = currentStep + 1]

\* The requests of a step as they are when it is scheduled.
RequestsOf(run, add, prefill) ==
  [r \in run \union add |->
     IF r \in run THEN req[r]
     ELSE [Absent EXCEPT !.life = currentStep + 1, !.prefill = prefill[r]]]

\* The scheduler's output: num[r] tokens of every request of the step.
Output(drop, add, now, num) ==
  [drop |-> drop, add |-> add,
   rows |-> [r \in DOMAIN now |->
     [life |-> now[r].life, old |-> now[r].computed, prefill |-> now[r].prefill,
      sampled |-> now[r].sampled, num |-> num[r]]]]

\* What is issued once the output b of the next step is.
Issued(b) == [s \in DOMAIN issued \union {currentStep + 1} |->
  IF s = currentStep + 1 THEN b ELSE issued[s]]

(***************************************************************************)
(* One step, with at most NumRanks + 1 in flight.  Since the step before,  *)
(* requests have finished or were preempted (drop), by a reset of the      *)
(* prefix cache perhaps, which lets them come back in the same step; new   *)
(* and resumed requests (add) start with all their tokens as the prefill.  *)
(* Which requests fit the budget is left open; a step may have no tokens.  *)
(* computed is what the scheduler advances optimistically: the rejections  *)
(* it learns of later never take it below the prefill, which is all that   *)
(* is read of it.                                                          *)
(***************************************************************************)
Schedule ==
  /\ currentStep < MaxSteps
  /\ currentStep - pos[NumRanks] <= NumRanks
  /\ \E drop \in SUBSET Running :
       \E add \in SUBSET ((Requests \ Running) \union drop),
          run \in SUBSET {r \in Running \ drop : ~Throttled(r)} :
         /\ Running # {} \/ add # {}
         /\ drop \union add # {} => currentStep < LastAdmission
         /\ Cardinality(Running \ drop) + Cardinality(add) <= NumSlots
         /\ \E prefill \in [add -> Prefills],
               num \in [run \union add -> 1..(Max(Prefills) + NumSpec)] :
              LET now == RequestsOf(run, add, prefill)
              IN  /\ \A r \in DOMAIN now : num[r] \in Lengths(now[r])
                  /\ issued' = Issued(Output(drop, add, now, num))
                  /\ req' = [r \in Requests |->
                       IF r \in DOMAIN now THEN Advanced(now[r], num[r])
                       ELSE IF r \in drop THEN Absent
                       ELSE req[r]]
  /\ currentStep' = currentStep + 1
  /\ UNCHANGED <<pos, phase, index, gen, ring, posted, sent, computed, last, rejected>>

---------------------------------------------------------------------------
(* The ranks *)

\* The whole prefill is computed: the row continues from a sampled token.
Decodes(row) == row.old >= row.prefill

ProducesSample(row) == row.old + row.num >= row.prefill

NeedSampled(b) == {r \in DOMAIN b.rows : ProducesSample(b.rows[r])}

\* Mutation: entries of freed requests are applied as well.
StillOwnedAlways(k, row) == row.need

\* The row needs its sample and its slot was not freed since the receive.
StillOwned(k, row) == row.need /\ gen[k][row.idx] = row.gen

Step(k) == pos[k] + 1
Batch(k) == issued[Step(k)]

\* A rank is through with its step; outputs every rank has executed are forgotten.
StepDone(k) ==
  /\ pos' = [pos EXCEPT ![k] = @ + 1]
  /\ phase' = [phase EXCEPT ![k] = "execute"]
  /\ issued' = LET seen == Min({pos'[q] : q \in Ranks})
               IN  [s \in {s \in DOMAIN issued : s > seen} |-> issued[s]]

\* The ring entry of NumRanks steps ago, less what is excluded.
Pending(k) == IF k = NumRanks THEN None ELSE Head(ring[k])
Applied(k) == {r \in DOMAIN Pending(k).rows : StillOwned(k, Pending(k).rows[r])}

\* The event of a receive is recorded once the matching broadcast was made.
Arrived(k) == Applied(k) # {} => Len(sent) >= Pending(k).nth

Freed(k) == {index[k][r] : r \in Batch(k).drop \union Batch(k).add} \ {NoSlot}

\* RequestState hands out free indices.
Placement(k) ==
  LET b == Batch(k)
      kept == {index[k][r] : r \in Requests \ (b.drop \union b.add)}
  IN  CHOOSE f \in [b.add -> Slots \ kept] :
        \A r, q \in b.add : f[r] = f[q] => r = q

\* Mutation: the slot's generation is not advanced when it is freed.
BumpedNever(k) == gen[k]

Bumped(k) == [i \in Slots |-> gen[k][i] + (IF i \in Freed(k) THEN 1 ELSE 0)]

\* Which request's result is written to a slot, if any.
WrittenFor(k, i) == {r \in Applied(k) : Pending(k).rows[r].idx = i}

\* postprocess_sampled of what arrived: the tokens, and the device counts corrected.
AppliedLast(k) == [i \in Slots |->
  IF WrittenFor(k, i) = {} THEN last[k][i]
  ELSE <<CHOOSE r \in WrittenFor(k, i) : TRUE, sent[Pending(k).nth]>>]

AppliedComputed(k) == [i \in Slots |->
  IF WrittenFor(k, i) = {} THEN computed[k][i]
  ELSE computed[k][i]
         - rejected[sent[Pending(k).nth]][CHOOSE r \in WrittenFor(k, i) : TRUE]]

(***************************************************************************)
(* execute_model: update_pp_decode_requests, finish_requests, add_requests *)
(* and update_requests, in this order, then the forward pass, which needs  *)
(* the previous rank's.  A step of no tokens ends here.                    *)
(***************************************************************************)
ExecuteModel(k) ==
  /\ phase[k] = "execute"
  /\ pos[k] < currentStep
  /\ Arrived(k)
  /\ LET b == Batch(k)
         placed == Placement(k)
         fresh == {placed[r] : r \in b.add}
     IN
     /\ DOMAIN b.rows # {} /\ k > 1
          => pos[k - 1] >= Step(k) \/ (Step(k - 1) = Step(k) /\ phase[k - 1] = "sample")
     /\ last' = [last EXCEPT ![k] = [i \in Slots |->
          IF i \in fresh THEN NoToken ELSE AppliedLast(k)[i]]]
     /\ computed' = [computed EXCEPT ![k] = [i \in Slots |->
          IF i \in fresh THEN 0 ELSE AppliedComputed(k)[i]]]
     /\ gen' = [gen EXCEPT ![k] = Bumped(k)]
     /\ index' = [index EXCEPT ![k] = [r \in Requests |->
          IF r \in b.add THEN placed[r] ELSE IF r \in b.drop THEN NoSlot ELSE @[r]]]
     /\ ring' = IF k = NumRanks THEN ring
                ELSE [ring EXCEPT ![k] = Append(Tail(@), None)]
     /\ IF DOMAIN b.rows = {}
          THEN StepDone(k)
          ELSE phase' = [phase EXCEPT ![k] = "sample"] /\ UNCHANGED <<pos, issued>>
  /\ UNCHANGED <<currentStep, req, posted, sent, rejected>>

\* The inputs of a forward pass are gathered on the device through the index.
FirstToken(k, r) == last[k][index[k][r]]
FirstPosition(k, r) == computed[k][index[k][r]]

\* The device counts of a batch advance by what was scheduled less what was rejected.
Advance(k, lost) ==
  LET gain == [r \in DOMAIN Batch(k).rows |-> Batch(k).rows[r].num - lost[r]]
  IN  [i \in Slots |-> computed[k][i] +
         MapThenSumSet(LAMBDA r : gain[r], {r \in DOMAIN gain : index[k][r] = i})]

\* Mutation: the receiver joins only broadcasts that concern the whole batch.
JoinsWhole(b) == NeedSampled(b) = DOMAIN b.rows

\* receive returns early when no request of the batch samples.
Joins(b) == NeedSampled(b) # {}

\* broadcast returns early in the same case.
Broadcasts(b) == NeedSampled(b) # {}

\* sample_tokens on a rank that does not sample: post the receive, advance.
Receive(k) ==
  /\ k # NumRanks
  /\ phase[k] = "sample"
  /\ LET b == Batch(k)
     IN  IF Joins(b)
           THEN /\ posted' = [posted EXCEPT ![k] = Append(@, Step(k))]
                /\ ring' = [ring EXCEPT ![k] = [@ EXCEPT ![Len(@)] =
                     [nth |-> Len(posted[k]) + 1,
                      rows |-> [r \in DOMAIN b.rows |->
                        [idx |-> index[k][r], gen |-> gen[k][index[k][r]],
                         need |-> r \in NeedSampled(b)]]]]]
           ELSE UNCHANGED <<posted, ring>>
  /\ computed' = [computed EXCEPT ![k] = Advance(k, [r \in Requests |-> 0])]
  /\ StepDone(k)
  /\ UNCHANGED <<currentStep, req, index, gen, sent, last, rejected>>

\* sample_tokens on the last rank: sample, broadcast, postprocess.
Sample ==
  LET k == NumRanks
      b == Batch(k)
      decodes == {r \in DOMAIN b.rows : Decodes(b.rows[r])}
  IN
  /\ phase[k] = "sample"
  /\ \E lost \in [Requests -> 0..NumSpec] :
       /\ \A r \in Requests \ decodes : lost[r] = 0
       /\ rejected' = [rejected EXCEPT ![Step(k)] = lost]
       /\ computed' = [computed EXCEPT ![k] = Advance(k, lost)]
  /\ last' = [last EXCEPT ![k] = [i \in Slots |->
       IF \E r \in NeedSampled(b) : index[k][r] = i
       THEN <<CHOOSE r \in NeedSampled(b) : index[k][r] = i, Step(k)>> ELSE @[i]]]
  /\ sent' = IF Broadcasts(b) THEN Append(sent, Step(k)) ELSE sent
  /\ StepDone(k)
  /\ UNCHANGED <<currentStep, req, index, gen, ring, posted>>

\* Nothing more is asked of the engine, and all that was asked is done.
Idle ==
  /\ currentStep = MaxSteps \/ Running = {}
  /\ \A k \in Ranks : pos[k] = currentStep
  /\ UNCHANGED vars

RankStep(k) == ExecuteModel(k) \/ Receive(k) \/ (k = NumRanks /\ Sample)

Next ==
  \/ Schedule
  \/ \E k \in Ranks : RankStep(k)
  \/ Idle

Spec == Init /\ [][Next]_vars
---------------------------------------------------------------------------
(* Properties *)

\* What a request has computed before a step, all rejections known.
TrueComputed(s, r) ==
  LET row == issued[s].rows[r]
      lost == [t \in 1..MaxSteps |-> rejected[t][r]]
  IN  row.old - MapThenSumSet(LAMBDA t : lost[t], row.life..(s - 1))

(***************************************************************************)
(* The inputs of a forward pass: every rank takes the token a decode       *)
(* continues from its own copy, and it is the one sampled for this request *)
(* in its latest step, in this life of it, not that of a request which had *)
(* the slot before (pp_utils.py: get_prev_sampled_outputs).                *)
(***************************************************************************)
TokensOfOwner ==
  \A k \in Ranks : phase[k] = "sample" =>
    \A r \in DOMAIN Batch(k).rows :
      Decodes(Batch(k).rows[r]) => FirstToken(k, r) = <<r, Batch(k).rows[r].sampled>>

(***************************************************************************)
(* The positions of a forward pass: the device's own count of computed     *)
(* tokens, advanced optimistically when a batch is issued and corrected    *)
(* NumRanks steps later, is exact when the request runs again, on every    *)
(* rank, and the correction never falls on another request.                *)
(***************************************************************************)
PositionsExact ==
  \A k \in Ranks : phase[k] = "sample" =>
    \A r \in DOMAIN Batch(k).rows : FirstPosition(k, r) = TrueComputed(Step(k), r)

(***************************************************************************)
(* Each side decides on its own, from its copy of the batch, whether a     *)
(* step is broadcast.  The n-th collective of every rank is for one step,  *)
(* and a receive without its broadcast belongs to a step the last rank has *)
(* not done yet, so that no rank waits for an event that never comes.      *)
(***************************************************************************)
BroadcastsPaired ==
  \A k \in Receivers : \A n \in 1..Len(posted[k]) :
    IF n <= Len(sent) THEN posted[k][n] = sent[n] ELSE posted[k][n] > pos[NumRanks]
===========================================================================
