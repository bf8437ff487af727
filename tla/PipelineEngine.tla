-------------------------- MODULE PipelineEngine --------------------------
(***************************************************************************)
(* The engine core, its scheduler and the pipeline's model runners, as     *)
(* they serve the model: pipeline parallel (PP > 1), a queue of batches in *)
(* flight, chunked prefill, FCFS with preemption, n-gram speculative       *)
(* decoding, no asynchronous scheduling, no prefix caching, no KV          *)
(* connector (src/serve/run-dsv41-pp4.sh).                                 *)
(*                                                                         *)
(*   v1/engine/core.py           step_with_batch_queue, post_step          *)
(*   v1/core/sched/scheduler.py  schedule, update_from_output, ...         *)
(*   v1/worker/gpu_model_runner.py  _update_states, sampling, drafting     *)
(*                                                                         *)
(* The engine is one thread: pc says where it is.  The body of each of the *)
(* two loops of schedule() is an action.  Ranks run concurrently with it,  *)
(* each taking the batches in the order they were issued.                  *)
(*                                                                         *)
(* A token is <<p, v>>: the position p it was sampled for and its value v. *)
(* Prompts are left implicit: only output tokens are stored.  Drafts are   *)
(* represented by the position of the token they follow and their number.  *)
(***************************************************************************)
EXTENDS Integers, Sequences, FiniteSets, SequencesExt, FiniteSetsExt

CONSTANTS
  Requests,       \* requests that may be added, each at most once
  PromptLen,      \* num_prompt_tokens of each request
  MaxTokens,      \* max_tokens of each request
  Vocab,          \* what may be sampled
  Eos,            \* the value that stops a request (may be outside Vocab)
  NumRanks,       \* pipeline_parallel_size; rank NumRanks samples
  QueueSize,      \* batch_queue_size
  MaxRunning,     \* max_num_running_reqs
  TokenBudget,    \* max_num_scheduled_tokens
  NumSpec,        \* num_spec_tokens
  MaxModelLen,    \* max_model_len
  BlockSize,      \* tokens per KV block
  NumBlocks,      \* blocks of the KV pool
  ReserveFullIsl, \* scheduler_reserve_full_isl
  MaxResets       \* bound: calls of reset_prefix_cache(reset_running_requests)

CeilDiv(a, b) == (a + b - 1) \div b

ASSUME EngineAssumption ==
  /\ IsFiniteSet(Requests)
  /\ PromptLen \in [Requests -> Nat \ {0}] /\ MaxTokens \in [Requests -> Nat \ {0}]
  /\ NumRanks \in Nat /\ NumRanks > 1
  /\ QueueSize \in Nat /\ QueueSize > 1
  /\ {MaxRunning, TokenBudget, MaxModelLen, BlockSize, NumBlocks} \subseteq Nat \ {0}
  /\ NumSpec \in Nat /\ MaxResets \in Nat
  /\ ReserveFullIsl \in BOOLEAN
  /\ \A r \in Requests : PromptLen[r] < MaxModelLen
  /\ CeilDiv(MaxModelLen, BlockSize) <= NumBlocks  \* checked when the KV cache is sized

Ranks == 1..NumRanks
LastRank == NumRanks
NoDraft == [after |-> 0, len |-> 0]
Padding == [after |-> 0, len |-> NumSpec]  \* [-1] * num_spec_tokens

VARIABLES
  req,        \* Scheduler.requests: the state of every request
  running, waiting, skipped,     \* Scheduler's queues of requests
  finishedIds,                   \* Scheduler.finished_req_ids
  resets,                        \* bound on resets used so far
  pc,         \* "inputs" | "schedule" | "collect" | "post"
  plan,       \* the locals of schedule()
  queue,      \* batch_queue, oldest first
  takeDrafts, \* post_step has drafts to fetch for the batch just issued
  results,    \* sampled_token_ids of the batches the last rank has finished
  drafts,     \* the last rank's _draft_token_ids
  executed,   \* how many batches of queue each rank has executed
  cached,     \* per rank: GPUModelRunner.requests, the requests it knows
  batchReqs,  \* per rank: the requests in its persistent input batch
  history,    \* per rank and request: CachedRequestState.output_token_ids
  row         \* per rank and request: output part of input_batch.token_ids_cpu

queues == <<running, waiting, skipped>>
scheduler == <<req, queues, finishedIds, resets>>
engine == <<pc, plan, queue, takeDrafts>>
ranks == <<results, drafts, executed, cached, batchReqs, history, row>>
vars == <<req, running, waiting, skipped, finishedIds, resets, pc, plan, queue, takeDrafts,
          results, drafts, executed, cached, batchReqs, history, row>>

---------------------------------------------------------------------------
(* Helpers on requests *)

NumTokens(r) == PromptLen[r] + Len(req[r].output)

Live(r) == req[r].status \in {"waiting", "running", "preempted"}

HasUnfinished == running # <<>> \/ waiting # <<>> \/ skipped # <<>>

\* Mutation: the engine stops stepping with the last unfinished request.
HasRequestsUnfinished == HasUnfinished

\* Scheduler.has_requests: finished ids still owed to the ranks count.
HasRequests == HasUnfinished \/ finishedIds # {}

Sum(f, S) == MapThenSumSet(LAMBDA r : f[r], S)

Blocks == [r \in Requests |-> req[r].blocks]
FreeBlocks == NumBlocks - Sum(Blocks, Requests)

\* Blocks the KV manager adds for r's computed tokens and n new ones.
NewBlocks(r, computed, n) ==
  Max({CeilDiv(computed + n, BlockSize) - req[r].blocks, 0})

\* The queue s less the requests in S.
Without(s, S) ==
  LET keep[i \in 0..Len(s)] ==
        IF i = 0 THEN <<>>
        ELSE IF s[i] \in S THEN keep[i - 1] ELSE Append(keep[i - 1], s[i])
  IN keep[Len(s)]

NewRequest == [status |-> "new", output |-> <<>>, computed |-> 0, spec |-> NoDraft,
               inFlight |-> 0, stale |-> 0, dropStale |-> FALSE, chunk |-> FALSE,
               sent |-> 0, blocks |-> 0]

EmptyPlan == [idx |-> 1, budget |-> TokenBudget, n |-> [r \in Requests |-> 0],
              spec |-> [r \in Requests |-> NoDraft], new |-> {}, resumed |-> {},
              passed |-> <<>>, prefill |-> FALSE, preempted |-> FALSE, stop |-> FALSE]

Scheduled(b) == {r \in Requests : b.n[r] > 0}

\* Mutation: the victim keeps its blocks.
PreemptedWithBlocks(q, drop) ==
  [q EXCEPT !.status = "preempted", !.computed = 0, !.spec = NoDraft,
            !.dropStale = drop \/ (@ /\ q.stale > 0), !.stale = q.inFlight]

\* Mutation: the counter of tokens in flight restarts with the request.
PreemptedForgets(q, drop) ==
  [q EXCEPT !.status = "preempted", !.blocks = 0, !.computed = 0, !.spec = NoDraft,
            !.dropStale = drop \/ (@ /\ q.stale > 0), !.stale = q.inFlight, !.inFlight = 0]

\* Mutation: what is in flight is not marked as stale.
PreemptedFresh(q, drop) ==
  [q EXCEPT !.status = "preempted", !.blocks = 0, !.computed = 0, !.spec = NoDraft,
            !.dropStale = drop \/ (@ /\ q.stale > 0)]

(***************************************************************************)
(* _preempt_request: the blocks are freed, the request starts over and     *)
(* everything it has in flight is stale.                                   *)
(***************************************************************************)
Preempted(q, drop) ==
  [q EXCEPT !.status = "preempted", !.blocks = 0, !.computed = 0, !.spec = NoDraft,
            !.dropStale = drop \/ (@ /\ q.stale > 0), !.stale = q.inFlight]

\* _free_request, called once the status is final.
Freed(q) == [q EXCEPT !.status = "finished", !.blocks = 0, !.sent = 0]

---------------------------------------------------------------------------
Init ==
  /\ req = [r \in Requests |-> NewRequest]
  /\ running = <<>> /\ waiting = <<>> /\ skipped = <<>>
  /\ finishedIds = {}
  /\ resets = 0
  /\ pc = "inputs"
  /\ plan = EmptyPlan
  /\ queue = <<>>
  /\ takeDrafts = FALSE
  /\ results = <<>>
  /\ drafts = [r \in Requests |-> NoDraft]
  /\ executed = [k \in Ranks |-> 0]
  /\ cached = [k \in Ranks |-> {}]
  /\ batchReqs = [k \in Ranks |-> {}]
  /\ history = [k \in Ranks |-> [r \in Requests |-> <<>>]]
  /\ row = [k \in Ranks |-> [r \in Requests |-> <<>>]]

---------------------------------------------------------------------------
(* The input queue: requests, aborts and utility calls *)

AddRequest(r) ==
  /\ pc = "inputs"
  /\ req[r].status = "new"
  /\ req' = [req EXCEPT ![r].status = "waiting"]
  /\ waiting' = Append(waiting, r)
  /\ UNCHANGED <<running, skipped, finishedIds, resets, engine, ranks>>

(***************************************************************************)
(* finish_requests(FINISHED_ABORTED): aborts come through the input queue  *)
(* and again, just before an output is processed, through the abort queue. *)
(***************************************************************************)
Abort(r) ==
  /\ pc \in {"inputs", "collect"}
  /\ Live(r)
  /\ req' = [req EXCEPT ![r] = Freed(@)]
  /\ running' = Without(running, {r})
  /\ waiting' = Without(waiting, {r})
  /\ skipped' = Without(skipped, {r})
  /\ finishedIds' = finishedIds \union {r}
  /\ UNCHANGED <<resets, engine, ranks>>

\* reset_prefix_cache(reset_running_requests=True): preempt all, drop what is in flight.
ResetRunning ==
  /\ pc = "inputs"
  /\ resets < MaxResets
  /\ running # <<>>
  /\ resets' = resets + 1
  /\ req' = [r \in Requests |-> IF r \in Range(running) THEN Preempted(req[r], TRUE) ELSE req[r]]
  /\ waiting' = running \o waiting
  /\ running' = <<>>
  /\ UNCHANGED <<skipped, finishedIds, engine, ranks>>

---------------------------------------------------------------------------
(* schedule() *)

BeginSchedule ==
  /\ pc = "inputs"
  /\ HasRequests
  /\ pc' = "schedule"
  /\ plan' = EmptyPlan
  /\ UNCHANGED <<scheduler, queue, takeDrafts, ranks>>

MoreRunning == plan.idx <= Len(running) /\ plan.budget > 0 /\ ~plan.stop

\* Mutation: without the guard, drafts alone make a request schedulable.
RunningTokensUnguarded(r) ==
  Min({NumTokens(r) + req[r].spec.len - req[r].computed,
       plan.budget,
       MaxModelLen - req[r].computed - 1})

(***************************************************************************)
(* Tokens a running request can be given: what it has not computed yet,    *)
(* drafts included, within the budget and the context window.  Under PP a  *)
(* request all of whose real tokens are computed waits for its output.     *)
(***************************************************************************)
RunningTokens(r) ==
  IF NumTokens(r) <= req[r].computed THEN 0
  ELSE Min({NumTokens(r) + req[r].spec.len - req[r].computed,
            plan.budget,
            MaxModelLen - req[r].computed - 1})

PassRunning ==
  /\ pc = "schedule" /\ MoreRunning
  /\ RunningTokens(running[plan.idx]) <= 0
  /\ plan' = [plan EXCEPT !.idx = @ + 1]
  /\ UNCHANGED <<scheduler, pc, queue, takeDrafts, ranks>>

\* The last m running requests: the candidates for preemption.
Youngest(m) == SubSeq(running, Len(running) - m + 1, Len(running))

(***************************************************************************)
(* How many requests schedule() preempts to place r = running[idx]: the    *)
(* fewest from the tail whose blocks make room, r itself last.             *)
(***************************************************************************)
Victims(r, n) ==
  LET others == Len(running) - plan.idx
      fits(m) == NewBlocks(r, req[r].computed, n)
                   <= FreeBlocks + Sum(Blocks, Range(Youngest(m)))
  IN IF \E m \in 0..others : fits(m)
       THEN Min({m \in 0..others : fits(m)})
       ELSE others + 1

\* The drafts scheduled with n tokens of r, trimmed to what fits.
ScheduledDrafts(r, n) ==
  LET len == n + req[r].computed - NumTokens(r)
  IN IF req[r].spec.len > 0 /\ len > 0
       THEN [req[r].spec EXCEPT !.len = Min({@, len})] ELSE NoDraft

ScheduleRunning ==
  /\ pc = "schedule" /\ MoreRunning
  /\ LET r == running[plan.idx]
         n == RunningTokens(r)
         m == Victims(r, n)
         victims == Range(Youngest(m))
         freed == [q \in Requests |-> IF q \in victims THEN Preempted(req[q], FALSE) ELSE req[q]]
     IN /\ n > 0
        /\ running' = SubSeq(running, 1, Len(running) - m)
        /\ waiting' = Youngest(m) \o waiting
        /\ IF r \in victims
             THEN /\ req' = freed
                  /\ plan' = [plan EXCEPT !.preempted = TRUE, !.stop = TRUE]
             ELSE /\ req' = [freed EXCEPT ![r].blocks = @ + NewBlocks(r, req[r].computed, n),
                                          ![r].spec = NoDraft]
                  /\ plan' = [plan EXCEPT !.idx = @ + 1, !.budget = @ - n, !.n[r] = n,
                                          !.spec[r] = ScheduledDrafts(r, n),
                                          !.prefill = @ \/ req[r].chunk,
                                          !.preempted = @ \/ m > 0]
  /\ UNCHANGED <<skipped, finishedIds, resets, pc, queue, takeDrafts, ranks>>

\* Requests are admitted only in a step that preempted none.
MoreWaiting ==
  /\ ~MoreRunning /\ ~plan.preempted /\ ~plan.stop
  /\ waiting # <<>> \/ skipped # <<>>
  /\ plan.budget > 0
  /\ Len(running) < MaxRunning

\* FCFS: skipped requests are older than waiting ones.
NextWaiting == IF skipped # <<>> THEN Head(skipped) ELSE Head(waiting)

PopWaiting ==
  IF skipped # <<>> THEN skipped' = Tail(skipped) /\ UNCHANGED waiting
                    ELSE waiting' = Tail(waiting) /\ UNCHANGED skipped

\* Mutation: a preempted request resumes at once.
OwedOutputIgnored(r) == FALSE

\* Stale output that will be delivered is still in flight: resume later.
OwedOutput(r) == req[r].stale > 0 /\ ~req[r].dropStale

PassWaiting ==
  /\ pc = "schedule" /\ MoreWaiting
  /\ OwedOutput(NextWaiting)
  /\ PopWaiting
  /\ plan' = [plan EXCEPT !.passed = Append(@, NextWaiting)]
  /\ UNCHANGED <<req, running, finishedIds, resets, pc, queue, takeDrafts, ranks>>

(***************************************************************************)
(* A lone decode token is padded to the uniform speculative batch shape    *)
(* when decodes are scheduled in this step and no prefill is.              *)
(***************************************************************************)
Padded(r) ==
  /\ NumSpec > 0 /\ NumTokens(r) = 1
  /\ ~plan.prefill /\ Scheduled(plan) \ (plan.new \union plan.resumed) # {}
  /\ NumSpec + 2 <= MaxModelLen

WaitingTokens(r) == IF Padded(r) THEN NumSpec + 1 ELSE Min({NumTokens(r), plan.budget})

CanAdmit(r) ==
  /\ WaitingTokens(r) <= plan.budget
  /\ NewBlocks(r, 0, WaitingTokens(r)) <= FreeBlocks
  /\ ReserveFullIsl => CeilDiv(NumTokens(r), BlockSize) <= FreeBlocks

AdmitWaiting ==
  /\ pc = "schedule" /\ MoreWaiting
  /\ LET r == NextWaiting
         n == WaitingTokens(r)
     IN /\ ~OwedOutput(r) /\ CanAdmit(r)
        /\ running' = Append(running, r)
        /\ req' = [req EXCEPT ![r].status = "running", ![r].blocks = @ + NewBlocks(r, 0, n)]
        /\ plan' = [plan EXCEPT !.idx = @ + 1, !.budget = @ - n, !.n[r] = n,
                                !.spec[r] = IF Padded(r) THEN Padding ELSE NoDraft,
                                !.new = IF req[r].status = "waiting" THEN @ \union {r} ELSE @,
                                !.resumed = IF req[r].status = "waiting" THEN @ ELSE @ \union {r}]
  /\ PopWaiting
  /\ UNCHANGED <<finishedIds, resets, pc, queue, takeDrafts, ranks>>

RefuseWaiting ==
  /\ pc = "schedule" /\ MoreWaiting
  /\ ~OwedOutput(NextWaiting) /\ ~CanAdmit(NextWaiting)
  /\ plan' = [plan EXCEPT !.stop = TRUE]
  /\ UNCHANGED <<scheduler, pc, queue, takeDrafts, ranks>>

---------------------------------------------------------------------------
\* Mutation: drafts count as sent.
SentEndWithDrafts(r) == req[r].computed + plan.n[r]

\* The end of r's real tokens scheduled now, and of what was sent of r before.
SentEnd(r) == req[r].computed + plan.n[r] - plan.spec[r].len
SentFrom(r) == Max({req[r].sent, PromptLen[r]})

\* Mutation: only the tokens scheduled in this step are sent.
NewTokensOfStep(r) ==
  LET last == Min({SentEnd(r), NumTokens(r)})
  IN SubSeq(req[r].output, Max({req[r].computed - PromptLen[r], 0}) + 1, last - PromptLen[r])

(***************************************************************************)
(* _make_cached_request_data: what is sent of a request the ranks already  *)
(* know: every output token up to the last real one scheduled now that was *)
(* not sent before.                                                        *)
(***************************************************************************)
NewTokens(r) ==
  LET last == Min({SentEnd(r), NumTokens(r)})
  IN SubSeq(req[r].output, SentFrom(r) - PromptLen[r] + 1, last - PromptLen[r])

Known == Scheduled(plan) \ plan.new

Batch ==
  [n |-> plan.n, spec |-> plan.spec, new |-> plan.new, resumed |-> plan.resumed,
   computed |-> [r \in Requests |-> req[r].computed],
   newTokens |-> [r \in Requests |-> IF r \in Known THEN NewTokens(r) ELSE <<>>],
   numOutput |-> [r \in Requests |-> Len(req[r].output)],
   finished |-> finishedIds]

\* _update_after_schedule: the counters advance as if nothing will be rejected.
UpdatedAfterSchedule(r) ==
  IF plan.n[r] = 0 THEN req[r] ELSE
  [req[r] EXCEPT !.computed = @ + plan.n[r], !.inFlight = @ + plan.n[r],
                 !.chunk = req[r].computed + plan.n[r] < NumTokens(r),
                 !.sent = IF r \in Known THEN Max({SentFrom(r), SentEnd(r)}) ELSE @]

(***************************************************************************)
(* The end of schedule() and what step_with_batch_queue does with the      *)
(* batch: counters advance (_update_after_schedule), the batch is issued   *)
(* to every rank and queued, drafts are wanted unless every request of the *)
(* batch is still inside its prompt, and the engine blocks on the oldest   *)
(* batch only when the queue is full or nothing is left to schedule.       *)
(***************************************************************************)
IssueBatch ==
  /\ pc = "schedule" /\ ~MoreRunning /\ ~MoreWaiting
  /\ queue' = Append(queue, Batch)
  /\ req' = [r \in Requests |-> UpdatedAfterSchedule(r)]
  /\ skipped' = plan.passed \o skipped
  /\ finishedIds' = {}
  /\ takeDrafts' = \E r \in Scheduled(plan) : req[r].computed + plan.n[r] >= PromptLen[r]
  /\ pc' = IF Len(queue) + 1 < QueueSize /\ (Scheduled(plan) # {} \/ HasUnfinished \/ plan.passed # <<>>)
             THEN "post" ELSE "collect"
  /\ plan' = EmptyPlan
  /\ UNCHANGED <<running, waiting, resets, ranks>>

\* Nothing to schedule, batches in flight: block on the oldest.
DrainQueue ==
  /\ pc = "inputs"
  /\ ~HasRequests /\ queue # <<>>
  /\ pc' = "collect"
  /\ takeDrafts' = FALSE
  /\ UNCHANGED <<scheduler, plan, queue, ranks>>

---------------------------------------------------------------------------
(* A rank executes the next batch: _update_states, the forward pass and, on *)
(* the last rank, sampling and drafting.                                    *)

\* Tokens of the request before the ones the batch computes drafts for.
Base(b, r) == b.computed[r] + b.n[r] - b.spec[r].len

(***************************************************************************)
(* What rank k knows of r's output after _update_states(b).  The last rank *)
(* samples, so it only drops what the scheduler discarded.  The others get *)
(* the tokens from the scheduler, less those they already have.            *)
(***************************************************************************)
UpdatedHistory(k, b, r) ==
  LET known == history[k][r]
      sent == b.newTokens[r]
      drop == Max({0, PromptLen[r] + Len(known) - (Base(b, r) - Len(sent))})
  IN IF r \in b.new THEN <<>>
     ELSE IF r \notin Scheduled(b) THEN known
     ELSE IF k = LastRank THEN SubSeq(known, 1, Min({Len(known), b.numOutput[r]}))
     ELSE known \o SubSeq(sent, drop + 1, Len(sent))

(***************************************************************************)
(* The request's row of the persistent batch, which inputs are read from.  *)
(* A request that was not in the persistent batch, or is resumed, gets a   *)
(* fresh row from its state; the others have theirs updated in place.      *)
(***************************************************************************)
UpdatedRow(k, b, r) ==
  LET state == UpdatedHistory(k, b, r)
      added == SubSeq(state, Len(history[k][r]) + 1, Len(state))
  IN IF r \notin Scheduled(b) THEN <<>>
     ELSE IF r \in b.new \union b.resumed \/ r \notin batchReqs[k] THEN state
     ELSE IF k # LastRank THEN row[k][r] \o added
     ELSE IF Len(state) < Len(history[k][r]) THEN state ELSE row[k][r]

\* Mutation: every chunk of a prompt samples.
SamplesEveryChunk(b, r) == r \in Scheduled(b)

\* discard_request_mask: a chunk that does not reach the end samples nothing.
Samples(b, r) ==
  /\ r \in Scheduled(b)
  /\ b.computed[r] + b.n[r] >= PromptLen[r] + Len(UpdatedHistory(LastRank, b, r))

(***************************************************************************)
(* What may be sampled for r: one token after Base plus one per accepted   *)
(* draft; padding is never accepted.                                       *)
(***************************************************************************)
SampledTokens(b, r) ==
  IF ~Samples(b, r) THEN {<<>>}
  ELSE LET accepted == IF b.spec[r].after = 0 THEN 0 ELSE b.spec[r].len
       IN UNION {{[i \in 1..m |-> <<Base(b, r) + i, v[i]>>] : v \in [1..m -> Vocab]}
                 : m \in 1..(accepted + 1)}

\* n-gram drafts follow the last token sampled; a request without one has none.
ProposedDrafts(b, r, out) ==
  IF out = <<>> THEN {NoDraft}
  ELSE {NoDraft} \union {[after |-> Base(b, r) + Len(out), len |-> m] : m \in 1..NumSpec}

UpdateStates(k, b) ==
  /\ cached' = [cached EXCEPT ![k] = (@ \ b.finished) \union b.new]
  /\ batchReqs' = [batchReqs EXCEPT ![k] = Scheduled(b)]
  /\ executed' = [executed EXCEPT ![k] = @ + 1]

ExecuteBatch(k) ==
  /\ k # LastRank
  /\ executed[k] < Len(queue)
  /\ k > 1 => executed[k] < executed[k - 1]
  /\ LET b == queue[executed[k] + 1]
     IN /\ UpdateStates(k, b)
        /\ history' = [history EXCEPT ![k] = [r \in Requests |->
             IF r \in b.finished THEN <<>> ELSE UpdatedHistory(k, b, r)]]
        /\ row' = [row EXCEPT ![k] = [r \in Requests |-> UpdatedRow(k, b, r)]]
  /\ UNCHANGED <<scheduler, engine, results, drafts>>

SampleBatch ==
  /\ executed[LastRank] < executed[LastRank - 1]
  /\ LET b == queue[executed[LastRank] + 1]
     IN \E out \in {f \in [Requests -> UNION {SampledTokens(b, r) : r \in Requests}] :
                      \A r \in Requests : f[r] \in SampledTokens(b, r)} :
        \E d \in {f \in [Requests -> UNION {ProposedDrafts(b, r, out[r]) : r \in Requests}] :
                    \A r \in Requests : f[r] \in ProposedDrafts(b, r, out[r])} :
          /\ UpdateStates(LastRank, b)
          /\ history' = [history EXCEPT ![LastRank] = [r \in Requests |->
               IF r \in b.finished THEN <<>> ELSE UpdatedHistory(LastRank, b, r) \o out[r]]]
          /\ row' = [row EXCEPT ![LastRank] = [r \in Requests |->
               UpdatedRow(LastRank, b, r) \o out[r]]]
          /\ results' = Append(results, out)
          /\ drafts' = IF Scheduled(b) = {} THEN drafts ELSE d
  /\ UNCHANGED <<scheduler, engine>>

---------------------------------------------------------------------------
(* update_from_output *)

(***************************************************************************)
(* _update_request_with_output: tokens are appended one by one until one   *)
(* stops the request (check_stop); the rest is trimmed.                    *)
(***************************************************************************)
StopsAt(r, out, i) ==
  \/ out[i][2] = Eos
  \/ Len(req[r].output) + i >= MaxTokens[r]
  \/ NumTokens(r) + i >= MaxModelLen

Stops(r, out) == {i \in 1..Len(out) : StopsAt(r, out, i)}

Kept(r, out) == IF Stops(r, out) = {} THEN out ELSE SubSeq(out, 1, Min(Stops(r, out)))

\* The drafts of b that were rejected: all but the accepted ones and the bonus token.
\* Mutation: the bonus token is counted as an accepted draft.
RejectedOffByOne(b, r, out) ==
  IF b.spec[r].len > 0 /\ out # <<>> THEN b.spec[r].len - Len(out) ELSE 0

Rejected(b, r, out) ==
  IF b.spec[r].len > 0 /\ out # <<>> THEN b.spec[r].len - (Len(out) - 1) ELSE 0

\* A preemption has reset the counter that a stale rejection would roll back.
RollsBack(r) == req[r].stale = 0 /\ req[r].computed > 0

\* Outputs return in the order of the batches, so the stale ones come first.
\* Mutation: the stale share is never returned.
StaleLeftKept(b, r) == req[r].stale

StaleLeft(b, r) == IF req[r].stale > 0 THEN req[r].stale - b.n[r] ELSE 0

(***************************************************************************)
(* A live request's state after the output of batch b: its share of the    *)
(* tokens in flight is returned, rejected drafts are rolled back, and the  *)
(* output is delivered or, when it is stale in drop mode, discarded.       *)
(***************************************************************************)
AfterOutput(b, r, out) ==
  LET returned == [req[r] EXCEPT !.inFlight = @ - b.n[r], !.stale = StaleLeft(b, r),
                     !.computed = IF RollsBack(r) THEN @ - Rejected(b, r, out) ELSE @]
      delivered == [returned EXCEPT !.output = @ \o Kept(r, out)]
  IN IF req[r].stale > 0 /\ req[r].dropStale THEN returned
     ELSE IF Stops(r, out) # {} THEN Freed(delivered) ELSE delivered

UpdateFromOutput ==
  /\ pc = "collect"
  /\ results # <<>>
  /\ LET b == Head(queue)
         out == Head(results)
         after == [r \in Requests |->
                     IF b.n[r] > 0 /\ Live(r) THEN AfterOutput(b, r, out[r]) ELSE req[r]]
         stopped == {r \in Requests : Live(r) /\ after[r].status = "finished"}
     IN /\ req' = after
        /\ running' = Without(running, stopped)
        /\ waiting' = Without(waiting, stopped)
        /\ skipped' = Without(skipped, stopped)
        /\ finishedIds' = finishedIds \union stopped
  /\ queue' = Tail(queue)
  /\ results' = Tail(results)
  /\ executed' = [k \in Ranks |-> executed[k] - 1]
  /\ pc' = "post"
  /\ UNCHANGED <<resets, plan, takeDrafts, drafts, cached, batchReqs, history, row>>

\* Mutation: the call does not wait for the batches issued after the one that drafted.
DraftsReadyAtOnce == TRUE

\* take_draft_token_ids is answered after every batch issued to the last rank.
DraftsReady == executed[LastRank] = Len(queue)

(***************************************************************************)
(* update_draft_token_ids: the drafts of a request that is gone or still   *)
(* has prompt chunks to compute are dropped.                               *)
(***************************************************************************)
UpdatedDrafts(r) ==
  IF r \in batchReqs[LastRank] /\ Live(r)
    THEN [req[r] EXCEPT !.spec = IF req[r].chunk THEN NoDraft ELSE drafts[r]]
    ELSE req[r]

\* post_step: fetching drafts is a blocking call to the last rank.
PostStep ==
  /\ pc = "post"
  /\ IF takeDrafts
       THEN /\ DraftsReady
            /\ req' = [r \in Requests |-> UpdatedDrafts(r)]
       ELSE UNCHANGED req
  /\ pc' = "inputs"
  /\ takeDrafts' = FALSE
  /\ UNCHANGED <<queues, finishedIds, resets, plan, queue, ranks>>

\* _process_input_queue: with no work left the engine waits for a client.
Idle ==
  /\ pc = "inputs"
  /\ ~HasRequests /\ queue = <<>>
  /\ UNCHANGED vars

---------------------------------------------------------------------------
ScheduleStep ==
  \/ PassRunning \/ ScheduleRunning
  \/ PassWaiting \/ AdmitWaiting \/ RefuseWaiting
  \/ IssueBatch

EngineStep ==
  BeginSchedule \/ ScheduleStep \/ DrainQueue \/ UpdateFromOutput \/ PostStep

Next ==
  \/ \E r \in Requests : AddRequest(r) \/ Abort(r)
  \/ ResetRunning
  \/ EngineStep
  \/ \E k \in Ranks : ExecuteBatch(k)
  \/ SampleBatch
  \/ Idle

(***************************************************************************)
(* The busy loop runs as long as there is work and every rank's process    *)
(* keeps executing what was issued to it.  Clients promise nothing.        *)
(***************************************************************************)
Fairness ==
  /\ WF_vars(EngineStep)
  /\ \A k \in Ranks : WF_vars(ExecuteBatch(k))
  /\ WF_vars(SampleBatch)

Spec == Init /\ [][Next]_vars /\ Fairness

---------------------------------------------------------------------------
(* Correctness *)

Draft == [after : Nat, len : 0..NumSpec]
Token == Nat \X Vocab

RequestState ==
  [status : {"new", "waiting", "running", "preempted", "finished"},
   output : Seq(Token), computed : Nat, spec : Draft, inFlight : Nat, stale : Nat,
   dropStale : BOOLEAN, chunk : BOOLEAN, sent : Nat, blocks : 0..NumBlocks]

BatchType ==
  [n : [Requests -> 0..TokenBudget], spec : [Requests -> Draft],
   new : SUBSET Requests, resumed : SUBSET Requests, computed : [Requests -> Nat],
   newTokens : [Requests -> Seq(Token)], numOutput : [Requests -> Nat],
   finished : SUBSET Requests]

\* Every variable has its type, the queues hold at most QueueSize batches.
TypeOK ==
  /\ req \in [Requests -> RequestState]
  /\ running \in Seq(Requests) /\ waiting \in Seq(Requests) /\ skipped \in Seq(Requests)
  /\ finishedIds \in SUBSET Requests
  /\ resets \in 0..MaxResets
  /\ pc \in {"inputs", "schedule", "collect", "post"}
  /\ plan.idx \in Nat /\ plan.budget \in 0..TokenBudget
  /\ plan.n \in [Requests -> 0..TokenBudget] /\ plan.spec \in [Requests -> Draft]
  /\ plan.new \subseteq Requests /\ plan.resumed \subseteq Requests
  /\ plan.passed \in Seq(Requests)
  /\ {plan.prefill, plan.preempted, plan.stop} \subseteq BOOLEAN
  /\ queue \in Seq(BatchType) /\ Len(queue) <= QueueSize
  /\ takeDrafts \in BOOLEAN
  /\ results \in Seq([Requests -> Seq(Token)])
  /\ drafts \in [Requests -> Draft]
  /\ executed \in [Ranks -> 0..QueueSize]
  /\ cached \in [Ranks -> SUBSET Requests]
  /\ batchReqs \in [Ranks -> SUBSET Requests]
  /\ history \in [Ranks -> [Requests -> Seq(Token)]]
  /\ row \in [Ranks -> [Requests -> Seq(Token)]]

(***************************************************************************)
(* What a request is given is a sequence of tokens sampled for consecutive *)
(* positions: nothing is delivered twice, skipped or out of order, whatever*)
(* was preempted, rejected or in flight (scheduler.py, update_from_output).*)
(***************************************************************************)
InOrder(r, s) == \A i \in 1..Len(s) : s[i][1] = PromptLen[r] + i

OutputInOrder == \A r \in Requests : InOrder(r, req[r].output)

(***************************************************************************)
(* Every rank that executes a batch knows the requests in it, and reads    *)
(* from its own copy of their tokens exactly the tokens the scheduler has  *)
(* for the positions the batch computes (gpu_model_runner.py,              *)
(* _update_states; scheduler.py, _make_cached_request_data).               *)
(***************************************************************************)
InputsKnown ==
  \A k \in Ranks : executed[k] > 0 =>
    LET b == queue[executed[k]]
    IN \A r \in Scheduled(b) :
         LET m == Base(b, r) - PromptLen[r]
         IN /\ r \in cached[k]
            /\ m <= Len(row[k][r])
            /\ Live(r) /\ m > 0 =>
                 m <= Len(req[r].output) /\ SubSeq(row[k][r], 1, m) = SubSeq(req[r].output, 1, m)

\* Sampled and received tokens land in the row at their own position.
RowsInOrder == \A k \in Ranks, r \in Requests : InOrder(r, row[k][r])

(***************************************************************************)
(* Tokens of r in the oldest i batches in flight.                          *)
(***************************************************************************)
InFlight(r, i) == Sum([j \in 1..Len(queue) |-> queue[j].n[r]], 1..i)

(***************************************************************************)
(* The counters agree with the batches in flight: inFlight is what they    *)
(* hold of the request, and the stale share is that of the oldest batches, *)
(* so that outputs, which return in order, are told apart correctly        *)
(* (scheduler.py, _preempt_request and update_from_output).                *)
(***************************************************************************)
InFlightAccounted ==
  \A r \in Requests : Live(r) =>
    /\ req[r].inFlight = InFlight(r, Len(queue))
    /\ \E i \in 0..Len(queue) : req[r].stale = InFlight(r, i)

(***************************************************************************)
(* At most one batch in flight samples for a request's next position:      *)
(* the engine schedules ahead of outputs, never over them (scheduler.py,   *)
(* the dsv41 guard of the running loop and the stale check of the waiting  *)
(* loop).                                                                  *)
(***************************************************************************)
FreshSamples(r) ==
  {i \in 1..Len(queue) :
     /\ queue[i].n[r] > 0
     /\ InFlight(r, i) > req[r].stale
     /\ queue[i].computed[r] + queue[i].n[r] >= PromptLen[r] + queue[i].numOutput[r]}

OneSampleInFlight ==
  \A r \in Requests : Live(r) => Cardinality(FreshSamples(r)) <= 1

(***************************************************************************)
(* Once a running request past its prompt has all its outputs, exactly one *)
(* token, the last, is left to compute: every rejected draft was rolled    *)
(* back once and no stale rejection was applied.                           *)
(***************************************************************************)
OneTokenToCompute ==
  \A r \in Requests :
    req[r].status = "running" /\ req[r].inFlight = req[r].stale /\ ~req[r].chunk
      /\ plan.n[r] = 0
      => req[r].computed = NumTokens(r) - 1

\* Drafts are only ever verified after the token they were proposed for.
DraftsFollowHistory ==
  \A i \in 1..Len(queue), r \in Requests :
    queue[i].spec[r].after # 0 => queue[i].spec[r].after = Base(queue[i], r)

(***************************************************************************)
(* The KV pool is never overcommitted, requests outside running hold none  *)
(* of it, and a running request's blocks cover the tokens it has computed  *)
(* or in flight.                                                           *)
(***************************************************************************)
KVBacked ==
  /\ FreeBlocks >= 0
  /\ \A r \in Requests :
       IF req[r].status = "running"
         THEN req[r].blocks * BlockSize >= req[r].computed + plan.n[r]
         ELSE req[r].blocks = 0

\* Every request that is added is eventually finished.
EveryRequestFinishes == \A r \in Requests : Live(r) ~> req[r].status = "finished"

\* Every rank eventually drops the state of a finished request.
RanksForget ==
  \A r \in Requests, k \in Ranks :
    req[r].status = "finished" ~> r \notin cached[k]
===========================================================================
