------------------------- MODULE PipelineInvariant -------------------------
(***************************************************************************)
(* The inductive invariant of PipelineEngine (TypedOver, Shape, Books,     *)
(* Progress, Drafting, Copied), and its steps as the proofs see them: what *)
(* one request goes through when nothing is issued or returned, when a     *)
(* batch is issued, executed and sampled, and when its output comes back.  *)
(***************************************************************************)
EXTENDS PipelineEngine, DataTheorems

---------------------------------------------------------------------------
(* The parts of the inductive invariant *)

DraftOver(P) == [after : P, len : 0..NumSpec]
TokenOver(P) == P \X Vocab

RequestOver(P) ==
  [status : {"new", "waiting", "running", "preempted", "finished"},
   output : Seq(TokenOver(P)), computed : P, spec : DraftOver(P), inFlight : P, stale : P,
   dropStale : BOOLEAN, chunk : BOOLEAN, sent : Nat, blocks : Nat]

PlanOver(P) ==
  [idx : Nat, budget : 0..TokenBudget, n : [Requests -> 0..TokenBudget],
   spec : [Requests -> DraftOver(P)], new : SUBSET Requests, resumed : SUBSET Requests,
   passed : Seq(Requests), prefill : BOOLEAN, preempted : BOOLEAN, stop : BOOLEAN]

BatchOver(P) ==
  [n : [Requests -> 0..TokenBudget], spec : [Requests -> DraftOver(P)],
   new : SUBSET Requests, resumed : SUBSET Requests, computed : [Requests -> P],
   newTokens : [Requests -> Seq(TokenOver(P))], numOutput : [Requests -> Nat],
   finished : SUBSET Requests]

SchedulerOver(P) ==
  /\ req \in [Requests -> RequestOver(P)]
  /\ running \in Seq(Requests) /\ waiting \in Seq(Requests) /\ skipped \in Seq(Requests)
  /\ finishedIds \in SUBSET Requests
  /\ resets \in 0..MaxResets
  /\ pc \in {"inputs", "schedule", "collect", "post"}
  /\ plan \in PlanOver(P)
  /\ takeDrafts \in BOOLEAN

RanksOver(P) ==
  /\ queue \in Seq(BatchOver(P))
  /\ results \in Seq([Requests -> Seq(TokenOver(P))])
  /\ drafts \in [Requests -> DraftOver(P)]
  /\ executed \in [Ranks -> Nat]
  /\ cached \in [Ranks -> SUBSET Requests]
  /\ batchReqs \in [Ranks -> SUBSET Requests]
  /\ history \in [Ranks -> [Requests -> Seq(TokenOver(P))]]
  /\ row \in [Ranks -> [Requests -> Seq(TokenOver(P))]]

TypedOver(P) == SchedulerOver(P) /\ RanksOver(P)

\* Batches are executed in order, the last rank's results are those of the oldest ones.
Order ==
  /\ \A k \in Ranks : executed[k] <= Len(queue)
  /\ \A k, l \in Ranks : k <= l => executed[l] <= executed[k]
  /\ Len(results) = executed[LastRank]
  /\ IF pc = "collect" THEN Len(queue) \in 1..QueueSize ELSE Len(queue) < QueueSize

Apart(s, t) == \A r \in Requests : In(r, s) => ~In(r, t)
Only(s, S) == \A r \in Requests : In(r, s) => req[r].status \in S
WaitingQueue(s) == NoRepeat(s) /\ Only(s, {"waiting", "preempted"})

\* A request is in at most one queue, the one its status tells.
Queued ==
  /\ NoRepeat(running) /\ Only(running, {"running"})
  /\ WaitingQueue(waiting) /\ WaitingQueue(skipped) /\ WaitingQueue(plan.passed)
  /\ Apart(waiting, skipped) /\ Apart(waiting, plan.passed) /\ Apart(skipped, plan.passed)

\* The plan names running requests, before idx in the queue.
Planned ==
  /\ pc # "schedule" => plan = EmptyPlan
  /\ plan.idx \in 1..(Len(running) + 1)
  /\ \A r \in Requests : plan.n[r] > 0 => \E i \in 1..(plan.idx - 1) : running[i] = r
  /\ \A r \in plan.new : plan.n[r] > 0 /\ req[r].output = <<>>
  /\ \A r \in Requests : plan.n[r] = 0 => plan.spec[r] = NoDraft

\* A request that does not run has nothing computed, one that never ran nothing at all.
AtRest ==
  \A r \in Requests :
    /\ req[r].status = "new" => req[r] = NewRequest
    /\ req[r].status \in {"new", "waiting"} =>
         req[r].output = <<>> /\ \A j \in 1..Len(queue) : queue[j].n[r] = 0
    /\ req[r].status \in {"new", "waiting", "preempted"} => req[r].computed = 0

\* Only what is finished is announced as finished.
Announced ==
  \A r \in Requests :
    r \in finishedIds \/ (\E j \in 1..Len(queue) : r \in queue[j].finished)
      => req[r].status = "finished"

Numbers(P) == P = Int \/ P = Nat

\* What IssueBatch does to a request of the batch.
Advanced(q, n, chunk, sent) ==
  [q EXCEPT !.computed = @ + n, !.inFlight = @ + n, !.chunk = chunk, !.sent = sent]

AdvancedFrom(q, a, P, n, chunk) ==
  /\ a \in RequestOver(P)
  /\ a.status = q.status /\ a.blocks = q.blocks /\ a.spec = q.spec
  /\ a.computed = q.computed + n /\ a.inFlight = q.inFlight + n
  /\ a.stale = q.stale /\ a.dropStale = q.dropStale
  /\ a.chunk = chunk /\ a.output = q.output

\* The batch a rank executes next.
NextBatch(k) == queue[executed[k] + 1]

\* What SampleBatch leaves behind, out being what it sampled.
Sampled(b, out) ==
  /\ results' = Append(results, out)
  /\ \A r \in Requests : out[r] \in SampledTokens(b, r)
  /\ \A r \in Requests : history'[LastRank][r] =
       IF r \in b.finished THEN <<>> ELSE UpdatedHistory(LastRank, b, r) \o out[r]
  /\ \A r \in Requests : row'[LastRank][r] = UpdatedRow(LastRank, b, r) \o out[r]
  /\ Scheduled(b) # {} => \A r \in Requests : drafts'[r] \in ProposedDrafts(b, r, out[r])
  /\ Scheduled(b) = {} => drafts' = drafts

\* The positions of what the batch samples are of the type P.
BaseIn(P, b) == \A r \in Requests : Base(b, r) \in P

Discards(r) == req[r].stale > 0 /\ req[r].dropStale

\* The counters after the output of b, and the request with n of them in flight and so on.
Returned(q, n, stale, computed) ==
  [q EXCEPT !.inFlight = n, !.stale = stale, !.computed = computed]

ComputedAfter(b, r, o) ==
  IF RollsBack(r) THEN req[r].computed - Rejected(b, r, o) ELSE req[r].computed

\* The counters of r after the output of b are of the type P.
CountersIn(P, b, r, o) ==
  req[r].inFlight - b.n[r] \in P /\ StaleLeft(b, r) \in P /\ ComputedAfter(b, r, o) \in P

\* a is the request r after the output o of the batch b.
Processed(a, b, r, o) ==
  /\ a.inFlight = req[r].inFlight - b.n[r] /\ a.stale = StaleLeft(b, r)
  /\ a.computed = ComputedAfter(b, r, o)
  /\ a.spec = req[r].spec /\ a.dropStale = req[r].dropStale /\ a.chunk = req[r].chunk
  /\ Discards(r) =>
       a.output = req[r].output /\ a.status = req[r].status /\ a.blocks = req[r].blocks
  /\ ~Discards(r) =>
       /\ a.output = req[r].output \o Kept(r, o)
       /\ a.status = IF Stops(r, o) # {} THEN "finished" ELSE req[r].status
       /\ a.blocks = IF Stops(r, o) # {} THEN 0 ELSE req[r].blocks

\* The oldest batch in flight, and its output.
Oldest == queue[1]
OldestOutput(r) == results[1][r]
Updated(r) == Oldest.n[r] > 0 /\ Live(r)
Stopped == {r \in Requests : Live(r) /\ req'[r].status = "finished"}
OldestIn(P) == \A r \in Requests : Updated(r) => CountersIn(P, Oldest, r, OldestOutput(r))

\* The request q with the drafts d.
Drafted(q, d) == [q EXCEPT !.spec = d]
Fetched(r) == takeDrafts /\ r \in batchReqs[LastRank] /\ Live(r)
FetchedDrafts(r) == IF req[r].chunk THEN NoDraft ELSE drafts[r]

---------------------------------------------------------------------------
(* The shape of the state: queues, plan and batches in step with each other *)

Shape == Order /\ Queued /\ Planned /\ AtRest /\ Announced

---------------------------------------------------------------------------
(* The steps, seen by one request *)

\* Nothing is issued, sampled or returned.
Still ==
  /\ queue' = queue /\ results' = results /\ drafts' = drafts
  /\ executed'[LastRank] = executed[LastRank] /\ batchReqs'[LastRank] = batchReqs[LastRank]
  /\ history'[LastRank] = history[LastRank]

Untouched(r) ==
  req'[r] = req[r] /\ plan'.n[r] = plan.n[r] /\ plan'.spec[r] = plan.spec[r]

Added(r) ==
  /\ req[r] = NewRequest /\ req'[r] = [NewRequest EXCEPT !.status = "waiting"]
  /\ plan.n[r] = 0 /\ plan'.n[r] = 0

Aborted(r) ==
  /\ Live(r) /\ req'[r].status = "finished" /\ req'[r].blocks = 0
  /\ req'[r].computed = req[r].computed /\ req'[r].output = req[r].output
  /\ plan.n[r] = 0 /\ plan'.n[r] = 0

Evicted(r) ==
  /\ req[r].status = "running" /\ req'[r].status = "preempted" /\ req'[r].blocks = 0
  /\ req'[r].computed = 0 /\ req'[r].spec = NoDraft
  /\ req'[r].inFlight = req[r].inFlight /\ req'[r].stale = req[r].inFlight
  /\ req'[r].output = req[r].output
  /\ ~req'[r].dropStale => ~(req[r].dropStale /\ req[r].stale > 0)
  /\ plan.n[r] = 0 /\ plan'.n[r] = 0

\* The tokens in flight, the output and the progress of r stay as they are.
SameProgress(r) ==
  /\ req'[r].computed = req[r].computed /\ req'[r].output = req[r].output
  /\ req'[r].inFlight = req[r].inFlight /\ req'[r].stale = req[r].stale
  /\ req'[r].dropStale = req[r].dropStale /\ req'[r].chunk = req[r].chunk

GivenTokens(r) ==
  /\ req[r].status = "running" /\ req'[r].status = "running" /\ SameProgress(r)
  /\ req'[r].spec = NoDraft
  /\ plan.n[r] = 0 /\ plan'.n[r] \in Nat /\ plan'.n[r] > 0
  /\ req[r].computed < NumTokens(r)
  /\ plan'.n[r] + req[r].computed <= NumTokens(r) + req[r].spec.len
  /\ plan'.spec[r] = ScheduledDrafts(r, plan'.n[r])
  /\ req'[r].blocks = req[r].blocks + NewBlocks(r, req[r].computed, plan'.n[r])

TakenIn(r) ==
  /\ req[r].status \in {"waiting", "preempted"} /\ req'[r].status = "running"
  /\ SameProgress(r) /\ req'[r].spec = req[r].spec
  /\ ~OwedOutput(r)
  /\ plan.n[r] = 0 /\ plan'.n[r] \in Nat /\ plan'.n[r] > 0
  /\ \/ plan'.n[r] = NumSpec + 1 /\ NumTokens(r) = 1 /\ plan'.spec[r] = Padding
     \/ plan'.n[r] <= NumTokens(r) /\ plan'.spec[r] = NoDraft
  /\ req'[r].blocks = req[r].blocks + NewBlocks(r, 0, plan'.n[r])

QuietStep(r) ==
  Untouched(r) \/ Added(r) \/ Aborted(r) \/ Evicted(r) \/ GivenTokens(r) \/ TakenIn(r)

---------------------------------------------------------------------------
(* What is in flight of a request *)

Flight(q, r, i) == Prefix([j \in 1..Len(q) |-> q[j].n[r]], i)

---------------------------------------------------------------------------
(* The counters of a request agree with the batches in flight *)

\* The counters of a, the state of r, are right for the batches in q.
CountersAgree(q, a, r) ==
  a.status # "finished" =>
    /\ a.inFlight = Flight(q, r, Len(q))
    /\ \E i \in 0..Len(q) : a.stale = Flight(q, r, i)
    /\ a.status # "running" => a.stale = a.inFlight
    /\ a.status = "running" /\ a.stale > 0 => a.dropStale

Accounted == \A r \in Requests : CountersAgree(queue, req[r], r)

---------------------------------------------------------------------------
(* What the last rank samples *)

\* o is what the batch b may sample of r: tokens after Base, one more than accepted drafts.
SampleOf(b, r, o) ==
  /\ \A i \in 1..Len(o) : o[i][1] = Base(b, r) + i
  /\ Len(o) <= 1 + (IF b.spec[r].after = 0 THEN 0 ELSE b.spec[r].len)
  /\ b.n[r] = 0 => o = <<>>

\* The results are those of the oldest batches.
SampledInPlace ==
  \A j \in 1..Len(results), r \in Requests : SampleOf(queue[j], r, results[j][r])

\* The blocks of a, the state of r, cover what is computed and n tokens more.
Covered(a, n) ==
  IF a.status = "running" THEN a.blocks * BlockSize >= a.computed + n ELSE a.blocks = 0

Backed == \A r \in Requests : Covered(req[r], plan.n[r])

BlocksOf(q) == [r \in Requests |-> q[r].blocks]
PoolUse(q) == Total(BlocksOf(q), Requests)

---------------------------------------------------------------------------
(* What a batch computes of a request, and what its output adds *)

\* n tokens from the position c on, with the drafts d, of a request of t tokens.
Fits(c, n, d, t) ==
  /\ c \in Nat /\ c < t /\ d.len < n /\ c + n <= t + d.len
  /\ c + n < t => d.len = 0
  /\ c + n >= t => c + n - d.len = t

BatchFits(b, r) ==
  IF b.n[r] > 0 THEN Fits(b.computed[r], b.n[r], b.spec[r], PromptLen[r] + b.numOutput[r])
                ELSE b.spec[r] = NoDraft /\ r \notin b.new

BatchesFit == \A j \in 1..Len(queue), r \in Requests : BatchFits(queue[j], r)

PlanFits ==
  \A r \in Requests :
    plan.n[r] > 0 => Fits(req[r].computed, plan.n[r], plan.spec[r], NumTokens(r))

LiveState(a) == a.status \in {"waiting", "running", "preempted"}
TokensOf(a, r) == PromptLen[r] + Len(a.output)

(***************************************************************************)
(* Of the batches in q that compute tokens of r, in the state a: those     *)
(* issued since it was last preempted, those whose output r will be given, *)
(* and those that sample.                                                  *)
(***************************************************************************)
FreshAt(q, a, r, j) == q[j].n[r] > 0 /\ Flight(q, r, j) > a.stale
DeliveredAt(q, a, r, j) == q[j].n[r] > 0 /\ (FreshAt(q, a, r, j) \/ ~a.dropStale)
ReachesAt(q, r, j) == q[j].computed[r] + q[j].n[r] >= PromptLen[r] + q[j].numOutput[r]

(***************************************************************************)
(* A batch in flight was planned from the output the request has now; the  *)
(* fresh ones follow each other up to what is computed; one that samples   *)
(* for the request is its last.                                            *)
(***************************************************************************)
LinkAt(q, a, r, j) ==
  /\ q[j].numOutput[r] = Len(a.output)
  /\ r \in q[j].new => a.output = <<>>
  /\ FreshAt(q, a, r, j) =>
       q[j].computed[r] + Flight(q, r, Len(q)) - Flight(q, r, j - 1) = a.computed
  /\ DeliveredAt(q, a, r, j) /\ ReachesAt(q, r, j) => Flight(q, r, j) = Flight(q, r, Len(q))

ChainOf(q, a, r) ==
  LiveState(a) => \A j \in 1..Len(q) : q[j].n[r] > 0 => LinkAt(q, a, r, j)

Chained == \A r \in Requests : ChainOf(queue, req[r], r)

(***************************************************************************)
(* The last rank, which knows k output tokens of r, has what the request   *)
(* was given and what is sampled and on its way to it; the results s hold  *)
(* tokens of the request where its batches sample.                         *)
(***************************************************************************)
KnownAt(q, s, a, r, k, j) ==
  /\ s[j][r] # <<>> <=> ReachesAt(q, r, j)
  /\ DeliveredAt(q, a, r, j) => k >= Len(a.output) + Len(s[j][r])

KnownOf(q, s, a, r, k) ==
  LiveState(a) =>
    /\ k >= Len(a.output)
    /\ \A j \in 1..Len(s) : q[j].n[r] > 0 => KnownAt(q, s, a, r, k, j)

KnownByLast ==
  \A r \in Requests : KnownOf(queue, results, req[r], r, Len(history[LastRank][r]))

\* A running request between two plans is inside its prompt or has one token left.
Paced(a, n, r) ==
  a.status = "running" /\ n = 0 =>
    /\ a.chunk => a.computed < TokensOf(a, r)
    /\ ~a.chunk => IF a.inFlight = a.stale THEN a.computed = TokensOf(a, r) - 1
                                           ELSE a.computed >= TokensOf(a, r)

InPace == \A r \in Requests : Paced(req[r], plan.n[r], r)

ComputedNat == \A r \in Requests : req[r].computed \in Nat

\* What links and results are in flight of r in the state a holds in the state z.
Continues(q, a, z, r) ==
  /\ LiveState(a) /\ z.output = a.output
  /\ \A j \in 1..Len(q) :
       /\ FreshAt(q, z, r, j) => FreshAt(q, a, r, j) /\ z.computed = a.computed
       /\ DeliveredAt(q, z, r, j) => DeliveredAt(q, a, r, j)

\* Nothing of r is in flight.
NoneInFlight(q, r) == \A j \in 1..Len(q) : q[j].n[r] = 0

---------------------------------------------------------------------------
(* What the counters and the pool rest on *)

Books == Accounted /\ SampledInPlace /\ Backed /\ PoolUse(req) <= NumBlocks

---------------------------------------------------------------------------
(* Progress when an output is taken *)

\* The output of the oldest batch gives r nothing.
NothingGiven(r) ==
  /\ req'[r].output = req[r].output /\ req'[r].computed = req[r].computed
  /\ req'[r].status = req[r].status
  /\ ~Discards(r) => ~ReachesAt(queue, r, 1)

\* It gives r the tokens o, or the first of them up to one that stops it.
TokensGiven(r, o) ==
  /\ o # <<>> /\ NoneInFlight(queue', r)
  /\ Base(Oldest, r) = TokensOf(req[r], r)
  /\ req'[r].output = req[r].output \o Kept(r, o)
  /\ req'[r].status = "finished" \/ (req'[r].status = req[r].status /\ Kept(r, o) = o)
  /\ Len(history[LastRank][r]) >= Len(req[r].output) + Len(o)
  /\ req'[r].computed \in Nat
  /\ req[r].status = "running" => /\ req'[r].computed = TokensOf(req[r], r) + Len(o) - 1
                                  /\ req'[r].inFlight = req'[r].stale

---------------------------------------------------------------------------
(* The batches behind the oldest one, when its output is taken *)

\* z is what a was, less the n tokens of the oldest batch.
Shifted(a, z, n) ==
  /\ LiveState(a) /\ z.output = a.output /\ z.computed = a.computed /\ z.dropStale = a.dropStale
  /\ a.stale \in Int /\ z.stale \in Int
  /\ z.stale = a.stale - n \/ ~(a.stale > 0)

---------------------------------------------------------------------------
(* One request when an output is taken *)

\* What a step has to establish of r.
Advances(r) ==
  /\ ChainOf(queue', req'[r], r)
  /\ KnownOf(queue', results', req'[r], r, Len(history'[LastRank][r]))
  /\ Paced(req'[r], plan'.n[r], r)
  /\ req'[r].computed \in Nat
  /\ InOrder(r, req'[r].output)

---------------------------------------------------------------------------
(* Progress *)

Progress ==
  /\ BatchesFit /\ PlanFits /\ Chained /\ KnownByLast /\ InPace /\ ComputedNat
  /\ OutputInOrder

---------------------------------------------------------------------------
(* Drafts follow what is known of a request *)

(***************************************************************************)
(* The drafts of r in the state a, of which n tokens are planned: they     *)
(* follow its last token, or the sample of a batch in flight that it will  *)
(* be given; s are the results of the oldest batches in q.                 *)
(***************************************************************************)
SampledAhead(q, s, a, r, j) ==
  FreshAt(q, a, r, j) /\ s[j][r] # <<>> /\ a.spec.after = TokensOf(a, r) + Len(s[j][r])

DraftFollows(q, s, a, r, n) ==
  LiveState(a) /\ a.spec # NoDraft =>
    /\ a.status = "running" /\ n = 0
    /\ \/ a.inFlight = a.stale /\ a.spec.after = TokensOf(a, r)
       \/ \E j \in 1..Len(s) : SampledAhead(q, s, a, r, j)

DraftsKnown == \A r \in Requests : DraftFollows(queue, results, req[r], r, plan.n[r])

\* The drafts of a plan or a batch: n tokens from c on, verified after the real ones.
FollowsOn(d, c, n) == d.after # 0 => d.after = c + n - d.len

PlanFollows == \A r \in Requests : FollowsOn(plan.spec[r], req[r].computed, plan.n[r])

(***************************************************************************)
(* The last rank's drafts are those of the last batch it executed.         *)
(***************************************************************************)
DraftsOfLast ==
  Len(results) > 0 =>
    LET b == queue[Len(results)]
    IN /\ batchReqs[LastRank] = Scheduled(b)
       /\ Scheduled(b) # {} =>
            \A r \in Requests : drafts[r] \in ProposedDrafts(b, r, results[Len(results)][r])

(***************************************************************************)
(* While drafts are wanted, the batch just issued is the last in flight,   *)
(* behind the one whose output the engine waits for, and none of its       *)
(* requests was preempted since.                                           *)
(***************************************************************************)
DraftsWanted ==
  takeDrafts =>
    /\ pc \in {"collect", "post"}
    /\ Len(queue) >= (IF pc = "collect" THEN 2 ELSE 1)
    /\ \A r \in Requests :
         Live(r) /\ queue[Len(queue)].n[r] > 0 => FreshAt(queue, req[r], r, Len(queue))

Drafting == DraftsKnown /\ PlanFollows /\ DraftsOfLast /\ DraftsWanted /\ DraftsFollowHistory

---------------------------------------------------------------------------
(* What the ranks know *)

\* The output tokens of r that b's forward reads, and how many precede the ones sent with b.
Needs(b, r) == Base(b, r) - PromptLen[r]
Starts(b, r) == Needs(b, r) - Len(b.newTokens[r])

Unfinished(r) == req[r].status # "finished"

\* A request the ranks were told of.
Met(r) == req[r].status \in {"running", "preempted"} /\ r \notin plan.new

(***************************************************************************)
(* The batches in flight: no tokens of a request are computed after it was *)
(* announced as finished, all its batches were planned from one output, an *)
(* empty one if it is new, and what is sent is tokens for consecutive      *)
(* positions.                                                              *)
(***************************************************************************)
SentInOrder(b, r) ==
  \A i \in 1..Len(b.newTokens[r]) : b.newTokens[r][i][1] = PromptLen[r] + Starts(b, r) + i

Tells(b, r) ==
  /\ b.n[r] > 0 => SentInOrder(b, r)
  /\ r \in b.new => b.numOutput[r] = 0 /\ b.newTokens[r] = <<>>

ToldOnce(q, r) ==
  /\ \A j \in 1..Len(q) : Tells(q[j], r)
  /\ \A i, j \in 1..Len(q) : r \in q[i].finished /\ i <= j => q[j].n[r] = 0
  /\ \A i, j \in 1..Len(q) : q[i].n[r] > 0 /\ q[j].n[r] > 0 => q[i].numOutput[r] = q[j].numOutput[r]

\* What is sent of r with the batches in flight is its output.
SentOf(q, a, r) ==
  \A j \in 1..Len(q) : q[j].n[r] > 0 =>
    \A i \in 1..Len(q[j].newTokens[r]) :
      /\ Starts(q[j], r) + i \in 1..Len(a.output)
      /\ q[j].newTokens[r][i] = a.output[Starts(q[j], r) + i]

\* Rank k, which has executed e batches, has or is sent x tokens of r before the j-th.
Gets(q, h, e, r, x, j) ==
  x <= Len(h) \/ \E i \in (e + 1)..(j - 1) : q[i].n[r] > 0 /\ x <= Needs(q[i], r)

\* Nor is it told of r later than it needs to be.
Hears(q, c, e, r, j) == r \in c \/ \E i \in (e + 1)..j : r \in q[i].new

\* The row is the history of a request in the persistent batch, which is the last executed one.
RowRight(q, e, c, B, h, w, r) ==
  /\ w = IF r \in B THEN h ELSE <<>>
  /\ InOrder(r, h)
  /\ e > 0 => /\ r \in B <=> q[e].n[r] > 0
              /\ q[e].n[r] > 0 => r \in c /\ Needs(q[e], r) <= Len(h)

Informed(q, c, e, met, r) ==
  /\ \A j \in (e + 1)..Len(q) : q[j].n[r] > 0 => Hears(q, c, e, r, j)
  /\ met => Hears(q, c, e, r, Len(q))

NoGap(q, h, e, unfinished, s, r) ==
  /\ \A j \in (e + 1)..Len(q) : q[j].n[r] > 0 => Gets(q, h, e, r, Starts(q[j], r), j)
  /\ unfinished => Gets(q, h, e, r, s - PromptLen[r], Len(q) + 1)

\* The last rank keeps what a batch was planned from.
Keeps(q, h, e, r) == \A j \in (e + 1)..Len(q) : q[j].n[r] > 0 => q[j].numOutput[r] <= Len(h)

\* What it sampled for a request follows what the request has.
SampledAfter(q, s, a, h, r) ==
  \A j \in 1..Len(s) : q[j].n[r] > 0 /\ DeliveredAt(q, a, r, j) =>
    \A i \in 1..Len(s[j][r]) : h[Len(a.output) + i] = s[j][r][i]

TokensSent(r) == ToldOnce(queue, r) /\ (Unfinished(r) => SentOf(queue, req[r], r))

\* What rank k has of r.
RankCopies(k, r) ==
  /\ RowRight(queue, executed[k], cached[k], batchReqs[k], history[k][r], row[k][r], r)
  /\ Informed(queue, cached[k], executed[k], Met(r), r)
  /\ k # LastRank =>
       /\ NoGap(queue, history[k][r], executed[k], Unfinished(r), SentFrom(r), r)
       /\ Unfinished(r) => PrefixOf(history[k][r], req[r].output)

LastCopies(r) ==
  /\ Keeps(queue, history[LastRank][r], executed[LastRank], r)
  /\ Unfinished(r) => /\ PrefixOf(req[r].output, history[LastRank][r])
                      /\ SampledAfter(queue, results, req[r], history[LastRank][r], r)

Copied ==
  /\ \A r \in Requests : TokensSent(r) /\ LastCopies(r)
  /\ \A k \in Ranks, r \in Requests : RankCopies(k, r)

\* What has been sent of a request that is not finished stays as it is.
SameSent(r) ==
  /\ Unfinished(r)' => Unfinished(r) /\ req'[r].sent = req[r].sent
  /\ Met(r)' => Met(r)

\* What the scheduler sends of r with the batch b.
Carries(b, r) ==
  /\ Needs(b, r) <= Len(req[r].output)
  /\ \A i \in 1..Len(b.newTokens[r]) :
       /\ Starts(b, r) + i \in 1..Len(req[r].output)
       /\ b.newTokens[r][i] = req[r].output[Starts(b, r) + i]
  /\ r \in b.new => req[r].output = <<>> /\ b.newTokens[r] = <<>> /\ req'[r].sent = req[r].sent
  /\ r \notin b.new => /\ Starts(b, r) <= SentFrom(r) - PromptLen[r]
                       /\ \/ SentFrom(r)' = SentFrom(r)
                          \/ SentFrom(r)' - PromptLen[r] = Needs(b, r)

\* p continues q.
Continued(q, p) == Len(q) <= Len(p) /\ \A j \in 1..Len(q) : p[j] = q[j]

\* What a batch that is issued leaves behind.
Issued(b) ==
  /\ queue' \in Seq(BatchOver(Int)) /\ b \in BatchOver(Int) /\ Len(queue') = Len(queue) + 1
  /\ queue'[Len(queue) + 1] = b /\ Continued(queue, queue')
  /\ b.n = plan.n /\ b.new = plan.new /\ b.finished = finishedIds /\ plan'.new = {}
  /\ \A r \in Requests :
       /\ b.numOutput[r] = Len(req[r].output)
       /\ req'[r].status = req[r].status /\ req'[r].output = req[r].output
       /\ req'[r].stale = req[r].stale /\ req'[r].dropStale = req[r].dropStale
       /\ plan.n[r] \in Nat
       /\ plan.n[r] = 0 => req'[r] = req[r] /\ r \notin plan.new
       /\ plan.n[r] > 0 => req[r].status = "running"
  /\ UNCHANGED <<results, drafts, executed, cached, batchReqs, history, row>>

---------------------------------------------------------------------------
(* Steps that neither issue nor return a batch *)

\* What the ranks were sent of r, and what r is owed, stays as it is.
Undisturbed(r) ==
  /\ Met(r)' => Met(r)
  /\ Unfinished(r)' =>
       /\ Unfinished(r) /\ req'[r].output = req[r].output /\ SentFrom(r)' = SentFrom(r)
       /\ \A j \in 1..Len(queue) : DeliveredAt(queue, req'[r], r, j) =>
                                     DeliveredAt(queue, req[r], r, j)

\* Rank k takes the batch b, the next one.
Takes(k, b) ==
  /\ b = NextBatch(k) /\ b \in BatchOver(Int) /\ executed[k] \in Nat
  /\ executed[k] + 1 \in 1..Len(queue)
  /\ executed'[k] = executed[k] + 1
  /\ cached'[k] = (cached[k] \ b.finished) \union b.new
  /\ batchReqs'[k] = Scheduled(b)
  /\ \A l \in Ranks : l # k => /\ executed'[l] = executed[l] /\ cached'[l] = cached[l]
                               /\ batchReqs'[l] = batchReqs[l] /\ history'[l] = history[l]
                               /\ row'[l] = row[l]

\* What a rank that is sent tokens has of r after the batch b.
Copies(k, b, r) ==
  /\ history'[k][r] \in Seq(TokenOver(Int)) /\ InOrder(r, history'[k][r])
  /\ row'[k][r] = IF b.n[r] > 0 THEN history'[k][r] ELSE <<>>
  /\ b.n[r] > 0 => Needs(b, r) <= Len(history'[k][r])
  /\ NoGap(queue, history'[k][r], executed'[k], Unfinished(r), SentFrom(r), r)
  /\ Unfinished(r) => PrefixOf(history'[k][r], req[r].output)

\* What the last rank has of r after it sampled the batch b.
SampleLeaves(b, r) ==
  /\ InOrder(r, history'[LastRank][r])
  /\ row'[LastRank][r] = IF b.n[r] > 0 THEN history'[LastRank][r] ELSE <<>>
  /\ b.n[r] > 0 => Needs(b, r) <= Len(history'[LastRank][r])
  /\ Keeps(queue, history'[LastRank][r], executed'[LastRank], r)
  /\ Unfinished(r) => /\ PrefixOf(req[r].output, history'[LastRank][r])
                      /\ SampledAfter(queue, results', req[r], history'[LastRank][r], r)

\* The sample out of the batch b is the next result.
NextResult(b, out) ==
  /\ Sampled(b, out) /\ out \in [Requests -> Seq(TokenOver(Int))]
  /\ executed[LastRank] = Len(results) /\ Len(results) \in Nat
  /\ Len(results') = Len(results) + 1 /\ results'[Len(results) + 1] = out
  /\ \A j \in 1..Len(results) : results'[j] = results[j]
  /\ \A r \in Requests : SampleOf(b, r, out[r])

---------------------------------------------------------------------------
(* An output is taken: the batches in flight move up by one *)

\* p is what is left of q when its first batch is gone.
Behind(p, q) ==
  /\ Len(p) \in Nat /\ Len(q) = Len(p) + 1
  /\ \A j \in 1..Len(p) : p[j] = q[j + 1]

\* A request that goes on without tokens of the oldest batch, or with all it sampled.
GoesWithout(r) ==
  /\ req'[r].output = req[r].output
  /\ LiveState(req[r]) => Shifted(req[r], req'[r], queue[1].n[r])

Gains(r) ==
  /\ DeliveredAt(queue, req[r], r, 1) /\ NoneInFlight(queue', r)
  /\ req'[r].output = req[r].output \o OldestOutput(r)
  /\ Len(req[r].output) + Len(OldestOutput(r)) <= Len(history[LastRank][r])
============================================================================
