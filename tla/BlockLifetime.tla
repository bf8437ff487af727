--------------------------- MODULE BlockLifetime ---------------------------
(***************************************************************************)
(* Which KV blocks of the sliding-window group a request holds, from the   *)
(* scheduler's side: allocation, eviction behind the window, preemption,   *)
(* forced reset, abort and finish, with several batches in flight.  The    *)
(* counters of PipelineEngine that these depend on are kept; which of the  *)
(* requests that may be scheduled next is left open.                       *)
(*                                                                         *)
(* Sequence numbers of steps are kept relative to processed_step_seq: what *)
(* is at most 0 has been processed.                                        *)
(*                                                                         *)
(* A token is known by its version: the same position may be sampled again *)
(* after a reset, or belong to another request with the same id.           *)
(***************************************************************************)
EXTENDS Integers, FiniteSets, FiniteSetsExt, Functions, Sequences, SequencesExt

CONSTANTS
  Requests,
  BlockIds,      \* blocks of the pool, the null block aside
  Null,          \* the null block
  BlockSize,
  Window,        \* sliding window
  PromptLen,
  MaxLen,        \* tokens of a request at which it finishes
  NumSpec,       \* drafts of a step at most
  Budget,        \* max_num_batched_tokens
  QueueSize,     \* batches in flight
  DeferFree,     \* values of defer_block_free to check
  MaxVersion     \* bound: forced resets and resubmissions, of all requests

ASSUME BlockAssumption ==
  /\ {BlockSize, Window, PromptLen, Budget, QueueSize} \subseteq Nat \ {0}
  /\ {NumSpec, MaxVersion} \subseteq Nat
  /\ IsFiniteSet(BlockIds) /\ Null \notin BlockIds
  /\ MaxLen \in Nat /\ PromptLen < MaxLen
  /\ DeferFree \subseteq BOOLEAN

VARIABLES
  status,        \* per request: "absent", "waiting", "running", "preempted"
  hist,          \* per request: the versions of its tokens
  version,       \* per request: of the tokens sampled from now on
  computed,      \* num_computed_tokens
  inFlight, stale, drop, \* num_in_flight_tokens, num_stale_output_tokens, drop_stale_output
  blocks,        \* per request: its block table at the KV manager, Null where evicted
  free,          \* the free blocks
  deferFree,     \* defer_block_free
  lastSeq,       \* per request: last_sched_seq
  schedSeq,      \* sched_step_seq
  deferred,      \* deferred_frees: fences and blocks
  finishedIds,   \* ids to tell the ranks
  plan,          \* the batch being put together
  batches        \* batches issued and not processed, oldest first

requestVars == <<status, hist, version, computed, inFlight, stale, drop>>
poolVars == <<blocks, free, deferFree, lastSeq, schedSeq, deferred>>
schedulerVars == <<requestVars, poolVars, finishedIds, plan, batches>>

Wrong == -1      \* the version of a draft that will be rejected

EmptyPlan == [rows |-> {}, preempted |-> FALSE, budget |-> Budget]

InitScheduler ==
  /\ status = [r \in Requests |-> "waiting"]
  /\ hist = [r \in Requests |-> [p \in 1..PromptLen |-> 0]]
  /\ version = [r \in Requests |-> 0]
  /\ computed = [r \in Requests |-> 0]
  /\ inFlight = [r \in Requests |-> 0]
  /\ stale = [r \in Requests |-> 0]
  /\ drop = [r \in Requests |-> FALSE]
  /\ blocks = [r \in Requests |-> <<>>]
  /\ free = BlockIds
  /\ deferFree \in DeferFree
  /\ lastSeq = [r \in Requests |-> 0]
  /\ schedSeq = 0 /\ deferred = {}
  /\ finishedIds = {}
  /\ plan = EmptyPlan
  /\ batches = <<>>

---------------------------------------------------------------------------
(* The KV manager *)

Held(table) == ToSet(table) \ {Null}

\* Mutation: the chunk about to be scheduled counts as computed.
SkippedBlocksEager(start, n) ==
  LET tokens == start + n - Window + 1 IN IF tokens > 0 THEN tokens \div BlockSize ELSE 0

\* The blocks in front of the window of the next token to compute.
SkippedBlocks(start, n) ==
  LET tokens == start - Window + 1 IN IF tokens > 0 THEN tokens \div BlockSize ELSE 0

\* Mutation: a block that has been returned stays in the table.
EvictedKept(table, skip) == table

Evicted(table, skip) == [i \in DOMAIN table |-> IF i <= skip THEN Null ELSE table[i]]

Behind(table, skip) == {table[i] : i \in {j \in DOMAIN table : j <= skip}} \ {Null}

\* The blocks r needs beyond those it has to compute n tokens from start.
Needed(r, start, n) ==
  Max({0, (start + n + BlockSize - 1) \div BlockSize - Len(blocks[r])})

\* allocate_slots: eviction comes first and stays even when the rest does not fit.
Pool(r, start, n) ==
  LET skip == SkippedBlocks(start, n)
      pool == free \union Behind(blocks[r], skip)
  IN  [table |-> Evicted(blocks[r], skip),
       pool |-> pool,
       fits |-> Needed(r, start, n) <= Cardinality(pool)]

\* Mutation: a block goes back to the pool whatever is in flight.
MayFreeAlways(r, last) == TRUE

\* _free_request_blocks: no step in flight writes r's blocks.
MayFree(r, last) == ~deferFree \/ last[r] <= 0

(***************************************************************************)
(* The requests S give up the blocks they have in table: to the pool, or,  *)
(* with a fence, to the deferred ones.                                     *)
(***************************************************************************)
Freed(S, table, pool, pending, last, seq) ==
  LET later == {r \in S : ~MayFree(r, last) /\ Held(table[r]) # {}}
  IN
  /\ free' = pool \union UNION {Held(table[r]) : r \in S \ later}
  /\ deferred' = pending \union {[fence |-> seq, ids |-> Held(table[r])] : r \in later}
  /\ blocks' = [r \in Requests |-> IF r \in S THEN <<>> ELSE table[r]]

---------------------------------------------------------------------------
(* Scheduler.schedule *)

Planned == {w.r : w \in plan.rows}

(***************************************************************************)
(* The chunks r may be scheduled with: all of it that fits the budget and  *)
(* the maximal length, with 0..NumSpec drafts when its output is all there.*)
(***************************************************************************)
Chunks(r, start) ==
  LET len == Len(hist[r])
      proposals == IF status[r] = "running" /\ start = len - 1 THEN 0..NumSpec ELSE {0}
      n(d) == Min({len + d - start, plan.budget, MaxLen - 1 - start})
  IN  {[n |-> n(d), drafts |-> Max({0, start + n(d) - len})] : d \in {e \in proposals : n(e) > 0}}

\* A row: positions start.., their tokens, the a of its drafts that are right.  The history
\* before it and the blocks it writes (table is r's block table) are there for the properties.
Row(r, kind, start, chunk, a, table, new) ==
  LET known == SubSeq(hist[r], start + 1, start + chunk.n - chunk.drafts)
      drafts == [i \in 1..chunk.drafts |-> IF i <= a THEN version[r] ELSE Wrong]
  IN  [r |-> r, kind |-> kind, start |-> start, n |-> chunk.n, drafts |-> chunk.drafts,
       accepted |-> a, version |-> version[r], samples |-> start + chunk.n >= Len(hist[r]),
       before |-> SubSeq(hist[r], 1, start), tokens |-> known \o drafts, new |-> new,
       writes |-> {(table \o new)[(p \div BlockSize) + 1] : p \in start..(start + chunk.n - 1)}]

\* n blocks of the pool, in any order: the order of the free queue is left open.
Distinct(n, pool) == {s \in SeqOf(pool, Cardinality(pool)) : Len(s) = n /\ IsInjective(s)}

\* There is room in the queue, and running requests come before waiting ones.
MayPlan(kind) ==
  /\ Len(batches) < QueueSize
  /\ kind = "running" => \A w \in plan.rows : w.kind = "running"

\* r is scheduled with blocks for a chunk from start.
Scheduled(r, kind, start) ==
  \E chunk \in Chunks(r, start) : \E a \in 0..chunk.drafts :
    LET p == Pool(r, start, chunk.n)
    IN
    /\ p.fits
    /\ \E new \in Distinct(Needed(r, start, chunk.n), p.pool) :
         /\ blocks' = [blocks EXCEPT ![r] = p.table \o new]
         /\ free' = p.pool \ ToSet(new)
         /\ plan' = [plan EXCEPT !.rows = @ \union {Row(r, kind, start, chunk, a, p.table, new)},
                                 !.budget = @ - chunk.n]

ScheduleRunning(r) ==
  /\ status[r] = "running" /\ r \notin Planned
  /\ MayPlan("running")
  /\ Scheduled(r, "running", computed[r])
  /\ UNCHANGED <<requestVars, deferFree, lastSeq, schedSeq, deferred, finishedIds, batches>>

(***************************************************************************)
(* There is no room for q: what it has behind its window goes back, and r, *)
(* not scheduled yet and maybe q itself, is preempted.  Its output in      *)
(* flight is still delivered.                                              *)
(***************************************************************************)
Preempt(q, r) ==
  /\ {q, r} \subseteq {o \in Requests : status[o] = "running"} \ Planned
  /\ MayPlan("running")
  /\ \E chunk \in Chunks(q, computed[q]) :
       LET p == Pool(q, computed[q], chunk.n)
       IN  /\ ~p.fits
           /\ Freed({r}, [blocks EXCEPT ![q] = p.table], p.pool, deferred, lastSeq, schedSeq)
  /\ status' = [status EXCEPT ![r] = "preempted"]
  /\ computed' = [computed EXCEPT ![r] = 0]
  /\ drop' = [drop EXCEPT ![r] = @ /\ stale[r] > 0]
  /\ stale' = [stale EXCEPT ![r] = inFlight[r]]
  /\ plan' = [plan EXCEPT !.preempted = TRUE]
  /\ UNCHANGED <<hist, version, inFlight, deferFree, lastSeq, schedSeq, finishedIds, batches>>

\* Nobody is admitted in a step that preempted, or before output that is owed.
ScheduleWaiting(r) ==
  /\ status[r] \in {"waiting", "preempted"}
  /\ MayPlan("waiting") /\ ~plan.preempted
  /\ ~(stale[r] > 0 /\ ~drop[r])
  /\ Scheduled(r, IF status[r] = "waiting" THEN "new" ELSE "resumed", 0)
  /\ status' = [status EXCEPT ![r] = "running"]
  /\ UNCHANGED <<hist, version, computed, inFlight, stale, drop, deferFree, lastSeq, schedSeq,
                 deferred, finishedIds, batches>>

\* _update_after_schedule; a batch without rows only tells the ranks who finished.
Issue ==
  LET n(r) == IF r \in Planned THEN (CHOOSE w \in plan.rows : w.r = r).n ELSE 0
      seq == IF deferFree /\ plan.rows # {} THEN schedSeq + 1 ELSE schedSeq
  IN
  /\ Len(batches) < QueueSize
  /\ plan # EmptyPlan \/ finishedIds # {}
  /\ batches' = IF plan.rows = {} /\ finishedIds = {} THEN batches
                ELSE Append(batches, [rows |-> plan.rows, finished |-> finishedIds])
  /\ finishedIds' = {} /\ plan' = EmptyPlan
  /\ computed' = [r \in Requests |-> computed[r] + n(r)]
  /\ inFlight' = [r \in Requests |-> inFlight[r] + n(r)]
  /\ schedSeq' = seq
  /\ lastSeq' = [r \in Requests |-> IF deferFree /\ r \in Planned THEN seq ELSE lastSeq[r]]
  /\ UNCHANGED <<status, hist, version, stale, drop, blocks, free, deferFree, deferred>>

---------------------------------------------------------------------------
(* update_from_output *)

\* How far processed_step_seq moves on, and the deferred frees this lets go.
Step == IF deferFree /\ Head(batches).rows # {} THEN 1 ELSE 0
Pending == {[fence |-> d.fence - Step, ids |-> d.ids] : d \in deferred}
Drained == {d \in Pending : d.fence <= 0}

\* The requests that have a row in the oldest batch and are still there, and that row.
Back == {r \in Requests : status[r] # "absent" /\ \E w \in Head(batches).rows : w.r = r}
Output(r) == CHOOSE w \in Head(batches).rows : w.r = r

\* Output in flight at a preemption does not roll back, and is dropped after a reset.
IsStale(r) == stale[r] > 0
Sampled(r) ==
  IF ~Output(r).samples \/ (IsStale(r) /\ drop[r]) THEN <<>>
  ELSE [i \in 1..(Output(r).accepted + 1) |-> Output(r).version]

\* r's tokens with those sampled; tokens beyond the maximum are not kept.
Extended(r) == LET all == hist[r] \o Sampled(r) IN SubSeq(all, 1, Min({Len(all), MaxLen}))
Stopped == {r \in Back : Len(Extended(r)) >= MaxLen}

\* The oldest batch returns.  Output is looked up by request id.
Update ==
  LET last == [r \in Requests |-> IF lastSeq[r] > Step THEN lastSeq[r] - Step ELSE 0]
  IN
  /\ plan = EmptyPlan
  /\ inFlight' = [r \in Requests |-> IF r \in Back THEN inFlight[r] - Output(r).n ELSE inFlight[r]]
  /\ stale' = [r \in Requests |->
                 IF r \in Back /\ IsStale(r) THEN stale[r] - Output(r).n ELSE stale[r]]
  /\ computed' = [r \in Requests |->
                    IF r \in Back /\ ~IsStale(r) /\ computed[r] > 0
                    THEN computed[r] - (Output(r).drafts - Output(r).accepted) ELSE computed[r]]
  /\ hist' = [r \in Requests |->
                IF r \in Stopped THEN <<>> ELSE IF r \in Back THEN Extended(r) ELSE hist[r]]
  /\ status' = [r \in Requests |-> IF r \in Stopped THEN "absent" ELSE status[r]]
  /\ finishedIds' = finishedIds \union Stopped
  /\ schedSeq' = schedSeq - Step
  /\ lastSeq' = last
  /\ Freed(Stopped, blocks,
           free \union (UNION {d.ids : d \in Drained}), Pending \ Drained, last, schedSeq - Step)
  /\ batches' = Tail(batches)
  /\ UNCHANGED <<version, drop, deferFree, plan>>

---------------------------------------------------------------------------
(* Calls from outside, between two steps *)

Events == MapThenSumSet(LAMBDA r : version[r], Requests)

\* reset_prefix_cache: all are preempted, and what is in flight will be dropped.
ForcedReset ==
  LET S == {r \in Requests : status[r] = "running"}
  IN
  /\ plan = EmptyPlan /\ S # {}
  /\ Events < MaxVersion
  /\ Freed(S, blocks, free, deferred, lastSeq, schedSeq)
  /\ status' = [r \in Requests |-> IF r \in S THEN "preempted" ELSE status[r]]
  /\ computed' = [r \in Requests |-> IF r \in S THEN 0 ELSE computed[r]]
  /\ drop' = [r \in Requests |-> r \in S \/ drop[r]]
  /\ stale' = [r \in Requests |-> IF r \in S THEN inFlight[r] ELSE stale[r]]
  /\ version' = [r \in Requests |-> IF r \in S THEN version[r] + 1 ELSE version[r]]
  /\ UNCHANGED <<hist, inFlight, deferFree, lastSeq, schedSeq, finishedIds, plan, batches>>

\* finish_requests: the request is forgotten at once, its batches are still in flight.
Abort(r) ==
  /\ plan = EmptyPlan
  /\ status[r] # "absent"
  /\ Freed({r}, blocks, free, deferred, lastSeq, schedSeq)
  /\ status' = [status EXCEPT ![r] = "absent"]
  /\ hist' = [hist EXCEPT ![r] = <<>>]
  /\ finishedIds' = finishedIds \union {r}
  /\ UNCHANGED <<version, computed, inFlight, stale, drop, deferFree, lastSeq, schedSeq,
                 plan, batches>>

InBatch(r) == \E i \in DOMAIN batches : \E w \in batches[i].rows : w.r = r

\* add_request: a new request, with the id of one of which no batch is in flight.
Resubmit(r) ==
  /\ plan = EmptyPlan
  /\ status[r] = "absent" /\ Events < MaxVersion
  /\ ~InBatch(r)
  /\ status' = [status EXCEPT ![r] = "waiting"]
  /\ version' = [version EXCEPT ![r] = @ + 1]
  /\ hist' = [hist EXCEPT ![r] = [p \in 1..PromptLen |-> version'[r]]]
  /\ computed' = [computed EXCEPT ![r] = 0]
  /\ inFlight' = [inFlight EXCEPT ![r] = 0]
  /\ stale' = [stale EXCEPT ![r] = 0]
  /\ drop' = [drop EXCEPT ![r] = FALSE]
  /\ lastSeq' = [lastSeq EXCEPT ![r] = 0]
  /\ UNCHANGED <<blocks, free, deferFree, schedSeq, deferred, finishedIds, plan, batches>>

Schedule ==
  \E r \in Requests :
    ScheduleRunning(r) \/ ScheduleWaiting(r) \/ \E q \in Requests : Preempt(q, r)
Client == ForcedReset \/ \E r \in Requests : Abort(r) \/ Resubmit(r)
---------------------------------------------------------------------------
(* Properties *)

\* The blocks are shared out between the pool, the deferred frees and the requests' tables.
SharedOut(tables, pool, pending) ==
  /\ BlockIds = pool \union (UNION {d.ids : d \in pending})
                     \union (UNION {Held(tables[r]) : r \in Requests})
  /\ \A d \in pending :
       /\ d.ids \intersect pool = {}
       /\ \A e \in pending \ {d} : d.ids \intersect e.ids = {}
  /\ \A r \in Requests :
       /\ Held(tables[r]) \intersect pool = {}
       /\ \A d \in pending : Held(tables[r]) \intersect d.ids = {}
       /\ \A q \in Requests \ {r} : Held(tables[r]) \intersect Held(tables[q]) = {}
       /\ \A i, j \in DOMAIN tables[r] : i # j /\ tables[r][i] = tables[r][j] => tables[r][i] = Null

(***************************************************************************)
(* No block is lost, given out twice or returned twice, in whatever order  *)
(* requests are evicted, preempted, reset, aborted and finished with       *)
(* batches in flight and frees deferred (scheduler.py,                     *)
(* _free_request_blocks and _drain_deferred_frees).                        *)
(***************************************************************************)
BlocksOnce == SharedOut(blocks, free, deferred)

\* Blocks that steps return: given up whole (behind the window they are returned by eviction).
GivenUp ==
  {b \in free' \ free :
     \/ \E d \in deferred : b \in d.ids
     \/ \E r \in Requests : \E i \in DOMAIN blocks[r] :
          i > SkippedBlocks(computed[r], 0) /\ blocks[r][i] = b}

(***************************************************************************)
(* With defer_block_free, the blocks of a request that was preempted,      *)
(* reset or aborted reach the pool only when no batch in flight writes     *)
(* them (scheduler.py, _free_request_blocks: "deferring the return to the  *)
(* block pool when an in-flight GPU step may still write them").           *)
(***************************************************************************)
FreedWhenWritten ==
  [][deferFree => \A b \in GivenUp : \A i \in DOMAIN batches' : \A w \in batches'[i].rows :
        b \notin w.writes]_schedulerVars
===========================================================================
