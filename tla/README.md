# TLA+ models of the DeepSeek V4.1 pipeline-parallel server

The repository serves DeepSeek V4.1 (a pruned variant included) with a patched vLLM on four
consumer GPUs: pipeline parallel, n-gram speculative decoding, Engram tables read from SSD, some
experts on the CPU. `src/overlay/` holds what was changed in vLLM (`overlay/vllm/`) and what was
written for it (`overlay/hybrid/`, `overlay/engram_ssd/`). This directory models the parts whose
correctness depends on the order of events, checks them with TLC on small instances and proves part
of the results with TLAPS for every instance.

## 1. Inventory

| Component | State it keeps | Operations | Talks to |
|---|---|---|---|
| Engine core (`v1/engine/core.py`) | `batch_queue`, the draft flag, input and abort queues, pause callbacks, `shutdown_state` | `run_busy_loop`, `step_with_batch_queue`, `post_step`, add, abort, reset, pause, resume, sleep, wake-up, signal | scheduler (calls), ranks (RPC, futures) |
| Scheduler (`v1/core/sched/scheduler.py`) | requests, `running`/`waiting`/`skipped_waiting`, computed, in-flight and stale counters, what was sent to the ranks, KV blocks | `schedule`, `update_from_output`, preemption, finish, forced reset, draft update | engine core, KV manager |
| Model runner V1 (`v1/worker/gpu_model_runner.py`) | cached request states, persistent batch rows, last drafts | `_update_states`, sampling, drafting | batches from the engine, other ranks through the worker |
| Worker transport (`v1/worker/gpu_worker.py`) | pending sends, intermediate tensors | `execute_model` | previous and next rank |
| Shadow plan (`hybrid/pp_shadow.py`) | none: a function of the configuration and the cut | `shadow_needs_for`, `PPShadowPlan` | model forward |
| V4.1 forward (`models/deepseek_v4_1/nvidia/model.py`, `attention.py`) | shared top-k buffer, candidate buffer, caches of KV sources, shipped inputs | `forward` | intermediate tensors |
| Engram row store (`engram_ssd/row_store.cpp`) | a pool's threads, counters, one published job | `lookup`, `close` | a host function per lookup |
| Engram SSD op (`engram_ssd/engram_ssd.py`) | staging buffers per capacity, work records per count | warm-up, capture, lookup under stream order | row store, CUDA stream |
| V2 token ring (`v1/worker/gpu/pp_utils.py`) | ring slots, generation counters | send, receive, apply | V2 runner (not served) |
| Engram n-gram hashing (`models/deepseek_v4_1/common/engram.py`) | a slot ring of recent tokens | hash, write | model forward |
| CPU experts (`hybrid/cpu_moe.cpp`, `cpu_moe.py`, `cpu_experts.py`) | OpenMP team, per-layer scratch, staging, work records | host-function call per layer | CUDA stream |
| DSpark drafter (`hybrid/dspark_proposer.py`) | context lengths, draft buffers | propose | last rank |
| CUDA graph dispatcher (`v1/cudagraph_dispatcher.py`) | captured keys | dispatch | model runner |
| KV groups (`v1/core/kv_cache_utils.py`) | free block queue, group layout | allocate, free | scheduler |

The remaining parts (kernels, quantisation, weight loading, options, other models, patch scripts,
launch scripts, tools) are listed with the reason they are left out in `PROJECT.json`.

What is hard in this system:

- **Batches overlap.** With `QueueSize` batches in flight the scheduler decides on step *n + 1*
  before it knows what step *n* sampled, while a preemption, an abort or a forced reset may invalidate
  a request whose results are still on their way. Three counters (`num_computed_tokens`,
  `num_in_flight_tokens`, the stale share) tell what a late result still means.
- **Copies of a request on every rank.** Ranks other than the last learn sampled tokens from the
  scheduler only; with drafts accepted or rejected in between, what is sent and what a rank has must
  meet at the right position (`pp_sent`, `_drop` in the overlay's patches).
- **Sources across ranks.** A cut inside a group of layers that share a cache or a top-k selection makes
  a later rank replay the source layer from its shipped input; buffers live longer than a batch and
  sends are asynchronous.
- **A hand-written thread pool** that publishes a closure on the caller's stack.
- **Python ahead of the device.** Each Engram table and each expert layer has its own staging
  and work records, shared by every forward and captured graph: staging by all sizes that round up to the
  same capacity, records by all launches of the same count, an expert layer's scratch by all its calls.
- **Blocks given away** while batches that write them are in flight; stores keyed by slots keep what
  rejected drafts and earlier owners left there.
- **Clients at any moment.** Aborts, pauses, wake-ups and signals meet batches in flight, and their effect
  depends on what counts as work in the pause state they have just set.

What makes each component correct:

- Engine core: batches return in the order they were issued, drafts reach the request they were
  proposed for, an engine with work never waits on nothing, everything added finishes. A pause that was answered
  holds until the resume, every request has one answer, every pause is answered, a shutdown ends.
- Scheduler: one sample per position is in flight; counters equal what the queued batches hold, and
  the stale share is a prefix of them; the KV pool covers what runs; output is in order, nothing
  twice, nothing lost, whatever was preempted, aborted, reset or rejected.
- Model runners: every rank knows the requests of a batch and reads the scheduler's tokens for them;
  finished requests are forgotten on every rank.
- Transport, shadow plan and forward: neighbours agree on the tensors they exchange; every layer and shadow reads
  its own source's data of its own batch; no receive waits for ever.
- Row store: a lookup returns exactly its rows, each fetched once; no closure is called after its
  lookup returned; every lookup and close returns.
- V2 token ring: a sampled token reaches the request it was sampled for, or nobody; both sides skip
  the same broadcasts.
- Engram hashing: the window of a position reads the tokens of the accepted history only.
- CPU experts: no thread reads what another is still writing; a forward gets the outputs of its own tokens.
- Graph dispatcher: a batch runs under a captured shape that covers it, or without a graph.
- KV blocks: a block has one owner, and no batch in flight writes into one that was given away.

## 2. Modules

| Module | What it is | Code |
|---|---|---|
| `PipelineEngine` | engine loop, scheduler, queue of batches and the ranks' request state, composed | `core.py`, `scheduler.py`, `gpu_model_runner.py` |
| `MCPipelineEngine` | constants of its four runs | |
| `PipelineInvariant` | its inductive invariant, and its steps as the proofs see them | |
| `PipelineEngineProofs` | theorems about its invariants; extends `PipelineInvariant` | |
| `EngineLifecycle` | the busy loop's life: input and abort queues, pause, resume, sleep, wake-up, shutdown | `core.py` |
| `MCEngineLifecycle` | constants of its two runs | |
| `EngineLifecycleProofs` | theorems about requests and pauses | |
| `BlockLifetime` | block tables of the sliding-window group, eviction, immediate and deferred frees | `scheduler.py` |
| `EngramLookback` | a rank's block tables and the store of recent tokens; extends `BlockLifetime` | `gpu_model_runner.py`, `engram.py` |
| `MCEngramLookback` | symmetry of its run | |
| `BlockLifetimeProofs` | theorems: no block is lost or shared, or returned while it is written; the sliding window is in its slots | |
| `PPRecvRing` | the V2 runner's ring of sampled tokens on every rank | `pp_utils.py`, `gpu/model_runner.py` |
| `MCPPRecvRing` | constants of its run | |
| `PPRecvRingProofs` | theorems about tokens, positions and collectives of the ring | |
| `PPShadowPlan` | the plan as pure operators on a layout and a cut | `pp_shadow.py` |
| `ShadowPipeline` | batches going through ranks that follow a plan; extends `PPShadowPlan` | `model.py`, `attention.py`, `gpu_worker.py` |
| `MCShadowPipeline` | layouts and cuts of its two runs | |
| `ShadowPipelineProofs` | theorems about the plan and the pipeline | |
| `CpuMoe` | one forward of the experts: six worksharing loops over kept scratch | `cpu_moe.cpp` |
| `HostCalls` | host functions in stream order with shared staging and work records; extends `CpuMoe` | `engram_ssd.py`, `cpu_moe.py`, `cpu_experts.py` |
| `MCHostCalls` | static shares and routings of its run | |
| `HostCallsProofs` | the phases of a forward are separate; captures find their staging; a forward gets its own results | |
| `RowTable` | what a row lookup must return | `row_store.cpp`, `engram_ssd.py` |
| `RowLookup` | abstract specification: a lookup answers in one step | |
| `RowStorePool` | the pool, step by step, with the refinement to `RowLookup` | `row_store.cpp` |
| `MCRowStorePool` | constants of its run | |
| `RowStorePoolProofs` | theorems about the pool, and that it implements `RowLookup` | |
| `DataTheorems` | facts about sums over finite sets, prefix sums, minima and sequences that the proofs cite | |

Constants have named assumptions in the module that declares them. Definitions commented
`Mutation:` are not part of a specification: each is the mapped definition below it with a plausible
bug, named in `PROJECT.json` under "mutants", and shows that the property listed there notices it.

### PipelineEngine

State and code: `req[r]` holds the fields of `Request` (`status`, `output`, `computed` =
`num_computed_tokens`, `spec` = `spec_token_ids`, `inFlight` = `num_in_flight_tokens`, `stale` = the part
of it from before a preemption, `dropStale`, `chunk` = `is_prefill_chunk`, `sent` = the overlay's
per-request record of what PP ranks were sent, `blocks`); `running`, `waiting`, `skipped` are the
scheduler's queues; `plan` the locals of one `schedule()` call; `queue` the `batch_queue`; `history`, `row`,
`batchReqs`, `cached` the runner's `requests[...].output_token_ids`, `token_ids_cpu`, persistent batch and known
requests, per rank.

The engine is one thread; `pc` is where it stands in the busy loop. `schedule()` is split at its loop
heads, one action per way through a loop body (`PassRunning`, `ScheduleRunning`, `PassWaiting`,
`AdmitWaiting`, `RefuseWaiting`), and `IssueBatch` is everything from the end of the loops to the
decision to block. Nothing else can run between these actions except ranks, and that is the point
of splitting only there. `ExecuteBatch(k)` and `SampleBatch` take the next batch on a rank:
`_update_states`, forward, and on the last rank sampling and drafting. `UpdateFromOutput` and `PostStep`
are the rest of the engine step; fetching drafts blocks until the last rank has executed all that
was issued.

Tokens are `<<position, value>>`: the position a sample was made for is carried along, so that a token
delivered twice, lost or shifted shows. Drafts are the position they follow and how many they are.
A preemption's victims are computed in one step (`Victims`): the loop in the code has no other effect
than to move them one by one.

Left out, because the served configuration does not enable it: asynchronous scheduling
placeholders, prefix caching, encoder inputs, LoRA, KV connectors, structured output, priorities,
`long_prefill_token_threshold`, Mamba alignment, streaming sessions. The KV manager is external: it counts
blocks and refuses an allocation that does not fit. Each request id is used once. n-gram drafting
sets no draft slots aside, so the token budget is a single number.

### ShadowPipeline

A buffer's content is represented by the number of the batch it was computed for. `RunUnit` is one
shadow or own layer: shadows first, then layers, both ascending, as `forward` does. `Transfer` is the
meeting of an asynchronous send and a receive: it reads the sender's buffers when it happens, not
when it was posted, which is what makes overwriting them a hazard. `BeginBatch` waits for the previous
batch's sends. Batches of no tokens are neither sent nor received and are left out.
`PPShadowPlan` gives, per cut and rank, the shadows, what is shipped, received and declared.

### RowStorePool

One action per critical section of the pool and per statement outside it: a worker waiting on the
condition variable (spurious wakeups included), claiming an index, calling the closure, counting
it finished; the caller publishing, notifying, waiting, returning; close. The caller is one at a time
per store: its lookups are host functions of one stream. `job` is the identity of the closure, so that
calling one whose lookup has returned is visible. `RowLookup` is the abstract specification: `ids` go in, and
in one step the answer is the table's rows, zero for ids of other ranks.

### EngineLifecycle

`EngineCoreProc` around its step: `inputQueue` and `abortsQueue` are the two queues the input thread
fills (`io` is an abort that is in the one and not yet in the other), `callbacks` is
`_idle_state_callbacks`, `pauseState` the scheduler's, `asleep` the executor's `is_sleeping`, `batches` the
`batch_queue` with the requests of each batch. `pc` follows `run_busy_loop`: `HandleShutdown` at the top, `Wait` and
`HandleWaiting` in the first loop of `_process_input_queue` (notify callbacks, clear aborts, block on `get`),
`HandleMore` in the second, `Schedule`/`NoSchedule` and `ProcessOldest` for the halves of
`step_with_batch_queue`. A pause is complete at once or by a callback, as `has_work` says *in the pause
state just set*: `Counted` is what `get_num_unfinished_requests` counts. `held` and `pending`, `answers` and
`aborted` record what clients were told and what they asked for.

What a batch does to a request is in `PipelineEngine`; here a request has a number of outputs to go, is in one
batch at a time, and which requests a batch takes is left open, within what pause state and preemption allow.
A second signal, `resume_scheduler` on an engine that was put to sleep, and an id that is used twice are left out.
`Patient` says that clients wait for a pause to be answered before they resume; `lifecycle_sleep` drops it.

Three things the model shows that are the code's own choices and no property excludes: a request that is
preempted while a "wait" pause drains goes back to the waiting queue and is not waited for; a draining shutdown
of a paused engine exits with the requests held back unanswered; a pause that is pending when a shutdown starts is
never answered.

### BlockLifetime and EngramLookback

`BlockLifetime` is the scheduler's side of KV blocks in the sliding-window group: `ScheduleRunning`, `Preempt` and
`ScheduleWaiting` are ways through `schedule()`'s loops with `allocate_slots` (eviction first, then
allocation), `Issue` is `_update_after_schedule`, `Update` `update_from_output` with `_drain_deferred_frees`,
`ForcedReset` and `Abort` the calls from outside, `Resubmit` a new request under an id used before. Sequence numbers of steps
are kept relative to `processed_step_seq`. `defer_block_free` may be on or off. `EngramLookback` composes it with a rank: `UpdatedTables` is
`_update_states` on block tables, `WriteHashCache` and `HashIds` the two kernels, and `cache` the store keyed by slots; it stands for the
sliding-window KV too, which is written to the same slots by the same batches. A token is its request, position and version, the
version growing with a forced reset or a resubmission; a draft that will be rejected has version `Wrong`.

The rank runs each batch as soon as it is issued: it is a function of the batches in their order and the scheduler
reads nothing of it, so the rank's delay changes neither. The KV manager is external (`single_type_kv_cache_manager` is not in
the repository) and hands out any free blocks, in any order. Left out: prefix caching and the blocks it retains, look-ahead slots of a
drafter, `full_sequence_must_fit`, the cap on running requests. An id is not reused while a batch with its old owner is
in flight: output is looked up by id, and the frontend's ids are unique.

The fence of `defer_block_free` covers whole tables only. Blocks evicted behind the window go back at once while an older batch in
flight may still read them; that is safe because a batch's writes to its new owner come later on the same stream.

### PPRecvRing

Every rank executes the same steps (`pos`, `phase`), one host action per half of a step: `ExecuteModel` applies what the ring's oldest entry
received, frees, adds and runs; `Receive` or, on the last rank, `Sample` is the half after. `sent` and
`posted` number the broadcasts and the receives, which the collective pairs by order alone: `Arrived` waits for the
`nth` broadcast, and a rank that skipped one its peers did not would get another step's tokens. `index` and `gen`
are `req_id_to_index` and the generation counters, `last` and `computed` the device tensors per slot. The scheduler
is reduced to what the ring depends on: a decode is scheduled again `NumRanks` steps later at the earliest
(`Throttled`), requests come, go and come back. This is the alternative V2 runner; the launch scripts use V1.

### CpuMoe and HostCalls

`CpuMoe` is `cpu_moe_forward`: a team of threads goes through permute, gate-up (one of a dynamic and a
static loop has the work), down (the same) and combine. `nextTask` is the counter of a dynamic loop, `waiting` a barrier; the
scratch keeps what the call before left. Values are represented by what they were computed from. `HostCalls` puts it into a
stream of operations with the row lookup of the Engram op: `Capture` and `Launch` are what Python does, `StreamStep` what the
device and its host functions do in order. Buffers are keyed by capacity, work records by count; both belong to one table or one
expert layer, of which the model has one each, and are shared by every forward and graph. Padding is taken to be masked before the experts see it (`cpu_experts.py:300-307`); there is one stream and one
device, and a lookup is one step, as `RowStorePool` shows it may be.

## 3. Runs

| Run | Configuration | What it shows |
|---|---|---|
| `preempt` | 2 requests, prompts 3 and 2, up to 4 and 3 outputs, budget 3, 3 batches in flight, 7 blocks of 1 token, 1 draft, 2 ranks | nine invariants under preemption, stale outputs, accepted and rejected drafts, aborts at both points |
| `reset` | prompts 3 and 2, 2 outputs each, two token values, 2 batches in flight, 1 forced reset | order of the output when everything in flight is dropped at any time |
| `serve` | 3 requests, a prompt longer than the budget, a prompt of one token (padded to the draft shape), a stop token, 3 blocks of 2 | admission, waiting, chunks, stopping inside a draft |
| `live` | 2 prompts that fill a batch each, preemption possible | every request finishes, ranks forget |
| `lifecycle` | 2 requests of one output, 2 batches in flight, 2 utility calls out of pauses (abort, wait, keep with sleep) and resumes, 1 abort, 1 preemption, 1 signal, 2 messages queued | pauses hold, aborts stick, one answer each, every pause answered and every shutdown ended |
| `engram_lookback` | 2 requests of 5 tokens sharing 2 blocks of 2, window 2, 1 draft, 2 batches in flight, 1 reset or resubmission | windows and n-grams read accepted tokens of their own request, blocks are neither lost nor shared |
| `pp_ring` | 2 ranks, 2 requests, 2 slots, prefills of 2 in chunks, 1 draft, 5 steps, 3 in flight | tokens reach their request, positions exact, broadcasts paired |
| `host_calls` | batches of 1, 3 and 4 tokens, 3 experts (2 per token), 2 threads, 3 rows per token, 2 forwards ahead | results exact whatever is shared, captures never refused, phases separate |
| `row_pool` | 2 threads, lookups of 0, 1, 3 and 5 ids, chunks of 2, 3 lookups in sequence | safety, refinement, termination of lookup and close |
| `shadow_small` | all 21 partitions of 8 layers over 3 ranks, 3 batches | freshness of every shared buffer, agreement of transfers, progress |
| `shadow_cuts`, `lifecycle_sleep` | the served partition; one request and impatient clients | the two divergences below |

Why these bounds: the code's queue is as long as the pipeline (four on the served machine). A queue of
two never leaves a preempted request with output in flight at a step that could resume it, so `preempt` has three:
that is where the skipped queue, stale output and a resumed request meet. The ranks beyond the first and the last only
forward what they get, so two, one that samples and one that does not, stand for four.
One draft is enough to be accepted, rejected, or trimmed by a stop; two token values
are needed only where the value decides (`reset`, stop tokens in `serve`). Blocks of one token make preemption frequent, blocks of two
exercise rounding. For the pool, two workers and three lookups let a late worker meet the next
lookup but one. For the shadows, three ranks are needed for a tensor to be forwarded through one that
does not produce it, three batches for a send to be overtaken twice. The ring of two ranks makes two turns and a half: a slot is freed
and taken again while its old owner's sample is in the ring. Of the batches of `host_calls` one is small enough for the static
schedule, two round up to one capacity and differ in count. Two blocks are fewer than two requests of five tokens need, so that eviction,
preemption and reuse are frequent. In `lifecycle` two utility calls are a pause and its resume, or two pauses;
what a third could add is a pause after a resume, which finds no more than an engine that runs.

Larger instances that were checked once, and take too long to be kept as runs: `EngramLookback` with three blocks of one token
(5.4 million states), `EngineLifecycle` without fairness with two outputs per request and two aborts
(6.1 million states). Neither found an error.

`MaxResets`, `MaxLookups`, `NumBatches`, `MaxVersion`, `MaxSteps`, `LastAdmission`, `MaxLaunches`, `MaxAhead`, `MaxQueued`, `MaxCalls`,
`MaxAborts`, `MaxPreemptions` and `MaxSignals` bound unbounded repetition and are guards of the actions they count.
The symmetry of `engram_lookback` is between requests and between blocks, which nothing tells apart; it checks no liveness.

Deadlock is checked in every run: an idle engine and a finished run stutter explicitly (`Idle`,
`Done`).

### Fairness

Weak fairness on the engine's step (a busy loop that never stops while there is work, and returns from
`get` once a message is there), on each rank (a process that loops over its queue), on the input thread and the signal
handler's thread (`QueueAbort`, `Wakeup`) and on the workers and the caller of the pool (threads that
are runnable or notified; nothing is assumed about spurious wakeups). Clients (add, abort, pause, resume, reset), signals and close have none.

### Divergences from the documentation

- `shadow_cuts`: `pp_shadow.py:15-16` says cuts must sit on index-source boundaries, and
  `serve/run-dsv41-pp4.sh:22-23` on kv-source (2, 8, 14, 20) or index-source (24, 28, 32, 36) ones. The code
  shadows index sources as well, and the pruned model is served with 10,10,10,10, whose cuts at 10 and 30
  are in neither list. That this is safe is proved for every partition (`ShadowTopkFresh`).
- `lifecycle_sleep`: `core.py:1014` says that `wake_up` resumes scheduling only once all of the executor's memory is
  resident. A `wake_up` that is handled while a `sleep` still waits for the engine to drain finds the executor
  awake and resumes; the sleep is carried out later all the same, and the scheduler goes on with an executor
  that is asleep. The data-parallel engine refuses to resume while a pause is in flight (`core.py:2187`). A client
  that awaits `sleep` first is not affected (`Patient`).

## 4. Proofs

All proofs are for arbitrary constants that satisfy the named assumptions, and `tlapm` checks them to
the last leaf.

**PipelineEngine** (`PipelineInvariant`, `PipelineEngineProofs`): all nine of its invariants, for any requests, ranks, prompts,
blocks, block size, token budget, batch queue, drafts and stop tokens. The argument has two halves.

The first half reads the actions once. `TypedOver(Int)` types every variable, counters over the integers only: that none goes
below zero is a consequence of everything else, so it cannot come first. `Shape` is the discipline of the queues: ranks execute in
order (`Order`), a request is in the one queue that its status tells (`Queued`), the plan holds running requests that were given tokens
(`Planned`), nothing is planned outside `schedule()` (`AtRest`), and a rank hears of a request before it gets work for it (`Announced`).
Then `StepCases` says what a step can do to *one* request: nothing, add it, abort it, evict it, give it tokens, take it in
(`QuietStep`), issue the batch, or bring the oldest one back. Every later invariant is proved from these cases, request by request,
and never looks at an action again.

The second half adds four layers.

- `Books`. `Accounted`: `num_in_flight_tokens` is the sum over the queue of what the batches hold of the request, its stale share the
  sum over the oldest of them, and all of it is stale when the request is not running. `Backed`: blocks cover what is computed and
  planned. `PoolUse`: the blocks of all requests together fit the pool, a sum over a finite set, with the lemmas of `DataTheorems`.
  `SampledInPlace`: a result is for the position of its batch. Read off: `InFlightAccounted`, `KVBacked`.
- `Progress`. A batch in flight whose output is not stale continues where the one before it ended (`Chained`), what a rank knows of the output is
  what the batch was computed from (`KnownByLast`), a request with everything back has one token left (`InPace`); `BatchesFit` and `PlanFits` bound
  chunks and drafts. Only with the chain can `OutputInOrder` be kept when the oldest batch returns, and `OutputInOrder` is in turn what makes the
  positions of the chain those of the output: they are one invariant. Read off: `OutputInOrder`, `OneSampleInFlight`,
  `OneTokenToCompute`, and `TypeOK`, which needs `Accounted` and `Chained` to see that no subtraction goes below zero.
- `Drafting`. Where drafts are, on the last rank, in the request, in the plan, they follow the last token there is, or a token that will be the
  last when they are taken (`DraftsKnown`, `PlanFollows`, `DraftsOfLast`, `DraftsWanted`). Read off: `DraftsFollowHistory`.
- `Copied`. What the ranks have of each request, which lags behind what the scheduler has decided by the batches issued and not executed. For every rank:
  its row is its history of a request that it knows and that was in its last batch (`RowRight`), and with every batch it is still to execute that computes
  tokens of a request it knows it, or is told of it no later (`Informed`). A rank that is sent tokens has a prefix of the output, and has or is sent
  first what precedes the tokens a batch brings, up to what the scheduler believes it sent (`NoGap`): this is what makes `num_sent` after
  a preemption, a resumption or a rejected draft harmless. The last rank is sent none: the output is a prefix of *its* history, it still keeps what a batch in
  flight was planned from (`Keeps`), and what it sampled and the request will be given comes next (`SampledAfter`). `TokensSent` is about the
  batches themselves: none computes for a request already announced as finished, all of a request's were planned from one
  output (`ToldOnce`), and they carry its tokens (`SentOf`). A batch issued extends the lists, a batch executed moves its tokens from
  what is sent to what is had (`ExecutesNew`, `ExecutesKnown`), an output that returns moves every index by one (`Behind`). Read off: `InputsKnown`,
  `RowsInOrder`.

Each of these parts was first checked as an invariant of the runs.

**RowStorePool** (`RowStorePoolProofs`): `TypeOK`, `NoDanglingCall`, `NoDoubleClaim`, `NoLostWakeup` for any number of
threads, rows, chunk size and lookups (the set of threads is finite). None is inductive. `IInv` adds
`Accounted` (claimed jobs are finished or held by a busy thread, by one only: `finished +
Cardinality(Busy) = next`), `Quiescent` (outside `run` there is nothing claimed that is not finished; inside, the published
job is the caller's), what the stop flag implies (`Exits`) and that nobody sleeps through a notification (`Awake`). That a worker never calls a dead closure then
follows from counting: the caller leaves only when `finished = njobs`, hence `Busy` is empty.

The same module proves that the pool implements `RowLookup` (`ImplementsRowLookup`): the pending rows of the abstract lookup
are those of the jobs unclaimed, or claimed and not yet called; claiming, counting, notifying and
waking up are stutters, calling a job is a `Fetch`, leaving `run` is `Return`. It rests on the jobs dividing the rows
(`JobRowsCover`, `JobRowsDisjoint`) and on `IInv`.

**PPShadowPlan** (`ShadowPipelineProofs`): for every layout and partition the index source and the KV source of each layer,
and the KV source of each shadow, are on its rank as a layer or as a shadow; a rank's `ship_ids` are the next
one's `recv_ids`, and candidates are sent exactly when they are received (`ShippedIsReceived`). `Max` and `Min` of finite sets of
integers are first shown to exist, by well-founded induction on subsets.

**ShadowPipeline** (`ShadowPipelineProofs`): every safety invariant of the runs, for every layout, partition, number of ranks
and number of batches: `TypeOK`, `TransfersMatch`, `InputsFresh`, `TopkFresh`, `CachesComplete`, `CandidatesFresh`. They speak
of the moment a rank is about to run a layer and are not inductive. `IInv` says for each rank:

- `InStep`: a rank that waits for its batch has run nothing of it; a rank whose send is pending is idle
  and has run all its units; the batches finished by a rank and received by its neighbour differ by one exactly
  while a transfer is pending. A transfer therefore joins two ranks at the same batch number.
- `Fresh`, for a rank that is running *or still sending*: what it received, what it keeps for
  shipping, the candidates, the caches up to the unit that ran last, and the top-k of the last
  indexer that ran are of its current batch.

`OutgoingFresh` (a rank that has run all its units ships fresh tensors) and `TransferFresh` carry `Fresh` over a
transfer, `RunUnitFresh` through a layer; freshness at the next rank also needs `ShippedIsReceived`. What the properties
say about a single layer follows with `IndexSourcePresent` and `KvSourcePresent`. So the constraint on cuts that the
documentation states is not needed for any model of this shape.

**CpuMoe in HostCalls** (`HostCallsProofs`): `PhasesSeparate` for any team, batch sizes and routings. A thread's place says too
little by itself: a dynamic loop has no barrier of its own. `IInv` adds that at each of the four barriers either all threads
have passed or none has (`InStep`), and that a dynamic loop somebody has left has no iteration unclaimed (`Exhausted`).
`CaptureNeverRefused`, for any batch sizes, heads and token limit, rests on one fact about rounding up: `Capacity(n)` is a power of two,
at least `n` and less than `2 * n` (`CapacityFacts`). So the capacity of any batch is among the powers up to twice the largest count, which is what `warmup`
makes (`CapacityWarmed`). Powers are a recursive function that doubles, as `warmup`'s loop does, because `tlapm` knows nothing of exponents;
that there is such a function is proved too (`DoublesExist`, `DoublesUnique`).

`ResultsExact` (`ResultsStayExact`), for any team, share of the static loops, experts, routings, batch sizes and forwards enqueued, needs two more
invariants, one for each half of the way a result goes:

- `HostInv`, the stream. A forward is seven operations, and the stream is always the tail of one forward and then whole ones (`Holds`, `InOrder`).
  Before its j-th operation is done, the buffers of its capacity have what the operations before left (`Before`: `Asked`, `Fetched`, `Staged`,
  `Routed`, `Combined`, `Returned`). Only the oldest forward of the stream needs this (`Found`), which is why the buffers may be shared however far
  Python has run ahead. A work record has the count it is kept under and that count's capacity (`Recorded`), so an earlier record is as good as a new
  one; and every buffer has the entries of its capacity (`Allocated`).
- `TeamInv`, the call under way. `ByExpert`: the pairs between the starts of an expert are exactly those that chose it. `Computed`: an iteration of any loop
  is still to be run (`Unrun`: held by a thread, not yet claimed, or in the static share of a thread that has not come so far) or has left the right
  value in the scratch (`Right`). `Working` ties what threads hold to the loops. With `IInv`, a thread that has come to a phase finds nothing of the
  phase before unrun (`RowsDone`, `GateDone`, `DownDone`, `OutputsDone`), and this is all that its reads need; what it writes leaves
  right values right (`RightKept`), stale scratch never enters.

`ForkTeam` starts `TeamInv` from the grouping: `GroupedFacts` shows that counting, summing and filling put each pair at a place of its own, between the
starts of its expert (`StartsFacts`, `PlaceFacts`, `TakerFacts`); `ActiveFacts` that every active expert has one number and every task one expert
and one block (`TaskFacts`). `JoinTeam` and `CombinedNext` give the outputs back to the stream. TLC checked `HostInv` and `TeamInv` on
the run's instance before they were proved.

**BlockLifetime in EngramLookback** (`BlockLifetimeProofs`): `BlocksOnce`, that every block is in exactly one of the pool, a
deferred free and a table, for any pool, window, block size, budget, queue and both ways to free. With the type of the block tables it is inductive.
Each action changes tables, pool and deferred frees by one or two of four moves (evict, allot, free, drain), each shown to keep
the blocks shared out once, so that an action's step only names its moves.

`FreedWhenWritten`, an action property, is the theorem `FreesDeferred`. Its invariant `Life` numbers the batches in flight by the steps that
have rows (`Fenced`): a block that the i-th batch writes is in the table of a request whose `last_sched_seq` is at least that number,
or in a deferred free whose fence is, or in neither; and `sched_step_seq` is the number of the newest. A table goes to the pool at once only
when its `last_sched_seq` has been passed, a deferred free when its fence has, so neither is written by what is left (`FreedFences`, `DrainedNotWritten`).
When the oldest batch returns all numbers move by one (`FencesTail`). A batch being put together writes blocks of the
requests it is for (`PlanHeld`), which takes `ScheduledFacts`: a table of enough blocks has one for each position. What lies behind the window
is returned at once and is not what the property speaks of; `BehindNotGivenUp` shows with `BlocksOnce` that the two never mix, provided that
`computed` is not negative. That in turn needs the accounts of each live request (`Accounted`): the drafts that batches in flight
may still roll back have been added.

`WindowHeld` and `LookbackExact` (`WindowStaysHeld`, `LookbackStaysExact`) are about the rank, for any block size, window, drafts and queue, and both ways
to free. They need no deferred frees: a slot is written in the order the batches were issued, so that a late write of a freed block comes before what its new
owner writes. The invariant `Served` says what is right at every moment and not only when a batch is executed, in terms of the state the rank will have
when the batch issued last is counted in (`DueCached`, `DueRow`, `DueCache`):

- `Good`, for every request: the rank's row is its own copy of the table; the table of a running request agrees with the scheduler's where
  nothing was evicted (`Matches`); and it `Fits`: there is room for what is computed, only blocks behind the window of *any* token still to come were
  evicted, and the slots hold the tokens known of the request. A row being put together is a chunk of what is still to compute (`Right`).
- `Chain`: of the batches in flight those that are stale come first; of the others only the last may sample, and then all known tokens have been computed, and
  every draft of it that will be accepted is in its slot already (`Samples`). This is what makes the tokens known when the output comes back:
  acceptance extends the known ones by tokens that are in place (`SampledFits`), a rejection takes `computed` back behind what is wrong, and
  stale output is dropped or belongs to a request that holds nothing.
- `Ready`, for the batch not yet executed: its window is in its slots, and it knows of its prompt what the rank does. The two properties are read
  off this between the two kernels (`Hashing`).

A batch issued writes only slots of its own requests' blocks at positions that were not known (`KeptHolds`, `WrittenHolds`), because no block is in two tables:
`OwnSlots`, from `BlocksOnce`. That eviction leaves the window alone is `NotNull`. The invariant was checked by TLC on the run's instance before it was proved.

**PPRecvRing** (`PPRecvRingProofs`): all three invariants of its run, `TokensOfOwner`, `PositionsExact` and `BroadcastsPaired`, for any number of ranks
(two at least), requests, slots, drafts, prefill lengths and steps. Each rank executes the same outputs at its own pace, so what it holds is right for
the requests as they were at *its* step; and outputs that every rank has executed are forgotten. The invariant `RingRight` therefore says that there is a
history, `H` (the requests after each step) and `B` (the output for each), that explains the state:

- `History`: `B[s]` takes the requests from `H[s - 1]` to `H[s]` (`Follows`), what is issued and not executed is `B` (`Kept`), the requests alive
  fit the slots, and the samples of one life are at least `NumRanks` steps apart (`Spaced`). The last is the throttling of the scheduler, and the only
  reason why a result that is applied `NumRanks` steps late is in time.
- `Slotted` and `Data`, for every rank at the step it has begun: exactly the live requests have a slot, each its own (there are enough, by counting:
  `RoomLeft`); the slot holds the latest token that is due, and the count of tokens less the rejections that are due (`Lost`, a sum over steps).
- `Entries` and `UnderWay`, for every receiver: the j-th entry of the ring is for the step `NumRanks - j` steps back, a row whose slot was not freed
  since (the generations agree) is of the request that has the slot now and carries its latest sample, and a sample still due is in the ring. Both
  directions are needed: the first keeps results from the wrong request, the second brings them to the right one.
- `Rejections`: what was not sampled was not rejected. `Paired`: every rank's list of collectives is the steps of `B` that sample, in order, so two
  lists agree as far as both go (`AgreeOn`).

`Schedule` prolongs the history, the other actions leave it alone and move one rank (`RankKept` is for the others). `TokensOfOwner` follows because the latest
sample of a row is `NumRanks` steps old (`RowFacts`), `PositionsExact` because nothing is rejected between what is applied and the step (`LostQuiet`).
Before it was proved, the invariant was checked by TLC on a copy of the module with `H` and `B` as variables, for two ranks and for three.

**EngineLifecycle** (`EngineLifecycleProofs`): every safety property of its passing run, for any requests, bounds and pauses. `AbortSticks`
and `AnsweredOnce` follow from `RequestInv`: an ADD in the input queue is the only one of its request, which the scheduler does not
know yet (`AddsSent`); an aborted request that is known, or has an ADD queued, has an ABORT behind it (`AbortsQueued`);
`Answered` counts final outputs by state; `Ended` says what a shutdown has left. An action adds a message, takes the first, or
leaves the input queue alone, and the lemmas are about these three. `PauseHolds` follows from `PauseInv` under the assumption `Patient`:
pauses in the queue and in `callbacks` are different calls and still unanswered (`PausesPending`), so that no pause is ahead of a
resume nor a callback left when it is handled (`ResumesLast`), and while paused and idle nothing can be scheduled (`PausedIdle`).
`Patient` is needed: a callback is called even after a resume.

Only model-checked: liveness, which is out of the prover's reach: `EveryRequestFinishes`, `RanksForget`, `CallsReturn` (of the pool and of the
engine), `BatchesLeave`. Every safety property of a passing run is the statement of a theorem.

Planning the proofs changed the models in six places. `AdmitWaiting` did not move the plan's index past the request it appended to `running`,
as the code's second loop does. Definitions by `CASE` with overlapping guards, of which a proof can say nothing, became
conditionals in the code's order. `BlockLifetime`'s plan carries its remaining budget, as `token_budget` does, and not a sum over its rows. `PPRecvRing`'s `Schedule` was split into what a
step knows of its requests (`RequestsOf`) and what it sends (`Output`), without a change of behaviour.
`HostCalls` writes powers of two as the function `PowerOfTwo`, and not as exponents, with the same values.
`CpuMoe` says where the grouping puts a pair (`Place`) and which expert is the n-th active one (`ActiveAt`) in closed form, and not by folding over
the pairs and experts, with the same values: a proof can count places, and cannot go through a fold.

## 5. Not modelled

- Data-parallel waves (`DPEngineCoreProc`), elastic expert parallelism and fault tolerance: the coordinator they talk to is not in the
  repository, and the served configuration has one engine.
- Failure of a worker: the engine raises and the process ends; nothing is retried or recovered.
- The drafter (`dspark_proposer.py`): arithmetic on the tensors of one step. Its proposals are abstract.
- The graph dispatcher (`cudagraph_dispatcher.py`) and the layout of KV groups (`kv_cache_utils.py`): sequential functions of one step or of the
  start-up; the free queue of blocks is a set here, and the order in which it hands them out is left open.
- Numeric kernels, quantisation, weight loading (arithmetic over tensors, sequential), option parsing, platform queries, other model
  variants, launch scripts and clients. They are most of the lines of the repository; no order of events changes what they do.
