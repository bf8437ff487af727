-------------------------- MODULE EngramLookback --------------------------
(***************************************************************************)
(* A rank that owns an Engram layer: its copies of the block tables        *)
(* (_update_states of gpu_model_runner.py) and the store of recent tokens  *)
(* keyed by the slots of the sliding-window cache (NgramHashState of       *)
(* engram.py), driven by BlockLifetime's batches.                          *)
(*                                                                         *)
(* The store stands for the sliding-window KV itself too: the attention    *)
(* layers write the same slots in the same batches.                        *)
(***************************************************************************)
EXTENDS BlockLifetime

CONSTANT Depth   \* lookback_depth

ASSUME LookbackAssumption == Depth \in Nat /\ Depth < Window

VARIABLES
  cached,    \* per request: its CachedRequestState, or Absent
  row,       \* per request: its row of the persistent batch's block table, or Absent
  cache,     \* per slot: the token last written
  executed,  \* how many of the batches the rank has executed
  rankPc     \* "idle", or "hash" between the two kernels

rankVars == <<cached, row, cache, executed, rankPc>>
vars == <<schedulerVars, rankVars>>

Absent == [version |-> Wrong, blocks |-> <<>>]
NoRow == <<Null>>
Unwritten == <<>>
Slots == BlockIds \X (0..(BlockSize - 1))

Init ==
  /\ InitScheduler
  /\ cached = [r \in Requests |-> Absent]
  /\ row = [r \in Requests |-> NoRow]
  /\ cache = [s \in Slots |-> Unwritten]
  /\ executed = 0 /\ rankPc = "idle"

Current == batches[executed + 1]
Rows == Current.rows

\* The slot of position p of request r.
SlotOf(table, p) == <<table[(p \div BlockSize) + 1], p % BlockSize>>

\* Mutation: a request that is resumed keeps the place of its row.
UnscheduledKept(inBatch, scheduled, resumed) == inBatch \ scheduled

\* The persistent batch keeps the requests scheduled again, not those resumed.
Unscheduled(inBatch, scheduled, resumed) == inBatch \ (scheduled \ resumed)

\* _update_states: who finished goes first, then rows no longer scheduled, then come the new.
UpdatedTables ==
  LET known == [r \in Requests |-> IF r \in Current.finished THEN Absent ELSE cached[r]]
      inBatch == {r \in Requests \ Current.finished : row[r] # NoRow}
      kept == inBatch \ Unscheduled(inBatch, {w.r : w \in Rows},
                                    {r \in Requests : \E w \in Rows : w.r = r /\ w.kind = "resumed"})
      of(r) == CHOOSE w \in Rows : w.r = r
      now(w) ==
        CASE w.kind = "new" -> [version |-> w.version, blocks |-> w.new]
          [] w.kind = "resumed" -> [known[w.r] EXCEPT !.blocks = w.new]
          [] w.kind = "running" -> [known[w.r] EXCEPT !.blocks = @ \o w.new]
  IN
  /\ cached' = [r \in Requests |-> IF r \in {w.r : w \in Rows} THEN now(of(r)) ELSE known[r]]
  /\ row' = [r \in Requests |->
              IF r \in {w.r : w \in Rows}
              THEN IF r \in kept THEN row[r] \o of(r).new ELSE cached'[r].blocks
              ELSE IF r \in kept THEN row[r] ELSE NoRow]

Positions(w) == w.start..(w.start + w.n - 1)
TokenAt(w, p) == <<w.r, p, w.tokens[p - w.start + 1]>>

(***************************************************************************)
(* execute_model up to _write_hash_cache_kernel: the tokens of the whole   *)
(* batch are written to their slots.                                       *)
(***************************************************************************)
WriteHashCache ==
  /\ rankPc = "idle" /\ plan = EmptyPlan
  /\ executed < Len(batches)
  /\ UpdatedTables
  /\ LET writes == UNION {{<<SlotOf(row'[w.r], p), TokenAt(w, p)>> : p \in Positions(w)} : w \in Rows}
     IN  cache' = [s \in Slots |-> IF \E x \in writes : x[1] = s
                                   THEN (CHOOSE x \in writes : x[1] = s)[2] ELSE cache[s]]
  /\ rankPc' = "hash"
  /\ UNCHANGED <<schedulerVars, executed>>

\* _prepare_lookback_token_ids: prompt positions only.
InWindow(p) == p < PromptLen

(***************************************************************************)
(* _hash_ids_kernel: what a row finds at position p before its chunk: the  *)
(* window of ids that the runner passed, then the slot.                    *)
(***************************************************************************)
Source(w, p) ==
  IF InWindow(p) THEN <<w.r, p, cached[w.r].version>> ELSE cache[SlotOf(row[w.r], p)]

HashIds ==
  /\ rankPc = "hash" /\ plan = EmptyPlan
  /\ executed' = executed + 1 /\ rankPc' = "idle"
  /\ UNCHANGED <<schedulerVars, cached, row, cache>>

\* The oldest batch comes back when it has been executed.
Processed ==
  /\ rankPc = "idle" /\ executed > 0
  /\ Update
  /\ executed' = executed - 1
  /\ UNCHANGED <<cached, row, cache, rankPc>>

(***************************************************************************)
(* What a rank does is a function of the batches before, in their order,   *)
(* and the scheduler reads nothing of it: when the rank gets to a batch    *)
(* makes no difference to either, so it is run as soon as it is issued.    *)
(***************************************************************************)
Engine == executed = Len(batches) /\ (Schedule \/ Issue \/ Client) /\ UNCHANGED rankVars

\* Nobody is left.
Idle ==
  /\ \A r \in Requests : status[r] = "absent"
  /\ batches = <<>> /\ finishedIds = {} /\ plan = EmptyPlan
  /\ UNCHANGED vars

Next == Engine \/ WriteHashCache \/ HashIds \/ Processed \/ Idle

Spec == Init /\ [][Next]_vars
---------------------------------------------------------------------------
(* Properties *)

\* The token the scheduler had at position p before the chunk of w.
Own(w, p) == <<w.r, p, w.before[p + 1]>>

(***************************************************************************)
(* Every n-gram that reaches back before its chunk is made of the request's *)
(* own accepted tokens, whatever was written to the slots by rejected      *)
(* drafts, by requests preempted, reset or aborted with batches in flight, *)
(* or by others that got the blocks since (engram.py, module docstring).   *)
(***************************************************************************)
LookbackExact ==
  rankPc = "hash" =>
    \A w \in Rows : \A p \in (w.start - Depth)..(w.start - 1) : p >= 0 => Source(w, p) = Own(w, p)

(***************************************************************************)
(* The whole sliding window before a chunk is in the request's slots when  *)
(* its batch runs: no block is given away too early, and no late write of  *)
(* a freed block reaches its new owner (scheduler.py, _free_request_blocks;*)
(* engram.py, "window eviction never frees a block a live lookback still   *)
(* needs").                                                                *)
(***************************************************************************)
WindowHeld ==
  rankPc = "hash" =>
    \A w \in Rows : \A p \in (w.start - Window + 1)..(w.start - 1) :
      p >= 0 => cache[SlotOf(row[w.r], p)] = Own(w, p)
===========================================================================
