------------------------------ MODULE CpuMoe ------------------------------
(***************************************************************************)
(* One forward of the routed experts on the CPU (cpu_moe_forward of        *)
(* src/overlay/hybrid/cpu_moe.cpp): a team of OpenMP threads goes through  *)
(* six worksharing loops over scratch that belongs to the layer and keeps  *)
(* what the call before left in it.                                        *)
(*                                                                         *)
(* A number is represented by what it was computed from: a row of the      *)
(* input by the row, a block of the intermediate or of an expert's output  *)
(* by the expert and the row.  Weights and activations are left out.       *)
(***************************************************************************)
EXTENDS Integers, FiniteSets, FiniteSetsExt, Sequences

CONSTANTS
  Threads,      \* the team
  NumExperts,   \* E
  TopK,         \* K
  GateBlocks,   \* nb13: row blocks of the gate and up projections
  DownBlocks,   \* nb2: row blocks of the down projection
  SmallBatch,   \* 16: up to so many tokens the schedule is static
  MaxTokens,    \* tokens of a forward at most, padding included
  Share(_, _)   \* the iterations of a static loop of n that a thread runs

ASSUME CpuMoeAssumption ==
  /\ IsFiniteSet(Threads) /\ Threads # {}
  /\ NumExperts \in Nat /\ TopK \in Nat \ {0}
  /\ GateBlocks \in Nat \ {0} /\ DownBlocks \in Nat \ {0}
  /\ SmallBatch \in Nat /\ MaxTokens \in Nat

\* OpenMP leaves open which thread runs an iteration, not that one of them does.
ASSUME ShareAssumption ==
  \A n \in 0..(MaxTokens * Max({TopK * GateBlocks, TopK * DownBlocks, 1})) :
    /\ UNION {Share(th, n) : th \in Threads} = 0..(n - 1)
    /\ \A th, o \in Threads : th # o => Share(th, n) \cap Share(o, n) = {}

VARIABLES
  call,      \* the forward under way: its tokens and the staging it points to
  hx, hids, hout, \* pinned staging buffers, by capacity
  tokOfE,    \* L->tok_of_e
  eStart,    \* L->e_start
  xp, hp, yp, \* L->xp, L->hp, L->yp
  at,        \* per thread: the worksharing loop it is in
  mine,      \* per thread: iterations it has claimed and not run
  nextTask,  \* per dynamic loop: the first iteration nobody claimed
  waiting    \* threads at the barrier that ends their loop

scratch == <<tokOfE, eStart, xp, hp, yp>>
team == <<at, mine, nextTask, waiting>>
forwardVars == <<call, hx, hids, hout, scratch, team>>

NoCall == [m |-> 0, cap |-> 0]
NotActive == -1         \* the expert of a padding row
Garbage == <<>>
Experts == 0..(NumExperts - 1)
Pairs == 0..(MaxTokens * TopK - 1)

\* The loops, in program order; Done is the end of the parallel region.
Permute == 1
GateDynamic == 2
GateStatic == 3
DownDynamic == 4
DownStatic == 5
Combine == 6
Done == 7
Dynamic == {GateDynamic, DownDynamic}

\* Mutation: the static loops of the projections do not wait either.
HasBarrierFew(loop) == loop \in {Permute, Combine}

\* Only the dynamic loops are nowait.
HasBarrier(loop) == loop \notin Dynamic

TokenOf(i) == (i \div TopK) + 1

InitForward ==
  /\ call = NoCall
  /\ tokOfE = [q \in Pairs |-> 0]
  /\ eStart = [e \in 0..NumExperts |-> 0]
  /\ xp = [t \in 1..MaxTokens |-> Garbage]
  /\ hp = [i \in Pairs |-> [b \in 1..GateBlocks |-> Garbage]]
  /\ yp = [i \in Pairs |-> [b \in 1..DownBlocks |-> Garbage]]
  /\ at = [th \in Threads |-> Done]
  /\ mine = [th \in Threads |-> {}]
  /\ nextTask = [loop \in Dynamic |-> 0]
  /\ waiting = {}

---------------------------------------------------------------------------
(* Grouping the pairs by expert *)

\* ids[i], the expert of a pair.
Chosen(ids, i) == ids[TokenOf(i)][(i % TopK) + 1]

\* e_start: the counts of the experts before, summed.
Starts(ids, m) ==
  [e \in 0..NumExperts |-> Cardinality({i \in 0..(m * TopK - 1) : Chosen(ids, i) \in 0..(e - 1)})]

\* fill: an expert's pairs take the places from its start on, in their order.
Place(ids, starts, i) ==
  starts[Chosen(ids, i)] + Cardinality({j \in 0..(i - 1) : Chosen(ids, j) = Chosen(ids, i)})

\* tok_of_e: each pair with an expert is at its place; the rest is stale.
Grouped(ids, m, starts) ==
  LET takers(q) == {i \in 0..(m * TopK - 1) : Chosen(ids, i) \in Experts /\ Place(ids, starts, i) = q}
  IN  [q \in Pairs |-> IF takers(q) # {} THEN CHOOSE i \in takers(q) : TRUE ELSE tokOfE[q]]

Active == {e \in Experts : eStart[e + 1] > eStart[e]}

\* active: the nth has n - 1 of them before it.
ActiveAt(n) == CHOOSE e \in Active : Cardinality({f \in Active : f < e}) = n - 1

RowsOf(e) == {tokOfE[q] : q \in eStart[e]..(eStart[e + 1] - 1)}

GateTasks == Cardinality(Active) * GateBlocks
DownTasks == Cardinality(Active) * DownBlocks

\* The number of iterations of a loop: small batches take the static schedule.
Iterations(loop) ==
  LET small == call.m <= SmallBatch
  IN  CASE loop \in {Permute, Combine} -> call.m
        [] loop = GateDynamic -> IF small THEN 0 ELSE GateTasks
        [] loop = GateStatic -> IF small THEN GateTasks ELSE 0
        [] loop = DownDynamic -> IF small THEN 0 ELSE DownTasks
        [] loop = DownStatic -> IF small THEN DownTasks ELSE 0
        [] OTHER -> 0

\* What a thread has to do when it enters a loop.
Assigned(th, loop) == IF loop \in Dynamic THEN {} ELSE Share(th, Iterations(loop))

(***************************************************************************)
(* cpu_moe_host_fn: the pairs are grouped and the team is forked.          *)
(***************************************************************************)
Fork(work) ==
  LET starts == Starts(hids[work.cap], work.m)
  IN
  /\ call = NoCall
  /\ call' = work
  /\ eStart' = starts
  /\ tokOfE' = Grouped(hids[work.cap], work.m, starts)
  /\ at' = [th \in Threads |-> Permute]
  /\ mine' = [th \in Threads |-> Share(th, work.m)]
  /\ nextTask' = [loop \in Dynamic |-> 0]
  /\ waiting' = {}
  /\ UNCHANGED <<hx, hids, hout, xp, hp, yp>>

\* schedule(dynamic, 2): a thread with nothing to do takes the next two iterations.
Claim(th) ==
  LET loop == at[th]
      two == nextTask[loop] + 2
      upTo == IF two < Iterations(loop) THEN two ELSE Iterations(loop)
  IN
  /\ loop \in Dynamic
  /\ mine[th] = {}
  /\ nextTask[loop] < Iterations(loop)
  /\ mine' = [mine EXCEPT ![th] = nextTask[loop]..(upTo - 1)]
  /\ nextTask' = [nextTask EXCEPT ![loop] = upTo]
  /\ UNCHANGED <<call, hx, hids, hout, scratch, at, waiting>>

\* All blocks of a row were computed from one thing, or the row is of no use.
Whole(row) ==
  IF \A b, c \in DOMAIN row : row[b] = row[c] THEN row[1] ELSE Garbage

RunGate(task) ==
  LET e == ActiveAt((task \div GateBlocks) + 1)
      b == (task % GateBlocks) + 1
  IN  /\ hp' = [i \in Pairs |-> IF i \in RowsOf(e)
                                THEN [hp[i] EXCEPT ![b] = <<e, xp[TokenOf(i)]>>]
                                ELSE hp[i]]
      /\ UNCHANGED <<hout, xp, yp>>

RunDown(task) ==
  LET e == ActiveAt((task \div DownBlocks) + 1)
      b == (task % DownBlocks) + 1
  IN  /\ yp' = [i \in Pairs |-> IF i \in RowsOf(e)
                                THEN [yp[i] EXCEPT ![b] = <<e, Whole(hp[i])>>]
                                ELSE yp[i]]
      /\ UNCHANGED <<hout, xp, hp>>

\* A token's output is the sum over its slots that have an expert.
RunCombine(t) ==
  LET slots == {k \in 1..TopK : hids[call.cap][t][k] \in Experts}
  IN  /\ hout' = [hout EXCEPT ![call.cap][t] =
           [k \in slots |-> Whole(yp[(t - 1) * TopK + k - 1])]]
      /\ UNCHANGED <<xp, hp, yp>>

RunPermute(t) ==
  /\ xp' = [xp EXCEPT ![t] = hx[call.cap][t]]
  /\ UNCHANGED <<hout, hp, yp>>

\* A thread runs the first of its iterations.
Run(th) ==
  LET task == Min(mine[th])
  IN
  /\ mine[th] # {}
  /\ mine' = [mine EXCEPT ![th] = @ \ {task}]
  /\ \/ at[th] = Permute /\ RunPermute(task + 1)
     \/ at[th] \in {GateDynamic, GateStatic} /\ RunGate(task)
     \/ at[th] \in {DownDynamic, DownStatic} /\ RunDown(task)
     \/ at[th] = Combine /\ RunCombine(task + 1)
  /\ UNCHANGED <<call, hx, hids, tokOfE, eStart, at, nextTask, waiting>>

\* Nothing is left for a thread in its loop.
Finished(th) ==
  /\ at[th] # Done
  /\ th \notin waiting
  /\ mine[th] = {}
  /\ at[th] \in Dynamic => nextTask[at[th]] >= Iterations(at[th])

\* The threads S go on to the loop after theirs.
Advanced(S) ==
  /\ at' = [th \in Threads |-> IF th \in S THEN at[th] + 1 ELSE at[th]]
  /\ mine' = [th \in Threads |-> IF th \in S THEN Assigned(th, at[th] + 1) ELSE mine[th]]

\* A nowait loop is left at once.
LeaveLoop(th) ==
  /\ Finished(th)
  /\ ~HasBarrier(at[th])
  /\ Advanced({th})
  /\ UNCHANGED <<call, hx, hids, hout, scratch, nextTask, waiting>>

\* At a barrier a thread waits for the others; the last one lets all of them go on.
Arrive(th) ==
  /\ Finished(th)
  /\ HasBarrier(at[th])
  /\ IF waiting \union {th} = Threads
       THEN Advanced(Threads) /\ waiting' = {}
       ELSE waiting' = waiting \union {th} /\ UNCHANGED <<at, mine>>
  /\ UNCHANGED <<call, hx, hids, hout, scratch, nextTask>>

\* The team is joined and the host function returns.
Join ==
  /\ call # NoCall
  /\ \A th \in Threads : at[th] = Done
  /\ call' = NoCall
  /\ UNCHANGED <<hx, hids, hout, scratch, team>>

ThreadStep(th) == Claim(th) \/ Run(th) \/ LeaveLoop(th) \/ Arrive(th)
---------------------------------------------------------------------------
(* Properties *)

Phase(loop) ==
  CASE loop = Permute -> 1
    [] loop \in {GateDynamic, GateStatic} -> 2
    [] loop \in {DownDynamic, DownStatic} -> 3
    [] loop = Combine -> 4
    [] OTHER -> 5

(***************************************************************************)
(* A thread that works in a phase reads only what the phase before has     *)
(* finished writing: no thread holds an iteration of an earlier phase, and *)
(* no iteration of an earlier phase is unclaimed, whichever of the two     *)
(* schedules the batch takes (cpu_moe.cpp: the nowait on the dynamic loop  *)
(* relies on the barrier of the static one that follows).                  *)
(***************************************************************************)
PhasesSeparate ==
  \A th \in Threads : mine[th] # {} =>
    /\ \A o \in Threads : mine[o] # {} => Phase(at[o]) = Phase(at[th])
    /\ \A loop \in Dynamic : Phase(loop) < Phase(at[th]) => nextTask[loop] >= Iterations(loop)
===========================================================================
