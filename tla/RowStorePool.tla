--------------------------- MODULE RowStorePool ---------------------------
(***************************************************************************)
(* The thread pool of the Engram row store                                 *)
(* (src/overlay/engram_ssd/row_store.cpp, struct Pool) and the host        *)
(* callback that runs its lookups on it (row_store_lookup).                *)
(*                                                                         *)
(* One store has one caller at a time: every lookup is a host function of  *)
(* one CUDA stream (engram_ssd.py, SsdEngramTable.lookup).  Threads are    *)
(* modelled at the granularity of the critical sections of Pool::m; what   *)
(* is done outside the mutex (reading and calling job, notify_all) is a    *)
(* step of its own.  A sleeping thread may wake spuriously.                *)
(***************************************************************************)
EXTENDS RowTable, FiniteSets

CONSTANTS
  Threads,      \* the threads of the pool
  Chunk,        \* rows per job (64 in the code)
  MaxLookups    \* bound: lookups made before the store is closed

ASSUME PoolAssumption ==
  /\ IsFiniteSet(Threads) /\ Threads # {}
  /\ Chunk \in Nat \ {0}
  /\ MaxLookups \in Nat

VARIABLES
  ids,        \* the ids of the current lookup: work->ids[0 .. count)
  out,        \* the staging buffer, work->weights and work->scales
  lookups,    \* lookups made so far
  njobs, next, finished, stop,      \* Pool's fields, all guarded by m
  job,        \* the lookup whose closure Pool::job holds, 0 when none
  threadPc, index,                  \* per thread: where in loop(), its idx
  callerPc    \* where in run(), row_store_lookup or ~Pool the caller is

caller == <<ids, lookups, callerPc>>
pool == <<njobs, next, finished, stop, job>>
threads == <<threadPc, index>>
vars == <<ids, out, lookups, njobs, next, finished, stop, job, threadPc, index, callerPc>>

\* Mutation: the last, short job is not counted.
NJobsFloor(n) == n \div Chunk

NJobs(n) == (n + Chunk - 1) \div Chunk

\* The rows of job j: [j * chunk, min(n, (j + 1) * chunk), counted from 1.
JobRows(j, n) == {i \in 1..n : j * Chunk < i /\ i <= (j + 1) * Chunk}

Fetched(S) == [i \in 1..MaxRows |-> IF i \in S THEN FetchOne(ids[i]) ELSE out[i]]

\* Mutation: nobody is notified.
AwokenNobody == threadPc

\* cv.notify_all: every thread asleep in cv.wait goes back to test the predicate.
Awoken == [t \in Threads |-> IF threadPc[t] = "asleep" THEN "test" ELSE threadPc[t]]

---------------------------------------------------------------------------
Init ==
  /\ ids = <<>>
  /\ out = [i \in 1..MaxRows |-> Unwritten]
  /\ lookups = 0
  /\ njobs = 0 /\ next = 0 /\ finished = 0 /\ stop = FALSE
  /\ job = 0
  /\ threadPc = [t \in Threads |-> "test"]
  /\ index = [t \in Threads |-> 0]
  /\ callerPc = "idle"

(***************************************************************************)
(* row_store_lookup.  An empty lookup returns at once, and one that fits a *)
(* single job is served inline, without the pool.                          *)
(***************************************************************************)
Lookup(q) ==
  /\ callerPc = "idle"
  /\ lookups < MaxLookups
  /\ lookups' = lookups + 1
  /\ ids' = q
  /\ callerPc' = CASE q = <<>> -> "idle"
                   [] NJobs(Len(q)) = 1 -> "inline"
                   [] OTHER -> "publish"
  /\ UNCHANGED <<out, pool, threads>>

LookupInline ==
  /\ callerPc = "inline"
  /\ out' = Fetched(1..Len(ids))
  /\ callerPc' = "served"
  /\ UNCHANGED <<ids, lookups, pool, threads>>

LookupServed ==
  /\ callerPc = "served"
  /\ ids' = <<>>
  /\ callerPc' = "idle"
  /\ UNCHANGED <<lookups, out, pool, threads>>

\* Pool::run: the first critical section.
RunPublish ==
  /\ callerPc = "publish"
  /\ job' = lookups
  /\ njobs' = NJobs(Len(ids)) /\ next' = 0 /\ finished' = 0
  /\ callerPc' = "notify"
  /\ UNCHANGED <<ids, lookups, stop, out, threads>>

\* Pool::run: cv.notify_all() with m released.
RunNotify ==
  /\ callerPc = "notify"
  /\ threadPc' = Awoken
  /\ callerPc' = "await"
  /\ UNCHANGED <<ids, lookups, out, pool, index>>

\* Mutation: run returns once every job is claimed.
AllDoneWhenClaimed == next = njobs

AllDone == finished = njobs

\* Pool::run: done_cv.wait tests its predicate, and sleeps or lets run return.
RunAwait ==
  /\ callerPc = "await"
  /\ IF AllDone
       THEN callerPc' = "idle" /\ ids' = <<>>
       ELSE callerPc' = "asleep" /\ UNCHANGED ids
  /\ UNCHANGED <<lookups, out, pool, threads>>

\* Pool::~Pool: stop is raised under m, the threads are notified and joined.
CloseStop ==
  /\ callerPc = "idle"
  /\ stop' = TRUE
  /\ callerPc' = "stopped"
  /\ UNCHANGED <<ids, lookups, njobs, next, finished, job, out, threads>>

CloseNotify ==
  /\ callerPc = "stopped"
  /\ threadPc' = Awoken
  /\ callerPc' = "join"
  /\ UNCHANGED <<ids, lookups, out, pool, index>>

CloseJoin ==
  /\ callerPc = "join"
  /\ \A t \in Threads : threadPc[t] = "exited"
  /\ callerPc' = "closed"
  /\ UNCHANGED <<ids, lookups, out, pool, threads>>

---------------------------------------------------------------------------
\* Pool::loop: the wait's predicate, tested under m.
LoopExit(t) ==
  /\ threadPc[t] = "test"
  /\ stop
  /\ threadPc' = [threadPc EXCEPT ![t] = "exited"]
  /\ UNCHANGED <<caller, out, pool, index>>

\* Mutation: one index past the last job is handed out.
MoreJobsInclusive == next <= njobs

MoreJobs == next < njobs

\* Mutation: the index is read but not advanced in the critical section.
NextAfterClaimSame == next

NextAfterClaim == next + 1

LoopClaim(t) ==
  /\ threadPc[t] = "test"
  /\ ~stop /\ MoreJobs
  /\ index' = [index EXCEPT ![t] = next]
  /\ next' = NextAfterClaim
  /\ threadPc' = [threadPc EXCEPT ![t] = "claimed"]
  /\ UNCHANGED <<caller, out, njobs, finished, stop, job>>

LoopSleep(t) ==
  /\ threadPc[t] = "test"
  /\ ~stop /\ ~MoreJobs
  /\ threadPc' = [threadPc EXCEPT ![t] = "asleep"]
  /\ UNCHANGED <<caller, out, pool, index>>

(***************************************************************************)
(* Pool::loop: job(idx), called without m.  The closure refers to the      *)
(* caller's frame, so it works on the ids of the lookup in progress.       *)
(***************************************************************************)
LoopCall(t) ==
  /\ threadPc[t] = "claimed"
  /\ out' = Fetched(JobRows(index[t], Len(ids)))
  /\ threadPc' = [threadPc EXCEPT ![t] = "called"]
  /\ UNCHANGED <<caller, pool, index>>

\* Mutation: the caller is never notified.
WakesCallerNever == FALSE

WakesCaller == finished + 1 = njobs /\ callerPc = "asleep"

\* Pool::loop: the second critical section; the last job wakes the caller.
LoopCount(t) ==
  /\ threadPc[t] = "called"
  /\ finished' = finished + 1
  /\ callerPc' = IF WakesCaller THEN "await" ELSE callerPc
  /\ threadPc' = [threadPc EXCEPT ![t] = "test"]
  /\ UNCHANGED <<ids, lookups, out, njobs, next, stop, job, index>>

\* Condition variables may wake a waiter for no reason.
SpuriousWakeup ==
  \/ \E t \in Threads :
       /\ threadPc[t] = "asleep"
       /\ threadPc' = [threadPc EXCEPT ![t] = "test"]
       /\ UNCHANGED <<caller, out, pool, index>>
  \/ /\ callerPc = "asleep"
     /\ callerPc' = "await"
     /\ UNCHANGED <<ids, lookups, out, pool, threads>>

\* The store is closed and every thread has exited.
Closed ==
  /\ callerPc = "closed"
  /\ UNCHANGED vars

---------------------------------------------------------------------------
CallerStep ==
  \/ LookupInline \/ LookupServed \/ RunPublish \/ RunNotify \/ RunAwait
  \/ CloseNotify \/ CloseJoin

ThreadStep(t) ==
  LoopExit(t) \/ LoopClaim(t) \/ LoopSleep(t) \/ LoopCall(t) \/ LoopCount(t)

Next ==
  \/ \E q \in Requests : Lookup(q)
  \/ CloseStop
  \/ CallerStep
  \/ \E t \in Threads : ThreadStep(t)
  \/ SpuriousWakeup
  \/ Closed

(***************************************************************************)
(* The operating system schedules every runnable thread: the caller once   *)
(* it is inside a call, and the pool's threads.  Nothing obliges the       *)
(* program to make a lookup or to close the store, and no spurious wakeup  *)
(* is promised.                                                            *)
(***************************************************************************)
Fairness == WF_vars(CallerStep) /\ \A t \in Threads : WF_vars(ThreadStep(t))

Spec == Init /\ [][Next]_vars /\ Fairness

---------------------------------------------------------------------------
\* The pool's fields and every program counter stay in their ranges.
TypeOK ==
  /\ ids \in Seq(Int)
  /\ out \in [1..MaxRows -> Int]
  /\ lookups \in 0..MaxLookups
  /\ njobs \in Nat /\ next \in 0..njobs /\ finished \in 0..njobs
  /\ stop \in BOOLEAN
  /\ job \in 0..MaxLookups
  /\ threadPc \in [Threads -> {"test", "asleep", "claimed", "called", "exited"}]
  /\ index \in [Threads -> Nat]
  /\ callerPc \in {"idle", "inline", "served", "publish", "notify", "await", "asleep",
                   "stopped", "join", "closed"}

Busy == {t \in Threads : threadPc[t] \in {"claimed", "called"}}

InRun == callerPc \in {"notify", "await", "asleep"}

(***************************************************************************)
(* A thread inside job(idx) works for the lookup that is still in run: the *)
(* closure and the frame it refers to are alive, run of the next lookup    *)
(* cannot be assigning Pool::job while a thread reads it, and no job of an *)
(* earlier lookup is left over (row_store.cpp: loop calls job unlocked).   *)
(***************************************************************************)
NoDanglingCall ==
  \A t \in Busy : InRun /\ job = lookups /\ index[t] < NJobs(Len(ids))

\* Two threads never run the same job: next++ hands each index out once.
NoDoubleClaim ==
  \A t, u \in Busy : index[t] = index[u] => t = u

(***************************************************************************)
(* No wakeup is lost: while run sleeps on done_cv, some job is unclaimed   *)
(* and a thread is on its way to it, or a claimed one is not counted yet.  *)
(***************************************************************************)
NoLostWakeup ==
  callerPc = "asleep" =>
    \/ Busy # {}
    \/ next < njobs /\ \E t \in Threads : threadPc[t] = "test"

(***************************************************************************)
(* The lookup the caller sees: what RowLookup promises, seen through the   *)
(* jobs still unclaimed or claimed but not yet called.                     *)
(***************************************************************************)
OpenJobs ==
  {j \in 0..(NJobs(Len(ids)) - 1) :
     \/ callerPc = "publish"
     \/ j >= next
     \/ \E t \in Threads : threadPc[t] = "claimed" /\ index[t] = j}

PendingRows ==
  IF callerPc = "inline" THEN 1..Len(ids)
  ELSE IF callerPc = "served" THEN {}
  ELSE UNION {JobRows(j, Len(ids)) : j \in OpenJobs}

Promise == INSTANCE RowLookup WITH asked <- ids, pending <- PendingRows, buffer <- out

\* The pool implements RowLookup: run returns only when every row is fetched,
\* each once and for the lookup in progress.
ImplementsRowLookup == Promise!ASpec

\* Every lookup returns to the CUDA stream that waits for it, and row_store_close
\* joins: no thread sleeps through its notification or through stop.
CallsReturn ==
  /\ callerPc \in {"inline", "publish"} ~> callerPc = "idle"
  /\ callerPc = "stopped" ~> callerPc = "closed"
===========================================================================
