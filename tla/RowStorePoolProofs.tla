------------------------ MODULE RowStorePoolProofs ------------------------
(***************************************************************************)
(* The safety invariants of RowStorePool hold for any number of threads,   *)
(* any chunk size, any table and any lookups: type correctness, no job     *)
(* left over from an earlier lookup, no job run twice, no wakeup lost.     *)
(*                                                                         *)
(* None of them is inductive alone.  What carries them is the accounting   *)
(* of jobs, every claimed index being below next and held by one thread,   *)
(* and claimed jobs being either counted in finished or held by a busy     *)
(* thread, together with what the pool looks like while no lookup is in    *)
(* run: everything claimed, everything counted, nobody busy.               *)
(***************************************************************************)
EXTENDS RowStorePool, FiniteSetTheorems, TLAPS

Types ==
  /\ ids \in Seq(Int) /\ Len(ids) <= MaxRows
  /\ out \in [1..MaxRows -> Int]
  /\ lookups \in 0..MaxLookups
  /\ njobs \in Nat /\ next \in 0..njobs /\ finished \in Nat
  /\ stop \in BOOLEAN
  /\ job \in 0..MaxLookups
  /\ threadPc \in [Threads -> {"test", "asleep", "claimed", "called", "exited"}]
  /\ index \in [Threads -> Nat]
  /\ callerPc \in {"idle", "inline", "served", "publish", "notify", "await", "asleep",
                   "stopped", "join", "closed"}

\* Every claimed job is counted or held by a busy thread, by one only.
Accounted ==
  /\ finished + Cardinality(Busy) = next
  /\ \A t \in Busy : index[t] < next
  /\ NoDoubleClaim

\* Outside run the pool has nothing to do; inside it works for the caller's lookup.
Quiescent ==
  IF InRun THEN job = lookups /\ njobs = NJobs(Len(ids))
           ELSE Busy = {} /\ next = njobs

\* Threads exit when the store is closed, and not before.
Exits ==
  /\ stop => callerPc \in {"stopped", "join", "closed"}
  /\ \A t \in Threads : threadPc[t] = "exited" => stop

\* Nobody sleeps past the notification while a job is unclaimed, nor past the last count.
Awake ==
  /\ callerPc \in {"await", "asleep"} /\ next < njobs
       => \A t \in Threads : threadPc[t] # "asleep"
  /\ callerPc = "asleep" => finished # njobs

IInv == Types /\ Accounted /\ Quiescent /\ Exits /\ Awake

---------------------------------------------------------------------------
\* The number of jobs of a lookup is a natural number.
LEMMA NJobsType == \A n \in Nat : NJobs(n) \in Nat
  BY PoolAssumption, SMT DEF NJobs

\* A row fetched is an integer, whatever the id.
LEMMA FetchOneType == \A id \in Int : FetchOne(id) \in Int
  BY TableAssumption DEF FetchOne, ZeroRow, Abort

\* Fetching any rows of the current lookup keeps the buffer's type.
LEMMA FetchedType ==
  ASSUME Types, NEW S, S \subseteq 1..Len(ids)
  PROVE  Fetched(S) \in [1..MaxRows -> Int]
<1>1. ASSUME NEW i \in 1..MaxRows
      PROVE  (IF i \in S THEN FetchOne(ids[i]) ELSE out[i]) \in Int
  <2>1. CASE i \in S
    <3>1. ids[i] \in Int
      BY <2>1 DEF Types
    <3> QED
      BY <2>1, <3>1, FetchOneType
  <2>2. CASE i \notin S
    BY <2>2 DEF Types
  <2> QED
    BY <2>1, <2>2
<1> QED
  BY <1>1 DEF Fetched

LEMMA BusyFinite == IsFiniteSet(Busy) /\ Cardinality(Busy) \in Nat
  BY PoolAssumption, FS_Subset, FS_CardinalityType DEF Busy

LEMMA InitIInv == Init => IInv
<1> SUFFICES ASSUME Init PROVE IInv
  OBVIOUS
<1>1. Busy = {}
  BY DEF Init, Busy
<1>2. Types
  <2>1. <<>> \in Seq(Int) /\ Len(<<>>) <= MaxRows
    BY TableAssumption
  <2>2. out \in [1..MaxRows -> Int]
    BY DEF Init, Unwritten
  <2>3. threadPc \in [Threads -> {"test", "asleep", "claimed", "called", "exited"}]
    BY DEF Init
  <2>4. lookups \in 0..MaxLookups /\ job \in 0..MaxLookups /\ index \in [Threads -> Nat]
    BY PoolAssumption DEF Init
  <2>5. ids \in Seq(Int) /\ Len(ids) <= MaxRows
    BY <2>1 DEF Init
  <2>6. njobs \in Nat /\ next \in 0..njobs /\ finished \in Nat
    BY SMT DEF Init
  <2>7. stop \in BOOLEAN /\ callerPc = "idle"
    BY Zenon DEF Init
  <2> HIDE DEF Init
  <2> QED
    BY <2>2, <2>3, <2>4, <2>5, <2>6, <2>7, Zenon DEF Types
<1>3. Accounted
  BY <1>1, FS_EmptySet DEF Init, Accounted, NoDoubleClaim
<1>4. Quiescent /\ Exits /\ Awake
  BY <1>1 DEF Init, Quiescent, InRun, Exits, Awake
<1> QED
  BY <1>2, <1>3, <1>4 DEF IInv

\* A step that claims, counts and starts nothing keeps the accounts.
LEMMA AccountedStays ==
  ASSUME Accounted, Busy' = Busy, UNCHANGED <<next, finished, index>>
  PROVE  Accounted'
  BY DEF Accounted, NoDoubleClaim

\* Waking threads up leaves the busy ones alone.
LEMMA AwokenBusy ==
  ASSUME Types, threadPc' = Awoken
  PROVE  /\ Busy' = Busy
         /\ threadPc' \in [Threads -> {"test", "claimed", "called", "exited"}]
         /\ \A t \in Threads : threadPc'[t] = "exited" => threadPc[t] = "exited"
  BY DEF Types, Awoken, Busy

---------------------------------------------------------------------------
(* The caller *)

LEMMA LookupIInv ==
  ASSUME IInv, NEW q \in Requests, Lookup(q)
  PROVE  IInv'
<1>1. Types'
  <2>1. ids' \in Seq(Int) /\ Len(ids') <= MaxRows
    BY TableAssumption DEF Lookup
  <2>2. lookups' \in 0..MaxLookups
    BY PoolAssumption DEF IInv, Types, Lookup
  <2>3. callerPc' \in {"idle", "inline", "publish"}
    BY Zenon DEF Lookup
  <2>4. UNCHANGED <<out, njobs, next, finished, stop, job, threadPc, index>>
    BY Zenon DEF Lookup, pool, threads
  <2>5. Types
    BY DEF IInv
  <2> QED
    BY <2>1, <2>2, <2>3, <2>4, <2>5 DEF Types
<1> USE DEF IInv, Lookup, pool, threads
<1>2. Busy' = Busy
  BY DEF Busy
<1>3. Accounted'
  BY <1>2, AccountedStays
<1>4. Quiescent' /\ Exits' /\ Awake'
  BY <1>2 DEF Quiescent, InRun, Exits, Awake
<1> QED
  BY <1>1, <1>3, <1>4

\* Steps of the caller between two lookups, before one enters run, or on its way out.
LEMMA OutsideRunIInv ==
  ASSUME IInv, LookupInline \/ LookupServed \/ CloseStop \/ CloseJoin
  PROVE  IInv'
<1> USE DEF IInv, LookupInline, LookupServed, CloseStop, CloseJoin, pool, threads
<1>1. Types'
  <2>1. LookupInline => out' \in [1..MaxRows -> Int]
    BY FetchedType
  <2>2. <<>> \in Seq(Int) /\ Len(<<>>) <= MaxRows
    BY TableAssumption
  <2> QED
    BY <2>1, <2>2 DEF Types
<1>2. Busy' = Busy
  BY DEF Busy
<1>3. Accounted'
  BY <1>2, AccountedStays
<1>4. Quiescent' /\ Exits' /\ Awake'
  BY <1>2 DEF Quiescent, InRun, Exits, Awake
<1> QED
  BY <1>1, <1>3, <1>4

LEMMA RunPublishIInv ==
  ASSUME IInv, RunPublish
  PROVE  IInv'
<1>2. Types'
  <2>1. njobs' \in Nat
    BY NJobsType DEF IInv, Types, RunPublish
  <2>2. next' \in 0..njobs' /\ finished' \in Nat
    BY <2>1 DEF RunPublish
  <2>3. job' \in 0..MaxLookups /\ callerPc' = "notify"
    BY DEF IInv, Types, RunPublish
  <2>4. UNCHANGED <<ids, lookups, out, stop, threadPc, index>>
    BY Zenon DEF RunPublish, threads
  <2>5. Types
    BY DEF IInv
  <2> QED
    BY <2>1, <2>2, <2>3, <2>4, <2>5 DEF Types
<1> USE DEF IInv, RunPublish, threads
<1>1. Busy = {} /\ Busy' = {}
  BY DEF Quiescent, InRun, Busy
<1>3. Accounted'
  BY <1>1, FS_EmptySet DEF Accounted, NoDoubleClaim
<1>4. Quiescent' /\ Exits' /\ Awake'
  BY <1>1 DEF Quiescent, InRun, Exits, Awake
<1> QED
  BY <1>2, <1>3, <1>4

LEMMA NotifyIInv ==
  ASSUME IInv, RunNotify \/ CloseNotify
  PROVE  IInv'
<1> USE DEF IInv, RunNotify, CloseNotify, pool
<1>1. /\ Busy' = Busy
      /\ threadPc' \in [Threads -> {"test", "claimed", "called", "exited"}]
      /\ \A t \in Threads : threadPc'[t] = "exited" => threadPc[t] = "exited"
  BY AwokenBusy
<1>2. Types'
  BY <1>1 DEF Types
<1>3. Accounted'
  BY <1>1, AccountedStays
<1>4. Quiescent' /\ Exits' /\ Awake'
  BY <1>1 DEF Quiescent, InRun, Exits, Awake
<1> QED
  BY <1>2, <1>3, <1>4

\* run returns only when every job is counted, so that nobody is busy.
LEMMA RunAwaitIInv ==
  ASSUME IInv, RunAwait
  PROVE  IInv'
<1> USE DEF IInv, RunAwait, pool, threads
<1>1. Busy' = Busy
  BY DEF Busy
<1>2. Types'
  <2>1. <<>> \in Seq(Int) /\ Len(<<>>) <= MaxRows
    BY TableAssumption
  <2> QED
    BY <2>1 DEF Types
<1>3. Accounted'
  BY <1>1, AccountedStays
<1>4. Quiescent'
  <2>1. CASE AllDone
    <3>1. Cardinality(Busy) = 0 /\ next = njobs
      BY <2>1, BusyFinite DEF Types, Accounted, AllDone
    <3>2. Busy = {}
      BY <3>1, BusyFinite, FS_EmptySet
    <3> QED
      BY <1>1, <2>1, <3>1, <3>2 DEF Quiescent, InRun
  <2>2. CASE ~AllDone
    BY <2>2 DEF Quiescent, InRun
  <2> QED
    BY <2>1, <2>2
<1>5. Exits' /\ Awake'
  BY DEF Types, Exits, Awake, AllDone
<1> QED
  BY <1>2, <1>3, <1>4, <1>5

---------------------------------------------------------------------------
(* The threads *)

\* Taking the next job: one more thread is busy, with an index nobody else has.
LEMMA ClaimIInv ==
  ASSUME IInv, NEW t \in Threads, LoopClaim(t)
  PROVE  IInv'
<1> USE DEF IInv, NextAfterClaim, MoreJobs
<1>1. t \notin Busy /\ Busy' = Busy \union {t}
  BY DEF Types, LoopClaim, Busy, caller
<1>2. Types'
  BY DEF Types, LoopClaim, caller
<1>3. Accounted'
  <2>1. Cardinality(Busy') = Cardinality(Busy) + 1
    BY <1>1, BusyFinite, FS_AddElement
  <2>2. finished' + Cardinality(Busy') = next'
    <3>1. finished + Cardinality(Busy) = next
      BY DEF Accounted
    <3>2. finished' = finished /\ next' = next + 1
      BY DEF LoopClaim
    <3>3. finished \in Nat /\ next \in Nat
      BY DEF Types
    <3> HIDE DEF IInv
    <3> QED
      BY <2>1, <3>1, <3>2, <3>3, BusyFinite
  <2>3. \A u \in Busy' : index'[u] < next' /\ (u # t => index'[u] < next /\ u \in Busy /\ index'[u] = index[u])
    BY <1>1 DEF Types, Accounted, LoopClaim, Busy
  <2>4. index'[t] = next
    BY DEF Types, LoopClaim
  <2>5. NoDoubleClaim'
    BY <2>3, <2>4 DEF Types, Accounted, NoDoubleClaim, Busy
  <2> QED
    BY <2>2, <2>3, <2>5 DEF Accounted
<1>4. InRun /\ InRun'
  BY DEF Types, Quiescent, LoopClaim, caller, InRun
<1>5. Quiescent'
  BY <1>4 DEF Quiescent, LoopClaim, caller, InRun
<1>6. Exits'
  BY DEF Types, Exits, LoopClaim, caller
<1>7. Awake'
  BY DEF Types, Awake, LoopClaim, caller
<1> QED
  BY <1>2, <1>3, <1>5, <1>6, <1>7

LEMMA RestIInv ==
  ASSUME IInv, NEW t \in Threads, LoopExit(t) \/ LoopSleep(t)
  PROVE  IInv'
<1> USE DEF IInv, LoopExit, LoopSleep, MoreJobs, caller, pool
<1>1. Busy' = Busy
  BY DEF Types, Busy
<1>2. Types'
  BY DEF Types
<1>3. Accounted'
  BY <1>1, AccountedStays
<1>4. Quiescent' /\ Exits' /\ Awake'
  BY <1>1 DEF Types, Quiescent, InRun, Exits, Awake
<1> QED
  BY <1>2, <1>3, <1>4

LEMMA CallIInv ==
  ASSUME IInv, NEW t \in Threads, LoopCall(t)
  PROVE  IInv'
<1> USE DEF IInv, LoopCall, caller, pool
<1>1. Busy' = Busy
  BY DEF Types, Busy
<1>2. Types'
  <2>1. JobRows(index[t], Len(ids)) \subseteq 1..Len(ids)
    BY DEF JobRows
  <2> QED
    BY <2>1, FetchedType DEF Types
<1>3. Accounted'
  BY <1>1, AccountedStays
<1>4. Quiescent' /\ Exits' /\ Awake'
  BY <1>1 DEF Types, Quiescent, InRun, Exits, Awake
<1> QED
  BY <1>2, <1>3, <1>4

\* Counting a job: one thread fewer is busy, and the last one wakes the caller.
LEMMA CountIInv ==
  ASSUME IInv, NEW t \in Threads, LoopCount(t)
  PROVE  IInv'
<1> USE DEF IInv, LoopCount, WakesCaller
<1>1. t \in Busy /\ Busy' = Busy \ {t}
  BY DEF Types, Busy
<1>2. Types'
  BY DEF Types
<1>3. Accounted'
  <2>1. Cardinality(Busy') = Cardinality(Busy) - 1
    BY <1>1, BusyFinite, FS_RemoveElement
  <2>2. finished' + Cardinality(Busy') = next'
    BY <2>1, BusyFinite DEF Types, Accounted
  <2> QED
    BY <1>1, <2>2 DEF Accounted, NoDoubleClaim
<1>4. InRun /\ InRun'
  BY <1>1 DEF Quiescent, InRun
<1>5. Quiescent'
  BY <1>4 DEF Quiescent
<1>6. Exits' /\ Awake'
  BY DEF Types, Exits, Awake
<1> QED
  BY <1>2, <1>3, <1>5, <1>6

LEMMA SpuriousIInv ==
  ASSUME IInv, SpuriousWakeup
  PROVE  IInv'
<1> USE DEF IInv, SpuriousWakeup, caller, pool, threads
<1>1. Busy' = Busy
  BY DEF Types, Busy
<1>2. Types'
  BY DEF Types
<1>3. Accounted'
  BY <1>1, AccountedStays
<1>4. Quiescent' /\ Exits' /\ Awake'
  BY <1>1 DEF Types, Quiescent, InRun, Exits, Awake
<1> QED
  BY <1>2, <1>3, <1>4

LEMMA StutterIInv ==
  ASSUME IInv, UNCHANGED vars
  PROVE  IInv'
<1>1. Busy' = Busy
  BY DEF vars, Busy
<1> QED
  BY <1>1, AccountedStays
  DEF IInv, vars, Types, Quiescent, InRun, Exits, Awake

---------------------------------------------------------------------------
\* The strengthened invariant is inductive.
LEMMA NextIInv == IInv /\ [Next]_vars => IInv'
<1> SUFFICES ASSUME IInv, [Next]_vars PROVE IInv'
  OBVIOUS
<1>1. CASE \E q \in Requests : Lookup(q)
  BY <1>1, LookupIInv
<1>2. CASE LookupInline \/ LookupServed \/ CloseStop \/ CloseJoin
  BY <1>2, OutsideRunIInv
<1>3. CASE RunPublish
  BY <1>3, RunPublishIInv
<1>4. CASE RunNotify \/ CloseNotify
  BY <1>4, NotifyIInv
<1>5. CASE RunAwait
  BY <1>5, RunAwaitIInv
<1>6. ASSUME NEW t \in Threads, ThreadStep(t)
      PROVE  IInv'
  BY <1>6, RestIInv, ClaimIInv, CallIInv, CountIInv DEF ThreadStep
<1>7. CASE SpuriousWakeup
  BY <1>7, SpuriousIInv
<1>8. CASE Closed \/ UNCHANGED vars
  BY <1>8, StutterIInv DEF Closed
<1> QED
  BY <1>1, <1>2, <1>3, <1>4, <1>5, <1>6, <1>7, <1>8 DEF Next, CallerStep

\* The invariant holds in every reachable state of the pool.
THEOREM PoolIInv == Spec => []IInv
  BY InitIInv, NextIInv, PTL DEF Spec

\* The pool's fields stay in their ranges (run, loop: finished never passes njobs).
THEOREM PoolTypeOK == Spec => []TypeOK
<1>1. IInv => TypeOK
  <2> SUFFICES ASSUME IInv PROVE TypeOK
    OBVIOUS
  <2>1. finished <= next
    BY BusyFinite DEF IInv, Types, Accounted
  <2> QED
    BY <2>1 DEF IInv, Types, TypeOK
<1> QED
  BY <1>1, PoolIInv, PTL

(***************************************************************************)
(* A thread inside job(idx) always works for the lookup still in run: the  *)
(* closure Pool::job and the frame it refers to are alive.                 *)
(***************************************************************************)
THEOREM PoolNoDanglingCall == Spec => []NoDanglingCall
<1>1. IInv => NoDanglingCall
  <2> SUFFICES ASSUME IInv, NEW t \in Busy
               PROVE  InRun /\ job = lookups /\ index[t] < NJobs(Len(ids))
    BY DEF NoDanglingCall
  <2>1. InRun /\ job = lookups /\ njobs = NJobs(Len(ids))
    BY DEF IInv, Quiescent
  <2>2. index[t] < next /\ next <= njobs /\ index[t] \in Nat
    BY DEF IInv, Accounted, Types, Busy
  <2> QED
    BY <2>1, <2>2 DEF IInv, Types
<1> QED
  BY <1>1, PoolIInv, PTL

\* No two threads of the pool ever run the same job.
THEOREM PoolNoDoubleClaim == Spec => []NoDoubleClaim
<1>1. IInv => NoDoubleClaim
  BY DEF IInv, Accounted
<1> QED
  BY <1>1, PoolIInv, PTL

(***************************************************************************)
(* run never sleeps on done_cv with nobody left to wake it.                *)
(***************************************************************************)
THEOREM PoolNoLostWakeup == Spec => []NoLostWakeup
<1>1. IInv => NoLostWakeup
  <2> SUFFICES ASSUME IInv, callerPc = "asleep", Busy = {}
               PROVE  next < njobs /\ \E t \in Threads : threadPc[t] = "test"
    BY DEF NoLostWakeup
  <2>1. next < njobs
    BY FS_EmptySet DEF IInv, Accounted, Awake, Types
  <2>2. PICK t \in Threads : TRUE
    BY PoolAssumption
  <2>3. threadPc[t] \notin {"asleep", "exited", "claimed", "called"}
    BY <2>1, <2>2 DEF IInv, Awake, Exits, Busy
  <2> QED
    BY <2>1, <2>2, <2>3 DEF IInv, Types
<1> QED
  BY <1>1, PoolIInv, PTL

---------------------------------------------------------------------------
(***************************************************************************)
(* RowStorePool implements RowLookup.  The rows still to be fetched are    *)
(* those of the jobs nobody has called yet (PendingRows); they are read    *)
(* off the pool's counters, so that claiming, counting, notifying and      *)
(* waking up are stutters, calling a job is a Fetch, and leaving run is    *)
(* Return, which the inductive invariant only allows with nothing pending. *)
(***************************************************************************)
---------------------------------------------------------------------------
(* Jobs divide the rows *)

\* Multiplication by the chunk size is monotonic.
LEMMA TimesChunk ==
  ASSUME NEW i \in Nat, NEW j \in Nat, i <= j
  PROVE  i * Chunk <= j * Chunk
<1>1. Chunk \in Nat /\ Chunk > 0
  BY PoolAssumption
<1>2. j * Chunk = i * Chunk + (j - i) * Chunk
  BY <1>1, Z3
<1>3. (j - i) * Chunk >= 0
  BY <1>1, Z3
<1> QED
  BY <1>1, <1>2, <1>3, Z3

\* Each row belongs to one job at most.
LEMMA JobRowsDisjoint ==
  ASSUME NEW n \in Nat, NEW i \in Nat, NEW j \in Nat, i # j
  PROVE  JobRows(i, n) \intersect JobRows(j, n) = {}
<1>1. Chunk \in Nat
  BY PoolAssumption
<1>2. ASSUME NEW x \in Nat, NEW y \in Nat, x < y, NEW k \in 1..n,
             k <= (x + 1) * Chunk, y * Chunk < k
      PROVE  FALSE
  <2>1. (x + 1) * Chunk <= y * Chunk
    BY <1>2, TimesChunk
  <2>2. (x + 1) * Chunk \in Int /\ y * Chunk \in Int /\ k \in Int
    BY <1>1
  <2> QED
    BY <1>2, <2>1, <2>2
<1>3. i < j \/ j < i
  OBVIOUS
<1> QED
  BY <1>2, <1>3 DEF JobRows

\* And the jobs of a lookup cover its rows.
LEMMA JobRowsCover ==
  ASSUME NEW n \in Nat
  PROVE  UNION {JobRows(j, n) : j \in 0..(NJobs(n) - 1)} = 1..n
<1>1. Chunk \in Nat /\ Chunk > 0
  BY PoolAssumption
<1>2. ASSUME NEW k \in 1..n
      PROVE  \E j \in 0..(NJobs(n) - 1) : k \in JobRows(j, n)
  <2> DEFINE j == (k - 1) \div Chunk
  <2>1. k \in Nat /\ k >= 1 /\ k <= n
    OBVIOUS
  <2>2. j \in Nat /\ j * Chunk <= k - 1 /\ k - 1 < (j + 1) * Chunk
    BY <1>1, <2>1, Z3
  <2>3. j <= NJobs(n) - 1 /\ NJobs(n) \in Nat
    BY <1>1, <2>1, Z3 DEF NJobs
  <2> HIDE DEF j
  <2>4. k \in JobRows(j, n)
    BY <1>1, <2>1, <2>2 DEF JobRows
  <2> QED
    BY <2>2, <2>3, <2>4
<1> QED
  BY <1>2 DEF JobRows

LEMMA NoJobs == NJobs(0) = 0
  BY PoolAssumption, Z3 DEF NJobs

---------------------------------------------------------------------------
(* The mapping *)

\* Between two lookups there is no id vector, inside one there is.
Asking == ids = <<>> <=> callerPc \in {"idle", "stopped", "join", "closed"}

Mapped == IInv /\ Asking

LEMMA InitMapped == Init => Mapped
  BY InitIInv DEF Init, Mapped, Asking

LEMMA NextMapped == Mapped /\ [Next]_vars => Mapped'
<1> SUFFICES ASSUME Mapped, [Next]_vars PROVE Asking'
  BY NextIInv DEF Mapped
<1> USE DEF Mapped, Asking
<1>1. ASSUME NEW q \in Requests, Lookup(q)
      PROVE  Asking'
  <2>1. ids' = q /\ (q = <<>> => callerPc' = "idle")
    <3>1. q = <<>> => NJobs(Len(q)) # 1
      BY NoJobs
    <3> QED
      BY <1>1, <3>1 DEF Lookup
  <2>2. q # <<>> => callerPc' \in {"inline", "publish"}
    BY <1>1 DEF Lookup
  <2> QED
    BY <2>1, <2>2
<1>2. CASE CallerStep
  BY <1>2 DEF CallerStep, LookupInline, LookupServed, RunPublish, RunNotify, RunAwait,
              CloseNotify, CloseJoin
<1>3. ASSUME NEW t \in Threads, ThreadStep(t)
      PROVE  Asking'
  BY <1>3 DEF ThreadStep, LoopExit, LoopClaim, LoopSleep, LoopCall, LoopCount, WakesCaller, caller
<1>4. CASE CloseStop \/ SpuriousWakeup \/ Closed \/ UNCHANGED vars
  BY <1>4 DEF CloseStop, SpuriousWakeup, Closed, vars, caller
<1> QED
  BY <1>1, <1>2, <1>3, <1>4 DEF Next

\* No row is pending between two lookups.
LEMMA NothingPending ==
  ASSUME ids = <<>>
  PROVE  PendingRows = {}
<1>1. Len(ids) = 0
  OBVIOUS
<1>2. 1..Len(ids) = {} /\ 0..(NJobs(Len(ids)) - 1) = {}
  BY <1>1, NoJobs
<1> QED
  BY <1>2 DEF PendingRows, OpenJobs

LEMMA NothingPendingNext ==
  ASSUME ids' = <<>>
  PROVE  PendingRows' = {}
<1>1. Len(ids') = 0
  OBVIOUS
<1>2. 1..Len(ids') = {} /\ 0..(NJobs(Len(ids')) - 1) = {}
  BY <1>1, NoJobs
<1> QED
  BY <1>2 DEF PendingRows, OpenJobs

\* A step that touches none of the variables of the mapping changes no pending row.
LEMMA PendingUnchanged ==
  ASSUME ids' = ids, next' = next, index' = index,
         callerPc' \in {"publish", "inline", "served"} <=> callerPc \in {"publish", "inline", "served"},
         callerPc' \in {"publish", "inline", "served"} => callerPc' = callerPc,
         \A t \in Threads : threadPc'[t] = "claimed" <=> threadPc[t] = "claimed"
  PROVE  PendingRows' = PendingRows
<1>1. OpenJobs' = OpenJobs
  BY DEF OpenJobs
<1>2. /\ (callerPc' = "inline") <=> (callerPc = "inline")
      /\ (callerPc' = "served") <=> (callerPc = "served")
  OBVIOUS
<1> QED
  BY <1>1, <1>2 DEF PendingRows

---------------------------------------------------------------------------
(* Every step of the pool is a step of the abstract lookup, or none *)

LEMMA LookupRefines ==
  ASSUME Mapped, NEW q \in Requests, Lookup(q)
  PROVE  [Promise!ANext]_(Promise!avars)
<1>1. ids = <<>> /\ ids' = q /\ out' = out /\ q \in Seq(Int)
  BY TableAssumption DEF Mapped, Asking, Lookup
<1>2. CASE q = <<>>
  <2>1. PendingRows = {} /\ PendingRows' = {}
    BY <1>1, <1>2, NothingPending, NothingPendingNext
  <2> QED
    BY <1>1, <1>2, <2>1 DEF Promise!avars
<1>3. CASE q # <<>>
  <2>1. callerPc' \in {"inline", "publish"}
    BY <1>3 DEF Lookup
  <2>2. PendingRows' = 1..Len(q)
    <3>1. CASE callerPc' = "inline"
      BY <1>1, <3>1 DEF PendingRows
    <3>2. CASE callerPc' = "publish"
      <4>1. OpenJobs' = 0..(NJobs(Len(q)) - 1)
        BY <1>1, <3>2 DEF OpenJobs
      <4>2. Len(q) \in Nat
        BY <1>1
      <4> QED
        BY <1>1, <3>2, <4>1, <4>2, JobRowsCover DEF PendingRows
    <3> QED
      BY <2>1, <3>1, <3>2
  <2> QED
    BY <1>1, <2>2 DEF Promise!ANext, Promise!Ask
<1> QED
  BY <1>2, <1>3

LEMMA InlineRefines ==
  ASSUME Mapped, LookupInline
  PROVE  [Promise!ANext]_(Promise!avars)
<1>1. PendingRows = 1..Len(ids) /\ PendingRows' = {} /\ ids' = ids
  BY DEF LookupInline, PendingRows
<1>2. out' = [i \in 1..MaxRows |-> IF i \in 1..Len(ids) THEN Promise!FetchOne(ids[i]) ELSE out[i]]
  BY DEF LookupInline, Fetched, FetchOne, Promise!FetchOne, ZeroRow, Abort, Promise!ZeroRow, Promise!Abort
<1>3. Promise!Fetch(1..Len(ids))
  BY <1>1, <1>2 DEF Promise!Fetch
<1> QED
  BY <1>1, <1>3 DEF Promise!ANext

LEMMA ReturnRefines ==
  ASSUME Mapped, LookupServed \/ RunAwait
  PROVE  [Promise!ANext]_(Promise!avars)
<1>1. CASE RunAwait /\ ~AllDone
  <2>1. ids' = ids /\ out' = out /\ PendingRows' = PendingRows
    BY <1>1, PendingUnchanged DEF RunAwait, pool, threads
  <2> QED
    BY <2>1 DEF Promise!avars
<1>2. CASE LookupServed \/ (RunAwait /\ AllDone)
  <2>1. ids # <<>> /\ ids' = <<>> /\ out' = out
    BY <1>2 DEF Mapped, Asking, LookupServed, RunAwait
  <2>2. PendingRows' = {}
    BY <2>1, NothingPendingNext
  <2>3. PendingRows = {}
    <3>1. CASE LookupServed
      BY <3>1 DEF LookupServed, PendingRows
    <3>2. CASE RunAwait /\ AllDone
      <4>1. next = NJobs(Len(ids)) /\ Busy = {}
        <5>1. njobs = NJobs(Len(ids)) /\ finished = njobs /\ next <= njobs
          BY <3>2 DEF Mapped, IInv, Types, Quiescent, InRun, RunAwait, AllDone
        <5>2. Cardinality(Busy) = 0 /\ next = njobs
          BY <5>1, BusyFinite DEF Mapped, IInv, Types, Accounted
        <5> QED
          BY <5>1, <5>2, BusyFinite, FS_EmptySet
      <4>2. next \in Nat
        BY DEF Mapped, IInv, Types
      <4>3. OpenJobs = {}
        BY <3>2, <4>1, <4>2 DEF OpenJobs, Busy, RunAwait
      <4> QED
        BY <3>2, <4>3 DEF PendingRows, RunAwait
    <3> QED
      BY <1>2, <3>1, <3>2
  <2> QED
    BY <2>1, <2>2, <2>3 DEF Promise!ANext, Promise!Return
<1> QED
  BY <1>1, <1>2

\* Publishing the job: every row is as pending as before.
LEMMA PublishRefines ==
  ASSUME Mapped, RunPublish
  PROVE  [Promise!ANext]_(Promise!avars)
<1>1. ids' = ids /\ out' = out
  BY DEF RunPublish
<1>2. OpenJobs = 0..(NJobs(Len(ids)) - 1) /\ OpenJobs' = 0..(NJobs(Len(ids)) - 1)
  BY DEF RunPublish, OpenJobs
<1>3. PendingRows' = PendingRows
  BY <1>1, <1>2 DEF RunPublish, PendingRows
<1> QED
  BY <1>1, <1>3 DEF Promise!avars

\* Claiming a job leaves its rows pending.
LEMMA ClaimRefines ==
  ASSUME Mapped, NEW t \in Threads, LoopClaim(t)
  PROVE  [Promise!ANext]_(Promise!avars)
<1>1. ids' = ids /\ out' = out /\ callerPc' = callerPc /\ next' = next + 1 /\ next \in Nat
  BY DEF LoopClaim, NextAfterClaim, caller, Mapped, IInv, Types
<1>2. \A j : (\E u \in Threads : threadPc'[u] = "claimed" /\ index'[u] = j)
             <=> (j = next \/ \E u \in Threads : threadPc[u] = "claimed" /\ index[u] = j)
  BY DEF LoopClaim, Mapped, IInv, Types
<1>3. \A j \in Nat : j >= next <=> j = next \/ j >= next + 1
  BY <1>1
<1>4. OpenJobs' = OpenJobs
  <2>1. NJobs(Len(ids)) \in Nat
    BY NJobsType DEF Mapped, IInv, Types
  <2>2. \A j \in 0..(NJobs(Len(ids)) - 1) : j \in Nat
    BY <2>1
  <2> QED
    BY <1>1, <1>2, <1>3, <2>2 DEF OpenJobs
<1> QED
  BY <1>1, <1>4 DEF PendingRows, Promise!avars

\* Running a job fetches its rows, and no other job has any of them.
LEMMA CallRefines ==
  ASSUME Mapped, NEW t \in Threads, LoopCall(t)
  PROVE  [Promise!ANext]_(Promise!avars)
<1> DEFINE i == index[t]
           S == JobRows(i, Len(ids))
<1>1. /\ ids' = ids /\ callerPc' = callerPc /\ next' = next /\ index' = index
      /\ threadPc[t] = "claimed" /\ threadPc' = [threadPc EXCEPT ![t] = "called"]
      /\ out' = Fetched(S)
  BY DEF LoopCall, caller, pool
<1>2. t \in Busy /\ InRun
  BY <1>1 DEF Busy, Mapped, IInv, Quiescent, InRun
<1>3. i \in Nat /\ next \in Nat /\ i < next /\ next <= NJobs(Len(ids)) /\ Len(ids) \in Nat
  <2>1. i \in Nat /\ next \in Nat /\ njobs \in Nat /\ next <= njobs /\ Len(ids) \in Nat
    BY DEF Mapped, IInv, Types
  <2>2. i < next
    BY <1>2 DEF Mapped, IInv, Accounted
  <2>3. njobs = NJobs(Len(ids))
    BY <1>2 DEF Mapped, IInv, Quiescent
  <2> QED
    BY <2>1, <2>2, <2>3
<1>4. OpenJobs \subseteq Nat /\ i \in OpenJobs
  <2>1. NJobs(Len(ids)) \in Nat
    BY <1>3, NJobsType
  <2>2. \A j \in 0..(NJobs(Len(ids)) - 1) : j \in Nat
    BY <2>1
  <2>3. i \in 0..(NJobs(Len(ids)) - 1)
    BY <1>3, <2>1
  <2>4. \E u \in Threads : threadPc[u] = "claimed" /\ index[u] = i
    BY <1>1
  <2> HIDE DEF i
  <2> QED
    BY <2>2, <2>3, <2>4 DEF OpenJobs
<1>5. \A u \in Threads : threadPc[u] = "claimed" /\ index[u] = i => u = t
  BY <1>2 DEF Mapped, IInv, Accounted, NoDoubleClaim, Busy
<1>6. OpenJobs' = OpenJobs \ {i}
  <2>1. \A j : (\E u \in Threads : threadPc'[u] = "claimed" /\ index'[u] = j)
               <=> (j # i /\ \E u \in Threads : threadPc[u] = "claimed" /\ index[u] = j)
    BY <1>1, <1>5 DEF Mapped, IInv, Types
  <2>2. ~(i >= next) /\ callerPc # "publish"
    BY <1>2, <1>3 DEF InRun
  <2> QED
    BY <1>1, <1>3, <2>1, <2>2, NJobsType DEF OpenJobs
<1>7. PendingRows = UNION {JobRows(j, Len(ids)) : j \in OpenJobs}
  BY <1>2 DEF PendingRows, InRun
<1>8. PendingRows' = UNION {JobRows(j, Len(ids)) : j \in OpenJobs \ {i}}
  BY <1>1, <1>2, <1>6 DEF PendingRows, InRun
<1>9. PendingRows' = PendingRows \ S /\ S \subseteq PendingRows
  BY <1>3, <1>4, <1>7, <1>8, JobRowsDisjoint
<1>10. out' = [k \in 1..MaxRows |-> IF k \in S THEN Promise!FetchOne(ids[k]) ELSE out[k]]
  BY <1>1 DEF Fetched, FetchOne, Promise!FetchOne, ZeroRow, Abort, Promise!ZeroRow, Promise!Abort
<1> HIDE DEF S
<1>11. Promise!Fetch(S)
  BY <1>1, <1>9, <1>10 DEF Promise!Fetch
<1> QED
  BY <1>9, <1>11 DEF Promise!ANext

\* All other steps are invisible to the caller of a lookup.
LEMMA OthersRefine ==
  ASSUME Mapped,
         \/ RunNotify \/ CloseStop \/ CloseNotify \/ CloseJoin \/ SpuriousWakeup \/ Closed
         \/ UNCHANGED vars
         \/ \E t \in Threads : LoopExit(t) \/ LoopSleep(t) \/ LoopCount(t)
  PROVE  [Promise!ANext]_(Promise!avars)
<1> USE DEF pool, threads, caller, Mapped, IInv, Types
<1>1. CASE RunNotify \/ CloseStop \/ CloseNotify \/ CloseJoin
  <2>1. ids' = ids /\ out' = out /\ PendingRows' = PendingRows
    BY <1>1, PendingUnchanged DEF RunNotify, CloseStop, CloseNotify, CloseJoin, Awoken
  <2> QED
    BY <2>1 DEF Promise!avars
<1>2. CASE SpuriousWakeup \/ Closed \/ UNCHANGED vars
  <2>1. ids' = ids /\ out' = out /\ PendingRows' = PendingRows
    BY <1>2, PendingUnchanged DEF SpuriousWakeup, Closed, vars
  <2> QED
    BY <2>1 DEF Promise!avars
<1>3. ASSUME NEW t \in Threads, LoopExit(t) \/ LoopSleep(t) \/ LoopCount(t)
      PROVE  [Promise!ANext]_(Promise!avars)
  <2>1. ids' = ids /\ out' = out /\ PendingRows' = PendingRows
    BY <1>3, PendingUnchanged DEF LoopExit, LoopSleep, LoopCount, WakesCaller
  <2> QED
    BY <2>1 DEF Promise!avars
<1> QED
  BY <1>1, <1>2, <1>3

(***************************************************************************)
(* The pool implements the abstract lookup for any number of threads, any  *)
(* chunk size and any requests: whatever the interleaving, run returns     *)
(* with every row fetched for this lookup, each once (ImplementsRowLookup).*)
(***************************************************************************)
THEOREM PoolImplementsRowLookup == Spec => ImplementsRowLookup
<1>1. Init => Promise!AInit
  BY NothingPending DEF Init, Promise!AInit, Unwritten, Promise!Unwritten
<1>2. Mapped /\ [Next]_vars => [Promise!ANext]_(Promise!avars)
  BY LookupRefines, InlineRefines, ReturnRefines, PublishRefines, ClaimRefines, CallRefines,
     OthersRefine
  DEF Next, CallerStep, ThreadStep
<1> QED
  BY <1>1, <1>2, InitMapped, NextMapped, PTL DEF Spec, ImplementsRowLookup, Promise!ASpec
===========================================================================
