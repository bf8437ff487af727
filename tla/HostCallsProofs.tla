-------------------------- MODULE HostCallsProofs --------------------------
(***************************************************************************)
(* For any team, number of experts, batch sizes, routings and schedule of  *)
(* the threads: the phases of an expert forward never overlap, no capture  *)
(* meets a capacity that was not warmed up, and a forward uses the rows    *)
(* and the expert outputs of its own tokens.                               *)
(*                                                                         *)
(* The last of these rests on two invariants: HostInv, what the operations *)
(* of a forward leave to the later ones in the buffers that all forwards   *)
(* share, and TeamInv, what the iterations that have been run leave in the *)
(* scratch.                                                                *)
(***************************************************************************)
EXTENDS HostCalls, DataTheorems

Loops == Permute..Done
Barriers == {Permute, GateStatic, DownStatic, Combine}

\* All threads have passed a barrier, or none has.
InStep == \A th, o \in Threads : \A b \in Barriers : at[th] > b => at[o] > b

\* Who has left a dynamic loop has left none of its iterations unclaimed.
Exhausted ==
  \A th \in Threads : \A loop \in Dynamic : at[th] > loop => nextTask[loop] >= Iterations(loop)

IInv ==
  /\ at \in [Threads -> Loops]
  /\ nextTask \in [Dynamic -> Nat]
  /\ waiting \subseteq {th \in Threads : at[th] \in Barriers}
  /\ InStep
  /\ Exhausted

LEMMA DynamicIterations ==
  ASSUME CpuMoeAssumption, NEW loop \in Dynamic
  PROVE  Iterations(loop) \in Nat
<1>1. IsFiniteSet(Active)
  <2>1. IsFiniteSet(Experts)
    BY FS_Interval DEF CpuMoeAssumption, Experts
  <2> QED  BY <2>1, FS_Subset DEF Active
<1>2. Cardinality(Active) \in Nat
  BY <1>1, FS_CardinalityType
<1>3. GateTasks \in Nat /\ DownTasks \in Nat
  BY <1>2 DEF GateTasks, DownTasks, CpuMoeAssumption
<1> QED
  BY <1>3 DEF Iterations, Dynamic, Permute, GateDynamic, GateStatic, DownDynamic, DownStatic, Combine

LEMMA InitIInv == CpuMoeAssumption /\ Init => IInv
<1> SUFFICES ASSUME CpuMoeAssumption, Init PROVE IInv  OBVIOUS
<1> USE DEF Init, InitForward
<1>1. at \in [Threads -> Loops] /\ waiting = {} /\ \A th \in Threads : at[th] = Done
  BY DEF Loops, Permute, Done
<1>2. \A loop \in Dynamic : Iterations(loop) = 0 /\ nextTask[loop] = 0
  BY DEF Iterations, NoCall, CpuMoeAssumption, Dynamic, Permute, GateDynamic, GateStatic,
         DownDynamic, DownStatic, Combine
<1>3. nextTask \in [Dynamic -> Nat]
  OBVIOUS
<1> QED  BY <1>1, <1>2, <1>3 DEF IInv, InStep, Exhausted, Done, Barriers, Permute, GateStatic,
                                DownStatic, Combine

LEMMA UnchangedIInv ==
  ASSUME IInv, UNCHANGED <<call, eStart, at, nextTask, waiting>>
  PROVE  IInv'
<1>1. \A loop \in Dynamic : Iterations(loop)' = Iterations(loop)
  BY DEF Iterations, GateTasks, DownTasks, Active
<1> QED  BY <1>1 DEF IInv, InStep, Exhausted

LEMMA ForkIInv ==
  ASSUME IInv, NEW work, Fork(work)
  PROVE  IInv'
<1>1. at' = [th \in Threads |-> Permute] /\ waiting' = {} /\ nextTask' = [loop \in Dynamic |-> 0]
  BY DEF Fork
<1> QED  BY <1>1 DEF IInv, InStep, Exhausted, Loops, Dynamic, Barriers, Permute, GateStatic,
                     DownStatic, Combine, GateDynamic, DownDynamic, Done

LEMMA ThreadIInv ==
  ASSUME CpuMoeAssumption, IInv, NEW th \in Threads, ThreadStep(th)
  PROVE  IInv'
<1>0. call' = call /\ eStart' = eStart
  BY DEF ThreadStep, Claim, Run, LeaveLoop, Arrive, scratch
<1>1. \A loop \in Dynamic : Iterations(loop)' = Iterations(loop) /\ Iterations(loop) \in Nat
  BY <1>0, DynamicIterations DEF Iterations, GateTasks, DownTasks, Active
<1>2. CASE Claim(th)
  <2>1. at' = at /\ waiting' = waiting /\ at[th] \in Dynamic
    BY <1>2 DEF Claim
  <2>2. /\ nextTask[at[th]] < Iterations(at[th])
        /\ nextTask' \in [Dynamic -> Nat]
        /\ \A loop \in Dynamic : loop # at[th] => nextTask'[loop] = nextTask[loop]
    BY <1>1, <1>2, <2>1 DEF Claim, IInv
  <2>3. \A o \in Threads : ~ (at[o] > at[th])
    BY <1>1, <2>1, <2>2 DEF IInv, Exhausted
  <2>4. Exhausted'
    BY <1>1, <2>1, <2>2, <2>3 DEF IInv, Exhausted
  <2> QED  BY <2>1, <2>2, <2>4 DEF IInv, InStep
<1>3. CASE Run(th)
  BY <1>3, UnchangedIInv DEF Run
<1>4. CASE LeaveLoop(th)
  <2>1. /\ at' = [at EXCEPT ![th] = at[th] + 1]
        /\ at[th] \in Dynamic /\ nextTask[at[th]] >= Iterations(at[th])
        /\ nextTask' = nextTask /\ waiting' = waiting /\ th \notin waiting
    BY <1>4 DEF LeaveLoop, Finished, Advanced, HasBarrier, IInv
  <2>2. InStep'
    BY <2>1 DEF IInv, InStep, Loops, Barriers, Dynamic, Permute, GateDynamic, GateStatic,
                DownDynamic, DownStatic, Combine, Done
  <2>3. Exhausted'
    BY <1>1, <2>1 DEF IInv, Exhausted, Loops, Dynamic, Permute, GateDynamic, DownDynamic, Done
  <2> QED
    BY <2>1, <2>2, <2>3 DEF IInv, Loops, Dynamic, Permute, GateDynamic, DownDynamic, Done
<1>5. CASE Arrive(th)
  <2>1. nextTask' = nextTask /\ at[th] \in Barriers /\ th \notin waiting
    BY <1>5 DEF Arrive, Finished, HasBarrier, IInv, Loops, Barriers, Dynamic, Permute, GateDynamic,
                GateStatic, DownDynamic, DownStatic, Combine, Done
  <2>2. CASE waiting \union {th} # Threads
    <3>1. at' = at /\ waiting' = waiting \union {th}
      BY <1>5, <2>2 DEF Arrive
    <3> QED  BY <1>1, <2>1, <3>1 DEF IInv, InStep, Exhausted
  <2>3. CASE waiting \union {th} = Threads
    <3>1. waiting' = {} /\ at' = [o \in Threads |-> at[o] + 1]
      BY <1>5, <2>3 DEF Arrive, Advanced
    <3>2. \A o \in Threads : at[o] = at[th]
      BY <2>1, <2>3 DEF IInv, InStep, Loops, Barriers, Permute, GateStatic, DownStatic, Combine, Done
    <3>3. at' \in [Threads -> Loops] /\ \A o \in Threads : at'[o] = at'[th]
      BY <2>1, <3>1, <3>2 DEF IInv, Loops, Barriers, Permute, GateStatic, DownStatic, Combine, Done
    <3>4. InStep'
      BY <3>3 DEF InStep
    <3>5. Exhausted'
      BY <1>1, <2>1, <3>1, <3>2 DEF IInv, Exhausted, Loops, Dynamic, Barriers, Permute, GateDynamic,
         GateStatic, DownDynamic, DownStatic, Combine, Done
    <3> QED  BY <2>1, <3>1, <3>3, <3>4, <3>5 DEF IInv
  <2> QED  BY <2>2, <2>3
<1> QED  BY <1>2, <1>3, <1>4, <1>5 DEF ThreadStep

LEMMA JoinIInv ==
  ASSUME CpuMoeAssumption, IInv, Join
  PROVE  IInv'
<1>1. at' = at /\ nextTask' = nextTask /\ waiting' = waiting /\ call' = NoCall
  BY DEF Join, team
<1>2. \A loop \in Dynamic : Iterations(loop)' = 0
  BY <1>1 DEF Iterations, NoCall, CpuMoeAssumption, Dynamic, Permute, GateDynamic, GateStatic,
              DownDynamic, DownStatic, Combine
<1> QED  BY <1>1, <1>2 DEF IInv, InStep, Exhausted

(***************************************************************************)
(* The inductive invariant: at every barrier the team is in step, and a    *)
(* nowait loop is left only when it is exhausted (cpu_moe.cpp, the         *)
(* parallel region of cpu_moe_forward).                                    *)
(***************************************************************************)
THEOREM ExpertsIInv == Spec => []IInv
<1>1. Init => IInv
  BY InitIInv, CpuMoeAssumption
<1>2. IInv /\ [Next]_vars => IInv'
  <2> SUFFICES ASSUME IInv, [Next]_vars PROVE IInv'  OBVIOUS
  <2>1. ASSUME UNCHANGED forwardVars PROVE IInv'
    BY <2>1, UnchangedIInv DEF forwardVars, scratch, team
  <2>2. ASSUME NEW m \in BatchSizes, Capture(m) \/ Launch(m) PROVE IInv'
    BY <2>1, <2>2 DEF Capture, Launch
  <2>3. CASE EnterExperts
    BY <2>3, ForkIInv DEF EnterExperts
  <2>4. CASE LeaveExperts
    BY <2>4, JoinIInv, CpuMoeAssumption DEF LeaveExperts
  <2>5. CASE CopyTokens
    BY <2>5, UnchangedIInv DEF CopyTokens, scratch, team
  <2>6. ASSUME NEW th \in Threads, TeamStep(th) PROVE IInv'
    BY <2>6, ThreadIInv, CpuMoeAssumption DEF TeamStep
  <2>7. CASE CopyIds \/ LookupRows \/ CopyRows \/ CopyOutput \/ Use
    BY <2>1, <2>7 DEF CopyIds, LookupRows, CopyRows, CopyOutput, Use
  <2>8. CASE Idle \/ UNCHANGED vars
    BY <2>1, <2>8 DEF Idle, vars
  <2> QED  BY <2>2, <2>3, <2>4, <2>5, <2>6, <2>7, <2>8 DEF Next, StreamStep
<1> QED  BY <1>1, <1>2, PTL DEF Spec

(***************************************************************************)
(* No thread reads what another is still writing: the phases of a forward  *)
(* are separate whichever loops its batch takes (cpu_moe.cpp, the nowait   *)
(* clauses).                                                               *)
(***************************************************************************)
THEOREM ExpertsPhasesSeparate == Spec => []PhasesSeparate
<1>1. IInv => PhasesSeparate
  <2> SUFFICES ASSUME IInv, NEW th \in Threads PROVE
        /\ \A o \in Threads : Phase(at[o]) = Phase(at[th])
        /\ \A loop \in Dynamic : Phase(loop) < Phase(at[th]) => nextTask[loop] >= Iterations(loop)
    BY DEF PhasesSeparate
  <2> USE DEF Phase, Loops, Barriers, Dynamic, Permute, GateDynamic, GateStatic, DownDynamic,
              DownStatic, Combine, Done
  <2>1. \A o \in Threads : Phase(at[o]) = Phase(at[th])
    BY DEF IInv, InStep
  <2>2. \A loop \in Dynamic : Phase(loop) < Phase(at[th]) => at[th] > loop
    BY DEF IInv
  <2> QED  BY <2>1, <2>2 DEF IInv, Exhausted
<1> QED  BY <1>1, ExpertsIInv, PTL

---------------------------------------------------------------------------
(* Capacities *)

Doubles(g, n) == g[0] = 1 /\ \A i \in 1..n : g[i] = 2 * g[i - 1]

LEMMA DoublesExist ==
  ASSUME NEW n \in Nat
  PROVE  \E g \in [Nat -> Nat] : Doubles(g, n)
<1> DEFINE T == {k \in Nat : \E g \in [Nat -> Nat] : Doubles(g, k)}
<1>1. 0 \in T
  <2> DEFINE g == [i \in Nat |-> 1]
  <2>1. g \in [Nat -> Nat] /\ g[0] = 1
    OBVIOUS
  <2> HIDE DEF g
  <2>2. Doubles(g, 0)
    BY <2>1 DEF Doubles
  <2> QED  BY <2>1, <2>2
<1>2. ASSUME NEW k \in Nat, k \in T PROVE k + 1 \in T
  <2>1. PICK g \in [Nat -> Nat] : Doubles(g, k)
    BY <1>2
  <2> DEFINE h == [i \in Nat |-> IF i = k + 1 THEN 2 * g[k] ELSE g[i]]
  <2>2. h \in [Nat -> Nat] /\ h[k + 1] = 2 * g[k] /\ \A i \in 0..k : h[i] = g[i]
    OBVIOUS
  <2> HIDE DEF h
  <2>3. Doubles(h, k + 1)
    <3>1. h[0] = 1
      BY <2>1, <2>2 DEF Doubles
    <3>2. ASSUME NEW i \in 1..(k + 1) PROVE h[i] = 2 * h[i - 1]
      <4>1. CASE i = k + 1
        BY <2>2, <4>1
      <4>2. CASE i # k + 1
        <5>1. i \in 1..k /\ i \in 0..k /\ i - 1 \in 0..k
          BY <4>2
        <5> QED  BY <2>1, <2>2, <5>1 DEF Doubles
      <4> QED  BY <4>1, <4>2
    <3> QED  BY <3>1, <3>2 DEF Doubles
  <2> QED  BY <2>2, <2>3
<1>3. Nat \subseteq T
  <2> HIDE DEF T
  <2> QED  BY <1>1, <1>2, NatSetInduction
<1> QED  BY <1>3

LEMMA DoublesUnique ==
  ASSUME NEW n \in Nat, NEW m \in 0..n, NEW g, NEW h, Doubles(g, m), Doubles(h, n)
  PROVE  g[m] = h[m]
<1> DEFINE T == {k \in Nat : k <= m => g[k] = h[k]}
<1>1. 0 \in T
  BY DEF Doubles
<1>2. ASSUME NEW k \in Nat, k \in T PROVE k + 1 \in T
  <2> SUFFICES ASSUME k + 1 <= m PROVE g[k + 1] = h[k + 1]
    OBVIOUS
  <2>1. k + 1 \in 1..m /\ k + 1 \in 1..n /\ (k + 1) - 1 = k /\ g[k] = h[k]
    BY <1>2
  <2>2. g[k + 1] = 2 * g[(k + 1) - 1] /\ h[k + 1] = 2 * h[(k + 1) - 1]
    BY <2>1 DEF Doubles
  <2> QED  BY <2>1, <2>2
<1>3. Nat \subseteq T
  <2> HIDE DEF T
  <2> QED  BY <1>1, <1>2, NatSetInduction
<1> QED  BY <1>3

\* The recursion defines a function.
LEMMA PowerFacts ==
  /\ PowerOfTwo[0] = 1
  /\ \A j \in Nat : PowerOfTwo[j] \in Nat /\ PowerOfTwo[j + 1] = 2 * PowerOfTwo[j]
<1> DEFINE F(n) == CHOOSE g \in [Nat -> Nat] : Doubles(g, n)
           f == [n \in Nat |-> F(n)[n]]
<1>1. \A n \in Nat : F(n) \in [Nat -> Nat] /\ Doubles(F(n), n)
  BY DoublesExist
<1>2. f[0] = 1 /\ \A n \in Nat : f[n] \in Nat
  BY <1>1 DEF Doubles
<1>3. ASSUME NEW n \in Nat PROVE f[n + 1] = 2 * f[n]
  <2> DEFINE g == F(n)  h == F(n + 1)
  <2>1. Doubles(g, n) /\ Doubles(h, n + 1) /\ n \in 0..(n + 1) /\ n + 1 \in Nat
    BY <1>1
  <2>2. f[n] = g[n] /\ f[n + 1] = h[n + 1]
    OBVIOUS
  <2> HIDE DEF g, h, f
  <2>3. g[n] = h[n]
    BY <2>1, DoublesUnique
  <2>4. n + 1 \in 1..(n + 1) /\ (n + 1) - 1 = n
    OBVIOUS
  <2>5. h[n + 1] = 2 * h[(n + 1) - 1]
    BY <2>1, <2>4 DEF Doubles
  <2> QED  BY <2>2, <2>3, <2>4, <2>5
<1>4. f = [j \in Nat |-> IF j = 0 THEN 1 ELSE 2 * f[j - 1]]
  <2> DEFINE e == [j \in Nat |-> IF j = 0 THEN 1 ELSE 2 * f[j - 1]]
  <2>1. f = [j \in Nat |-> f[j]]
    OBVIOUS
  <2>2. ASSUME NEW j \in Nat PROVE f[j] = e[j]
    <3>1. CASE j = 0
      BY <1>2, <3>1
    <3>2. CASE j # 0
      <4>1. j - 1 \in Nat /\ (j - 1) + 1 = j
        BY <3>2
      <4> HIDE DEF f
      <4> QED  BY <1>3, <3>2, <4>1
    <3> QED  BY <3>1, <3>2
  <2> HIDE DEF f
  <2> QED  BY <2>1, <2>2
<1> HIDE DEF f
<1>5. PowerOfTwo = [j \in Nat |-> IF j = 0 THEN 1 ELSE 2 * PowerOfTwo[j - 1]]
  BY <1>4 DEF PowerOfTwo
<1>6. PowerOfTwo[0] = 1 /\ \A j \in Nat : PowerOfTwo[j + 1] = 2 * PowerOfTwo[j]
  <2> HIDE DEF PowerOfTwo
  <2>1. \A j \in Nat : PowerOfTwo[j] = IF j = 0 THEN 1 ELSE 2 * PowerOfTwo[j - 1]
    BY <1>5
  <2>2. ASSUME NEW j \in Nat PROVE PowerOfTwo[j + 1] = 2 * PowerOfTwo[j]
    <3>1. j + 1 \in Nat /\ j + 1 # 0 /\ (j + 1) - 1 = j
      OBVIOUS
    <3> QED  BY <2>1, <3>1
  <2> QED  BY <2>1, <2>2
<1> DEFINE T == {k \in Nat : PowerOfTwo[k] \in Nat}
<1>7. Nat \subseteq T
  <2>1. 0 \in T
    BY <1>6
  <2>2. \A k \in Nat : k \in T => k + 1 \in T
    BY <1>6
  <2> HIDE DEF T
  <2> QED  BY <2>1, <2>2, NatSetInduction
<1> QED  BY <1>6, <1>7

LEMMA PowerGrows ==
  ASSUME NEW n \in Nat
  PROVE  PowerOfTwo[n] > n
<1> DEFINE T == {k \in Nat : PowerOfTwo[k] > k}
<1>1. 0 \in T
  BY PowerFacts
<1>2. ASSUME NEW k \in Nat, k \in T PROVE k + 1 \in T
  <2>1. PowerOfTwo[k] \in Nat /\ PowerOfTwo[k] > k /\ PowerOfTwo[k + 1] = 2 * PowerOfTwo[k]
    BY <1>2, PowerFacts
  <2> QED  BY <2>1
<1>3. Nat \subseteq T
  <2> HIDE DEF T
  <2> QED  BY <1>1, <1>2, NatSetInduction
<1> QED  BY <1>3

\* The capacity of a count is at least the count and less than twice as much.
LEMMA CapacityFacts ==
  ASSUME NEW n \in Nat, n > 0
  PROVE  /\ Capacity(n) \in Nat /\ Capacity(n) >= n /\ Capacity(n) < 2 * n
         /\ \E j \in 0..n : Capacity(n) = PowerOfTwo[j]
<1> DEFINE S == {PowerOfTwo[j] : j \in {j \in 0..n : PowerOfTwo[j] >= n}}  c == Capacity(n)
<1>1. SomeNats(S)
  <2>1. PowerOfTwo[n] \in S
    BY PowerGrows, PowerFacts
  <2>2. S \subseteq Nat
    BY PowerFacts
  <2> QED  BY <2>1, <2>2 DEF SomeNats
<1>2. c \in S /\ \A y \in S : c <= y
  <2> HIDE DEF S
  <2>1. Min(S) \in S /\ \A y \in S : Min(S) <= y
    BY <1>1, MinOfNat
  <2> QED  BY <2>1 DEF Capacity, S
<1> HIDE DEF c
<1>3. PICK j \in 0..n : c = PowerOfTwo[j] /\ PowerOfTwo[j] >= n
  BY <1>2
<1>4. c \in Nat
  BY <1>3, PowerFacts
<1>5. CASE j = 0
  BY <1>3, <1>4, <1>5, PowerFacts DEF c
<1>6. CASE j # 0
  <2>1. j - 1 \in Nat /\ j - 1 \in 0..n /\ (j - 1) + 1 = j
    BY <1>6
  <2>2. PowerOfTwo[j - 1] \in Nat /\ c = 2 * PowerOfTwo[j - 1]
    BY <1>3, <2>1, PowerFacts
  <2>3. ~(PowerOfTwo[j - 1] >= n)
    <3> SUFFICES ASSUME PowerOfTwo[j - 1] >= n PROVE FALSE
      OBVIOUS
    <3>1. PowerOfTwo[j - 1] \in S
      BY <2>1
    <3>2. c <= PowerOfTwo[j - 1] /\ c > 0
      BY <1>2, <1>3, <1>4, <3>1
    <3> QED  BY <2>2, <3>2
  <2>4. c >= n /\ c < 2 * n
    BY <1>3, <1>4, <2>2, <2>3
  <2> QED  BY <1>3, <1>4, <2>4 DEF c
<1> QED  BY <1>5, <1>6

\* Whatever a graph may need is among the capacities warmed up.
LEMMA CapacityWarmed ==
  ASSUME NEW u, NEW m \in BatchSizes
  PROVE  Capacity(Count(u, m)) \in Warmed(u)
<1> DEFINE n == Count(u, m)  x == Count(u, MaxTokens)
<1>1. m \in Nat /\ m > 0 /\ m <= MaxTokens /\ MaxTokens \in Nat /\ Heads \in Nat /\ Heads > 0
  BY HostCallsAssumption, CpuMoeAssumption DEF HostCallsAssumption, CpuMoeAssumption
<1>2. n \in Nat /\ x \in Nat /\ n > 0 /\ n <= x
  <2>1. m * Heads \in Nat /\ MaxTokens * Heads \in Nat /\ m * Heads > 0
    BY <1>1
  <2>2. m * Heads <= MaxTokens * Heads
    BY <1>1
  <2> QED  BY <1>1, <2>1, <2>2 DEF Count
<1> HIDE DEF n, x
<1>3. PICK j \in 0..n : Capacity(n) = PowerOfTwo[j]
  BY <1>2, CapacityFacts
<1>4. Capacity(n) \in Nat /\ Capacity(n) < 2 * n
  BY <1>2, CapacityFacts
<1>5. j \in 0..(2 * x) /\ PowerOfTwo[j] <= 2 * x
  BY <1>2, <1>3, <1>4
<1>6. PowerOfTwo[j] \in PowersUpTo(2 * x)
  BY <1>5 DEF PowersUpTo
<1> QED  BY <1>3, <1>6 DEF Warmed, n, x

\* What was warmed up stays.
Ready ==
  /\ refused = FALSE
  /\ staged = [u \in Users |-> staged[u]] /\ \A u \in Users : Warmed(u) \subseteq staged[u]

(***************************************************************************)
(* No capture meets a capacity without staging, for any batch sizes, heads *)
(* and order of captures: warmup has made them all (_buffers and warmup of *)
(* engram_ssd.py and cpu_moe.py, which raise otherwise).                   *)
(***************************************************************************)
THEOREM CapturesPass == Spec => []CaptureNeverRefused
<1>1. Init => Ready
  BY DEF Init, Ready
<1>2. Ready /\ [Next]_vars => Ready'
  <2> SUFFICES ASSUME Ready, [Next]_vars PROVE Ready'
    OBVIOUS
  <2>1. ASSUME UNCHANGED <<staged, refused>> PROVE Ready'
    BY <2>1 DEF Ready
  <2>2. ASSUME NEW m \in BatchSizes, Capture(m) PROVE Ready'
    <3>1. \A u \in Users : Capacity(Count(u, m)) \in staged[u]
      BY CapacityWarmed DEF Ready
    <3> QED  BY <2>1, <2>2, <3>1 DEF Capture
  <2>3. ASSUME NEW m \in BatchSizes, Launch(m) PROVE Ready'
    BY <2>3 DEF Launch, Ready
  <2>4. ASSUME StreamStep PROVE Ready'
    BY <2>1, <2>4 DEF StreamStep, CopyIds, LookupRows, CopyRows, CopyTokens, EnterExperts,
                      LeaveExperts, CopyOutput, Use, hostVars
  <2>5. ASSUME NEW th \in Threads, TeamStep(th) PROVE Ready'
    BY <2>1, <2>5 DEF TeamStep, hostVars
  <2>6. CASE Idle \/ UNCHANGED vars
    BY <2>1, <2>6 DEF Idle, vars, hostVars
  <2> QED  BY <2>2, <2>3, <2>4, <2>5, <2>6 DEF Next
<1>3. Ready => CaptureNeverRefused
  BY DEF Ready, CaptureNeverRefused
<1> QED  BY <1>1, <1>2, <1>3, PTL DEF Spec

---------------------------------------------------------------------------
(* What a forward finds in the buffers it shares *)

\* What Launch may enqueue for m tokens.
BatchOf(l, a, r) == [n |-> l, route |-> [t \in 1..a |-> r[t]]]
Batched(m) == {BatchOf(l, a, r) : l \in 1..MaxLaunches, a \in 1..m, r \in Routings}

WorkOf(n) == [m |-> n, cap |-> Capacity(n)]

\* The operations of a forward, in the order they are enqueued.
Op(j, m, b) ==
  CASE j = 1 -> [op |-> "copyIn", user |-> "rows", m |-> m, batch |-> b]
    [] j = 2 -> [op |-> "host", user |-> "rows", m |-> m, work |-> WorkOf(Count("rows", m))]
    [] j = 3 -> [op |-> "copyOut", user |-> "rows", m |-> m]
    [] j = 4 -> [op |-> "copyIn", user |-> "experts", m |-> m, batch |-> b]
    [] j = 5 -> [op |-> "host", user |-> "experts", m |-> m, work |-> WorkOf(Count("experts", m))]
    [] j = 6 -> [op |-> "copyOut", user |-> "experts", m |-> m]
    [] j = 7 -> [op |-> "use", m |-> m, batch |-> b]

\* From its i-th place on, s holds the operations of a forward from the j-th on.
Holds(s, i, j, m, b) == i + 7 - j <= Len(s) /\ \A k \in j..7 : s[i + k - j] = Op(k, m, b)

\* Forwards follow each other.
InOrder(s) ==
  \A i \in 1..(Len(s) - 1) : s[i].op = "use" =>
    \E m \in BatchSizes : \E b \in Batched(m) : Holds(s, i + 1, 1, m, b)

Asked(m, b) == \A p \in 1..Count("rows", m) : ids[Capacity(Count("rows", m))][p] = <<b.n, p>>
Fetched(m, b) == \A p \in 1..Count("rows", m) : rows[Capacity(Count("rows", m))][p] = <<b.n, p>>
Staged(m, b) == \A p \in 1..Count("rows", m) : out[p] = <<b.n, p>>
Routed(m, b) ==
  \A t \in 1..m :
    /\ hx[Capacity(m)][t] = <<b.n, t>>
    /\ t \in DOMAIN b.route => hids[Capacity(m)][t] = b.route[t]
Combined(m, b) == \A t \in DOMAIN b.route : hout[Capacity(m)][t] = Expected(b, t)
Returned(m, b) == \A t \in DOMAIN b.route : dout[Capacity(m)][t] = Expected(b, t)

\* What the operations of a forward before its j-th have left.
Before(j, m, b) ==
  /\ j = 2 => Asked(m, b)
  /\ j = 3 => Fetched(m, b)
  /\ j >= 4 => Staged(m, b)
  /\ j = 5 => Routed(m, b)
  /\ j = 6 => Combined(m, b)
  /\ j = 7 => Returned(m, b)

\* The oldest operation finds what it needs.
Found ==
  stream # <<>> =>
    \E m \in BatchSizes : \E b \in Batched(m) : \E j \in 1..7 :
      Holds(stream, 1, j, m, b) /\ Before(j, m, b)

\* A call of the experts is the oldest operation.
Called ==
  call # NoCall =>
    /\ stream # <<>> /\ Head(stream).op = "host" /\ Head(stream).user = "experts"
    /\ call = Head(stream).work

\* A record holds the count it is kept under, and its capacity.
Recorded ==
  /\ works = [u \in Users |-> works[u]]
  /\ \A u \in Users : \A n \in DOMAIN works[u] : works[u][n] = WorkOf(n)

\* A buffer of every capacity warmed up.
Shaped(f, user) == f = [c \in Warmed(user) |-> [p \in 1..c |-> f[c][p]]]

Allocated ==
  /\ Shaped(ids, "rows") /\ Shaped(rows, "rows")
  /\ Shaped(hx, "experts") /\ Shaped(hids, "experts")
  /\ Shaped(hout, "experts") /\ Shaped(dout, "experts")

HostInv ==
  /\ \E S : stream \in Seq(S)
  /\ launched \in Nat
  /\ InOrder(stream) /\ Found /\ Called /\ Recorded /\ Allocated

---------------------------------------------------------------------------
(* What a team has computed *)

ScratchShaped ==
  /\ xp = [t \in 1..MaxTokens |-> xp[t]]
  /\ hp = [i \in Pairs |-> [b \in 1..GateBlocks |-> hp[i][b]]]
  /\ yp = [i \in Pairs |-> [b \in 1..DownBlocks |-> yp[i][b]]]

\* A thread works on iterations of its loop; one that waits has none left.
Working ==
  /\ mine = [th \in Threads |-> mine[th]]
  /\ \A th \in Threads : mine[th] \subseteq 0..(Iterations(at[th]) - 1)
  /\ \A th \in waiting : mine[th] = {}
  /\ call = NoCall => \A th \in Threads : at[th] = Done

CallPairs == 0..(call.m * TopK - 1)
ExpertOf(i) == Chosen(hids[call.cap], i)

\* The pairs of an expert are together, and an expert is active if it has some.
ByExpert ==
  call # NoCall => \A e \in Experts :
    /\ RowsOf(e) = {i \in CallPairs : ExpertOf(i) = e}
    /\ e \in Active <=> \E i \in CallPairs : ExpertOf(i) = e

\* The iterations of a loop that nobody has run.
Unrun(loop) ==
  {x \in 0..(Iterations(loop) - 1) :
    \/ \E th \in Threads : at[th] = loop /\ x \in mine[th]
    \/ loop \in Dynamic /\ x >= nextTask[loop]
    \/ loop \notin Dynamic /\ \E th \in Threads : at[th] < loop /\ x \in Share(th, Iterations(loop))}

GateValue(i) == <<ExpertOf(i), hx[call.cap][TokenOf(i)]>>
DownValue(i) == <<ExpertOf(i), GateValue(i)>>
SlotsOf(t) == {k \in 1..TopK : hids[call.cap][t][k] \in Experts}
OutputOf(t) ==
  [k \in SlotsOf(t) |-> <<hids[call.cap][t][k], <<hids[call.cap][t][k], hx[call.cap][t]>>>>]

RightRow(t) == xp[t] = hx[call.cap][t]
RightGate(i, b) == hp[i][b] = GateValue(i)
RightDown(i, b) == yp[i][b] = DownValue(i)
RightOutput(t) == hout[call.cap][t] = OutputOf(t)

\* An iteration has left what the loops after its own read.
Right(loop, x) ==
  /\ loop = Permute => RightRow(x + 1)
  /\ loop \in {GateDynamic, GateStatic} =>
       \A i \in RowsOf(ActiveAt((x \div GateBlocks) + 1)) : RightGate(i, (x % GateBlocks) + 1)
  /\ loop \in {DownDynamic, DownStatic} =>
       \A i \in RowsOf(ActiveAt((x \div DownBlocks) + 1)) : RightDown(i, (x % DownBlocks) + 1)
  /\ loop = Combine => RightOutput(x + 1)

Computed ==
  call # NoCall =>
    \A loop \in Permute..Combine : \A x \in 0..(Iterations(loop) - 1) :
      x \in Unrun(loop) \/ Right(loop, x)

TeamInv == ScratchShaped /\ Working /\ ByExpert /\ Computed

LEMMA ProductLeq ==
  ASSUME NEW a \in Nat, NEW b \in Nat, NEW c \in Nat, a <= b
  PROVE  a * c \in Nat /\ a * c <= b * c
OBVIOUS

LEMMA QuotientOf ==
  ASSUME NEW n \in Nat \ {0}, NEW q \in Nat, NEW r \in 0..(n - 1)
  PROVE  (q * n + r) \div n = q /\ (q * n + r) % n = r
OBVIOUS

LEMMA QuotientBelow ==
  ASSUME NEW n \in Nat \ {0}, NEW q \in Nat, NEW x \in 0..(q * n - 1)
  PROVE  /\ x \div n \in 0..(q - 1) /\ x % n \in 0..(n - 1)
         /\ x = (x \div n) * n + (x % n)
<1> DEFINE d == x \div n  r == x % n
<1>1. x \in Nat /\ x < q * n /\ q * n \in Nat
  OBVIOUS
<1>2. d \in Nat /\ r \in 0..(n - 1)
  BY <1>1
<1>3. x = d * n + r
  BY <1>1
<1> HIDE DEF d, r
<1>4. d < q
  <2> SUFFICES ASSUME q <= d PROVE FALSE
    BY <1>2
  <2>1. q * n <= d * n
    BY <1>2, ProductLeq
  <2>2. d * n \in Nat
    BY <1>2
  <2> QED  BY <1>1, <1>2, <1>3, <2>1, <2>2
<1>5. d \in 0..(q - 1)
  BY <1>2, <1>4
<1> QED  BY <1>2, <1>3, <1>5 DEF d, r

\* In a finite set of numbers, the elements before an element number it.
Below(S, e) == {f \in S : f < e}

LEMMA BelowFacts ==
  ASSUME NEW S \in SUBSET Nat, IsFiniteSet(S), NEW e \in S
  PROVE  /\ Cardinality(Below(S, e)) \in 0..(Cardinality(S) - 1)
         /\ \A f \in S : f < e => Cardinality(Below(S, f)) < Cardinality(Below(S, e))
<1>1. ASSUME NEW A, IsFiniteSet(A), NEW B \in SUBSET A, NEW x \in A, x \notin B
      PROVE  Cardinality(B) \in Nat /\ Cardinality(A) \in Nat /\ Cardinality(B) < Cardinality(A)
  <2>1. IsFiniteSet(B) /\ Cardinality(B) <= Cardinality(A) /\ Cardinality(B) # Cardinality(A)
    BY <1>1, FS_Subset
  <2>2. Cardinality(B) \in Nat /\ Cardinality(A) \in Nat
    BY <1>1, <2>1, FS_CardinalityType
  <2> QED  BY <2>1, <2>2
<1>2. /\ Cardinality(Below(S, e)) \in Nat /\ Cardinality(S) \in Nat
      /\ Cardinality(Below(S, e)) < Cardinality(S)
  <2>1. Below(S, e) \in SUBSET S /\ e \notin Below(S, e)
    BY DEF Below
  <2> QED  BY <1>1, <2>1
<1>3. ASSUME NEW f \in S, f < e PROVE Cardinality(Below(S, f)) < Cardinality(Below(S, e))
  <2>1. Below(S, f) \in SUBSET Below(S, e)
    <3>1. \A x \in S : x < f => x < e
      <4> TAKE x \in S
      <4>1. x \in Nat /\ f \in Nat /\ e \in Nat
        OBVIOUS
      <4> QED  BY <1>3, <4>1
    <3> QED  BY <3>1 DEF Below
  <2>2. f \in Below(S, e) /\ f \notin Below(S, f)
    BY <1>3 DEF Below
  <2>3. IsFiniteSet(Below(S, e))
    BY FS_Subset DEF Below
  <2> QED  BY <1>1, <2>1, <2>2, <2>3
<1> QED  BY <1>2, <1>3

LEMMA BelowNumbers ==
  ASSUME NEW S \in SUBSET Nat, IsFiniteSet(S)
  PROVE  \A n \in 0..(Cardinality(S) - 1) : \E e \in S :
           /\ Cardinality(Below(S, e)) = n
           /\ \A f \in S : Cardinality(Below(S, f)) = n => f = e
<1> DEFINE c == Cardinality(S)  T == 0..(c - 1)  g == [e \in S |-> Cardinality(Below(S, e))]
<1>1. c \in Nat /\ IsFiniteSet(T) /\ Cardinality(T) = c
  <2>1. c \in Nat
    BY FS_CardinalityType
  <2> HIDE DEF c
  <2>2. 0 \in Int /\ c - 1 \in Int
    BY <2>1
  <2>3. IsFiniteSet(0..(c - 1)) /\ Cardinality(0..(c - 1)) = IF 0 > c - 1 THEN 0 ELSE (c - 1) - 0 + 1
    BY <2>2, FS_Interval
  <2> QED  BY <2>1, <2>3
<1>2. \A e \in S : g[e] = Cardinality(Below(S, e)) /\ g[e] \in T
  BY BelowFacts
<1>3. ASSUME NEW e \in S, NEW f \in S, g[e] = g[f] PROVE e = f
  <2>1. f < e => g[f] < g[e]
    BY BelowFacts
  <2>2. e < f => g[e] < g[f]
    BY BelowFacts
  <2> HIDE DEF g
  <2>3. e \in Nat /\ f \in Nat /\ g[e] \in Nat /\ g[f] \in Nat
    BY <1>2
  <2> QED  BY <1>3, <2>1, <2>2, <2>3
<1>4. g \in [S -> T]
  BY <1>2
<1> HIDE DEF g
<1>5. g \in Injection(S, T)
  BY <1>3, <1>4 DEF Injection, IsInjective
<1> HIDE DEF T
<1>6. g \in Surjection(S, T)
  BY <1>1, <1>5, FS_Injection
<1>7. \A n \in T : \E e \in S : g[e] = n
  BY <1>6 DEF Surjection
<1> QED
  <2> SUFFICES ASSUME NEW n \in T
               PROVE  \E e \in S : /\ Cardinality(Below(S, e)) = n
                                   /\ \A f \in S : Cardinality(Below(S, f)) = n => f = e
    BY DEF T
  <2>1. PICK e \in S : g[e] = n
    BY <1>7
  <2> QED  BY <1>2, <1>3, <2>1

\* The pairs among those of m tokens whose expert w names e.
Of(w, m, e) == {i \in 0..(m * TopK - 1) : Chosen(w, i) = e}

LEMMA PairCount ==
  ASSUME CpuMoeAssumption, NEW m \in 0..MaxTokens
  PROVE  /\ m * TopK \in Nat /\ m * TopK <= MaxTokens * TopK /\ MaxTokens * TopK \in Nat
         /\ IsFiniteSet(0..(m * TopK - 1)) /\ Cardinality(0..(m * TopK - 1)) = m * TopK
<1>1. m \in Nat /\ MaxTokens \in Nat /\ TopK \in Nat /\ m <= MaxTokens
  BY DEF CpuMoeAssumption
<1>2. m * TopK \in Nat /\ m * TopK <= MaxTokens * TopK /\ MaxTokens * TopK \in Nat
  BY <1>1, ProductLeq
<1> DEFINE c == m * TopK
<1>3. c \in Nat
  BY <1>2
<1> HIDE DEF c
<1>4. IsFiniteSet(0..(c - 1)) /\ Cardinality(0..(c - 1)) = c
  <2>1. 0 \in Int /\ c - 1 \in Int
    BY <1>3
  <2>2. IsFiniteSet(0..(c - 1)) /\ Cardinality(0..(c - 1)) = IF 0 > c - 1 THEN 0 ELSE (c - 1) - 0 + 1
    BY <2>1, FS_Interval
  <2> QED  BY <1>3, <2>2
<1> QED  BY <1>2, <1>4 DEF c

\* e_start: an expert starts where the ones before it end, and has room for its pairs.
LEMMA StartsFacts ==
  ASSUME CpuMoeAssumption, NEW w, NEW m \in 0..MaxTokens, NEW s, s = Starts(w, m)
  PROVE  /\ \A e \in 0..NumExperts : s[e] \in Nat /\ s[e] <= m * TopK
         /\ \A e, f \in 0..NumExperts : e <= f => s[e] <= s[f]
         /\ \A e \in Experts : /\ IsFiniteSet(Of(w, m, e)) /\ Cardinality(Of(w, m, e)) \in Nat
                               /\ s[e + 1] = s[e] + Cardinality(Of(w, m, e))
<1> DEFINE P == 0..(m * TopK - 1)
           C(e) == {i \in P : Chosen(w, i) \in 0..(e - 1)}
<1>1. IsFiniteSet(P) /\ Cardinality(P) = m * TopK
  BY PairCount
<1>2. \A e \in 0..NumExperts : s[e] = Cardinality(C(e))
  BY DEF Starts
<1>3. ASSUME NEW A \in SUBSET P
      PROVE  IsFiniteSet(A) /\ Cardinality(A) \in Nat /\ Cardinality(A) <= m * TopK
  <2>1. IsFiniteSet(A) /\ Cardinality(A) <= Cardinality(P)
    BY <1>1, FS_Subset
  <2> QED  BY <1>1, <2>1, FS_CardinalityType
<1>4. ASSUME NEW e \in 0..NumExperts PROVE s[e] \in Nat /\ s[e] <= m * TopK
  BY <1>2, <1>3
<1>5. ASSUME NEW e \in 0..NumExperts, NEW f \in 0..NumExperts, e <= f PROVE s[e] <= s[f]
  <2>1. C(e) \in SUBSET C(f)
    <3>1. 0..(e - 1) \subseteq 0..(f - 1)
      BY <1>5 DEF CpuMoeAssumption
    <3> QED  BY <3>1
  <2>2. IsFiniteSet(C(f))
    BY <1>3
  <2>3. Cardinality(C(e)) <= Cardinality(C(f))
    BY <2>1, <2>2, FS_Subset
  <2> QED  BY <1>2, <2>3
<1>6. ASSUME NEW e \in Experts
      PROVE  /\ IsFiniteSet(Of(w, m, e)) /\ Cardinality(Of(w, m, e)) \in Nat
             /\ s[e + 1] = s[e] + Cardinality(Of(w, m, e))
  <2>1. e \in Nat /\ e \in 0..NumExperts /\ e + 1 \in 0..NumExperts /\ (e + 1) - 1 = e
    BY DEF Experts, CpuMoeAssumption
  <2>2. Of(w, m, e) \in SUBSET P
    BY DEF Of
  <2>3. C(e + 1) = C(e) \union Of(w, m, e) /\ C(e) \cap Of(w, m, e) = {}
    <3>1. \A x : x \in 0..e <=> x \in 0..(e - 1) \/ x = e
      BY <2>1
    <3>2. e \notin 0..(e - 1)
      BY <2>1
    <3> HIDE DEF P
    <3>3. \A i \in P : i \in C(e + 1) <=> i \in C(e) \/ i \in Of(w, m, e)
      BY <2>1, <3>1, Zenon DEF Of, P
    <3> QED  BY <2>2, <3>2, <3>3 DEF Of
  <2>4. IsFiniteSet(C(e)) /\ IsFiniteSet(Of(w, m, e))
    BY <1>3, <2>2
  <2>5. Cardinality(Of(w, m, e)) \in Nat /\ Cardinality(C(e)) \in Nat
    BY <2>4, FS_CardinalityType
  <2> HIDE DEF P, C
  <2>6. Cardinality(C(e + 1)) = Cardinality(C(e)) + Cardinality(Of(w, m, e)) - Cardinality({})
    BY <2>3, <2>4, FS_Union
  <2>7. Cardinality({}) = 0
    BY FS_EmptySet
  <2> QED  BY <1>2, <2>1, <2>4, <2>5, <2>6, <2>7
<1> QED  BY <1>4, <1>5, <1>6

\* A place of an expert is taken by one of its pairs, and by that one only.
LEMMA PlaceFacts ==
  ASSUME CpuMoeAssumption, NEW w, NEW m \in 0..MaxTokens, NEW s, s = Starts(w, m),
         NEW e \in Experts, NEW i \in Of(w, m, e)
  PROVE  /\ Place(w, s, i) = s[e] + Cardinality(Below(Of(w, m, e), i))
         /\ Place(w, s, i) \in s[e]..(s[e + 1] - 1)
<1> DEFINE O == Of(w, m, e)  n == Cardinality(Below(O, i))
<1>1. /\ IsFiniteSet(O) /\ Cardinality(O) \in Nat /\ s[e] \in Nat
      /\ s[e + 1] = s[e] + Cardinality(O)
  <2>1. e \in 0..NumExperts
    BY DEF Experts, CpuMoeAssumption
  <2> QED  BY <2>1, StartsFacts
<1>2. O \in SUBSET Nat /\ i \in O
  BY PairCount DEF Of
<1>3. Chosen(w, i) = e /\ i \in 0..(m * TopK - 1)
  BY DEF Of
<1>4. {j \in 0..(i - 1) : Chosen(w, j) = Chosen(w, i)} = Below(O, i)
  <2> DEFINE c == m * TopK
  <2>1. c \in Nat /\ i \in 0..(c - 1)
    BY <1>3, PairCount
  <2> HIDE DEF c
  <2>2. \A j : j \in 0..(i - 1) <=> j \in 0..(c - 1) /\ j < i
    BY <2>1
  <2> QED  BY <1>3, <2>2 DEF Below, Of, c
<1>5. Place(w, s, i) = s[e] + n
  BY <1>3, <1>4 DEF Place
<1>6. n \in 0..(Cardinality(O) - 1)
  BY <1>1, <1>2, BelowFacts
<1> HIDE DEF n
<1>7. s[e] + n \in s[e]..(s[e + 1] - 1)
  <2> HIDE DEF O
  <2> QED  BY <1>1, <1>6
<1> QED  BY <1>5, <1>7 DEF n

LEMMA TakerFacts ==
  ASSUME CpuMoeAssumption, NEW w, NEW m \in 0..MaxTokens, NEW s, s = Starts(w, m),
         NEW e \in Experts, NEW q \in s[e]..(s[e + 1] - 1)
  PROVE  /\ \E i \in Of(w, m, e) : Place(w, s, i) = q
         /\ \A i \in Of(w, m, e) : \A f \in Experts : \A j \in Of(w, m, f) :
              Place(w, s, i) = q /\ Place(w, s, j) = q => j = i
<1> DEFINE O == Of(w, m, e)
<1>0. \A f \in Experts : f \in 0..NumExperts /\ f + 1 \in 0..NumExperts /\ f \in Int
  BY DEF Experts, CpuMoeAssumption
<1>1. /\ IsFiniteSet(O) /\ Cardinality(O) \in Nat /\ s[e] \in Nat
      /\ s[e + 1] = s[e] + Cardinality(O)
  BY <1>0, StartsFacts
<1>2. O \in SUBSET Nat
  BY PairCount DEF Of
<1>3. q - s[e] \in 0..(Cardinality(O) - 1) /\ q \in Nat
  <2> HIDE DEF O
  <2> QED  BY <1>1
<1>4. PICK i \in O : /\ Cardinality(Below(O, i)) = q - s[e]
                     /\ \A j \in O : Cardinality(Below(O, j)) = q - s[e] => j = i
  <2> HIDE DEF O
  <2> QED  BY <1>1, <1>2, <1>3, BelowNumbers
<1>5. Place(w, s, i) = q
  BY <1>1, <1>3, <1>4, PlaceFacts
<1>6. ASSUME NEW j \in O, Place(w, s, j) = q PROVE j = i
  <2>1. Cardinality(Below(O, j)) \in Nat
    BY <1>1, <1>2, BelowFacts
  <2>2. q = s[e] + Cardinality(Below(O, j))
    BY <1>6, PlaceFacts
  <2>3. Cardinality(Below(O, j)) = q - s[e]
    <3> HIDE DEF O
    <3> QED  BY <1>1, <1>3, <2>1, <2>2
  <2> QED  BY <1>4, <2>3
<1>7. ASSUME NEW f \in Experts, NEW j \in Of(w, m, f), Place(w, s, j) = q PROVE f = e
  <2>1. q \in s[f]..(s[f + 1] - 1)
    BY <1>7, PlaceFacts
  <2>2. s[f] \in Nat /\ s[f + 1] \in Nat /\ s[e + 1] \in Nat
    BY <1>0, StartsFacts
  <2>3. f + 1 <= e => s[f + 1] <= s[e]
    BY <1>0, StartsFacts
  <2>4. e + 1 <= f => s[e + 1] <= s[f]
    BY <1>0, StartsFacts
  <2> QED  BY <1>0, <1>1, <1>3, <2>1, <2>2, <2>3, <2>4
<1> QED  BY <1>4, <1>5, <1>6, <1>7

\* tok_of_e: between its start and the next one's, an expert has its pairs.
LEMMA GroupedFacts ==
  ASSUME CpuMoeAssumption, NEW w, NEW m \in 0..MaxTokens, NEW s, s = Starts(w, m),
         NEW l, l = Grouped(w, m, s), NEW e \in Experts
  PROVE  /\ {l[q] : q \in s[e]..(s[e + 1] - 1)} = Of(w, m, e)
         /\ s[e + 1] > s[e] <=> Of(w, m, e) # {}
<1> DEFINE takers(q) == {i \in 0..(m * TopK - 1) :
                           Chosen(w, i) \in Experts /\ Place(w, s, i) = q}
           O == Of(w, m, e)
<1>0. e \in 0..NumExperts /\ e + 1 \in 0..NumExperts
  BY DEF Experts, CpuMoeAssumption
<1>1. /\ IsFiniteSet(O) /\ Cardinality(O) \in Nat /\ s[e] \in Nat
      /\ s[e + 1] = s[e] + Cardinality(O) /\ s[e + 1] <= m * TopK
  BY <1>0, StartsFacts
<1>2. ASSUME NEW q \in s[e]..(s[e + 1] - 1) PROVE q \in Pairs
  <2>1. m * TopK \in Nat /\ m * TopK <= MaxTokens * TopK /\ MaxTokens * TopK \in Nat
    BY PairCount
  <2> QED  BY <1>1, <2>1 DEF Pairs
<1>3. \A q \in Pairs : l[q] = IF takers(q) # {} THEN CHOOSE i \in takers(q) : TRUE ELSE tokOfE[q]
  BY DEF Grouped
<1>4. ASSUME NEW q \in s[e]..(s[e + 1] - 1), NEW i \in O, Place(w, s, i) = q PROVE l[q] = i
  <2>1. i \in takers(q)
    BY <1>4 DEF Of
  <2>2. ASSUME NEW j \in takers(q) PROVE j = i
    <3>1. j \in Of(w, m, Chosen(w, j))
      BY DEF Of
    <3>2. Chosen(w, j) \in Experts /\ Place(w, s, j) = q
      OBVIOUS
    <3> QED  BY <1>4, <3>1, <3>2, TakerFacts
  <2> HIDE DEF takers
  <2>3. takers(q) = {i}
    BY <2>1, <2>2
  <2> QED  BY <1>2, <1>3, <2>3
<1>5. \A q \in s[e]..(s[e + 1] - 1) : \E i \in O : Place(w, s, i) = q
  BY TakerFacts
<1>6. \A i \in O : Place(w, s, i) \in s[e]..(s[e + 1] - 1)
  BY PlaceFacts
<1>7. s[e + 1] > s[e] <=> O # {}
  <2>1. Cardinality(O) = 0 <=> O = {}
    BY <1>1, FS_EmptySet
  <2> HIDE DEF O
  <2> QED  BY <1>1, <2>1
<1> HIDE DEF O
<1>8. {l[q] : q \in s[e]..(s[e + 1] - 1)} = O
  <2> DEFINE I == s[e]..(s[e + 1] - 1)
  <2>1. \A q \in I : l[q] \in O
    BY <1>4, <1>5
  <2>2. \A i \in O : \E q \in I : l[q] = i
    BY <1>4, <1>6
  <2> HIDE DEF I
  <2>3. {l[q] : q \in I} = O
    BY <2>1, <2>2
  <2> QED  BY <2>3 DEF I
<1> QED  BY <1>7, <1>8 DEF O

LEMMA ActiveFacts ==
  ASSUME CpuMoeAssumption
  PROVE  /\ Active \in SUBSET Nat /\ IsFiniteSet(Active) /\ Cardinality(Active) \in Nat
         /\ \A n \in 1..Cardinality(Active) : ActiveAt(n) \in Active
         /\ \A e \in Active : \E n \in 1..Cardinality(Active) : ActiveAt(n) = e
<1>1. Active \in SUBSET Nat /\ IsFiniteSet(Active)
  <2>1. IsFiniteSet(Experts) /\ Experts \in SUBSET Nat
    BY FS_Interval DEF CpuMoeAssumption, Experts
  <2> QED  BY <2>1, FS_Subset DEF Active
<1>2. Cardinality(Active) \in Nat
  BY <1>1, FS_CardinalityType
<1>3. ASSUME NEW n \in 1..Cardinality(Active), NEW e \in Active,
             Cardinality(Below(Active, e)) = n - 1,
             \A f \in Active : Cardinality(Below(Active, f)) = n - 1 => f = e
      PROVE  ActiveAt(n) = e
  <2>1. ActiveAt(n) = CHOOSE f \in Active : Cardinality(Below(Active, f)) = n - 1
    BY DEF ActiveAt, Below
  <2> QED  BY <1>3, <2>1
<1>4. ASSUME NEW n \in 1..Cardinality(Active) PROVE ActiveAt(n) \in Active
  <2>1. n - 1 \in 0..(Cardinality(Active) - 1)
    BY <1>2
  <2>2. PICK e \in Active : /\ Cardinality(Below(Active, e)) = n - 1
                            /\ \A f \in Active : Cardinality(Below(Active, f)) = n - 1 => f = e
    BY <1>1, <2>1, BelowNumbers
  <2> QED  BY <1>3, <2>2
<1>5. ASSUME NEW e \in Active PROVE \E n \in 1..Cardinality(Active) : ActiveAt(n) = e
  <2> DEFINE r == Cardinality(Below(Active, e))
  <2>1. r \in 0..(Cardinality(Active) - 1)
    BY <1>1, BelowFacts
  <2>2. PICK g \in Active : /\ Cardinality(Below(Active, g)) = r
                            /\ \A f \in Active : Cardinality(Below(Active, f)) = r => f = g
    BY <1>1, <2>1, BelowNumbers
  <2>3. g = e
    BY <2>2
  <2> HIDE DEF r
  <2>4. r + 1 \in 1..Cardinality(Active) /\ (r + 1) - 1 = r
    BY <1>2, <2>1
  <2>5. ActiveAt(r + 1) = e
    BY <1>3, <2>2, <2>3, <2>4
  <2> QED  BY <2>4, <2>5
<1> QED  BY <1>1, <1>2, <1>4, <1>5

\* A projection has a task for every active expert and block, and no other.
LEMMA TaskFacts ==
  ASSUME CpuMoeAssumption, NEW n \in Nat \ {0}
  PROVE  /\ \A x \in 0..(Cardinality(Active) * n - 1) :
              ActiveAt((x \div n) + 1) \in Active /\ (x % n) + 1 \in 1..n
         /\ \A e \in Active : \A b \in 1..n : \E x \in 0..(Cardinality(Active) * n - 1) :
              ActiveAt((x \div n) + 1) = e /\ (x % n) + 1 = b
<1> DEFINE c == Cardinality(Active)
<1>1. /\ c \in Nat /\ \A k \in 1..c : ActiveAt(k) \in Active
      /\ \A e \in Active : \E k \in 1..c : ActiveAt(k) = e
  BY ActiveFacts
<1> HIDE DEF c
<1>2. ASSUME NEW x \in 0..(c * n - 1)
      PROVE  ActiveAt((x \div n) + 1) \in Active /\ (x % n) + 1 \in 1..n
  <2> DEFINE d == x \div n  r == x % n
  <2>1. d \in 0..(c - 1) /\ r \in 0..(n - 1)
    BY <1>1, QuotientBelow
  <2> HIDE DEF d, r
  <2>2. d + 1 \in 1..c /\ r + 1 \in 1..n
    BY <1>1, <2>1
  <2> QED  BY <1>1, <2>2 DEF d, r
<1>3. ASSUME NEW e \in Active, NEW b \in 1..n
      PROVE  \E x \in 0..(c * n - 1) : ActiveAt((x \div n) + 1) = e /\ (x % n) + 1 = b
  <2>1. PICK k \in 1..c : ActiveAt(k) = e
    BY <1>1
  <2> DEFINE q == k - 1  r == b - 1  x == q * n + r
  <2>2. q \in Nat /\ q + 1 = k /\ q + 1 <= c /\ r \in 0..(n - 1) /\ r + 1 = b
    BY <1>1
  <2> HIDE DEF q, r
  <2>3. x \div n = q /\ x % n = r
    BY <2>2, QuotientOf
  <2>4. x \in 0..(c * n - 1)
    <3>1. (q + 1) * n <= c * n /\ (q + 1) * n = q * n + n
      <4>1. q + 1 \in Nat
        BY <2>2
      <4> QED  BY <1>1, <2>2, <4>1, ProductLeq
    <3>2. q * n \in Nat /\ c * n \in Nat
      BY <1>1, <2>2
    <3> QED  BY <2>2, <3>1, <3>2
  <2> HIDE DEF x
  <2> QED  BY <2>1, <2>2, <2>3, <2>4
<1> QED  BY <1>2, <1>3 DEF c

LEMMA MaxOfThree ==
  ASSUME NEW a \in Nat, NEW b \in Nat, NEW c \in Nat
  PROVE  /\ Max({a, b, c}) \in Nat
         /\ a <= Max({a, b, c}) /\ b <= Max({a, b, c}) /\ c <= Max({a, b, c})
<1>1. \E m \in {a, b, c} : \A x \in {a, b, c} : m >= x
  <2>1. CASE a >= b /\ a >= c
    BY <2>1
  <2>2. CASE b >= a /\ b >= c
    BY <2>2
  <2>3. CASE c >= a /\ c >= b
    BY <2>3
  <2> QED  BY <2>1, <2>2, <2>3
<1>2. /\ Max({a, b, c}) \in {a, b, c}
      /\ \A x \in {a, b, c} : Max({a, b, c}) >= x
  BY <1>1 DEF Max
<1> QED  BY <1>2

\* No more experts are active than pairs are routed.
LEMMA ActiveCount ==
  ASSUME CpuMoeAssumption, call # NoCall, ByExpert, call.m \in 1..MaxTokens
  PROVE  Cardinality(Active) \in Nat /\ Cardinality(Active) <= call.m * TopK
<1>1. call.m \in 0..MaxTokens
  OBVIOUS
<1>2. IsFiniteSet(CallPairs) /\ Cardinality(CallPairs) = call.m * TopK
  BY <1>1, PairCount DEF CallPairs
<1>3. \A e \in Active : \E i \in CallPairs : ExpertOf(i) = e
  BY DEF ByExpert, Active
<1> DEFINE g == [e \in Active |-> CHOOSE i \in CallPairs : ExpertOf(i) = e]
<1>4. \A e \in Active : g[e] \in CallPairs /\ ExpertOf(g[e]) = e
  BY <1>3
<1>5. g \in [Active -> CallPairs]
  BY <1>4
<1> HIDE DEF g
<1>6. g \in Injection(Active, CallPairs)
  BY <1>4, <1>5 DEF Injection, IsInjective
<1> QED  BY <1>2, <1>6, FS_Injection, ActiveFacts

\* Every static loop is divided among the team.
LEMMA IterationFacts ==
  ASSUME CpuMoeAssumption, call # NoCall, ByExpert, call.m \in 1..MaxTokens, NEW loop
  PROVE  /\ Iterations(loop) \in Nat
         /\ UNION {Share(th, Iterations(loop)) : th \in Threads} = 0..(Iterations(loop) - 1)
<1> DEFINE a == TopK * GateBlocks  b == TopK * DownBlocks  x == Max({a, b, 1})
           c == Cardinality(Active)  n == Iterations(loop)
<1>1. a \in Nat /\ b \in Nat /\ MaxTokens \in Nat /\ TopK \in Nat /\ GateBlocks \in Nat
      /\ DownBlocks \in Nat /\ call.m \in Nat /\ call.m <= MaxTokens
  BY DEF CpuMoeAssumption
<1>2. c \in Nat /\ c <= call.m * TopK
  BY ActiveCount
<1> HIDE DEF a, b, c
<1>3. x \in Nat /\ a <= x /\ b <= x /\ 1 <= x
  BY <1>1, MaxOfThree
<1> HIDE DEF x
<1>4. ASSUME NEW k \in Nat, k <= x PROVE call.m * k \in Nat /\ call.m * k <= MaxTokens * x
  <2>1. call.m * k \in Nat /\ call.m * k <= MaxTokens * k
    BY <1>1, <1>4, ProductLeq
  <2>2. k * MaxTokens <= x * MaxTokens
    BY <1>1, <1>3, <1>4, ProductLeq
  <2>3. MaxTokens * k = k * MaxTokens /\ MaxTokens * x = x * MaxTokens
    BY <1>1, <1>3
  <2>4. MaxTokens * k \in Nat /\ MaxTokens * x \in Nat
    BY <1>1, <1>3
  <2> DEFINE p == call.m * k  q == MaxTokens * k  u == MaxTokens * x
  <2>5. p \in Nat /\ q \in Nat /\ u \in Nat /\ p <= q /\ q <= u
    BY <2>1, <2>2, <2>3, <2>4
  <2> HIDE DEF p, q, u
  <2>6. p <= u
    BY <2>5
  <2> QED  BY <2>5, <2>6 DEF p, u
<1>5. ASSUME NEW k \in Nat, NEW y \in Nat, TopK * k <= x, y = c * k
      PROVE  y \in 0..(MaxTokens * x)
  <2>1. y <= (call.m * TopK) * k
    <3>1. call.m * TopK \in Nat
      BY <1>1
    <3> QED  BY <1>2, <1>5, <3>1, ProductLeq
  <2>2. TopK * k \in Nat /\ (call.m * TopK) * k = call.m * (TopK * k)
    BY <1>1
  <2>3. call.m * (TopK * k) \in Nat /\ call.m * (TopK * k) <= MaxTokens * x
    BY <1>4, <1>5, <2>2
  <2>4. MaxTokens * x \in Nat
    BY <1>1, <1>3
  <2> DEFINE p == call.m * (TopK * k)  u == MaxTokens * x
  <2>5. p \in Nat /\ u \in Nat /\ y <= p /\ p <= u
    BY <2>1, <2>2, <2>3, <2>4
  <2> HIDE DEF p, u
  <2>6. y \in 0..u
    BY <2>5
  <2> QED  BY <2>6 DEF u
<1>6. GateTasks \in 0..(MaxTokens * x) /\ DownTasks \in 0..(MaxTokens * x)
  <2>1. c * GateBlocks \in Nat /\ c * DownBlocks \in Nat
    BY <1>1, <1>2
  <2>2. GateTasks = c * GateBlocks /\ DownTasks = c * DownBlocks
    BY DEF GateTasks, DownTasks, c
  <2>3. TopK * GateBlocks <= x /\ TopK * DownBlocks <= x
    BY <1>3 DEF a, b
  <2> QED  BY <1>1, <1>5, <2>1, <2>2, <2>3
<1>7. call.m \in 0..(MaxTokens * x) /\ 0 \in 0..(MaxTokens * x)
  <2>1. call.m * 1 \in Nat /\ call.m * 1 <= MaxTokens * x /\ call.m * 1 = call.m
    BY <1>1, <1>3, <1>4
  <2>2. MaxTokens * x \in Nat
    BY <1>1, <1>3
  <2> QED  BY <1>1, <2>1, <2>2
<1>8. n \in {call.m, GateTasks, DownTasks, 0}
  BY DEF Iterations
<1> HIDE DEF n
<1>9. n \in 0..(MaxTokens * x)
  BY <1>6, <1>7, <1>8
<1>10. n \in Nat
  <2>1. MaxTokens * x \in Nat
    BY <1>1, <1>3
  <2> QED  BY <1>9, <2>1
<1>11. UNION {Share(th, n) : th \in Threads} = 0..(n - 1)
  BY <1>9, ShareAssumption DEF x, a, b
<1> QED  BY <1>10, <1>11 DEF n

\* A call is under way, for a batch that may be.
Serving == call # NoCall /\ call.m \in 1..MaxTokens /\ ByExpert

Divided ==
  \A loop : /\ Iterations(loop) \in Nat
            /\ UNION {Share(th, Iterations(loop)) : th \in Threads} = 0..(Iterations(loop) - 1)

LEMMA ServingDivided == Serving => Divided
BY IterationFacts, CpuMoeAssumption DEF Serving, Divided

\* What does not change while a team works.
LEMMA TeamFrame ==
  ASSUME UNCHANGED <<call, hx, hids, tokOfE, eStart>>
  PROVE  /\ \A loop : Iterations(loop)' = Iterations(loop)
         /\ \A e : RowsOf(e)' = RowsOf(e)
         /\ \A n : ActiveAt(n)' = ActiveAt(n)
         /\ Active' = Active /\ CallPairs' = CallPairs /\ GateTasks' = GateTasks /\ DownTasks' = DownTasks
         /\ \A i : ExpertOf(i)' = ExpertOf(i) /\ GateValue(i)' = GateValue(i) /\ DownValue(i)' = DownValue(i)
         /\ \A t : OutputOf(t)' = OutputOf(t) /\ SlotsOf(t)' = SlotsOf(t)
<1>1. Active' = Active /\ CallPairs' = CallPairs
  BY DEF Active, CallPairs
<1>2. GateTasks' = GateTasks /\ DownTasks' = DownTasks
  BY <1>1 DEF GateTasks, DownTasks
<1>3. \A loop : Iterations(loop)' = Iterations(loop)
  BY <1>2 DEF Iterations
<1>4. \A e : RowsOf(e)' = RowsOf(e)
  BY DEF RowsOf
<1>5. \A n : ActiveAt(n)' = ActiveAt(n)
  BY <1>1 DEF ActiveAt
<1>6. \A i : ExpertOf(i)' = ExpertOf(i)
  BY DEF ExpertOf
<1>7. \A i : GateValue(i)' = GateValue(i)
  BY <1>6 DEF GateValue
<1>8. \A i : DownValue(i)' = DownValue(i)
  BY <1>6, <1>7 DEF DownValue
<1>9. \A t : OutputOf(t)' = OutputOf(t) /\ SlotsOf(t)' = SlotsOf(t)
  BY DEF OutputOf, SlotsOf
<1> QED  BY <1>1, <1>2, <1>3, <1>4, <1>5, <1>6, <1>7, <1>8, <1>9

LEMMA ServingFrame ==
  ASSUME UNCHANGED <<call, hx, hids, tokOfE, eStart>>, ByExpert
  PROVE  ByExpert'
BY TeamFrame DEF ByExpert

\* The tasks of a projection belong to active experts, and their rows are pairs of the call.
LEMMA TaskRows ==
  ASSUME Serving, NEW n \in Nat \ {0}, NEW x \in 0..(Cardinality(Active) * n - 1)
  PROVE  /\ ActiveAt((x \div n) + 1) \in Active /\ ActiveAt((x \div n) + 1) \in Experts
         /\ (x % n) + 1 \in 1..n
         /\ \A i \in RowsOf(ActiveAt((x \div n) + 1)) :
              i \in CallPairs /\ i \in Pairs /\ ExpertOf(i) = ActiveAt((x \div n) + 1)
<1> DEFINE e == ActiveAt((x \div n) + 1)
<1>1. e \in Active /\ (x % n) + 1 \in 1..n
  BY TaskFacts, CpuMoeAssumption
<1> HIDE DEF e
<1>2. e \in Experts
  BY <1>1 DEF Active
<1>3. RowsOf(e) = {i \in CallPairs : ExpertOf(i) = e}
  BY <1>2 DEF Serving, ByExpert
<1>4. CallPairs \subseteq Pairs
  <2>1. /\ call.m * TopK \in Nat /\ call.m * TopK <= MaxTokens * TopK /\ MaxTokens * TopK \in Nat
    BY PairCount, CpuMoeAssumption DEF Serving
  <2> QED  BY <2>1 DEF CallPairs, Pairs
<1> QED  BY <1>1, <1>2, <1>3, <1>4 DEF e

LEMMA LoopTasks ==
  ASSUME Serving, NEW loop, NEW x \in 0..(Iterations(loop) - 1)
  PROVE  /\ loop \in {GateDynamic, GateStatic} => x \in 0..(Cardinality(Active) * GateBlocks - 1)
         /\ loop \in {DownDynamic, DownStatic} => x \in 0..(Cardinality(Active) * DownBlocks - 1)
         /\ loop \in {Permute, Combine} => x + 1 \in 1..call.m
         /\ loop \in Permute..Combine
<1>1. CASE loop \in {GateDynamic, GateStatic}
  <2>1. Iterations(loop) \in {0, GateTasks}
    BY <1>1 DEF Iterations, Permute, GateDynamic, GateStatic, DownDynamic, DownStatic, Combine
  <2>2. Iterations(loop) = GateTasks
    BY <2>1
  <2> QED
    BY <1>1, <2>2 DEF GateTasks, Permute, GateDynamic, GateStatic, DownDynamic, DownStatic, Combine
<1>2. CASE loop \in {DownDynamic, DownStatic}
  <2>1. Iterations(loop) \in {0, DownTasks}
    BY <1>2 DEF Iterations, Permute, GateDynamic, GateStatic, DownDynamic, DownStatic, Combine
  <2>2. Iterations(loop) = DownTasks
    BY <2>1
  <2> QED
    BY <1>2, <2>2 DEF DownTasks, Permute, GateDynamic, GateStatic, DownDynamic, DownStatic, Combine
<1>3. CASE loop \in {Permute, Combine}
  <2>1. Iterations(loop) = call.m
    BY <1>3 DEF Iterations, Permute, GateDynamic, GateStatic, DownDynamic, DownStatic, Combine
  <2>2. call.m \in Nat
    BY DEF Serving
  <2>3. x + 1 \in 1..call.m
    BY <2>1, <2>2
  <2> QED
    BY <1>3, <2>3 DEF Permute, GateDynamic, GateStatic, DownDynamic, DownStatic, Combine
<1>4. CASE loop \notin {Permute, GateDynamic, GateStatic, DownDynamic, DownStatic, Combine}
  <2>1. Iterations(loop) = 0
    BY <1>4 DEF Iterations
  <2> QED  BY <2>1
<1> QED  BY <1>1, <1>2, <1>3, <1>4

\* What is right stays so if nothing right is overwritten with something else.
LEMMA RightKept ==
  ASSUME Serving, UNCHANGED <<call, hx, hids, tokOfE, eStart>>,
         \A t \in 1..call.m : RightRow(t) => RightRow(t)',
         \A i \in CallPairs : \A b \in 1..GateBlocks : RightGate(i, b) => RightGate(i, b)',
         \A i \in CallPairs : \A b \in 1..DownBlocks : RightDown(i, b) => RightDown(i, b)',
         \A t \in 1..call.m : RightOutput(t) => RightOutput(t)',
         NEW loop, NEW x \in 0..(Iterations(loop) - 1), Right(loop, x)
  PROVE  Right(loop, x)'
<1>1. loop = Permute => RightRow(x + 1)'
  BY LoopTasks DEF Right
<1>2. loop = Combine => RightOutput(x + 1)'
  BY LoopTasks DEF Right
<1>3. ASSUME loop \in {GateDynamic, GateStatic}
      PROVE  \A i \in RowsOf(ActiveAt((x \div GateBlocks) + 1)) : RightGate(i, (x % GateBlocks) + 1)'
  <2>1. x \in 0..(Cardinality(Active) * GateBlocks - 1) /\ GateBlocks \in Nat \ {0}
    BY <1>3, LoopTasks, CpuMoeAssumption DEF CpuMoeAssumption
  <2>2. /\ (x % GateBlocks) + 1 \in 1..GateBlocks
        /\ \A i \in RowsOf(ActiveAt((x \div GateBlocks) + 1)) : i \in CallPairs
    BY <2>1, TaskRows
  <2> QED  BY <1>3, <2>2 DEF Right
<1>4. ASSUME loop \in {DownDynamic, DownStatic}
      PROVE  \A i \in RowsOf(ActiveAt((x \div DownBlocks) + 1)) : RightDown(i, (x % DownBlocks) + 1)'
  <2>1. x \in 0..(Cardinality(Active) * DownBlocks - 1) /\ DownBlocks \in Nat \ {0}
    BY <1>4, LoopTasks, CpuMoeAssumption DEF CpuMoeAssumption
  <2>2. /\ (x % DownBlocks) + 1 \in 1..DownBlocks
        /\ \A i \in RowsOf(ActiveAt((x \div DownBlocks) + 1)) : i \in CallPairs
    BY <2>1, TaskRows
  <2> QED  BY <1>4, <2>2 DEF Right
<1>5. /\ \A e : RowsOf(e)' = RowsOf(e)
      /\ \A n : ActiveAt(n)' = ActiveAt(n)
  BY TeamFrame
<1>6. /\ RowsOf(ActiveAt((x \div GateBlocks) + 1))' = RowsOf(ActiveAt((x \div GateBlocks) + 1))
      /\ RowsOf(ActiveAt((x \div DownBlocks) + 1))' = RowsOf(ActiveAt((x \div DownBlocks) + 1))
  BY <1>5 DEF RowsOf
<1> QED  BY <1>1, <1>2, <1>3, <1>4, <1>6 DEF Right

\* Whoever is past a barrier has left nothing undone before it.
LEMMA PastBarrier ==
  ASSUME IInv, NEW th \in Threads, NEW b \in Barriers, at[th] > b
  PROVE  Unrun(b) = {} /\ (b - 1 \in Dynamic => Unrun(b - 1) = {})
<1> USE DEF Loops, Barriers, Dynamic, Permute, GateDynamic, GateStatic, DownDynamic, DownStatic,
            Combine, Done
<1>1. \A o \in Threads : at[o] \in Loops /\ at[o] > b
  BY DEF IInv, InStep
<1>2. Unrun(b) = {}
  <2> SUFFICES ASSUME NEW x \in Unrun(b) PROVE FALSE
    OBVIOUS
  <2>1. b \notin Dynamic
    OBVIOUS
  <2>2. \E o \in Threads : at[o] = b \/ at[o] < b
    BY <2>1 DEF Unrun
  <2> QED  BY <1>1, <2>2
<1>3. ASSUME b - 1 \in Dynamic PROVE Unrun(b - 1) = {}
  <2> DEFINE d == b - 1
  <2>1. d \in Dynamic /\ \A o \in Threads : at[o] > d
    BY <1>1, <1>3
  <2> HIDE DEF d
  <2>2. nextTask[d] >= Iterations(d) /\ nextTask[d] \in Nat
    BY <2>1 DEF IInv, Exhausted
  <2>3. ASSUME NEW x \in Unrun(d) PROVE FALSE
    <3>1. x \in 0..(Iterations(d) - 1) /\ Iterations(d) \in Nat
      BY <2>1, DynamicIterations, CpuMoeAssumption DEF Unrun
    <3>2. x >= nextTask[d] \/ \E o \in Threads : at[o] = d
      BY <2>1 DEF Unrun
    <3>3. \A o \in Threads : at[o] # d
      BY <2>1, <1>1
    <3> QED  BY <2>2, <3>1, <3>2, <3>3
  <2> QED  BY <2>3 DEF d
<1> QED  BY <1>2, <1>3

LEMMA RowsDone ==
  ASSUME IInv, Serving, Computed, NEW th \in Threads, at[th] > Permute
  PROVE  \A t \in 1..call.m : RightRow(t)
<1> SUFFICES ASSUME NEW t \in 1..call.m PROVE RightRow(t)
  OBVIOUS
<1> USE DEF Barriers, Permute, GateDynamic, GateStatic, DownDynamic, DownStatic, Combine
<1>1. Unrun(Permute) = {}
  BY PastBarrier
<1>2. Iterations(Permute) = call.m /\ call.m \in Nat
  BY DEF Iterations, Serving
<1>3. t - 1 \in 0..(Iterations(Permute) - 1) /\ (t - 1) + 1 = t
  BY <1>2
<1>4. Right(Permute, t - 1)
  BY <1>1, <1>3 DEF Computed, Serving
<1> QED  BY <1>3, <1>4 DEF Right

\* The loop of a projection that the call takes has all its tasks.
GateLoop == IF call.m <= SmallBatch THEN GateStatic ELSE GateDynamic
DownLoop == IF call.m <= SmallBatch THEN DownStatic ELSE DownDynamic

LEMMA GateDone ==
  ASSUME IInv, Serving, Computed, NEW th \in Threads, at[th] > GateStatic
  PROVE  \A i \in CallPairs : ExpertOf(i) \in Experts =>
           \A b \in 1..GateBlocks : RightGate(i, b)
<1> SUFFICES ASSUME NEW i \in CallPairs, ExpertOf(i) \in Experts, NEW b \in 1..GateBlocks
             PROVE  RightGate(i, b)
  OBVIOUS
<1> DEFINE e == ExpertOf(i)  l == GateLoop
<1>1. Iterations(l) = Cardinality(Active) * GateBlocks /\ l \in {GateStatic, GateDynamic} /\ l \in Permute..Combine
  BY DEF Iterations, GateLoop, GateTasks, Barriers, Permute, GateDynamic, GateStatic, DownDynamic, DownStatic, Combine
<1>2. Unrun(l) = {}
  <2>1. Unrun(GateStatic) = {} /\ Unrun(GateStatic - 1) = {}
    BY PastBarrier DEF Barriers, Dynamic, Permute, GateDynamic, GateStatic, DownDynamic, DownStatic, Combine
  <2>2. GateStatic - 1 = GateDynamic
    BY DEF GateStatic, GateDynamic
  <2> QED  BY <1>1, <2>1, <2>2
<1>3. e \in Active /\ i \in RowsOf(e)
  BY DEF Serving, ByExpert
<1> HIDE DEF e, l
<1>4. PICK x \in 0..(Iterations(l) - 1) :
        ActiveAt((x \div GateBlocks) + 1) = e /\ (x % GateBlocks) + 1 = b
  <2>1. GateBlocks \in Nat \ {0}
    BY CpuMoeAssumption DEF CpuMoeAssumption
  <2>2. \E x \in 0..(Cardinality(Active) * GateBlocks - 1) :
          ActiveAt((x \div GateBlocks) + 1) = e /\ (x % GateBlocks) + 1 = b
    BY <1>3, <2>1, TaskFacts, CpuMoeAssumption
  <2> QED  BY <1>1, <2>2, Zenon
<1>5. Right(l, x)
  BY <1>1, <1>2, <1>4 DEF Computed, Serving
<1> QED  BY <1>1, <1>3, <1>4, <1>5 DEF Right

LEMMA DownDone ==
  ASSUME IInv, Serving, Computed, NEW th \in Threads, at[th] > DownStatic
  PROVE  \A i \in CallPairs : ExpertOf(i) \in Experts =>
           \A b \in 1..DownBlocks : RightDown(i, b)
<1> SUFFICES ASSUME NEW i \in CallPairs, ExpertOf(i) \in Experts, NEW b \in 1..DownBlocks
             PROVE  RightDown(i, b)
  OBVIOUS
<1> DEFINE e == ExpertOf(i)  l == DownLoop
<1>1. Iterations(l) = Cardinality(Active) * DownBlocks /\ l \in {DownStatic, DownDynamic} /\ l \in Permute..Combine
  BY DEF Iterations, DownLoop, DownTasks, Barriers, Permute, GateDynamic, GateStatic, DownDynamic, DownStatic, Combine
<1>2. Unrun(l) = {}
  <2>1. Unrun(DownStatic) = {} /\ Unrun(DownStatic - 1) = {}
    BY PastBarrier DEF Barriers, Dynamic, Permute, GateDynamic, GateStatic, DownDynamic, DownStatic, Combine
  <2>2. DownStatic - 1 = DownDynamic
    BY DEF DownStatic, DownDynamic
  <2> QED  BY <1>1, <2>1, <2>2
<1>3. e \in Active /\ i \in RowsOf(e)
  BY DEF Serving, ByExpert
<1> HIDE DEF e, l
<1>4. PICK x \in 0..(Iterations(l) - 1) :
        ActiveAt((x \div DownBlocks) + 1) = e /\ (x % DownBlocks) + 1 = b
  <2>1. DownBlocks \in Nat \ {0}
    BY CpuMoeAssumption DEF CpuMoeAssumption
  <2>2. \E x \in 0..(Cardinality(Active) * DownBlocks - 1) :
          ActiveAt((x \div DownBlocks) + 1) = e /\ (x % DownBlocks) + 1 = b
    BY <1>3, <2>1, TaskFacts, CpuMoeAssumption
  <2> QED  BY <1>1, <2>2, Zenon
<1>5. Right(l, x)
  BY <1>1, <1>2, <1>4 DEF Computed, Serving
<1> QED  BY <1>1, <1>3, <1>4, <1>5 DEF Right

LEMMA OutputsDone ==
  ASSUME IInv, Serving, Computed, NEW th \in Threads, at[th] > Combine
  PROVE  \A t \in 1..call.m : RightOutput(t)
<1> SUFFICES ASSUME NEW t \in 1..call.m PROVE RightOutput(t)
  OBVIOUS
<1> USE DEF Barriers, Permute, GateDynamic, GateStatic, DownDynamic, DownStatic, Combine
<1>1. Unrun(Combine) = {}
  BY PastBarrier
<1>2. Iterations(Combine) = call.m /\ call.m \in Nat
  BY DEF Iterations, Serving
<1>3. t - 1 \in 0..(Iterations(Combine) - 1) /\ (t - 1) + 1 = t
  BY <1>2
<1>4. Right(Combine, t - 1)
  BY <1>1, <1>3 DEF Computed, Serving
<1> QED  BY <1>3, <1>4 DEF Right

\* A step that runs nothing disturbs nothing.
LEMMA ComputedKept ==
  ASSUME Serving, Computed, UNCHANGED <<call, hx, hids, tokOfE, eStart, xp, hp, yp, hout>>,
         \A loop \in Permute..Combine : \A x \in 0..(Iterations(loop) - 1) :
           x \in Unrun(loop) => x \in Unrun(loop)'
  PROVE  Computed'
<1>1. \A loop : Iterations(loop)' = Iterations(loop)
  BY TeamFrame
<1>2. ASSUME NEW loop \in Permute..Combine, NEW x \in 0..(Iterations(loop) - 1), Right(loop, x)
      PROVE  Right(loop, x)'
  <2>1. \A i : GateValue(i)' = GateValue(i) /\ DownValue(i)' = DownValue(i)
    BY TeamFrame
  <2>2. \A t : OutputOf(t)' = OutputOf(t)
    BY TeamFrame
  <2>3. /\ \A t : RightRow(t) => RightRow(t)'
        /\ \A i, b : RightGate(i, b) => RightGate(i, b)'
        /\ \A i, b : RightDown(i, b) => RightDown(i, b)'
        /\ \A t : RightOutput(t) => RightOutput(t)'
    BY <2>1, <2>2 DEF RightRow, RightGate, RightDown, RightOutput
  <2> QED  BY <1>2, <2>3, RightKept
<1> QED  BY <1>1, <1>2 DEF Computed, Serving

\* The token of a pair, and the pair of a token and slot.
LEMMA TokensOfPairs ==
  ASSUME Serving
  PROVE  /\ \A i \in CallPairs : TokenOf(i) \in 1..call.m /\ i \in Pairs
         /\ \A t \in 1..call.m : \A k \in 1..TopK :
              /\ (t - 1) * TopK + k - 1 \in CallPairs
              /\ TokenOf((t - 1) * TopK + k - 1) = t
              /\ ExpertOf((t - 1) * TopK + k - 1) = hids[call.cap][t][k]
<1>1. TopK \in Nat \ {0} /\ call.m \in Nat /\ MaxTokens \in Nat /\ call.m <= MaxTokens
  BY CpuMoeAssumption DEF CpuMoeAssumption, Serving
<1>2. call.m * TopK \in Nat /\ call.m * TopK <= MaxTokens * TopK /\ MaxTokens * TopK \in Nat
  BY <1>1, ProductLeq
<1>3. ASSUME NEW i \in CallPairs PROVE TokenOf(i) \in 1..call.m /\ i \in Pairs
  <2>1. i \in 0..(call.m * TopK - 1)
    BY DEF CallPairs
  <2> DEFINE d == i \div TopK
  <2>2. d \in 0..(call.m - 1)
    BY <1>1, <2>1, QuotientBelow
  <2> HIDE DEF d
  <2>3. d + 1 \in 1..call.m
    BY <1>1, <2>2
  <2>4. i \in Pairs
    BY <1>2, <2>1 DEF Pairs
  <2> QED  BY <2>3, <2>4 DEF TokenOf, d
<1>4. ASSUME NEW t \in 1..call.m, NEW k \in 1..TopK
      PROVE  /\ (t - 1) * TopK + k - 1 \in CallPairs
             /\ TokenOf((t - 1) * TopK + k - 1) = t
             /\ ExpertOf((t - 1) * TopK + k - 1) = hids[call.cap][t][k]
  <2> DEFINE q == t - 1  r == k - 1  i == q * TopK + r
  <2>1. q \in Nat /\ q + 1 = t /\ r \in 0..(TopK - 1) /\ r + 1 = k /\ t <= call.m /\ t \in Nat
    BY <1>1
  <2>2. (t - 1) * TopK + k - 1 = i
    <3>1. q * TopK \in Nat
      BY <1>1, <2>1
    <3> DEFINE p == q * TopK
    <3>2. p \in Nat /\ (t - 1) * TopK = p
      BY <3>1
    <3> HIDE DEF p
    <3>3. p + k - 1 = p + (k - 1)
      BY <1>1, <3>2
    <3> QED  BY <3>2, <3>3 DEF p
  <2> HIDE DEF q, r
  <2>3. i \div TopK = q /\ i % TopK = r
    BY <1>1, <2>1, QuotientOf
  <2>4. i \in 0..(call.m * TopK - 1)
    <3>1. (q + 1) * TopK <= call.m * TopK /\ (q + 1) * TopK = q * TopK + TopK
      BY <1>1, <2>1, ProductLeq
    <3>2. q * TopK \in Nat
      BY <1>1, <2>1
    <3> QED  BY <1>1, <1>2, <2>1, <3>1, <3>2
  <2> HIDE DEF i
  <2>5. TokenOf(i) = t
    BY <2>1, <2>3 DEF TokenOf
  <2>6. ExpertOf(i) = hids[call.cap][t][k]
    BY <2>1, <2>3, <2>5 DEF ExpertOf, Chosen
  <2>7. i \in CallPairs
    BY <2>4 DEF CallPairs
  <2> QED  BY <2>2, <2>5, <2>6, <2>7
<1> QED  BY <1>3, <1>4

LEMMA TaskFirst ==
  ASSUME IInv, Working, NEW th \in Threads, Run(th)
  PROVE  /\ Min(mine[th]) \in mine[th] /\ Min(mine[th]) \in 0..(Iterations(at[th]) - 1)
         /\ th \notin waiting
<1>1. mine[th] # {} /\ mine[th] \subseteq 0..(Iterations(at[th]) - 1) /\ th \notin waiting
  BY DEF Run, Working
<1>2. SomeNats(mine[th])
  <2>1. \A x \in mine[th] : x \in Nat
    BY <1>1
  <2> QED  BY <1>1, <2>1 DEF SomeNats
<1>3. Min(mine[th]) \in mine[th]
  BY <1>2, MinOfNat
<1> QED  BY <1>1, <1>3

\* A step that runs an iteration: what is right stays so, and what it has left is right.
LEMMA RunComputed ==
  ASSUME IInv, Serving, Working, Computed, NEW th \in Threads, Run(th),
         \A t \in 1..call.m : RightRow(t) => RightRow(t)',
         \A i \in CallPairs : \A b \in 1..GateBlocks : RightGate(i, b) => RightGate(i, b)',
         \A i \in CallPairs : \A b \in 1..DownBlocks : RightDown(i, b) => RightDown(i, b)',
         \A t \in 1..call.m : RightOutput(t) => RightOutput(t)',
         NEW task, task = Min(mine[th]), NEW own, own = at[th], Right(own, task)'
  PROVE  Working' /\ Computed'
<1>1. UNCHANGED <<call, hx, hids, tokOfE, eStart, at, nextTask, waiting>>
  BY DEF Run
<1>2. mine' = [mine EXCEPT ![th] = @ \ {task}] /\ task \in mine[th]
  BY TaskFirst DEF Run
<1>3. \A loop : Iterations(loop)' = Iterations(loop)
  BY <1>1, TeamFrame
<1>4. /\ mine' = [o \in Threads |-> mine'[o]]
      /\ \A o \in Threads : mine'[o] \subseteq mine[o] /\ (o # th => mine'[o] = mine[o])
      /\ \A x \in mine[th] : x = task \/ x \in mine'[th]
  BY <1>2 DEF Working
<1>5. Working'
  <2>1. \A o \in Threads : mine'[o] \subseteq 0..(Iterations(at[o]) - 1)
    BY <1>4 DEF Working
  <2>2. \A o \in waiting : mine'[o] = {}
    BY <1>4 DEF Working, IInv
  <2> QED  BY <1>1, <1>3, <1>4, <2>1, <2>2 DEF Working
<1>6. ASSUME NEW loop, NEW x \in Unrun(loop), ~(loop = at[th] /\ x = task)
      PROVE  x \in Unrun(loop)'
  <2>1. \A o \in Threads : at[o] = loop /\ x \in mine[o] => x \in mine'[o]
    BY <1>4, <1>6
  <2> QED  BY <1>1, <1>3, <2>1 DEF Unrun
<1>7. ASSUME NEW loop, NEW x \in 0..(Iterations(loop) - 1), Right(loop, x)
      PROVE  Right(loop, x)'
  BY <1>1, <1>7, RightKept
<1>8. ASSUME NEW loop \in Permute..Combine, NEW x \in 0..(Iterations(loop) - 1)
      PROVE  x \in Unrun(loop)' \/ Right(loop, x)'
  <2>1. x \in Unrun(loop) \/ Right(loop, x)
    BY DEF Computed, Serving
  <2>2. CASE loop = at[th] /\ x = task
    BY <2>2
  <2> QED  BY <1>6, <1>7, <2>1, <2>2
<1> QED  BY <1>1, <1>3, <1>5, <1>8 DEF Computed, Serving

LEMMA PermuteRight ==
  ASSUME IInv, Serving, Working, Computed, ScratchShaped, NEW th \in Threads, Run(th), at[th] = Permute
  PROVE  ScratchShaped' /\ Working' /\ Computed'
<1> PICK task : task = Min(mine[th])
  OBVIOUS
<1>1. UNCHANGED <<call, hx, hids, hout, tokOfE, eStart, hp, yp>> /\ xp' = [xp EXCEPT ![task + 1] = hx[call.cap][task + 1]]
  BY DEF Run, RunPermute, RunGate, RunDown, RunCombine, Permute, GateDynamic, GateStatic, DownDynamic, DownStatic, Combine
<1>2. task + 1 \in 1..call.m /\ task + 1 \in 1..MaxTokens
  <2>1. task + 1 \in 1..call.m
    BY TaskFirst, LoopTasks
  <2> QED  BY <2>1, CpuMoeAssumption DEF Serving, CpuMoeAssumption
<1>3. \A t \in 1..MaxTokens : xp'[t] = IF t = task + 1 THEN hx[call.cap][t] ELSE xp[t]
  BY <1>1, <1>2 DEF ScratchShaped
<1>4. ScratchShaped'
  BY <1>1, <1>2 DEF ScratchShaped
<1>5. \A t \in 1..call.m : t \in 1..MaxTokens
  BY CpuMoeAssumption DEF Serving, CpuMoeAssumption
<1>6. \A t \in 1..call.m : RightRow(t) => RightRow(t)'
  BY <1>1, <1>3, <1>5 DEF RightRow
<1>7. RightRow(task + 1)'
  BY <1>1, <1>2, <1>3 DEF RightRow
<1>8. /\ \A i : GateValue(i)' = GateValue(i) /\ DownValue(i)' = DownValue(i)
      /\ \A t : OutputOf(t)' = OutputOf(t)
  BY <1>1, TeamFrame
<1>9. /\ \A i \in CallPairs : \A b \in 1..GateBlocks : RightGate(i, b) => RightGate(i, b)'
      /\ \A i \in CallPairs : \A b \in 1..DownBlocks : RightDown(i, b) => RightDown(i, b)'
      /\ \A t \in 1..call.m : RightOutput(t) => RightOutput(t)'
  BY <1>1, <1>8 DEF RightGate, RightDown, RightOutput
<1>10. Right(Permute, task)'
  BY <1>7 DEF Right, Permute, GateDynamic, GateStatic, DownDynamic, DownStatic, Combine
<1> QED  BY <1>4, <1>6, <1>9, <1>10, RunComputed

\* What all blocks of a row were computed from.
LEMMA WholeFacts ==
  ASSUME NEW n \in Nat \ {0}, NEW row, row = [b \in 1..n |-> row[b]], NEW v,
         \A b \in 1..n : row[b] = v
  PROVE  Whole(row) = v
<1>1. DOMAIN row = 1..n /\ 1 \in 1..n
  OBVIOUS
<1> QED  BY <1>1 DEF Whole

LEMMA GateRight ==
  ASSUME IInv, Serving, Working, Computed, ScratchShaped, NEW th \in Threads, Run(th),
         at[th] \in {GateDynamic, GateStatic}
  PROVE  ScratchShaped' /\ Working' /\ Computed'
<1> PICK task : task = Min(mine[th])
  OBVIOUS
<1> PICK own : own = at[th]
  OBVIOUS
<1> PICK e : e = ActiveAt((task \div GateBlocks) + 1)
  OBVIOUS
<1> DEFINE b == (task % GateBlocks) + 1
<1>1. /\ UNCHANGED <<call, hx, hids, hout, tokOfE, eStart, xp, yp>>
      /\ hp' = [i \in Pairs |-> IF i \in RowsOf(e)
                                THEN [hp[i] EXCEPT ![b] = <<e, xp[TokenOf(i)]>>]
                                ELSE hp[i]]
  BY DEF Run, RunPermute, RunGate, RunDown, RunCombine, Permute, GateDynamic, GateStatic, DownDynamic, DownStatic, Combine
<1>2. /\ e \in Experts /\ b \in 1..GateBlocks
      /\ \A i \in RowsOf(e) : i \in CallPairs /\ i \in Pairs /\ ExpertOf(i) = e
  <2>1. task \in 0..(Cardinality(Active) * GateBlocks - 1)
    BY TaskFirst, LoopTasks
  <2>2. GateBlocks \in Nat \ {0}
    BY CpuMoeAssumption DEF CpuMoeAssumption
  <2> QED  BY <2>1, <2>2, TaskRows
<1>3. \A i \in CallPairs : TokenOf(i) \in 1..call.m /\ i \in Pairs
  BY TokensOfPairs
<1>4. \A t \in 1..call.m : RightRow(t)
  <2>1. at[th] > Permute
    BY DEF Permute, GateDynamic, GateStatic
  <2> QED  BY <2>1, RowsDone
<1> HIDE DEF b
<1>5. \A i \in RowsOf(e) : <<e, xp[TokenOf(i)]>> = GateValue(i)
  BY <1>2, <1>3, <1>4 DEF RightRow, GateValue
<1>6. \A i \in Pairs : hp[i] = [c \in 1..GateBlocks |-> hp[i][c]]
  BY DEF ScratchShaped
<1>7. \A i \in Pairs : /\ hp'[i] = [c \in 1..GateBlocks |-> hp'[i][c]]
                       /\ \A c \in 1..GateBlocks :
                            hp'[i][c] = IF i \in RowsOf(e) /\ c = b THEN GateValue(i) ELSE hp[i][c]
  <2> SUFFICES ASSUME NEW i \in Pairs
               PROVE  /\ hp'[i] = [c \in 1..GateBlocks |-> hp'[i][c]]
                      /\ \A c \in 1..GateBlocks :
                            hp'[i][c] = IF i \in RowsOf(e) /\ c = b THEN GateValue(i) ELSE hp[i][c]
    OBVIOUS
  <2>1. CASE i \in RowsOf(e)
    <3>1. hp'[i] = [hp[i] EXCEPT ![b] = GateValue(i)]
      BY <1>1, <1>5, <2>1
    <3> QED  BY <1>2, <1>6, <2>1, <3>1
  <2>2. CASE i \notin RowsOf(e)
    <3>1. hp'[i] = hp[i]
      BY <1>1, <2>2
    <3> QED  BY <1>6, <2>2, <3>1
  <2> QED  BY <2>1, <2>2
<1>8. ScratchShaped'
  <2>1. hp' = [i \in Pairs |-> hp'[i]]
    BY <1>1
  <2>2. hp' = [i \in Pairs |-> [c \in 1..GateBlocks |-> hp'[i][c]]]
    BY <1>7, <2>1
  <2> QED  BY <1>1, <2>2 DEF ScratchShaped
<1>9. /\ \A i : GateValue(i)' = GateValue(i) /\ DownValue(i)' = DownValue(i)
      /\ \A t : OutputOf(t)' = OutputOf(t)
      /\ \A x : RowsOf(x)' = RowsOf(x)
      /\ \A n : ActiveAt(n)' = ActiveAt(n)
  BY <1>1, TeamFrame
<1>10. \A i \in CallPairs : \A c \in 1..GateBlocks : RightGate(i, c) => RightGate(i, c)'
  BY <1>3, <1>7, <1>9 DEF RightGate
<1>11. /\ \A t \in 1..call.m : RightRow(t) => RightRow(t)'
       /\ \A i \in CallPairs : \A c \in 1..DownBlocks : RightDown(i, c) => RightDown(i, c)'
       /\ \A t \in 1..call.m : RightOutput(t) => RightOutput(t)'
  BY <1>1, <1>9 DEF RightRow, RightDown, RightOutput
<1>12. \A i \in RowsOf(e) : RightGate(i, b)'
  BY <1>2, <1>7, <1>9 DEF RightGate
<1>13. Right(own, task)'
  <2>1. own \in {GateDynamic, GateStatic}
    OBVIOUS
  <2>2. RowsOf(ActiveAt((task \div GateBlocks) + 1))' = RowsOf(e)
    BY <1>9 DEF RowsOf
  <2>3. \A i \in RowsOf(ActiveAt((task \div GateBlocks) + 1))' : RightGate(i, (task % GateBlocks) + 1)'
    BY <1>12, <2>2 DEF b
  <2> QED  BY <2>1, <2>3 DEF Right, Permute, GateDynamic, GateStatic, DownDynamic, DownStatic, Combine
<1> QED  BY <1>8, <1>10, <1>11, <1>13, RunComputed

LEMMA DownRight ==
  ASSUME IInv, Serving, Working, Computed, ScratchShaped, NEW th \in Threads, Run(th),
         at[th] \in {DownDynamic, DownStatic}
  PROVE  ScratchShaped' /\ Working' /\ Computed'
<1> PICK task : task = Min(mine[th])
  OBVIOUS
<1> PICK own : own = at[th]
  OBVIOUS
<1> PICK e : e = ActiveAt((task \div DownBlocks) + 1)
  OBVIOUS
<1> DEFINE b == (task % DownBlocks) + 1
<1>1. /\ UNCHANGED <<call, hx, hids, hout, tokOfE, eStart, xp, hp>>
      /\ yp' = [i \in Pairs |-> IF i \in RowsOf(e)
                                THEN [yp[i] EXCEPT ![b] = <<e, Whole(hp[i])>>]
                                ELSE yp[i]]
  BY DEF Run, RunPermute, RunGate, RunDown, RunCombine, Permute, GateDynamic, GateStatic, DownDynamic, DownStatic, Combine
<1>2. /\ e \in Experts /\ b \in 1..DownBlocks
      /\ \A i \in RowsOf(e) : i \in CallPairs /\ i \in Pairs /\ ExpertOf(i) = e
  <2>1. task \in 0..(Cardinality(Active) * DownBlocks - 1)
    BY TaskFirst, LoopTasks
  <2>2. DownBlocks \in Nat \ {0}
    BY CpuMoeAssumption DEF CpuMoeAssumption
  <2> QED  BY <2>1, <2>2, TaskRows
<1>3. \A i \in CallPairs : i \in Pairs
  BY TokensOfPairs
<1>4. \A i \in RowsOf(e) : Whole(hp[i]) = GateValue(i)
  <2> SUFFICES ASSUME NEW i \in RowsOf(e) PROVE Whole(hp[i]) = GateValue(i)
    OBVIOUS
  <2>1. at[th] > GateStatic
    BY DEF GateStatic, DownDynamic, DownStatic
  <2>2. \A c \in 1..GateBlocks : hp[i][c] = GateValue(i)
    BY <1>2, <2>1, GateDone DEF RightGate
  <2>3. hp[i] = [c \in 1..GateBlocks |-> hp[i][c]]
    BY <1>2 DEF ScratchShaped
  <2> QED  BY <2>2, <2>3, WholeFacts, CpuMoeAssumption DEF CpuMoeAssumption
<1> HIDE DEF b
<1>5. \A i \in RowsOf(e) : <<e, Whole(hp[i])>> = DownValue(i)
  BY <1>2, <1>4 DEF DownValue
<1>6. \A i \in Pairs : yp[i] = [c \in 1..DownBlocks |-> yp[i][c]]
  BY DEF ScratchShaped
<1>7. \A i \in Pairs : /\ yp'[i] = [c \in 1..DownBlocks |-> yp'[i][c]]
                       /\ \A c \in 1..DownBlocks :
                            yp'[i][c] = IF i \in RowsOf(e) /\ c = b THEN DownValue(i) ELSE yp[i][c]
  <2> SUFFICES ASSUME NEW i \in Pairs
               PROVE  /\ yp'[i] = [c \in 1..DownBlocks |-> yp'[i][c]]
                      /\ \A c \in 1..DownBlocks :
                            yp'[i][c] = IF i \in RowsOf(e) /\ c = b THEN DownValue(i) ELSE yp[i][c]
    OBVIOUS
  <2>1. CASE i \in RowsOf(e)
    <3>1. yp'[i] = [yp[i] EXCEPT ![b] = DownValue(i)]
      BY <1>1, <1>5, <2>1
    <3> QED  BY <1>2, <1>6, <2>1, <3>1
  <2>2. CASE i \notin RowsOf(e)
    <3>1. yp'[i] = yp[i]
      BY <1>1, <2>2
    <3> QED  BY <1>6, <2>2, <3>1
  <2> QED  BY <2>1, <2>2
<1>8. ScratchShaped'
  <2>1. yp' = [i \in Pairs |-> yp'[i]]
    BY <1>1
  <2>2. yp' = [i \in Pairs |-> [c \in 1..DownBlocks |-> yp'[i][c]]]
    BY <1>7, <2>1
  <2> QED  BY <1>1, <2>2 DEF ScratchShaped
<1>9. /\ \A i : GateValue(i)' = GateValue(i) /\ DownValue(i)' = DownValue(i)
      /\ \A t : OutputOf(t)' = OutputOf(t)
      /\ \A x : RowsOf(x)' = RowsOf(x)
      /\ \A n : ActiveAt(n)' = ActiveAt(n)
  BY <1>1, TeamFrame
<1>10. \A i \in CallPairs : \A c \in 1..DownBlocks : RightDown(i, c) => RightDown(i, c)'
  BY <1>3, <1>7, <1>9 DEF RightDown
<1>11. /\ \A t \in 1..call.m : RightRow(t) => RightRow(t)'
       /\ \A i \in CallPairs : \A c \in 1..GateBlocks : RightGate(i, c) => RightGate(i, c)'
       /\ \A t \in 1..call.m : RightOutput(t) => RightOutput(t)'
  BY <1>1, <1>9 DEF RightRow, RightGate, RightOutput
<1>12. \A i \in RowsOf(e) : RightDown(i, b)'
  BY <1>2, <1>7, <1>9 DEF RightDown
<1>13. Right(own, task)'
  <2>1. own \in {DownDynamic, DownStatic}
    OBVIOUS
  <2>2. RowsOf(ActiveAt((task \div DownBlocks) + 1))' = RowsOf(e)
    BY <1>9 DEF RowsOf
  <2>3. \A i \in RowsOf(ActiveAt((task \div DownBlocks) + 1))' : RightDown(i, (task % DownBlocks) + 1)'
    BY <1>12, <2>2 DEF b
  <2> QED  BY <2>1, <2>3 DEF Right, Permute, GateDynamic, GateStatic, DownDynamic, DownStatic, Combine
<1> QED  BY <1>8, <1>10, <1>11, <1>13, RunComputed

\* The sum of a token is taken over its slots that name an expert.
LEMMA CombineRight ==
  ASSUME IInv, Serving, Working, Computed, ScratchShaped, NEW th \in Threads, Run(th), at[th] = Combine,
         Shaped(hout, "experts"), call.cap \in Warmed("experts"), call.cap \in Nat, call.m <= call.cap
  PROVE  ScratchShaped' /\ Working' /\ Computed' /\ Shaped(hout, "experts")'
<1> PICK task : task = Min(mine[th])
  OBVIOUS
<1> PICK own : own = Combine
  OBVIOUS
<1> DEFINE t == task + 1
           slots == {k \in 1..TopK : hids[call.cap][t][k] \in Experts}
           sum == [k \in slots |-> Whole(yp[(t - 1) * TopK + k - 1])]
<1>1. /\ UNCHANGED <<call, hx, hids, tokOfE, eStart, xp, hp, yp>>
      /\ hout' = [hout EXCEPT ![call.cap][t] = sum]
  BY DEF Run, RunPermute, RunGate, RunDown, RunCombine, Permute, GateDynamic, GateStatic, DownDynamic, DownStatic, Combine
<1>2. t \in 1..call.m /\ t \in 1..call.cap
  <2>1. t \in 1..call.m
    BY TaskFirst, LoopTasks
  <2> QED  BY <2>1 DEF Serving
<1>3. sum = OutputOf(t)
  <2>1. at[th] > DownStatic
    BY DEF DownStatic, Combine
  <2>2. slots = SlotsOf(t)
    BY DEF SlotsOf
  <2>3. ASSUME NEW k \in SlotsOf(t)
        PROVE  Whole(yp[(t - 1) * TopK + k - 1])
                 = <<hids[call.cap][t][k], <<hids[call.cap][t][k], hx[call.cap][t]>>>>
    <3> PICK i : i = (t - 1) * TopK + k - 1
      OBVIOUS
    <3>1. i \in CallPairs /\ i \in Pairs /\ TokenOf(i) = t /\ ExpertOf(i) = hids[call.cap][t][k]
      BY <1>2, TokensOfPairs DEF SlotsOf
    <3>2. ExpertOf(i) \in Experts
      BY <3>1 DEF SlotsOf
    <3>3. \A b \in 1..DownBlocks : yp[i][b] = DownValue(i)
      BY <2>1, <3>1, <3>2, DownDone DEF RightDown
    <3>4. yp[i] = [b \in 1..DownBlocks |-> yp[i][b]]
      BY <3>1 DEF ScratchShaped
    <3>5. Whole(yp[i]) = DownValue(i)
      <4>1. DownBlocks \in Nat \ {0}
        BY CpuMoeAssumption DEF CpuMoeAssumption
      <4> HIDE DEF slots, sum, t
      <4> PICK row : row = yp[i]
        OBVIOUS
      <4>2. row = [b \in 1..DownBlocks |-> row[b]] /\ \A b \in 1..DownBlocks : row[b] = DownValue(i)
        BY <3>3, <3>4
      <4> PICK v : v = DownValue(i)
        OBVIOUS
      <4>3. row = [b \in 1..DownBlocks |-> row[b]] /\ \A b \in 1..DownBlocks : row[b] = v
        BY <4>2
      <4>4. Whole(row) = v
        BY ONLY <4>1, <4>3, WholeFacts
      <4> QED  BY <4>4
    <3> QED  BY <3>1, <3>5 DEF DownValue, GateValue
  <2> HIDE DEF slots, t
  <2> QED  BY <2>2, <2>3 DEF OutputOf
<1> HIDE DEF sum
<1> PICK c : c = call.cap
  OBVIOUS
<1>4. /\ hout = [x \in Warmed("experts") |-> [p \in 1..x |-> hout[x][p]]]
      /\ c \in Warmed("experts") /\ t \in 1..c
      /\ hout' = [hout EXCEPT ![c] = [@ EXCEPT ![t] = sum]]
  BY <1>1, <1>2 DEF Shaped
<1>5. hout[c] = [p \in 1..c |-> hout[c][p]] /\ DOMAIN hout = Warmed("experts")
  BY <1>4
<1> HIDE DEF t
<1>6. /\ hout'[c] = [hout[c] EXCEPT ![t] = sum]
      /\ \A x \in Warmed("experts") : x # c => hout'[x] = hout[x]
      /\ hout' = [x \in Warmed("experts") |-> hout'[x]]
  BY <1>4, <1>5
<1>7. /\ hout'[c] = [p \in 1..c |-> hout'[c][p]]
      /\ hout'[c][t] = sum
      /\ \A p \in 1..c : p # t => hout'[c][p] = hout[c][p]
  BY <1>4, <1>5, <1>6
<1>8. Shaped(hout, "experts")'
  <2>1. \A x \in Warmed("experts") : hout'[x] = [p \in 1..x |-> hout'[x][p]]
    <3> TAKE x \in Warmed("experts")
    <3>1. hout[x] = [p \in 1..x |-> hout[x][p]]
      BY <1>4
    <3> QED  BY <1>6, <1>7, <3>1
  <2>2. Warmed("experts")' = Warmed("experts")
    BY DEF Warmed, PowersUpTo, Count
  <2> QED  BY <1>6, <2>1, <2>2 DEF Shaped
<1>9. /\ \A i : GateValue(i)' = GateValue(i) /\ DownValue(i)' = DownValue(i)
      /\ \A u : OutputOf(u)' = OutputOf(u)
  BY <1>1, TeamFrame
<1>10. RightOutput(t)'
  <2>1. call'.cap = c
    BY <1>1
  <2> QED  BY <1>3, <1>7, <1>9, <2>1 DEF RightOutput, t
<1>11. \A u \in 1..call.m : RightOutput(u) => RightOutput(u)'
  <2>1. call'.cap = c /\ \A u \in 1..call.m : u \in 1..c
    BY <1>1 DEF Serving
  <2>2. ASSUME NEW u \in 1..call.m, u # t, RightOutput(u) PROVE RightOutput(u)'
    BY <1>7, <1>9, <2>1, <2>2 DEF RightOutput
  <2> QED  BY <1>10, <2>2 DEF t
<1>12. /\ \A u \in 1..call.m : RightRow(u) => RightRow(u)'
       /\ \A i \in CallPairs : \A b \in 1..GateBlocks : RightGate(i, b) => RightGate(i, b)'
       /\ \A i \in CallPairs : \A b \in 1..DownBlocks : RightDown(i, b) => RightDown(i, b)'
  BY <1>1, <1>9 DEF RightRow, RightGate, RightDown
<1>13. Right(own, task)'
  BY <1>10 DEF Right, t, Permute, GateDynamic, GateStatic, DownDynamic, DownStatic, Combine
<1>14. ScratchShaped'
  BY <1>1 DEF ScratchShaped
<1> QED  BY <1>8, <1>11, <1>12, <1>13, <1>14, RunComputed

\* The next two iterations change hands.
LEMMA ClaimComputed ==
  ASSUME IInv, Serving, Working, Computed, NEW th \in Threads, Claim(th)
  PROVE  Working' /\ Computed'
<1> PICK own : own = at[th]
  OBVIOUS
<1> PICK from : from = nextTask[own]
  OBVIOUS
<1> DEFINE upTo == IF from + 2 < Iterations(own) THEN from + 2 ELSE Iterations(own)
<1>1. /\ UNCHANGED <<call, hx, hids, tokOfE, eStart, xp, hp, yp, hout, at, waiting>>
      /\ own \in Dynamic /\ mine[th] = {} /\ from < Iterations(own)
      /\ mine' = [mine EXCEPT ![th] = from..(upTo - 1)]
      /\ nextTask' = [nextTask EXCEPT ![own] = upTo]
  BY DEF Claim, scratch
<1>2. from \in Nat /\ Iterations(own) \in Nat /\ upTo \in Nat /\ from <= upTo /\ upTo <= Iterations(own)
  <2>1. from \in Nat /\ Iterations(own) \in Nat
    BY <1>1, DynamicIterations, CpuMoeAssumption DEF IInv
  <2> QED  BY <1>1, <2>1
<1>3. \A loop : Iterations(loop)' = Iterations(loop)
  BY <1>1, TeamFrame
<1>4. th \notin waiting
  BY <1>1 DEF IInv, Barriers, Dynamic, Permute, GateDynamic, GateStatic, DownDynamic, DownStatic, Combine
<1> HIDE DEF upTo
<1>5. /\ mine' = [o \in Threads |-> mine'[o]] /\ mine'[th] = from..(upTo - 1)
      /\ \A o \in Threads : o # th => mine'[o] = mine[o]
  BY <1>1 DEF Working
<1>6. nextTask'[own] = upTo /\ \A loop \in Dynamic : loop # own => nextTask'[loop] = nextTask[loop]
  BY <1>1 DEF IInv
<1>7. Working'
  <2>1. mine'[th] \subseteq 0..(Iterations(at[th]) - 1)
    BY <1>2, <1>5
  <2>2. \A o \in Threads : mine'[o] \subseteq 0..(Iterations(at[o]) - 1)
    BY <1>5, <2>1 DEF Working
  <2>3. \A o \in waiting : mine'[o] = {}
    BY <1>4, <1>5 DEF Working, IInv
  <2> QED  BY <1>1, <1>3, <1>5, <2>2, <2>3 DEF Working
<1>8. ASSUME NEW loop, NEW x \in Unrun(loop) PROVE x \in Unrun(loop)'
  <2>1. x \in 0..(Iterations(loop)' - 1)
    BY <1>3 DEF Unrun
  <2>2. ASSUME NEW o \in Threads, at[o] = loop, x \in mine[o]
        PROVE  at'[o] = loop /\ x \in mine'[o]
    BY <1>1, <1>5, <2>2
  <2>3. ASSUME loop \in Dynamic, x >= nextTask[loop]
        PROVE  x >= nextTask'[loop] \/ \E o \in Threads : at'[o] = loop /\ x \in mine'[o]
    <3>1. CASE loop # own
      BY <1>6, <2>3, <3>1
    <3>2. CASE loop = own
      <4>1. x >= upTo \/ x \in from..(upTo - 1)
        <5>1. x \in Int
          BY DEF Unrun
        <5> QED  BY <1>2, <2>3, <3>2, <5>1
      <4> QED  BY <1>1, <1>5, <1>6, <3>2, <4>1
    <3> QED  BY <3>1, <3>2
  <2>4. ASSUME loop \notin Dynamic, NEW o \in Threads, at[o] < loop, x \in Share(o, Iterations(loop))
        PROVE  at'[o] < loop /\ x \in Share(o, Iterations(loop)')
    BY <1>1, <1>3, <2>4
  <2> QED  BY <2>1, <2>2, <2>3, <2>4 DEF Unrun
<1> QED  BY <1>1, <1>7, <1>8, ComputedKept

\* Threads with nothing left go on: what they have to do in later loops is theirs still.
LEMMA AdvanceComputed ==
  ASSUME IInv, Serving, Working, Computed, NEW S \in SUBSET Threads, Advanced(S),
         \A o \in S : mine[o] = {}, waiting' \subseteq waiting, waiting' \cap S = {},
         UNCHANGED <<call, hx, hids, tokOfE, eStart, xp, hp, yp, hout, nextTask>>
  PROVE  Working' /\ Computed'
<1>1. \A loop : Iterations(loop)' = Iterations(loop)
  BY TeamFrame
<1>2. \A loop : /\ Iterations(loop) \in Nat
                /\ \A o \in Threads : Share(o, Iterations(loop)) \subseteq 0..(Iterations(loop) - 1)
  <2>1. Divided
    BY ServingDivided
  <2> QED  BY <2>1 DEF Divided
<1>3. \A o \in Threads : /\ at[o] \in Loops /\ at[o] \in Int
                         /\ at'[o] = IF o \in S THEN at[o] + 1 ELSE at[o]
                         /\ mine'[o] = IF o \in S THEN Assigned(o, at[o] + 1) ELSE mine[o]
  BY DEF Advanced, IInv, Loops, Permute, Done
<1>4. \A o \in Threads : \A loop : Assigned(o, loop) = IF loop \in Dynamic THEN {} ELSE Share(o, Iterations(loop))
  BY DEF Assigned
<1>5. Working'
  <2>1. mine' = [o \in Threads |-> mine'[o]]
    BY DEF Advanced
  <2>2. ASSUME NEW o \in Threads PROVE mine'[o] \subseteq 0..(Iterations(at'[o]) - 1)
    <3>1. CASE o \in S
      BY <1>2, <1>3, <1>4, <3>1
    <3>2. CASE o \notin S
      BY <1>3, <3>2 DEF Working
    <3> QED  BY <3>1, <3>2
  <2>3. \A o \in waiting' : mine'[o] = {}
    BY <1>3 DEF Working, IInv
  <2>4. call' # NoCall
    BY DEF Serving
  <2>5. \A o \in Threads : mine'[o] \subseteq 0..(Iterations(at[o])' - 1)
    <3> TAKE o \in Threads
    <3> PICK l : l = at'[o]
      OBVIOUS
    <3>1. mine'[o] \subseteq 0..(Iterations(l)' - 1)
      BY <1>1, <2>2
    <3> QED  BY <3>1 DEF Iterations
  <2> QED  BY <2>1, <2>3, <2>4, <2>5 DEF Working
<1>6. ASSUME NEW loop \in Permute..Combine, NEW x \in Unrun(loop) PROVE x \in Unrun(loop)'
  <2>1. x \in 0..(Iterations(loop)' - 1)
    BY <1>1 DEF Unrun
  <2>2. ASSUME NEW o \in Threads, at[o] = loop, x \in mine[o]
        PROVE  at'[o] = loop /\ x \in mine'[o]
    BY <1>3, <2>2
  <2>3. ASSUME loop \notin Dynamic, NEW o \in Threads, at[o] < loop, x \in Share(o, Iterations(loop))
        PROVE  \/ at'[o] = loop /\ x \in mine'[o]
               \/ at'[o] < loop /\ x \in Share(o, Iterations(loop)')
    <3>1. loop \in Int
      BY DEF Permute, Combine
    <3>2. CASE o \notin S
      BY <1>1, <1>3, <2>3, <3>2
    <3>3. CASE o \in S /\ at[o] + 1 = loop
      BY <1>3, <1>4, <2>3, <3>3
    <3>4. CASE o \in S /\ at[o] + 1 # loop
      <4>1. at[o] + 1 < loop
        BY <1>3, <2>3, <3>1, <3>4
      <4> QED  BY <1>1, <1>3, <2>3, <3>4, <4>1
    <3> QED  BY <3>2, <3>3, <3>4
  <2> QED  BY <2>1, <2>2, <2>3 DEF Unrun
<1> QED  BY <1>5, <1>6, ComputedKept

LEMMA ThreadTeam ==
  ASSUME IInv, TeamInv, call # NoCall => call.m \in 1..MaxTokens, NEW th \in Threads, ThreadStep(th),
         Shaped(hout, "experts"),
         call # NoCall => call.cap \in Warmed("experts") /\ call.cap \in Nat /\ call.m <= call.cap
  PROVE  TeamInv' /\ Shaped(hout, "experts")' /\ call # NoCall /\ UNCHANGED <<call, hx, hids>>
<1>1. UNCHANGED <<call, hx, hids, tokOfE, eStart>>
  BY DEF ThreadStep, Claim, Run, LeaveLoop, Arrive, scratch
<1>2. call # NoCall
  <2> SUFFICES ASSUME call = NoCall PROVE FALSE
    OBVIOUS
  <2>1. at[th] = Done /\ mine[th] \subseteq 0..(Iterations(Done) - 1)
    BY DEF TeamInv, Working
  <2>2. Iterations(Done) = 0
    BY DEF Iterations, Permute, GateDynamic, GateStatic, DownDynamic, DownStatic, Combine, Done
  <2>3. mine[th] = {}
    BY <2>1, <2>2
  <2> QED
    BY <2>1, <2>3 DEF ThreadStep, Claim, Run, LeaveLoop, Arrive, Finished, Dynamic, GateDynamic, DownDynamic, Done
<1>3. Serving
  BY <1>2 DEF Serving, TeamInv
<1>4. ByExpert'
  BY <1>1, ServingFrame DEF TeamInv
<1>5. ASSUME UNCHANGED <<xp, hp, yp, hout>>
      PROVE  ScratchShaped' /\ Shaped(hout, "experts")'
  BY <1>5 DEF TeamInv, ScratchShaped, Shaped, Warmed, PowersUpTo, Count
<1>6. CASE Claim(th)
  <2>1. UNCHANGED <<xp, hp, yp, hout>>
    BY <1>6 DEF Claim, scratch
  <2> QED  BY <1>1, <1>2, <1>3, <1>4, <1>5, <1>6, <2>1, ClaimComputed DEF TeamInv
<1>7. CASE Run(th)
  <2>1. \/ at[th] = Permute \/ at[th] \in {GateDynamic, GateStatic}
        \/ at[th] \in {DownDynamic, DownStatic} \/ at[th] = Combine
    BY <1>7 DEF Run
  <2>2. CASE at[th] # Combine
    <3>1. hout' = hout
      BY <1>7, <2>2 DEF Run, RunPermute, RunGate, RunDown
    <3>2. Shaped(hout, "experts")'
      BY <3>1 DEF Shaped, Warmed, PowersUpTo, Count
    <3>3. ScratchShaped' /\ Working' /\ Computed'
      BY <1>3, <1>7, <2>1, <2>2, PermuteRight, GateRight, DownRight DEF TeamInv
    <3> QED  BY <1>1, <1>2, <1>4, <3>2, <3>3 DEF TeamInv
  <2>3. CASE at[th] = Combine
    BY <1>1, <1>2, <1>3, <1>4, <1>7, <2>3, CombineRight DEF TeamInv
  <2> QED  BY <2>2, <2>3
<1>8. CASE LeaveLoop(th)
  <2>1. /\ Advanced({th}) /\ mine[th] = {} /\ th \notin waiting /\ waiting' = waiting
        /\ UNCHANGED <<xp, hp, yp, hout, nextTask>>
    BY <1>8 DEF LeaveLoop, Finished, scratch
  <2>2. Working' /\ Computed'
    BY <1>1, <1>3, <2>1, AdvanceComputed DEF TeamInv
  <2> QED  BY <1>1, <1>2, <1>4, <1>5, <2>1, <2>2 DEF TeamInv
<1>9. CASE Arrive(th)
  <2>1. mine[th] = {} /\ th \notin waiting /\ UNCHANGED <<xp, hp, yp, hout, nextTask>>
    BY <1>9 DEF Arrive, Finished, scratch
  <2>2. CASE waiting \union {th} = Threads
    <3>1. Advanced(Threads) /\ waiting' = {}
      BY <1>9, <2>2 DEF Arrive
    <3>2. \A o \in Threads : mine[o] = {}
      BY <2>1, <2>2 DEF TeamInv, Working
    <3>3. Working' /\ Computed'
      BY <1>1, <1>3, <2>1, <3>1, <3>2, AdvanceComputed DEF TeamInv
    <3> QED  BY <1>1, <1>2, <1>4, <1>5, <2>1, <3>3 DEF TeamInv
  <2>3. CASE waiting \union {th} # Threads
    <3>1. waiting' = waiting \union {th} /\ at' = at /\ mine' = mine
      BY <1>9, <2>3 DEF Arrive
    <3>2. \A loop : Iterations(loop)' = Iterations(loop)
      BY <1>1, TeamFrame
    <3>3. Working'
      BY <1>1, <1>2, <2>1, <3>1, <3>2 DEF TeamInv, Working
    <3>4. \A loop : \A x \in Unrun(loop) : x \in Unrun(loop)'
      BY <2>1, <3>1, <3>2 DEF Unrun
    <3>5. Computed'
      BY <1>1, <1>3, <2>1, <3>4, ComputedKept DEF TeamInv
    <3> QED  BY <1>1, <1>2, <1>4, <1>5, <2>1, <3>3, <3>5 DEF TeamInv
  <2> QED  BY <2>2, <2>3
<1> QED  BY <1>6, <1>7, <1>8, <1>9 DEF ThreadStep

LEMMA WorkFacts ==
  ASSUME NEW m \in BatchSizes, NEW u
  PROVE  /\ m \in 1..MaxTokens /\ Count(u, m) \in Nat /\ Count(u, m) > 0
         /\ Capacity(Count(u, m)) \in Nat /\ Count(u, m) <= Capacity(Count(u, m))
         /\ Capacity(Count(u, m)) \in Warmed(u)
<1>1. m \in 1..MaxTokens /\ MaxTokens \in Nat /\ Heads \in Nat \ {0}
  BY HostCallsAssumption, CpuMoeAssumption DEF HostCallsAssumption, CpuMoeAssumption
<1>2. Count(u, m) \in Nat /\ Count(u, m) > 0
  <2>1. m * Heads \in Nat /\ m * Heads > 0
    BY <1>1
  <2> QED  BY <1>1, <2>1 DEF Count
<1> QED  BY <1>1, <1>2, CapacityFacts, CapacityWarmed

LEMMA ExpertWork ==
  ASSUME NEW m \in BatchSizes
  PROVE  /\ m \in 1..MaxTokens /\ Capacity(m) \in Nat /\ m <= Capacity(m)
         /\ Capacity(m) \in Warmed("experts") /\ Count("experts", m) = m
<1>1. Count("experts", m) = m
  BY DEF Count
<1> QED  BY <1>1, WorkFacts

\* The call that a forward makes.
LEMMA CallFacts ==
  ASSUME NEW m \in BatchSizes, NEW work, work = WorkOf(m)
  PROVE  /\ work.m = m /\ work.cap = Capacity(m) /\ work # NoCall
         /\ work.m \in 1..MaxTokens
         /\ work.cap \in Warmed("experts") /\ work.cap \in Nat /\ work.m <= work.cap
<1>1. work.m = m /\ work.cap = Capacity(m) /\ NoCall.m = 0
  BY DEF WorkOf, NoCall
<1>2. m # 0
  BY ExpertWork
<1> QED  BY <1>1, <1>2, ExpertWork

\* When the team is forked, nothing has been run.
LEMMA ForkTeam ==
  ASSUME TeamInv, NEW m \in BatchSizes, Fork(WorkOf(m))
  PROVE  TeamInv' /\ call' = WorkOf(m) /\ UNCHANGED <<hx, hids, hout>>
<1> PICK work : work = WorkOf(m)
  OBVIOUS
<1> PICK starts : starts = Starts(hids[work.cap], work.m)
  OBVIOUS
<1>1. /\ call' = work /\ eStart' = starts /\ tokOfE' = Grouped(hids[work.cap], work.m, starts)
      /\ at' = [th \in Threads |-> Permute]
      /\ mine' = [th \in Threads |-> Share(th, work.m)]
      /\ nextTask' = [loop \in Dynamic |-> 0]
      /\ waiting' = {}
      /\ UNCHANGED <<hx, hids, hout, xp, hp, yp>>
  BY DEF Fork
<1>2. work.m \in 1..MaxTokens /\ work # NoCall
  BY CallFacts
<1>3. ScratchShaped'
  BY <1>1 DEF TeamInv, ScratchShaped
<1>4. ByExpert'
  <2> SUFFICES ASSUME NEW e \in Experts
               PROVE  /\ RowsOf(e)' = {i \in CallPairs : ExpertOf(i) = e}'
                      /\ e \in Active' <=> \E i \in CallPairs' : ExpertOf(i)' = e
    BY DEF ByExpert
  <2> PICK w : w = hids[work.cap]
    OBVIOUS
  <2>1. work.m \in 0..MaxTokens
    BY <1>2
  <2>2. /\ {tokOfE'[q] : q \in starts[e]..(starts[e + 1] - 1)} = Of(w, work.m, e)
        /\ starts[e + 1] > starts[e] <=> Of(w, work.m, e) # {}
    BY <1>1, <2>1, GroupedFacts, CpuMoeAssumption
  <2>3. RowsOf(e)' = {tokOfE'[q] : q \in starts[e]..(starts[e + 1] - 1)}
    BY <1>1 DEF RowsOf
  <2>4. e \in Active' <=> starts[e + 1] > starts[e]
    BY <1>1 DEF Active
  <2>5. CallPairs' = 0..(work.m * TopK - 1) /\ \A i : ExpertOf(i)' = Chosen(w, i)
    BY <1>1 DEF CallPairs, ExpertOf, Chosen, TokenOf
  <2>6. {i \in CallPairs : ExpertOf(i) = e}' = Of(w, work.m, e)
    BY <2>5 DEF Of
  <2>7. Of(w, work.m, e) # {} <=> \E i \in CallPairs' : ExpertOf(i)' = e
    BY <2>5 DEF Of
  <2> QED  BY <2>2, <2>3, <2>4, <2>6, <2>7
<1>5. Divided'
  <2>1. Serving'
    BY <1>1, <1>2, <1>4 DEF Serving
  <2> QED  BY <2>1, ServingDivided, PTL
<1>6. \A loop : /\ Iterations(loop)' \in Nat
                /\ UNION {Share(th, Iterations(loop)') : th \in Threads} = 0..(Iterations(loop)' - 1)
  BY <1>5 DEF Divided
<1>7. Iterations(Permute)' = work.m
  BY <1>1 DEF Iterations, Permute, GateDynamic, GateStatic, DownDynamic, DownStatic, Combine
<1>8. Working'
  <2>1. \A th \in Threads : mine'[th] \subseteq 0..(Iterations(Permute)' - 1)
    BY <1>1, <1>6, <1>7
  <2>2. \A th \in Threads : Iterations(at[th])' = Iterations(Permute)'
    BY <1>1 DEF Iterations
  <2> QED  BY <1>1, <1>2, <2>1, <2>2 DEF Working
<1>9. ASSUME NEW loop \in Permute..Combine, NEW x \in 0..(Iterations(loop)' - 1)
      PROVE  x \in Unrun(loop)'
  <2>1. \E th \in Threads : x \in Share(th, Iterations(loop)')
    BY <1>6
  <2>2. CASE loop \in Dynamic
    <3>1. nextTask'[loop] = 0 /\ x >= 0
      BY <1>1, <1>6, <2>2
    <3> QED  BY <2>2, <3>1 DEF Unrun
  <2>3. CASE loop = Permute
    BY <1>1, <1>7, <2>1, <2>3 DEF Unrun
  <2>4. CASE loop \notin Dynamic /\ loop # Permute
    <3>1. \A th \in Threads : at'[th] < loop
      BY <1>1, <2>4 DEF Permute, Combine
    <3> QED  BY <2>1, <2>4, <3>1 DEF Unrun
  <2> QED  BY <2>2, <2>3, <2>4
<1>10. Computed'
  BY <1>9 DEF Computed
<1> QED  BY <1>1, <1>3, <1>4, <1>8, <1>10 DEF TeamInv

\* When the team is joined, every token has its output.
LEMMA JoinTeam ==
  ASSUME IInv, TeamInv, Join, call.m \in 1..MaxTokens
  PROVE  /\ TeamInv' /\ call' = NoCall /\ UNCHANGED <<hx, hids, hout>>
         /\ call # NoCall /\ \A t \in 1..call.m : RightOutput(t)
<1>1. /\ call # NoCall /\ call' = NoCall /\ \A th \in Threads : at[th] = Done
      /\ UNCHANGED <<hx, hids, hout, tokOfE, eStart, xp, hp, yp, at, mine, nextTask, waiting>>
  BY DEF Join, scratch, team
<1>2. Serving
  BY <1>1 DEF Serving, TeamInv
<1>3. \A t \in 1..call.m : RightOutput(t)
  <2>1. PICK th \in Threads : TRUE
    BY CpuMoeAssumption DEF CpuMoeAssumption
  <2>2. at[th] > Combine
    BY <1>1 DEF Combine, Done
  <2> QED  BY <1>2, <2>2, OutputsDone DEF TeamInv
<1>4. Working'
  <2>1. \A th \in Threads : Iterations(at[th]) = 0 /\ Iterations(at[th])' = 0
    BY <1>1 DEF Iterations, Permute, GateDynamic, GateStatic, DownDynamic, DownStatic, Combine, Done
  <2> QED  BY <1>1, <2>1 DEF TeamInv, Working
<1>5. ScratchShaped' /\ ByExpert' /\ Computed'
  BY <1>1 DEF TeamInv, ScratchShaped, ByExpert, Computed
<1> QED  BY <1>1, <1>3, <1>4, <1>5 DEF TeamInv

\* f has the entries 1..n.
Filled(f, n) == f = [p \in 1..n |-> f[p]]

\* The first entries of a buffer are overwritten.
LEMMA WrittenFacts ==
  ASSUME NEW f, NEW n \in Nat, NEW g, NEW c \in Nat, n <= c, Filled(g, n), Filled(f, c)
  PROVE  Filled(Written(f, g), c) /\ \A p \in 1..n : Written(f, g)[p] = g[p]
<1>1. DOMAIN g = 1..n /\ DOMAIN f = 1..c
  BY DEF Filled
<1>2. Written(f, g) = [p \in (DOMAIN f) \union (DOMAIN g) |-> IF p \in DOMAIN g THEN g[p] ELSE f[p]]
  BY DEF Written
<1>3. (DOMAIN f) \union (DOMAIN g) = 1..c
  BY <1>1
<1>4. Written(f, g) = [p \in 1..c |-> IF p \in 1..n THEN g[p] ELSE f[p]]
  BY <1>1, <1>2, <1>3
<1> PICK w : w = Written(f, g)
  OBVIOUS
<1>5. w = [p \in 1..c |-> w[p]] /\ \A p \in 1..c : w[p] = IF p \in 1..n THEN g[p] ELSE f[p]
  BY <1>4
<1>6. \A p \in 1..n : p \in 1..c
  OBVIOUS
<1> QED  BY <1>5, <1>6 DEF Filled

\* The first entries of a buffer.
LEMMA CutFacts ==
  ASSUME NEW c \in Nat, NEW n \in Nat, n <= c, NEW f, Filled(f, c)
  PROVE  /\ Filled(SubSeq(f, 1, n), n)
         /\ \A p \in 1..n : SubSeq(f, 1, n)[p] = f[p]
<1> DEFINE T == {f[p] : p \in 1..c}
<1>1. f \in Seq(T) /\ Len(f) = c
  <2>1. f \in [1..c -> T]
    BY DEF Filled
  <2> HIDE DEF T
  <2> QED  BY <2>1
<1> HIDE DEF T
<1> DEFINE g == SubSeq(f, 1, n)
<1>2. g \in Seq(T) /\ Len(g) = n /\ \A p \in 1..n : g[p] = f[p]
  <2>1. /\ g \in Seq(T) /\ Len(g) = (IF 1 <= n THEN n - 1 + 1 ELSE 0)
        /\ \A p \in 1..(n - 1 + 1) : g[p] = f[1 + p - 1]
    BY <1>1, SubSeqFacts
  <2>2. \A p \in 1..n : 1 + p - 1 = p
    OBVIOUS
  <2> HIDE DEF g
  <2>3. n - 1 + 1 = n /\ (IF 1 <= n THEN n - 1 + 1 ELSE 0) = n
    OBVIOUS
  <2> QED  BY <2>1, <2>2, <2>3
<1> HIDE DEF g
<1>3. g = [p \in 1..n |-> g[p]]
  BY <1>2
<1> QED  BY <1>2, <1>3 DEF g, Filled

\* The first entries of the buffer of a capacity become those of g.
Overwrites(h, f, c, g) == h = [f EXCEPT ![c] = Written(@, g)]

LEMMA BufferWrite ==
  ASSUME NEW user, NEW f, Shaped(f, user), NEW c \in Warmed(user), c \in Nat, NEW n \in Nat, n <= c,
         NEW g, Filled(g, n), NEW h, Overwrites(h, f, c, g)
  PROVE  Shaped(h, user) /\ \A p \in 1..n : h[c][p] = g[p]
<1>1. /\ f = [x \in Warmed(user) |-> f[x]]
      /\ \A x \in Warmed(user) : f[x] = [p \in 1..x |-> f[x][p]]
  BY DEF Shaped
<1>2. /\ h[c] = Written(f[c], g) /\ h = [x \in Warmed(user) |-> h[x]]
      /\ \A x \in Warmed(user) : x # c => h[x] = f[x]
  BY <1>1 DEF Overwrites
<1>3. /\ \A p \in 1..n : h[c][p] = g[p]
      /\ h[c] = [p \in 1..c |-> h[c][p]]
  <2>1. Filled(f[c], c)
    BY <1>1 DEF Filled
  <2>2. Filled(Written(f[c], g), c) /\ \A p \in 1..n : Written(f[c], g)[p] = g[p]
    BY <2>1, WrittenFacts
  <2> QED  BY <1>2, <2>2 DEF Filled
<1>4. \A x \in Warmed(user) : h[x] = [p \in 1..x |-> h[x][p]]
  BY <1>1, <1>2, <1>3
<1> QED  BY <1>2, <1>3, <1>4 DEF Shaped

\* From a buffer into another one of the same capacity.
LEMMA BufferCopy ==
  ASSUME NEW user, NEW e, Shaped(e, user), NEW c \in Warmed(user), c \in Nat, NEW n \in Nat, n <= c
  PROVE  /\ Filled(SubSeq(e[c], 1, n), n)
         /\ \A p \in 1..n : SubSeq(e[c], 1, n)[p] = e[c][p]
<1>1. Filled(e[c], c)
  BY DEF Shaped, Filled
<1> QED  BY <1>1, CutFacts

---------------------------------------------------------------------------
(* Places of the stream *)

LEMMA OpFacts ==
  ASSUME NEW m, NEW b, NEW j \in 1..7, NEW o, o = Op(j, m, b)
  PROVE  /\ o.m = m
         /\ j = 1 => o.op = "copyIn" /\ o.user = "rows" /\ o.batch = b
         /\ j = 2 => o.op = "host" /\ o.user = "rows" /\ o.work = WorkOf(Count("rows", m))
         /\ j = 3 => o.op = "copyOut" /\ o.user = "rows"
         /\ j = 4 => o.op = "copyIn" /\ o.user = "experts" /\ o.batch = b
         /\ j = 5 => o.op = "host" /\ o.user = "experts" /\ o.work = WorkOf(m)
         /\ j = 6 => o.op = "copyOut" /\ o.user = "experts"
         /\ j = 7 => o.op = "use" /\ o.batch = b
<1>1. CASE j = 1  BY <1>1 DEF Op
<1>2. CASE j = 2  BY <1>2 DEF Op
<1>3. CASE j = 3  BY <1>3 DEF Op
<1>4. CASE j = 4  BY <1>4 DEF Op
<1>5. CASE j = 5
  <2>1. Count("experts", m) = m
    BY DEF Count
  <2> QED  BY <1>5, <2>1 DEF Op
<1>6. CASE j = 6  BY <1>6 DEF Op
<1>7. CASE j = 7  BY <1>7 DEF Op
<1> QED  BY <1>1, <1>2, <1>3, <1>4, <1>5, <1>6, <1>7

LEMMA HoldsTail ==
  ASSUME NEW S, NEW s \in Seq(S), s # <<>>, NEW m, NEW b, NEW j \in 1..7
  PROVE  /\ \A i \in Nat \ {0} : Holds(s, i + 1, j, m, b) => Holds(Tail(s), i, j, m, b)
         /\ j < 7 /\ Holds(s, 1, j, m, b) => Holds(Tail(s), 1, j + 1, m, b)
<1> DEFINE t == Tail(s)
<1>1. /\ Len(s) \in Nat /\ Len(t) = Len(s) - 1 /\ Len(s) >= 1
      /\ \A i \in 1..(Len(s) - 1) : t[i] = s[i + 1]
  BY TailFacts
<1> HIDE DEF t
<1>2. ASSUME NEW i \in Nat \ {0}, Holds(s, i + 1, j, m, b) PROVE Holds(t, i, j, m, b)
  <2>1. (i + 1) + 7 - j <= Len(s) /\ \A k \in j..7 : s[(i + 1) + k - j] = Op(k, m, b)
    BY <1>2 DEF Holds
  <2>2. \A k \in j..7 : i + k - j \in 1..(Len(s) - 1) /\ (i + k - j) + 1 = (i + 1) + k - j
    BY <1>1, <2>1
  <2>3. i + 7 - j <= Len(t)
    BY <1>1, <2>1
  <2>4. \A k \in j..7 : t[i + k - j] = Op(k, m, b)
    BY <1>1, <2>1, <2>2
  <2> QED  BY <2>3, <2>4 DEF Holds
<1>3. ASSUME j < 7, Holds(s, 1, j, m, b) PROVE Holds(t, 1, j + 1, m, b)
  <2>1. 1 + 7 - j <= Len(s) /\ \A k \in j..7 : s[1 + k - j] = Op(k, m, b)
    BY <1>3 DEF Holds
  <2>2. \A k \in (j + 1)..7 : /\ k \in j..7 /\ 1 + k - (j + 1) \in 1..(Len(s) - 1)
                              /\ (1 + k - (j + 1)) + 1 = 1 + k - j
    BY <1>1, <2>1
  <2>3. 1 + 7 - (j + 1) <= Len(t)
    BY <1>1, <2>1
  <2>4. \A k \in (j + 1)..7 : t[1 + k - (j + 1)] = Op(k, m, b)
    BY <1>1, <2>1, <2>2
  <2> QED  BY <2>3, <2>4 DEF Holds
<1> QED  BY <1>2, <1>3 DEF t

LEMMA InOrderTail ==
  ASSUME NEW S, NEW s \in Seq(S), s # <<>>, InOrder(s)
  PROVE  InOrder(Tail(s))
<1> DEFINE t == Tail(s)
<1>1. /\ Len(s) \in Nat /\ Len(t) = Len(s) - 1 /\ Len(s) >= 1
      /\ \A i \in 1..(Len(s) - 1) : t[i] = s[i + 1]
  BY TailFacts
<1>2. SUFFICES ASSUME NEW i \in 1..(Len(t) - 1), t[i].op = "use"
               PROVE  \E m \in BatchSizes : \E b \in Batched(m) : Holds(t, i + 1, 1, m, b)
  BY DEF InOrder
<1> HIDE DEF t
<1>3. i + 1 \in 1..(Len(s) - 1) /\ s[i + 1].op = "use" /\ i + 1 \in Nat \ {0} /\ 1 \in 1..7
  BY <1>1, <1>2
<1>4. PICK m \in BatchSizes : \E b \in Batched(m) : Holds(s, (i + 1) + 1, 1, m, b)
  BY <1>3 DEF InOrder
<1>5. PICK b \in Batched(m) : Holds(s, (i + 1) + 1, 1, m, b)
  BY <1>4
<1>6. Holds(t, i + 1, 1, m, b)
  BY <1>3, <1>5, HoldsTail DEF t
<1> QED  BY <1>6

\* The oldest operation is done: the next one is of the same forward, or the first of the next one.
LEMMA NextOperation ==
  ASSUME NEW S, stream \in Seq(S), stream # <<>>, InOrder(stream),
         NEW m \in BatchSizes, NEW b \in Batched(m), NEW j \in 1..7, Holds(stream, 1, j, m, b),
         stream' = Tail(stream), j < 7 => Before(j + 1, m, b)'
  PROVE  (\E R : stream \in Seq(R))' /\ InOrder(stream)' /\ Found'
<1>1. stream' \in Seq(S)
  BY TailFacts
<1>2. InOrder(stream')
  BY InOrderTail
<1>3. InOrder(stream)'
  BY <1>2 DEF InOrder
<1>4. ASSUME stream' # <<>>, NEW n \in BatchSizes, NEW c \in Batched(n), NEW k \in 1..7,
             Holds(stream', 1, k, n, c), Before(k, n, c)'
      PROVE  Found'
  BY <1>4 DEF Found
<1>5. CASE j < 7
  <2>1. Holds(stream', 1, j + 1, m, b) /\ j + 1 \in 1..7
    BY <1>5, HoldsTail
  <2>2. CASE stream' = <<>>
    BY <1>1, <1>3, <2>2 DEF Found
  <2> QED  BY <1>1, <1>3, <1>4, <1>5, <2>1, <2>2
<1>6. CASE j = 7
  <2>1. CASE stream' = <<>>
    BY <1>1, <1>3, <2>1 DEF Found
  <2>2. CASE stream' # <<>>
    <3>1. Len(stream) \in Nat /\ Len(stream) > 1 /\ Len(stream') = Len(stream) - 1
      <4>1. Len(stream') = Len(stream) - 1 /\ Len(stream') >= 1 /\ Len(stream) \in Nat
        BY <1>1, <2>2, TailFacts
      <4> QED  BY <4>1
    <3>2. stream[1].op = "use" /\ 1 \in 1..(Len(stream) - 1)
      <4>1. stream[1 + 7 - 7] = Op(7, m, b)
        BY <1>6 DEF Holds
      <4>2. stream[1] = Op(7, m, b) /\ 7 \in 1..7
        BY <4>1
      <4> QED  BY <3>1, <4>2, OpFacts
    <3>3. PICK n \in BatchSizes : \E c \in Batched(n) : Holds(stream, 1 + 1, 1, n, c)
      BY <3>2 DEF InOrder
    <3>4. PICK c \in Batched(n) : Holds(stream, 1 + 1, 1, n, c)
      BY <3>3
    <3>5. Holds(stream', 1, 1, n, c)
      <4>1. 1 \in Nat \ {0} /\ 1 \in 1..7
        OBVIOUS
      <4> QED  BY <3>4, <4>1, HoldsTail
    <3>6. Before(1, n, c)'
      BY DEF Before
    <3> QED  BY <1>1, <1>3, <1>4, <2>2, <3>5, <3>6
  <2> QED  BY <2>1, <2>2
<1> QED  BY <1>5, <1>6

\* The oldest operation of the stream, and the forward it belongs to.
LEMMA AtHead ==
  ASSUME HostInv, stream # <<>>
  PROVE  \E m \in BatchSizes : \E b \in Batched(m) : \E j \in 1..7 :
           Holds(stream, 1, j, m, b) /\ Before(j, m, b) /\ Head(stream) = Op(j, m, b)
<1>0. \E m \in BatchSizes : \E b \in Batched(m) : \E j \in 1..7 :
        Holds(stream, 1, j, m, b) /\ Before(j, m, b)
  BY DEF HostInv, Found
<1> PICK m \in BatchSizes : \E b \in Batched(m) : \E j \in 1..7 :
        Holds(stream, 1, j, m, b) /\ Before(j, m, b)
  BY <1>0
<1> PICK b \in Batched(m) : \E j \in 1..7 : Holds(stream, 1, j, m, b) /\ Before(j, m, b)
  OBVIOUS
<1>1. PICK j \in 1..7 : Holds(stream, 1, j, m, b) /\ Before(j, m, b)
  OBVIOUS
<1>2. PICK S : stream \in Seq(S)
  BY DEF HostInv
<1>3. Head(stream) = stream[1]
  BY <1>2, TailFacts
<1>4. stream[1 + j - j] = Op(j, m, b)
  BY <1>1 DEF Holds
<1>5. Head(stream) = Op(j, m, b)
  BY <1>3, <1>4
<1> QED  BY <1>1, <1>5

\* An operation is known by what it is and for whom.
LEMMA WhichOp ==
  ASSUME NEW m, NEW b, NEW j \in 1..7, NEW o, o = Op(j, m, b)
  PROVE  /\ o.op = "copyIn" /\ o.user = "rows" => j = 1
         /\ o.op = "host" /\ o.user = "rows" => j = 2
         /\ o.op = "copyOut" /\ o.user = "rows" => j = 3
         /\ o.op = "copyIn" /\ o.user = "experts" => j = 4
         /\ o.op = "host" /\ o.user = "experts" => j = 5
         /\ o.op = "copyOut" /\ o.user = "experts" => j = 6
         /\ o.op = "use" => j = 7
<1>1. /\ j = 1 => o.op = "copyIn" /\ o.user = "rows"
      /\ j = 2 => o.op = "host" /\ o.user = "rows"
      /\ j = 3 => o.op = "copyOut" /\ o.user = "rows"
      /\ j = 4 => o.op = "copyIn" /\ o.user = "experts"
      /\ j = 5 => o.op = "host" /\ o.user = "experts"
      /\ j = 6 => o.op = "copyOut" /\ o.user = "experts"
      /\ j = 7 => o.op = "use"
  BY OpFacts
<1>2. j = 1 \/ j = 2 \/ j = 3 \/ j = 4 \/ j = 5 \/ j = 6 \/ j = 7
  OBVIOUS
<1> QED  BY <1>1, <1>2

LEMMA BatchFacts ==
  ASSUME NEW m \in BatchSizes, NEW b \in Batched(m)
  PROVE  \E a \in 1..m :
           /\ DOMAIN b.route = 1..a /\ Len(b.route) = a
           /\ \A t \in 1..a : b.route[t] \in [1..TopK -> Experts]
<1>1. PICK l \in 1..MaxLaunches, a \in 1..m, r \in Routings :
        b = BatchOf(l, a, r)
  BY DEF Batched
<1>2. m \in 1..MaxTokens /\ MaxTokens \in Nat /\ r \in [1..MaxTokens -> [1..TopK -> Experts]]
  BY HostCallsAssumption, CpuMoeAssumption DEF HostCallsAssumption, CpuMoeAssumption
<1>3. b.route = [t \in 1..a |-> r[t]] /\ a \in Nat
  BY <1>1, <1>2 DEF BatchOf
<1>4. DOMAIN b.route = 1..a /\ \A t \in 1..a : b.route[t] \in [1..TopK -> Experts]
  BY <1>2, <1>3
<1>5. Len(b.route) = a
  <2>1. b.route \in Seq([1..TopK -> Experts])
    <3>1. b.route \in [1..a -> [1..TopK -> Experts]]
      BY <1>3, <1>4
    <3> QED  BY <1>3, <3>1
  <2> QED  BY <1>3, <1>4, <2>1
<1> QED  BY <1>4, <1>5

\* A call under way is a forward of the experts.
LEMMA CallKnown ==
  ASSUME HostInv, call # NoCall
  PROVE  \E m \in BatchSizes : \E b \in Batched(m) :
           call = WorkOf(m) /\ Holds(stream, 1, 5, m, b) /\ Before(5, m, b) /\ stream # <<>>
<1>1. /\ stream # <<>> /\ Head(stream).op = "host" /\ Head(stream).user = "experts"
      /\ call = Head(stream).work
  BY DEF HostInv, Called
<1> PICK m \in BatchSizes : \E b \in Batched(m) : \E j \in 1..7 :
        Holds(stream, 1, j, m, b) /\ Before(j, m, b) /\ Head(stream) = Op(j, m, b)
  BY <1>1, AtHead
<1> PICK b \in Batched(m) : \E j \in 1..7 :
        Holds(stream, 1, j, m, b) /\ Before(j, m, b) /\ Head(stream) = Op(j, m, b)
  OBVIOUS
<1>2. PICK j \in 1..7 : Holds(stream, 1, j, m, b) /\ Before(j, m, b) /\ Head(stream) = Op(j, m, b)
  OBVIOUS
<1> PICK o : o = Head(stream)
  OBVIOUS
<1>3. j = 5
  BY <1>1, <1>2, WhichOp
<1>4. o.work = WorkOf(m)
  BY <1>2, <1>3, OpFacts
<1> QED  BY <1>1, <1>2, <1>3, <1>4

\* Without a call the team does not look at the staging.
LEMMA TeamIdle ==
  ASSUME TeamInv, call = NoCall, UNCHANGED <<call, scratch, team>>
  PROVE  TeamInv'
<1>1. UNCHANGED <<call, tokOfE, eStart, xp, hp, yp, at, mine, nextTask, waiting>> /\ call' = NoCall
  BY DEF scratch, team
<1>2. ScratchShaped'
  BY <1>1 DEF TeamInv, ScratchShaped
<1>3. \A loop : Iterations(loop)' = Iterations(loop)
  BY <1>1 DEF Iterations, GateTasks, DownTasks, Active
<1>4. Working'
  BY <1>1, <1>3 DEF TeamInv, Working
<1>5. ByExpert' /\ Computed'
  BY <1>1 DEF ByExpert, Computed
<1> QED  BY <1>2, <1>4, <1>5 DEF TeamInv

LEMMA TeamFrameAll ==
  ASSUME TeamInv, UNCHANGED forwardVars
  PROVE  TeamInv'
<1>1. UNCHANGED <<call, hx, hids, hout, tokOfE, eStart, xp, hp, yp, at, mine, nextTask, waiting>>
  BY DEF forwardVars, scratch, team
<1>2. /\ \A loop : Iterations(loop)' = Iterations(loop)
      /\ \A e : RowsOf(e)' = RowsOf(e)
      /\ \A n : ActiveAt(n)' = ActiveAt(n)
      /\ Active' = Active /\ CallPairs' = CallPairs
      /\ \A i : ExpertOf(i)' = ExpertOf(i) /\ GateValue(i)' = GateValue(i) /\ DownValue(i)' = DownValue(i)
      /\ \A t : OutputOf(t)' = OutputOf(t)
  BY <1>1, TeamFrame
<1>3. ScratchShaped'
  BY <1>1 DEF TeamInv, ScratchShaped
<1>4. Working'
  BY <1>1, <1>2 DEF TeamInv, Working
<1>5. ByExpert'
  BY <1>1, ServingFrame DEF TeamInv
<1>6. \A loop : Unrun(loop)' = Unrun(loop)
  BY <1>1, <1>2 DEF Unrun
<1>7. \A loop, x : Right(loop, x)' = Right(loop, x)
  <2>1. /\ \A t : RightRow(t)' = RightRow(t) /\ RightOutput(t)' = RightOutput(t)
        /\ \A i, b : RightGate(i, b)' = RightGate(i, b) /\ RightDown(i, b)' = RightDown(i, b)
    BY <1>1, <1>2 DEF RightRow, RightOutput, RightGate, RightDown
  <2> QED  BY <1>2, <2>1 DEF Right
<1>8. Computed'
  BY <1>1, <1>2, <1>6, <1>7 DEF TeamInv, Computed
<1> QED  BY <1>3, <1>4, <1>5, <1>8 DEF TeamInv

\* The forward of the oldest operation, when it is known which one that is.
LEMMA OldestOp ==
  ASSUME HostInv, stream # <<>>, NEW j \in 1..7,
         \A k \in 1..7 : \A m, b : Head(stream) = Op(k, m, b) => k = j
  PROVE  \E m \in BatchSizes : \E b \in Batched(m) :
           Holds(stream, 1, j, m, b) /\ Before(j, m, b) /\ Head(stream) = Op(j, m, b)
<1> PICK m \in BatchSizes : \E b \in Batched(m) : \E k \in 1..7 :
        Holds(stream, 1, k, m, b) /\ Before(k, m, b) /\ Head(stream) = Op(k, m, b)
  BY AtHead
<1> PICK b \in Batched(m) : \E k \in 1..7 :
        Holds(stream, 1, k, m, b) /\ Before(k, m, b) /\ Head(stream) = Op(k, m, b)
  OBVIOUS
<1>1. PICK k \in 1..7 : Holds(stream, 1, k, m, b) /\ Before(k, m, b) /\ Head(stream) = Op(k, m, b)
  OBVIOUS
<1>2. k = j
  BY <1>1
<1> QED  BY <1>1, <1>2

LEMMA FirstOp ==
  ASSUME NEW op, NEW user, First(op, user), HostInv, NEW j \in 1..7,
         \/ j = 1 /\ op = "copyIn" /\ user = "rows"
         \/ j = 2 /\ op = "host" /\ user = "rows"
         \/ j = 3 /\ op = "copyOut" /\ user = "rows"
         \/ j = 4 /\ op = "copyIn" /\ user = "experts"
         \/ j = 5 /\ op = "host" /\ user = "experts"
         \/ j = 6 /\ op = "copyOut" /\ user = "experts"
  PROVE  /\ stream # <<>>
         /\ \E m \in BatchSizes : \E b \in Batched(m) :
              Holds(stream, 1, j, m, b) /\ Before(j, m, b) /\ Head(stream) = Op(j, m, b)
<1> PICK o : o = Head(stream)
  OBVIOUS
<1>1. stream # <<>> /\ o.op = op /\ o.user = user
  BY DEF First
<1>2. ASSUME NEW k \in 1..7, NEW m, NEW b, o = Op(k, m, b) PROVE k = j
  BY <1>1, <1>2, WhichOp
<1> QED  BY <1>1, <1>2, OldestOp

\* With the experts not at the head, no call is under way.
LEMMA NoCallUnless ==
  ASSUME HostInv, NEW j \in 1..7, j # 5, NEW m, NEW b, Head(stream) = Op(j, m, b)
  PROVE  call = NoCall
<1> PICK o : o = Head(stream)
  OBVIOUS
<1>1. ~(o.op = "host" /\ o.user = "experts")
  BY WhichOp
<1> QED  BY <1>1 DEF HostInv, Called

\* The oldest operation is done.
LEMMA Popped ==
  ASSUME HostInv, stream # <<>>, stream' = Tail(stream), call' = NoCall, UNCHANGED <<launched, works>>,
         Allocated', NEW m \in BatchSizes, NEW b \in Batched(m), NEW j \in 1..7,
         Holds(stream, 1, j, m, b), j < 7 => Before(j + 1, m, b)'
  PROVE  HostInv'
<1>1. PICK S : stream \in Seq(S)
  BY DEF HostInv
<1>2. (\E R : stream \in Seq(R))' /\ InOrder(stream)' /\ Found'
  BY <1>1, NextOperation DEF HostInv
<1>3. Called'
  BY DEF Called
<1>4. Recorded'
  BY DEF HostInv, Recorded
<1>5. launched' \in Nat
  BY DEF HostInv
<1> QED  BY <1>2, <1>3, <1>4, <1>5 DEF HostInv

LEMMA AskedNext ==
  ASSUME HostInv, TeamInv, CopyIds
  PROVE  HostInv' /\ TeamInv'
<1>1. /\ First("copyIn", "rows") /\ stream' = Tail(stream)
      /\ UNCHANGED forwardVars /\ UNCHANGED <<launched, works, rows, dout>>
  BY DEF CopyIds
<1>2. TeamInv'
  BY <1>1, TeamFrameAll
<1>3. /\ stream # <<>>
      /\ \E m \in BatchSizes : \E b \in Batched(m) :
           Holds(stream, 1, 1, m, b) /\ Before(1, m, b) /\ Head(stream) = Op(1, m, b)
  BY <1>1, FirstOp
<1> PICK m \in BatchSizes : \E b \in Batched(m) :
           Holds(stream, 1, 1, m, b) /\ Before(1, m, b) /\ Head(stream) = Op(1, m, b)
  BY <1>3
<1>4. PICK b \in Batched(m) : Holds(stream, 1, 1, m, b) /\ Before(1, m, b) /\ Head(stream) = Op(1, m, b)
  OBVIOUS
<1>5. PICK n, c : n = Count("rows", m) /\ c = Capacity(n)
  OBVIOUS
<1>6. n \in Nat /\ c \in Nat /\ n <= c /\ c \in Warmed("rows")
  BY <1>5, WorkFacts
<1> PICK o : o = Head(stream)
  OBVIOUS
<1>7. o.m = m /\ o.batch = b
  BY <1>4, OpFacts
<1> PICK g : g = [p \in 1..n |-> <<b.n, p>>]
  OBVIOUS
<1>8. Overwrites(ids', ids, c, g)
  BY <1>5, <1>7 DEF CopyIds, Overwrites
<1>9. Filled(g, n)
  BY DEF Filled
<1>10. Shaped(ids', "rows") /\ \A p \in 1..n : ids'[c][p] = g[p]
  <2>1. Shaped(ids, "rows")
    BY DEF HostInv, Allocated
  <2> QED  BY ONLY <1>6, <1>8, <1>9, <2>1, BufferWrite
<1>11. Asked(m, b)'
  BY <1>5, <1>10 DEF Asked
<1>12. Allocated'
  BY <1>1, <1>10 DEF HostInv, Allocated, Shaped, forwardVars
<1>13. Before(1 + 1, m, b)'
  BY <1>11 DEF Before
<1>14. call' = NoCall
  BY <1>1, <1>4, NoCallUnless DEF forwardVars
<1> QED  BY <1>1, <1>2, <1>3, <1>4, <1>12, <1>13, <1>14, Popped

LEMMA FetchedNext ==
  ASSUME HostInv, TeamInv, LookupRows
  PROVE  HostInv' /\ TeamInv'
<1>1. /\ First("host", "rows") /\ stream' = Tail(stream)
      /\ UNCHANGED forwardVars /\ UNCHANGED <<launched, works, ids, dout>>
  BY DEF LookupRows
<1>2. TeamInv'
  BY <1>1, TeamFrameAll
<1>3. /\ stream # <<>>
      /\ \E m \in BatchSizes : \E b \in Batched(m) :
           Holds(stream, 1, 2, m, b) /\ Before(2, m, b) /\ Head(stream) = Op(2, m, b)
  BY <1>1, FirstOp
<1> PICK m \in BatchSizes : \E b \in Batched(m) :
           Holds(stream, 1, 2, m, b) /\ Before(2, m, b) /\ Head(stream) = Op(2, m, b)
  BY <1>3
<1>4. PICK b \in Batched(m) : Holds(stream, 1, 2, m, b) /\ Before(2, m, b) /\ Head(stream) = Op(2, m, b)
  OBVIOUS
<1>5. PICK n, c : n = Count("rows", m) /\ c = Capacity(n)
  OBVIOUS
<1>6. n \in Nat /\ c \in Nat /\ n <= c /\ c \in Warmed("rows")
  BY <1>5, WorkFacts
<1> PICK o : o = Head(stream)
  OBVIOUS
<1>7. o.work.m = n /\ o.work.cap = c
  <2>1. o.work = WorkOf(n)
    BY <1>4, <1>5, OpFacts
  <2> QED  BY <1>5, <2>1 DEF WorkOf
<1> PICK g : g = SubSeq(ids[c], 1, n)
  OBVIOUS
<1>8. Overwrites(rows', rows, c, g)
  BY <1>7 DEF LookupRows, Overwrites
<1>9. Filled(g, n) /\ \A p \in 1..n : g[p] = ids[c][p]
  <2>1. Shaped(ids, "rows")
    BY DEF HostInv, Allocated
  <2> QED  BY <1>6, <2>1, BufferCopy
<1>10. Shaped(rows', "rows") /\ \A p \in 1..n : rows'[c][p] = g[p]
  <2>1. Shaped(rows, "rows")
    BY DEF HostInv, Allocated
  <2> QED  BY ONLY <1>6, <1>8, <1>9, <2>1, BufferWrite
<1>11. Fetched(m, b)'
  <2>1. \A p \in 1..n : ids[c][p] = <<b.n, p>>
    BY <1>4, <1>5 DEF Before, Asked
  <2> QED  BY <1>5, <1>9, <1>10, <2>1 DEF Fetched
<1>12. Allocated'
  BY <1>1, <1>10 DEF HostInv, Allocated, Shaped, forwardVars
<1>13. Before(2 + 1, m, b)'
  BY <1>11 DEF Before
<1>14. call' = NoCall
  BY <1>1, <1>4, NoCallUnless DEF forwardVars
<1> QED  BY <1>1, <1>2, <1>3, <1>4, <1>12, <1>13, <1>14, Popped

LEMMA StagedNext ==
  ASSUME HostInv, TeamInv, CopyRows
  PROVE  HostInv' /\ TeamInv'
<1>1. /\ First("copyOut", "rows") /\ stream' = Tail(stream)
      /\ UNCHANGED forwardVars /\ UNCHANGED <<launched, works, ids, rows, dout>>
  BY DEF CopyRows
<1>2. TeamInv'
  BY <1>1, TeamFrameAll
<1>3. /\ stream # <<>>
      /\ \E m \in BatchSizes : \E b \in Batched(m) :
           Holds(stream, 1, 3, m, b) /\ Before(3, m, b) /\ Head(stream) = Op(3, m, b)
  BY <1>1, FirstOp
<1> PICK m \in BatchSizes : \E b \in Batched(m) :
           Holds(stream, 1, 3, m, b) /\ Before(3, m, b) /\ Head(stream) = Op(3, m, b)
  BY <1>3
<1>4. PICK b \in Batched(m) : Holds(stream, 1, 3, m, b) /\ Before(3, m, b) /\ Head(stream) = Op(3, m, b)
  OBVIOUS
<1>5. PICK n, c : n = Count("rows", m) /\ c = Capacity(n)
  OBVIOUS
<1>6. n \in Nat /\ c \in Nat /\ n <= c /\ c \in Warmed("rows")
  BY <1>5, WorkFacts
<1> PICK o : o = Head(stream)
  OBVIOUS
<1>7. o.m = m
  BY <1>4, OpFacts
<1> PICK g : g = SubSeq(rows[c], 1, n)
  OBVIOUS
<1>8. out' = Written(out, g)
  BY <1>5, <1>7 DEF CopyRows
<1>9. Filled(g, n) /\ \A p \in 1..n : g[p] = rows[c][p]
  <2>1. Shaped(rows, "rows")
    BY DEF HostInv, Allocated
  <2> QED  BY <1>6, <2>1, BufferCopy
<1>10. \A p \in 1..n : out'[p] = g[p]
  <2>1. DOMAIN g = 1..n
    BY <1>9 DEF Filled
  <2> QED  BY <1>8, <2>1 DEF Written
<1>11. Staged(m, b)'
  <2>1. \A p \in 1..n : rows[c][p] = <<b.n, p>>
    BY <1>4, <1>5 DEF Before, Fetched
  <2> QED  BY <1>5, <1>9, <1>10, <2>1 DEF Staged
<1>12. Allocated'
  BY <1>1 DEF HostInv, Allocated, Shaped, forwardVars
<1>13. Before(3 + 1, m, b)'
  BY <1>11 DEF Before
<1>14. call' = NoCall
  BY <1>1, <1>4, NoCallUnless DEF forwardVars
<1> QED  BY <1>1, <1>2, <1>3, <1>4, <1>12, <1>13, <1>14, Popped

LEMMA RoutedNext ==
  ASSUME HostInv, TeamInv, CopyTokens
  PROVE  HostInv' /\ TeamInv'
<1>1. /\ First("copyIn", "experts") /\ stream' = Tail(stream)
      /\ UNCHANGED <<call, hout, scratch, team>> /\ UNCHANGED <<launched, works, ids, rows, out, dout>>
  BY DEF CopyTokens
<1>3. /\ stream # <<>>
      /\ \E m \in BatchSizes : \E b \in Batched(m) :
           Holds(stream, 1, 4, m, b) /\ Before(4, m, b) /\ Head(stream) = Op(4, m, b)
  BY <1>1, FirstOp
<1> PICK m \in BatchSizes : \E b \in Batched(m) :
           Holds(stream, 1, 4, m, b) /\ Before(4, m, b) /\ Head(stream) = Op(4, m, b)
  BY <1>3
<1>4. PICK b \in Batched(m) : Holds(stream, 1, 4, m, b) /\ Before(4, m, b) /\ Head(stream) = Op(4, m, b)
  OBVIOUS
<1>5. PICK c : c = Capacity(m)
  OBVIOUS
<1>6. m \in Nat /\ c \in Nat /\ m <= c /\ c \in Warmed("experts")
  BY <1>5, ExpertWork
<1> PICK o : o = Head(stream)
  OBVIOUS
<1>7. o.m = m /\ o.batch = b
  BY <1>4, OpFacts
<1> PICK a \in 1..m : DOMAIN b.route = 1..a /\ Len(b.route) = a
  BY BatchFacts
<1> PICK g : g = [t \in 1..m |-> <<b.n, t>>]
  OBVIOUS
<1> PICK h : h = [t \in 1..m |-> IF t <= a THEN b.route[t] ELSE [k \in 1..TopK |-> NotActive]]
  OBVIOUS
<1>8. Overwrites(hx', hx, c, g) /\ Overwrites(hids', hids, c, h)
  BY <1>5, <1>7 DEF CopyTokens, Overwrites
<1>9. Filled(g, m) /\ Filled(h, m)
  BY DEF Filled
<1>10. Shaped(hx', "experts") /\ \A t \in 1..m : hx'[c][t] = g[t]
  <2>1. Shaped(hx, "experts")
    BY DEF HostInv, Allocated
  <2> QED  BY ONLY <1>6, <1>8, <1>9, <2>1, BufferWrite
<1>11. Shaped(hids', "experts") /\ \A t \in 1..m : hids'[c][t] = h[t]
  <2>1. Shaped(hids, "experts")
    BY DEF HostInv, Allocated
  <2> QED  BY ONLY <1>6, <1>8, <1>9, <2>1, BufferWrite
<1>12. Allocated'
  BY <1>1, <1>10, <1>11 DEF HostInv, Allocated, Shaped
<1>13. Before(4 + 1, m, b)'
  <2>1. Staged(m, b)'
    BY <1>1, <1>4 DEF Before, Staged
  <2>2. Routed(m, b)'
    <3>1. \A t \in 1..m : hx'[c][t] = <<b.n, t>> /\ (t \in DOMAIN b.route => hids'[c][t] = b.route[t])
      BY <1>10, <1>11
    <3> QED  BY <1>5, <3>1 DEF Routed
  <2> QED  BY <2>1, <2>2 DEF Before
<1>14. call = NoCall
  BY <1>4, NoCallUnless
<1>2. TeamInv'
  BY <1>1, <1>14, TeamIdle
<1> QED  BY <1>1, <1>2, <1>3, <1>4, <1>12, <1>13, <1>14, Popped

LEMMA ReturnedNext ==
  ASSUME HostInv, TeamInv, CopyOutput
  PROVE  HostInv' /\ TeamInv'
<1>1. /\ First("copyOut", "experts") /\ stream' = Tail(stream)
      /\ UNCHANGED forwardVars /\ UNCHANGED <<launched, works, ids, rows, out>>
  BY DEF CopyOutput
<1>2. TeamInv'
  BY <1>1, TeamFrameAll
<1>3. /\ stream # <<>>
      /\ \E m \in BatchSizes : \E b \in Batched(m) :
           Holds(stream, 1, 6, m, b) /\ Before(6, m, b) /\ Head(stream) = Op(6, m, b)
  BY <1>1, FirstOp
<1> PICK m \in BatchSizes : \E b \in Batched(m) :
           Holds(stream, 1, 6, m, b) /\ Before(6, m, b) /\ Head(stream) = Op(6, m, b)
  BY <1>3
<1>4. PICK b \in Batched(m) : Holds(stream, 1, 6, m, b) /\ Before(6, m, b) /\ Head(stream) = Op(6, m, b)
  OBVIOUS
<1>5. PICK c : c = Capacity(m)
  OBVIOUS
<1>6. m \in Nat /\ c \in Nat /\ m <= c /\ c \in Warmed("experts")
  BY <1>5, ExpertWork
<1> PICK o : o = Head(stream)
  OBVIOUS
<1>7. o.m = m
  BY <1>4, OpFacts
<1> PICK g : g = SubSeq(hout[c], 1, m)
  OBVIOUS
<1>8. Overwrites(dout', dout, c, g)
  BY <1>5, <1>7 DEF CopyOutput, Overwrites
<1>9. Filled(g, m) /\ \A t \in 1..m : g[t] = hout[c][t]
  <2>1. Shaped(hout, "experts")
    BY DEF HostInv, Allocated
  <2> QED  BY <1>6, <2>1, BufferCopy
<1>10. Shaped(dout', "experts") /\ \A t \in 1..m : dout'[c][t] = g[t]
  <2>1. Shaped(dout, "experts")
    BY DEF HostInv, Allocated
  <2> QED  BY ONLY <1>6, <1>8, <1>9, <2>1, BufferWrite
<1>11. Returned(m, b)'
  <2>1. \A t \in DOMAIN b.route : t \in 1..m
    BY <1>6, BatchFacts
  <2>2. \A t \in DOMAIN b.route : hout[c][t] = Expected(b, t)
    BY <1>4, <1>5 DEF Before, Combined
  <2>3. \A t \in DOMAIN b.route : dout'[c][t] = Expected(b, t)
    BY <1>9, <1>10, <2>1, <2>2
  <2> QED  BY <1>5, <2>3 DEF Returned
<1>12. Allocated'
  BY <1>1, <1>10 DEF HostInv, Allocated, Shaped, forwardVars
<1>13. Before(6 + 1, m, b)'
  <2>1. Staged(m, b)'
    BY <1>1, <1>4 DEF Before, Staged
  <2> QED  BY <1>11, <2>1 DEF Before
<1>14. call' = NoCall
  BY <1>1, <1>4, NoCallUnless DEF forwardVars
<1> QED  BY <1>1, <1>2, <1>3, <1>4, <1>12, <1>13, <1>14, Popped

LEMMA UsedNext ==
  ASSUME HostInv, TeamInv, Use
  PROVE  HostInv' /\ TeamInv'
<1>1. /\ stream # <<>> /\ Head(stream).op = "use" /\ stream' = Tail(stream)
      /\ UNCHANGED forwardVars /\ UNCHANGED <<launched, works, ids, rows, dout>>
  BY DEF Use
<1>2. TeamInv'
  BY <1>1, TeamFrameAll
<1>3. \E m \in BatchSizes : \E b \in Batched(m) :
        Holds(stream, 1, 7, m, b) /\ Before(7, m, b) /\ Head(stream) = Op(7, m, b)
  <2> PICK o : o = Head(stream)
    OBVIOUS
  <2>1. \A k \in 1..7 : \A m, b : o = Op(k, m, b) => k = 7
    BY <1>1, WhichOp
  <2> QED  BY <1>1, <2>1, OldestOp
<1> PICK m \in BatchSizes : \E b \in Batched(m) :
        Holds(stream, 1, 7, m, b) /\ Before(7, m, b) /\ Head(stream) = Op(7, m, b)
  BY <1>3
<1>4. PICK b \in Batched(m) : Holds(stream, 1, 7, m, b) /\ Before(7, m, b) /\ Head(stream) = Op(7, m, b)
  OBVIOUS
<1>5. Allocated'
  BY <1>1 DEF HostInv, Allocated, Shaped, forwardVars
<1>6. call' = NoCall
  BY <1>1, <1>4, NoCallUnless DEF forwardVars
<1> QED  BY <1>1, <1>2, <1>4, <1>5, <1>6, Popped

LEMMA EnteredNext ==
  ASSUME HostInv, TeamInv, EnterExperts
  PROVE  HostInv' /\ TeamInv'
<1>1. /\ First("host", "experts") /\ Fork(Head(stream).work)
      /\ UNCHANGED <<stream, launched, works, ids, rows, out, dout>>
  BY DEF EnterExperts, hostVars
<1>3. /\ stream # <<>>
      /\ \E m \in BatchSizes : \E b \in Batched(m) :
           Holds(stream, 1, 5, m, b) /\ Before(5, m, b) /\ Head(stream) = Op(5, m, b)
  BY <1>1, FirstOp
<1> PICK m \in BatchSizes : \E b \in Batched(m) :
           Holds(stream, 1, 5, m, b) /\ Before(5, m, b) /\ Head(stream) = Op(5, m, b)
  BY <1>3
<1>4. PICK b \in Batched(m) : Holds(stream, 1, 5, m, b) /\ Before(5, m, b) /\ Head(stream) = Op(5, m, b)
  OBVIOUS
<1> PICK o : o = Head(stream)
  OBVIOUS
<1>5. o.work = WorkOf(m) /\ o.op = "host" /\ o.user = "experts"
  BY <1>4, OpFacts
<1>6. Fork(WorkOf(m))
  BY <1>1, <1>5
<1>7. TeamInv' /\ call' = WorkOf(m) /\ UNCHANGED <<hx, hids, hout>>
  BY <1>6, ForkTeam
<1>8. Before(5, m, b)'
  <2>1. Staged(m, b)' /\ Routed(m, b)'
    BY <1>1, <1>4, <1>7 DEF Before, Staged, Routed
  <2> QED  BY <2>1 DEF Before
<1>9. Found'
  BY <1>1, <1>4, <1>8 DEF Found
<1>10. Called'
  BY <1>1, <1>3, <1>5, <1>7 DEF Called
<1>11. Recorded' /\ launched' \in Nat /\ InOrder(stream)' /\ (\E S : stream \in Seq(S))'
  BY <1>1 DEF HostInv, Recorded
<1>12. Allocated'
  BY <1>1, <1>7 DEF HostInv, Allocated, Shaped
<1> QED  BY <1>7, <1>9, <1>10, <1>11, <1>12 DEF HostInv

LEMMA CombinedNext ==
  ASSUME IInv, HostInv, TeamInv, LeaveExperts
  PROVE  HostInv' /\ TeamInv'
<1>1. /\ Join /\ stream' = Tail(stream)
      /\ UNCHANGED <<launched, works, ids, rows, out, dout>>
  BY DEF LeaveExperts
<1>2. call # NoCall
  BY <1>1 DEF Join
<1> PICK m \in BatchSizes : \E b \in Batched(m) :
          call = WorkOf(m) /\ Holds(stream, 1, 5, m, b) /\ Before(5, m, b) /\ stream # <<>>
  BY <1>2, CallKnown
<1>3. PICK b \in Batched(m) :
          call = WorkOf(m) /\ Holds(stream, 1, 5, m, b) /\ Before(5, m, b) /\ stream # <<>>
  OBVIOUS
<1>4. call.m = m /\ call.cap = Capacity(m) /\ call.m \in 1..MaxTokens
  BY <1>3, CallFacts
<1>5. /\ TeamInv' /\ call' = NoCall /\ UNCHANGED <<hx, hids, hout>>
      /\ \A t \in 1..m : RightOutput(t)
  BY <1>1, <1>4, JoinTeam
<1>6. Staged(m, b) /\ Routed(m, b)
  BY <1>3 DEF Before
<1>7. Combined(m, b)
  <2> SUFFICES ASSUME NEW t \in DOMAIN b.route PROVE hout[Capacity(m)][t] = Expected(b, t)
    BY DEF Combined
  <2>1. t \in 1..m /\ b.route[t] \in [1..TopK -> Experts]
    BY BatchFacts, ExpertWork
  <2>2. hx[call.cap][t] = <<b.n, t>> /\ hids[call.cap][t] = b.route[t]
    BY <1>4, <1>6, <2>1 DEF Routed
  <2>3. hout[call.cap][t] = OutputOf(t)
    BY <1>5, <2>1 DEF RightOutput
  <2>4. SlotsOf(t) = 1..TopK
    BY <2>1, <2>2 DEF SlotsOf
  <2>5. OutputOf(t) = [k \in 1..TopK |-> <<b.route[t][k], <<b.route[t][k], <<b.n, t>>>>>>]
    BY <2>2, <2>4 DEF OutputOf
  <2> QED  BY <1>4, <2>3, <2>5 DEF Expected
<1>8. Before(5 + 1, m, b)'
  <2>1. Staged(m, b)' /\ Combined(m, b)'
    BY <1>1, <1>5, <1>6, <1>7 DEF Staged, Combined
  <2> QED  BY <2>1 DEF Before
<1>9. Allocated'
  BY <1>1, <1>5 DEF HostInv, Allocated, Shaped
<1> QED  BY <1>1, <1>3, <1>5, <1>8, <1>9, Popped

LEMMA TeamNext ==
  ASSUME IInv, HostInv, TeamInv, NEW th \in Threads, TeamStep(th)
  PROVE  HostInv' /\ TeamInv'
<1>1. ThreadStep(th) /\ UNCHANGED <<stream, launched, works, ids, rows, out, dout>>
  BY DEF TeamStep, hostVars
<1>2. call # NoCall => /\ call.m \in 1..MaxTokens
                       /\ call.cap \in Warmed("experts") /\ call.cap \in Nat /\ call.m <= call.cap
  <2> SUFFICES ASSUME call # NoCall
               PROVE  /\ call.m \in 1..MaxTokens
                      /\ call.cap \in Warmed("experts") /\ call.cap \in Nat /\ call.m <= call.cap
    OBVIOUS
  <2> PICK m \in BatchSizes : \E b \in Batched(m) :
          call = WorkOf(m) /\ Holds(stream, 1, 5, m, b) /\ Before(5, m, b) /\ stream # <<>>
    BY CallKnown
  <2> QED  BY CallFacts
<1>3. TeamInv' /\ Shaped(hout, "experts")' /\ call # NoCall /\ UNCHANGED <<call, hx, hids>>
  BY <1>1, <1>2, ThreadTeam DEF HostInv, Allocated
<1> PICK m \in BatchSizes : \E b \in Batched(m) :
        call = WorkOf(m) /\ Holds(stream, 1, 5, m, b) /\ Before(5, m, b) /\ stream # <<>>
  BY <1>3, CallKnown
<1>4. PICK b \in Batched(m) :
        call = WorkOf(m) /\ Holds(stream, 1, 5, m, b) /\ Before(5, m, b) /\ stream # <<>>
  OBVIOUS
<1>5. Before(5, m, b)'
  <2>1. Staged(m, b)' /\ Routed(m, b)'
    BY <1>1, <1>3, <1>4 DEF Before, Staged, Routed
  <2> QED  BY <2>1 DEF Before
<1>6. Found'
  BY <1>1, <1>4, <1>5 DEF Found
<1>7. Called' /\ Recorded' /\ launched' \in Nat /\ InOrder(stream)' /\ (\E S : stream \in Seq(S))'
  BY <1>1, <1>3 DEF HostInv, Called, Recorded
<1>8. Allocated'
  BY <1>1, <1>3 DEF HostInv, Allocated, Shaped
<1> QED  BY <1>3, <1>6, <1>7, <1>8 DEF HostInv

\* Nothing that the forwards share is touched.
LEMMA HostFrame ==
  ASSUME HostInv, TeamInv, UNCHANGED forwardVars, UNCHANGED <<stream, ids, rows, out, dout>>,
         Recorded', launched' \in Nat
  PROVE  HostInv' /\ TeamInv'
<1>1. UNCHANGED <<call, hx, hids, hout>>
  BY DEF forwardVars
<1>2. TeamInv'
  BY TeamFrameAll
<1>3. \A j, m, b : Before(j, m, b) => Before(j, m, b)'
  BY <1>1 DEF Before, Asked, Fetched, Staged, Routed, Combined, Returned
<1>4. Found'
  BY <1>3 DEF HostInv, Found
<1>5. Called' /\ InOrder(stream)' /\ (\E S : stream \in Seq(S))'
  BY <1>1 DEF HostInv, Called
<1>6. Allocated'
  BY <1>1 DEF HostInv, Allocated, Shaped
<1> QED  BY <1>2, <1>4, <1>5, <1>6 DEF HostInv

---------------------------------------------------------------------------
(* Launching *)

LEMMA WorkKnown ==
  ASSUME Recorded, NEW user \in Users, NEW m
  PROVE  Work(user, m) = WorkOf(Count(user, m))
BY DEF Work, WorkKey, Recorded, WorkOf

LEMMA RecordedNext ==
  ASSUME Recorded, NEW m, works' = WithWorks(m)
  PROVE  Recorded'
<1>1. \A u \in Users : works'[u] = Written(works[u], [n \in {Count(u, m)} |-> WorkOf(Count(u, m))])
  BY WorkKnown DEF WithWorks, WorkKey
<1>2. works' = [u \in Users |-> works'[u]]
  BY DEF WithWorks
<1>3. ASSUME NEW u \in Users, NEW n \in DOMAIN works'[u] PROVE works'[u][n] = WorkOf(n)
  <2> PICK k : k = Count(u, m)
    OBVIOUS
  <2> PICK f : f = works[u]
    OBVIOUS
  <2>1. works'[u] = [p \in DOMAIN f \union {k} |-> IF p \in {k} THEN [x \in {k} |-> WorkOf(k)][p] ELSE f[p]]
    BY <1>1 DEF Written
  <2>2. \A p \in DOMAIN f : f[p] = WorkOf(p)
    BY DEF Recorded
  <2>3. n \in DOMAIN f \union {k}
    BY <1>3, <2>1
  <2>4. CASE n = k
    BY <2>1, <2>3, <2>4
  <2>5. CASE n # k
    BY <2>1, <2>2, <2>3, <2>5
  <2> QED  BY <2>4, <2>5
<1>4. \A u \in Users : \A n \in DOMAIN works'[u] : works'[u][n] = WorkOf(n)
  BY <1>3
<1> QED  BY <1>2, <1>4 DEF Recorded

\* A forward enqueues its seven operations.
LEMMA OpsFacts ==
  ASSUME Recorded, NEW m, NEW b
  PROVE  \E R : /\ Ops(m, b) \in Seq(R) /\ Len(Ops(m, b)) = 7
                /\ \A k \in 1..7 : Ops(m, b)[k] = Op(k, m, b)
<1>1. Work("rows", m) = WorkOf(Count("rows", m)) /\ Work("experts", m) = WorkOf(Count("experts", m))
  BY WorkKnown DEF Users
<1> PICK o1 : o1 = Op(1, m, b)  OBVIOUS
<1> PICK o2 : o2 = Op(2, m, b)  OBVIOUS
<1> PICK o3 : o3 = Op(3, m, b)  OBVIOUS
<1> PICK o4 : o4 = Op(4, m, b)  OBVIOUS
<1> PICK o5 : o5 = Op(5, m, b)  OBVIOUS
<1> PICK o6 : o6 = Op(6, m, b)  OBVIOUS
<1> PICK o7 : o7 = Op(7, m, b)  OBVIOUS
<1> PICK ops : ops = Ops(m, b)  OBVIOUS
<1>2. ops = <<o1, o2, o3>> \o <<o4, o5, o6>> \o <<o7>>
  <2>1. /\ o1 = [op |-> "copyIn", user |-> "rows", m |-> m, batch |-> b]
        /\ o2 = [op |-> "host", user |-> "rows", m |-> m, work |-> WorkOf(Count("rows", m))]
        /\ o3 = [op |-> "copyOut", user |-> "rows", m |-> m]
    BY DEF Op
  <2>2. /\ o4 = [op |-> "copyIn", user |-> "experts", m |-> m, batch |-> b]
        /\ o5 = [op |-> "host", user |-> "experts", m |-> m, work |-> WorkOf(Count("experts", m))]
        /\ o6 = [op |-> "copyOut", user |-> "experts", m |-> m]
        /\ o7 = [op |-> "use", m |-> m, batch |-> b]
    BY DEF Op
  <2> QED  BY <1>1, <2>1, <2>2 DEF Ops
<1> PICK R : R = {o1, o2, o3, o4, o5, o6, o7}  OBVIOUS
<1>4. /\ ops[1] = o1 /\ ops[2] = o2 /\ ops[3] = o3 /\ ops[4] = o4 /\ ops[5] = o5 /\ ops[6] = o6
      /\ ops[7] = o7 /\ Len(ops) = 7 /\ ops \in Seq(R)
  <2> PICK x : x = <<o1, o2, o3>>  OBVIOUS
  <2> PICK y : y = <<o4, o5, o6>>  OBVIOUS
  <2> PICK z : z = <<o7>>  OBVIOUS
  <2>1. /\ x \in Seq(R) /\ Len(x) = 3 /\ x[1] = o1 /\ x[2] = o2 /\ x[3] = o3
        /\ y \in Seq(R) /\ Len(y) = 3 /\ y[1] = o4 /\ y[2] = o5 /\ y[3] = o6
        /\ z \in Seq(R) /\ Len(z) = 1 /\ z[1] = o7
    OBVIOUS
  <2> PICK v : v = x \o y  OBVIOUS
  <2>2. /\ v \in Seq(R) /\ Len(v) = 6
        /\ \A i \in 1..3 : v[i] = x[i]
        /\ \A i \in 1..3 : v[3 + i] = y[i]
    BY <2>1, CatFacts
  <2>3. v[1] = o1 /\ v[2] = o2 /\ v[3] = o3 /\ v[4] = o4 /\ v[5] = o5 /\ v[6] = o6
    <3>1. v[1] = x[1] /\ v[2] = x[2] /\ v[3] = x[3] /\ v[3 + 1] = y[1] /\ v[3 + 2] = y[2] /\ v[3 + 3] = y[3]
      BY <2>2
    <3> QED  BY <2>1, <3>1
  <2>4. /\ ops \in Seq(R) /\ Len(ops) = 7
        /\ \A i \in 1..6 : ops[i] = v[i]
        /\ \A i \in 1..1 : ops[6 + i] = z[i]
    <3>1. ops = v \o z
      BY <1>2
    <3> QED  BY <2>1, <2>2, <3>1, CatFacts
  <2>5. ops[1] = v[1] /\ ops[2] = v[2] /\ ops[3] = v[3] /\ ops[4] = v[4] /\ ops[5] = v[5] /\ ops[6] = v[6]
    BY <2>4
  <2>6. ops[6 + 1] = z[1]
    BY <2>4
  <2> QED  BY <2>1, <2>3, <2>4, <2>5, <2>6
<1>3. ASSUME NEW k \in 1..7 PROVE ops[k] = Op(k, m, b)
  <2>1. k = 1 \/ k = 2 \/ k = 3 \/ k = 4 \/ k = 5 \/ k = 6 \/ k = 7
    OBVIOUS
  <2> QED  BY <1>4, <2>1
<1> QED  BY <1>3, <1>4

LEMMA HoldsCat ==
  ASSUME NEW S, NEW s \in Seq(S), NEW t \in Seq(S), NEW i \in Nat \ {0}, NEW j \in 1..7, NEW m, NEW b,
         Holds(s, i, j, m, b)
  PROVE  Holds(s \o t, i, j, m, b)
<1>1. i + 7 - j <= Len(s) /\ \A k \in j..7 : s[i + k - j] = Op(k, m, b)
  BY DEF Holds
<1>2. /\ Len(s \o t) = Len(s) + Len(t) /\ Len(s) \in Nat /\ Len(t) \in Nat
      /\ \A n \in 1..Len(s) : (s \o t)[n] = s[n]
  BY CatFacts
<1>3. \A k \in j..7 : i + k - j \in 1..Len(s)
  BY <1>1, <1>2
<1>4. \A k \in j..7 : (s \o t)[i + k - j] = Op(k, m, b)
  BY <1>1, <1>2, <1>3
<1>5. i + 7 - j <= Len(s \o t)
  BY <1>1, <1>2
<1> QED  BY <1>4, <1>5 DEF Holds

LEMMA InOrderCat ==
  ASSUME NEW S, NEW s \in Seq(S), NEW t \in Seq(S), InOrder(s),
         NEW m \in BatchSizes, NEW b \in Batched(m), Len(t) = 7, \A k \in 1..7 : t[k] = Op(k, m, b)
  PROVE  InOrder(s \o t) /\ Holds(s \o t, Len(s) + 1, 1, m, b)
<1> PICK c : c = s \o t  OBVIOUS
<1>1. /\ Len(c) = Len(s) + 7 /\ Len(s) \in Nat
      /\ \A n \in 1..Len(s) : c[n] = s[n]
      /\ \A n \in 1..7 : c[Len(s) + n] = t[n]
  <2>1. /\ Len(s \o t) = Len(s) + Len(t) /\ Len(s) \in Nat
        /\ \A n \in 1..Len(s) : (s \o t)[n] = s[n]
        /\ \A n \in 1..Len(t) : (s \o t)[Len(s) + n] = t[n]
    <3>1. s \in Seq(S) /\ t \in Seq(S)
      OBVIOUS
    <3>2. Len(s) \in Nat
      OBVIOUS
    <3> QED  BY ONLY <3>1, <3>2, CatFacts
  <2> QED  BY <2>1
<1>2. Holds(c, Len(s) + 1, 1, m, b)
  <2>1. \A k \in 1..7 : (Len(s) + 1) + k - 1 = Len(s) + k
    BY <1>1
  <2>2. \A k \in 1..7 : c[(Len(s) + 1) + k - 1] = Op(k, m, b)
    BY <1>1, <2>1
  <2>3. (Len(s) + 1) + 7 - 1 <= Len(c)
    BY <1>1
  <2> QED  BY <2>2, <2>3 DEF Holds
<1>3. ASSUME NEW i \in 1..(Len(c) - 1), c[i].op = "use"
      PROVE  \E n \in BatchSizes : \E d \in Batched(n) : Holds(c, i + 1, 1, n, d)
  <2>1. CASE i < Len(s)
    <3>1. i \in 1..(Len(s) - 1) /\ s[i].op = "use" /\ i + 1 \in Nat \ {0} /\ 1 \in 1..7
      BY <1>1, <1>3, <2>1
    <3> PICK n \in BatchSizes : \E d \in Batched(n) : Holds(s, i + 1, 1, n, d)
      BY <3>1 DEF InOrder
    <3>2. PICK d \in Batched(n) : Holds(s, i + 1, 1, n, d)
      OBVIOUS
    <3>3. Holds(c, i + 1, 1, n, d)
      <4> PICK h : h = i + 1
        OBVIOUS
      <4>1. s \in Seq(S) /\ t \in Seq(S) /\ h \in Nat \ {0} /\ 1 \in 1..7 /\ Holds(s, h, 1, n, d)
        BY <3>1, <3>2
      <4>2. Holds(s \o t, h, 1, n, d)
        BY ONLY <4>1, HoldsCat
      <4> QED  BY <4>2
    <3> QED  BY <3>3
  <2>2. CASE i = Len(s)
    BY <1>2, <2>2
  <2>3. CASE i > Len(s)
    <3>1. PICK k \in 1..6 : i = Len(s) + k
      <4>1. Len(c) = Len(s) + 7 /\ Len(s) \in Nat /\ i \in 1..(Len(c) - 1) /\ i > Len(s)
        BY <1>1, <2>3
      <4>2. i - Len(s) \in 1..6 /\ i = Len(s) + (i - Len(s))
        BY ONLY <4>1
      <4> QED  BY <4>2
    <3>2. k \in 1..7 /\ c[i] = Op(k, m, b)
      BY <1>1, <3>1
    <3>3. k = 7
      <4>1. Op(k, m, b).op = "use"
        BY <1>3, <3>2
      <4> QED  BY ONLY <3>2, <4>1, WhichOp
    <3> QED  BY <3>1, <3>3
  <2> QED  BY <1>1, <2>1, <2>2, <2>3
<1> QED  BY <1>2, <1>3 DEF InOrder

LEMMA LaunchedNext ==
  ASSUME HostInv, TeamInv, NEW m \in BatchSizes, Launch(m)
  PROVE  HostInv' /\ TeamInv'
<1>1. /\ launched < MaxLaunches /\ works' = WithWorks(m) /\ launched' = launched + 1
      /\ UNCHANGED forwardVars /\ UNCHANGED <<ids, rows, out, dout>>
  BY DEF Launch
<1>2. UNCHANGED <<call, hx, hids, hout>>
  BY <1>1 DEF forwardVars
<1> PICK actual \in 1..m : \E batch \in Batches(actual) : stream' = stream \o Ops(m, batch)
  BY DEF Launch
<1>3. PICK b \in Batches(actual) : stream' = stream \o Ops(m, b)
  OBVIOUS
<1>4. b \in Batched(m)
  <2>1. launched + 1 \in 1..MaxLaunches
    BY <1>1, HostCallsAssumption DEF HostInv, HostCallsAssumption
  <2>2. PICK r \in Routings : b = BatchOf(launched + 1, actual, r)
    BY DEF Batches, BatchOf
  <2>3. PICK l \in 1..MaxLaunches : l = launched + 1
    BY <2>1
  <2>4. b = BatchOf(l, actual, r)
    BY <2>2, <2>3
  <2> QED  BY <2>4 DEF Batched
<1>5. PICK R : /\ Ops(m, b) \in Seq(R) /\ Len(Ops(m, b)) = 7
               /\ \A k \in 1..7 : Ops(m, b)[k] = Op(k, m, b)
  BY OpsFacts DEF HostInv
<1>6. PICK T : stream \in Seq(T)
  BY DEF HostInv
<1> PICK S : S = R \union T  OBVIOUS
<1> PICK s : s = stream  OBVIOUS
<1> PICK t : t = Ops(m, b)  OBVIOUS
<1>7. s \in Seq(S) /\ t \in Seq(S) /\ Len(t) = 7 /\ \A k \in 1..7 : t[k] = Op(k, m, b)
  BY <1>5, <1>6
<1>8. stream' = s \o t /\ s \o t \in Seq(S) /\ Len(s) \in Nat
  BY <1>3, <1>7, CatFacts
<1>9. InOrder(s \o t) /\ Holds(s \o t, Len(s) + 1, 1, m, b)
  <2>1. InOrder(s)
    BY DEF HostInv
  <2> QED  BY <1>4, <1>7, <2>1, InOrderCat
<1>10. InOrder(stream)' /\ (\E Q : stream \in Seq(Q))'
  BY <1>8, <1>9
<1>11. Found'
  <2>1. CASE s = <<>>
    <3>1. Len(s) + 1 = 1
      BY <2>1
    <3>2. Holds(stream', 1, 1, m, b) /\ 1 \in 1..7
      BY <1>8, <1>9, <3>1
    <3>3. Before(1, m, b)'
      BY DEF Before
    <3> QED  BY <1>4, <3>2, <3>3 DEF Found
  <2>2. CASE s # <<>>
    <3> PICK n \in BatchSizes : \E d \in Batched(n) : \E j \in 1..7 :
               Holds(stream, 1, j, n, d) /\ Before(j, n, d) /\ Head(stream) = Op(j, n, d)
      BY <2>2, AtHead
    <3> PICK d \in Batched(n) : \E j \in 1..7 :
               Holds(stream, 1, j, n, d) /\ Before(j, n, d) /\ Head(stream) = Op(j, n, d)
      OBVIOUS
    <3>1. PICK j \in 1..7 : Holds(s, 1, j, n, d) /\ Before(j, n, d)
      OBVIOUS
    <3>2. Holds(stream', 1, j, n, d)
      <4>1. 1 \in Nat \ {0}
        OBVIOUS
      <4> QED  BY <1>7, <1>8, <3>1, <4>1, HoldsCat
    <3>3. Before(j, n, d)'
      BY <1>1, <1>2, <3>1 DEF Before, Asked, Fetched, Staged, Routed, Combined, Returned
    <3> QED  BY <3>2, <3>3 DEF Found
  <2> QED  BY <2>1, <2>2
<1>12. Called'
  <2> SUFFICES ASSUME call # NoCall
               PROVE  stream' # <<>> /\ Head(stream') = Head(stream)
    BY <1>2 DEF HostInv, Called
  <2>1. stream # <<>>
    BY DEF HostInv, Called
  <2>2. Len(s) >= 1 /\ Head(s) = s[1]
    BY <1>7, <2>1, TailFacts
  <2>3. Len(s \o t) = Len(s) + Len(t) /\ (s \o t)[1] = s[1]
    <3>1. /\ Len(s \o t) = Len(s) + Len(t)
          /\ \A i \in 1..Len(s) : (s \o t)[i] = s[i]
      <4>1. s \in Seq(S) /\ t \in Seq(S)
        BY <1>7
      <4> QED  BY ONLY <4>1, CatFacts
    <3>2. 1 \in 1..Len(s)
      BY <1>8, <2>2
    <3> QED  BY <3>1, <3>2
  <2>4. s \o t # <<>>
    BY <1>7, <1>8, <2>2, <2>3
  <2>5. Head(s \o t) = (s \o t)[1]
    BY <1>8, <2>4, TailFacts
  <2> QED  BY <1>8, <2>2, <2>3, <2>4, <2>5
<1>13. Recorded' /\ launched' \in Nat
  BY <1>1, RecordedNext DEF HostInv
<1>14. Allocated'
  BY <1>1, <1>2 DEF HostInv, Allocated, Shaped
<1>15. TeamInv'
  BY <1>1, TeamFrameAll
<1> QED  BY <1>10, <1>11, <1>12, <1>13, <1>14, <1>15 DEF HostInv

LEMMA CapturedNext ==
  ASSUME HostInv, TeamInv, NEW m, Capture(m)
  PROVE  HostInv' /\ TeamInv'
<1>1. /\ UNCHANGED forwardVars /\ UNCHANGED <<stream, launched, ids, rows, out, dout>>
      /\ works' = WithWorks(m) \/ works' = works
  BY DEF Capture
<1>2. Recorded'
  <2>1. CASE works' = WithWorks(m)
    BY <2>1, RecordedNext DEF HostInv
  <2>2. CASE works' = works
    BY <2>2 DEF HostInv, Recorded
  <2> QED  BY <1>1, <2>1, <2>2
<1>3. launched' \in Nat
  BY <1>1 DEF HostInv
<1> QED  BY <1>1, <1>2, <1>3, HostFrame

LEMMA HostInit == Init => HostInv /\ TeamInv
<1> SUFFICES ASSUME Init PROVE HostInv /\ TeamInv
  OBVIOUS
<1>1. Found /\ Called /\ launched \in Nat
  BY DEF Init, InitForward, Found, Called
<1>2. InOrder(stream) /\ \E S : stream \in Seq(S)
  <2>1. stream = <<>>
    BY DEF Init
  <2>2. stream \in Seq({}) /\ Len(stream) = 0
    BY <2>1
  <2> QED  BY <2>2 DEF InOrder
<1>3. Recorded
  <2>1. works = [u \in Users |-> <<>>]
    BY DEF Init
  <2>2. \A u \in Users : DOMAIN works[u] = {}
    BY <2>1
  <2>3. works = [u \in Users |-> works[u]]
    BY <2>1
  <2> QED  BY <2>2, <2>3 DEF Recorded
<1>4. Allocated
  <2>1. Shaped(ids, "rows") /\ Shaped(rows, "rows")
    BY DEF Init, Shaped
  <2>2. Shaped(hx, "experts") /\ Shaped(hids, "experts")
    BY DEF Init, Shaped
  <2>3. Shaped(hout, "experts") /\ Shaped(dout, "experts")
    BY DEF Init, Shaped
  <2> QED  BY <2>1, <2>2, <2>3 DEF Allocated
<1>5. ScratchShaped
  BY DEF Init, InitForward, ScratchShaped
<1>6. Working
  BY DEF Init, InitForward, Working
<1>7. ByExpert /\ Computed
  BY DEF Init, InitForward, ByExpert, Computed
<1> QED  BY <1>1, <1>2, <1>3, <1>4, <1>5, <1>6, <1>7 DEF HostInv, TeamInv

LEMMA HostNext ==
  ASSUME IInv, HostInv, TeamInv, [Next]_vars
  PROVE  HostInv' /\ TeamInv'
<1>1. ASSUME UNCHANGED vars PROVE HostInv' /\ TeamInv'
  <2>1. UNCHANGED forwardVars /\ UNCHANGED <<stream, launched, works, ids, rows, out, dout>>
    BY <1>1 DEF vars, hostVars
  <2>2. Recorded' /\ launched' \in Nat
    BY <2>1 DEF HostInv, Recorded
  <2> QED  BY <2>1, <2>2, HostFrame
<1>2. ASSUME NEW m \in BatchSizes, Capture(m) \/ Launch(m) PROVE HostInv' /\ TeamInv'
  BY <1>2, CapturedNext, LaunchedNext
<1>3. ASSUME StreamStep PROVE HostInv' /\ TeamInv'
  BY <1>3, AskedNext, FetchedNext, StagedNext, RoutedNext, EnteredNext, CombinedNext, ReturnedNext,
     UsedNext DEF StreamStep
<1>4. ASSUME NEW th \in Threads, TeamStep(th) PROVE HostInv' /\ TeamInv'
  BY <1>4, TeamNext
<1> QED  BY <1>1, <1>2, <1>3, <1>4 DEF Next, Idle

(***************************************************************************)
(* Every forward uses the rows of its own ids and the outputs of all       *)
(* experts of its own tokens, for any team, schedule, experts, routings,   *)
(* batch sizes and however far Python runs ahead: what it finds in the     *)
(* staging, the work records and the scratch it shares was left by the     *)
(* operations of the same forward before (engram_ssd.py, cpu_moe.py and    *)
(* cpu_moe_forward).                                                       *)
(***************************************************************************)
THEOREM ResultsStayExact == Spec => []ResultsExact
<1>1. IInv /\ HostInv /\ TeamInv => ResultsExact
  <2> SUFFICES ASSUME HostInv, stream # <<>>, Head(stream).op = "use"
               PROVE  /\ \A p \in 1..Count("rows", Head(stream).m) : out[p] = <<Head(stream).batch.n, p>>
                      /\ \A t \in DOMAIN Head(stream).batch.route :
                           dout[Capacity(Head(stream).m)][t] = Expected(Head(stream).batch, t)
    BY DEF ResultsExact
  <2> PICK o : o = Head(stream)
    OBVIOUS
  <2>1. \A k \in 1..7 : \A m, b : o = Op(k, m, b) => k = 7
    BY WhichOp
  <2>2. \E m \in BatchSizes : \E b \in Batched(m) :
          Holds(stream, 1, 7, m, b) /\ Before(7, m, b) /\ Head(stream) = Op(7, m, b)
    BY <2>1, OldestOp
  <2> PICK m \in BatchSizes : \E b \in Batched(m) :
          Holds(stream, 1, 7, m, b) /\ Before(7, m, b) /\ Head(stream) = Op(7, m, b)
    BY <2>2
  <2>3. PICK b \in Batched(m) : Before(7, m, b) /\ o = Op(7, m, b)
    OBVIOUS
  <2>4. o.m = m /\ o.batch = b
    BY <2>3, OpFacts
  <2>5. Staged(m, b) /\ Returned(m, b)
    BY <2>3 DEF Before
  <2> QED  BY <2>4, <2>5 DEF Staged, Returned
<1>2. IInv /\ HostInv /\ TeamInv /\ [Next]_vars => (HostInv /\ TeamInv)'
  BY HostNext
<1>3. Init => HostInv /\ TeamInv
  BY HostInit
<1> QED  BY <1>1, <1>2, <1>3, ExpertsIInv, PTL DEF Spec
============================================================================
