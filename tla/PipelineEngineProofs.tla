------------------------ MODULE PipelineEngineProofs -----------------------
(***************************************************************************)
(* The nine invariants of PipelineEngine for any requests, ranks, blocks,  *)
(* budget, batch queue, drafts and prompts.                                *)
(*                                                                         *)
(* The first part says what the actions do: the type of every variable     *)
(* over the integers, the discipline of the queues (Shape), and the few    *)
(* cases (StepCases) one request can be in during a step.  From these the  *)
(* second reasons request by request: what is in flight and the pool       *)
(* (Books), the output and its positions (Progress), the drafts            *)
(* (Drafting), what each rank knows of the output (Copied).                *)
(***************************************************************************)
EXTENDS PipelineInvariant

---------------------------------------------------------------------------
(* What Without leaves of a queue *)

LEMMA WithoutDef ==
  ASSUME NEW s, NEW S
  PROVE  Without(s, S) = (CHOOSE f : f = Keep(s, S, f))[Len(s)]
BY DEF Without, Keep, KeepBody

LEMMA WithoutFacts ==
  ASSUME NEW T, NEW s \in Seq(T), NEW S
  PROVE  /\ Without(s, S) \in Seq(T)
         /\ From(Without(s, S), s, Len(s), S)
         /\ NoRepeat(s) => NoRepeat(Without(s, S))
<1> DEFINE L == Len(s)
           k == CHOOSE f : f = Keep(s, S, f)
<1>1. L \in Nat  OBVIOUS
<1>2. k = Keep(s, S, k)  BY KeepExists
<1>3. Without(s, S) = k[L]  BY WithoutDef
<1> HIDE DEF k
<1>4. \A i \in 0..L : k[i] = KeepBody(s, S, k, i)  BY <1>2 DEF Keep
<1> DEFINE N == {n \in Nat : n <= L => /\ k[n] \in Seq(T)
                                       /\ From(k[n], s, n, S)
                                       /\ NoRepeat(s) => NoRepeat(k[n])}
<1>5. 0 \in N
  <2>1. k[0] = <<>> /\ <<>> \in Seq(T) /\ Len(<<>>) = 0  BY <1>1, <1>4 DEF KeepBody
  <2>2. From(k[0], s, 0, S) /\ NoRepeat(k[0])  BY <2>1 DEF From, NoRepeat
  <2> QED  BY <2>1, <2>2
<1>6. ASSUME NEW n \in Nat, n \in N PROVE n + 1 \in N
  <2> SUFFICES ASSUME n + 1 <= L
               PROVE  /\ k[n + 1] \in Seq(T)
                      /\ From(k[n + 1], s, n + 1, S)
                      /\ NoRepeat(s) => NoRepeat(k[n + 1])
    OBVIOUS
  <2>1. /\ k[n] \in Seq(T) /\ From(k[n], s, n, S)
        /\ NoRepeat(s) => NoRepeat(k[n])
    BY <1>1, <1>6
  <2>2. k[n + 1] = IF s[n + 1] \in S THEN k[n] ELSE Append(k[n], s[n + 1])
    BY <1>1, <1>4 DEF KeepBody
  <2>3. s[n + 1] \in T  BY <1>1
  <2> DEFINE w == k[n]  v == k[n + 1]
  <2>4. CASE s[n + 1] \in S  BY <2>1, <2>2, <2>4 DEF From
  <2>5. CASE s[n + 1] \notin S
    <3>1. v = Append(w, s[n + 1])  BY <2>2, <2>5
    <3>2. w \in Seq(T) /\ From(w, s, n, S) /\ (NoRepeat(s) => NoRepeat(w))  BY <2>1
    <3> HIDE DEF w, v
    <3>3. /\ v \in Seq(T) /\ Len(v) = Len(w) + 1 /\ v[Len(w) + 1] = s[n + 1]
          /\ \A i \in 1..Len(w) : v[i] = w[i]
      BY <2>3, <3>1, <3>2
    <3>4. From(v, s, n + 1, S)
      <4> SUFFICES ASSUME NEW i \in 1..Len(v)
                   PROVE  \E j \in 1..(n + 1) : v[i] = s[j] /\ s[j] \notin S
        BY DEF From
      <4>1. CASE i = Len(w) + 1  BY <2>5, <3>3, <4>1
      <4>2. CASE i \in 1..Len(w)  BY <3>2, <3>3, <4>2 DEF From
      <4> QED  BY <3>2, <3>3, <4>1, <4>2
    <3>5. ASSUME NoRepeat(s) PROVE NoRepeat(v)
      <4>1. \A i \in 1..Len(w) : w[i] # s[n + 1]  BY <1>1, <3>2, <3>5 DEF From, NoRepeat
      <4> QED  BY <3>2, <3>3, <3>5, <4>1 DEF NoRepeat
    <3> QED  BY <3>3, <3>4, <3>5 DEF v
  <2> QED  BY <2>4, <2>5
<1>7. L \in N
  <2> HIDE DEF N, L
  <2> QED  BY <1>1, <1>5, <1>6, NatSetInduction
<1> QED  BY <1>3, <1>7
---------------------------------------------------------------------------
(* Types of constants and helpers *)

LEMMA EngineFacts ==
  /\ NumRanks \in Nat /\ NumRanks > 1 /\ LastRank = NumRanks /\ LastRank \in Ranks
  /\ QueueSize \in Nat /\ QueueSize > 1
  /\ MaxRunning \in Nat /\ TokenBudget \in Nat /\ TokenBudget > 0
  /\ MaxModelLen \in Nat /\ BlockSize \in Nat \ {0} /\ NumBlocks \in Nat
  /\ NumSpec \in Nat /\ MaxResets \in Nat
  /\ \A r \in Requests : PromptLen[r] \in Nat /\ PromptLen[r] > 0 /\ MaxTokens[r] \in Nat
  /\ \A r \in Requests : PromptLen[r] < MaxModelLen
BY EngineAssumption DEF LastRank, Ranks

LEMMA NumbersFacts ==
  ASSUME NEW P, Numbers(P)
  PROVE  /\ Nat \subseteq P /\ P \subseteq Int /\ 0 \in P
         /\ \A a, b \in P : a + b \in P
BY DEF Numbers

LEMMA NoDraftType ==
  ASSUME NEW P, Numbers(P)
  PROVE  NoDraft \in DraftOver(P) /\ Padding \in DraftOver(P)
BY EngineFacts, NumbersFacts DEF NoDraft, Padding, DraftOver

LEMMA EmptyPlanType ==
  ASSUME NEW P, Numbers(P)
  PROVE  EmptyPlan \in PlanOver(P)
BY EngineFacts, NoDraftType, EmptyFacts DEF EmptyPlan, PlanOver

LEMMA NewRequestType ==
  ASSUME NEW P, Numbers(P)
  PROVE  NewRequest \in RequestOver(P)
BY NumbersFacts, NoDraftType, EmptyFacts DEF NewRequest, RequestOver

LEMMA InitTyped ==
  ASSUME NEW P, Numbers(P), Init
  PROVE  TypedOver(P)
<1>1. SchedulerOver(P)
  <2>1. req \in [Requests -> RequestOver(P)] /\ plan \in PlanOver(P)
    BY EmptyPlanType, NewRequestType DEF Init
  <2>2. running \in Seq(Requests) /\ waiting \in Seq(Requests) /\ skipped \in Seq(Requests)
    BY EmptyFacts DEF Init
  <2>3. finishedIds \in SUBSET Requests /\ takeDrafts \in BOOLEAN  BY DEF Init
  <2>4. resets \in 0..MaxResets  BY EngineFacts DEF Init
  <2>5. pc \in {"inputs", "schedule", "collect", "post"}  BY DEF Init
  <2> QED  BY <2>1, <2>2, <2>3, <2>4, <2>5 DEF SchedulerOver
<1>2. RanksOver(P)  BY EngineFacts, EmptyFacts, NoDraftType DEF Init, RanksOver
<1> QED  BY <1>1, <1>2 DEF TypedOver

LEMMA PreemptedFacts ==
  ASSUME NEW P, Numbers(P), NEW q \in RequestOver(P), NEW drop \in BOOLEAN
  PROVE  /\ Preempted(q, drop) \in RequestOver(P)
         /\ Preempted(q, drop).status = "preempted" /\ Preempted(q, drop).blocks = 0
         /\ Preempted(q, drop).computed = 0 /\ Preempted(q, drop).spec = NoDraft
         /\ Preempted(q, drop).stale = q.inFlight /\ Preempted(q, drop).inFlight = q.inFlight
         /\ Preempted(q, drop).output = q.output /\ Preempted(q, drop).sent = q.sent
         /\ Preempted(q, drop).chunk = q.chunk
         /\ Preempted(q, drop).dropStale = (drop \/ (q.dropStale /\ q.stale > 0))
<1>1. NoDraft \in DraftOver(P) /\ 0 \in P  BY NoDraftType, NumbersFacts
<1> QED  BY <1>1 DEF Preempted, RequestOver

LEMMA FreedFacts ==
  ASSUME NEW P, Numbers(P), NEW q \in RequestOver(P)
  PROVE  /\ Freed(q) \in RequestOver(P)
         /\ Freed(q).status = "finished" /\ Freed(q).blocks = 0
         /\ Freed(q).output = q.output /\ Freed(q).computed = q.computed
         /\ Freed(q).inFlight = q.inFlight /\ Freed(q).stale = q.stale
BY DEF Freed, RequestOver

LEMMA RequestFacts ==
  ASSUME NEW P, Numbers(P), SchedulerOver(P), NEW r \in Requests
  PROVE  /\ req[r] \in RequestOver(P) /\ req[r].spec \in DraftOver(P)
         /\ req[r].output \in Seq(TokenOver(P)) /\ Len(req[r].output) \in Nat
         /\ req[r].computed \in P /\ req[r].computed \in Int
         /\ req[r].inFlight \in P /\ req[r].inFlight \in Int
         /\ req[r].stale \in P /\ req[r].stale \in Int
         /\ req[r].spec.after \in P /\ req[r].spec.len \in Nat /\ req[r].spec.len <= NumSpec
         /\ req[r].sent \in Nat /\ req[r].blocks \in Nat
         /\ NumTokens(r) = PromptLen[r] + Len(req[r].output)
         /\ NumTokens(r) \in Nat /\ NumTokens(r) > 0
<1>1. req[r] \in RequestOver(P)  BY DEF SchedulerOver
<1>2. /\ req[r].output \in Seq(TokenOver(P)) /\ req[r].spec \in DraftOver(P)
      /\ req[r].computed \in P /\ req[r].inFlight \in P /\ req[r].stale \in P
      /\ req[r].sent \in Nat /\ req[r].blocks \in Nat
  BY <1>1 DEF RequestOver
<1>3. req[r].computed \in Int /\ req[r].inFlight \in Int /\ req[r].stale \in Int
  BY <1>2, NumbersFacts
<1>4. req[r].spec.after \in P /\ req[r].spec.len \in Nat /\ req[r].spec.len <= NumSpec
  BY <1>2, EngineFacts DEF DraftOver
<1>5. Len(req[r].output) \in Nat  BY <1>2
<1> QED  BY <1>1, <1>2, <1>3, <1>4, <1>5, EngineFacts DEF NumTokens

LEMMA PlanFacts ==
  ASSUME NEW P, Numbers(P), SchedulerOver(P)
  PROVE  /\ plan \in PlanOver(P) /\ plan.idx \in Nat /\ plan.budget \in Nat
         /\ plan.budget \in 0..TokenBudget
         /\ plan.n \in [Requests -> 0..TokenBudget] /\ plan.spec \in [Requests -> DraftOver(P)]
         /\ plan.new \in SUBSET Requests /\ plan.resumed \in SUBSET Requests
         /\ plan.passed \in Seq(Requests)
<1>1. plan \in PlanOver(P)  BY DEF SchedulerOver
<1> QED  BY <1>1, EngineFacts DEF PlanOver

LEMMA RangeFacts ==
  ASSUME NEW T, NEW s \in Seq(T)
  PROVE  Range(s) = {s[i] : i \in 1..Len(s)} /\ Range(s) \subseteq T
BY DEF Range

---------------------------------------------------------------------------
(* What the helpers of schedule() return *)

LEMMA RunningTokensFacts ==
  ASSUME NEW P, Numbers(P), SchedulerOver(P), NEW r \in Requests
  PROVE  /\ NumTokens(r) \in Nat /\ NumTokens(r) > 0
         /\ RunningTokens(r) \in Int
         /\ RunningTokens(r) > 0 =>
              /\ req[r].computed < NumTokens(r)
              /\ RunningTokens(r) + req[r].computed <= NumTokens(r) + req[r].spec.len
              /\ RunningTokens(r) \in 1..plan.budget
<1>1. /\ req[r].output \in Seq(TokenOver(P)) /\ req[r].computed \in Int
      /\ req[r].spec.len \in Nat /\ plan.budget \in Nat
  BY RequestFacts, PlanFacts
<1>2. NumTokens(r) \in Nat /\ NumTokens(r) > 0  BY RequestFacts
<1> DEFINE a == NumTokens(r) + req[r].spec.len - req[r].computed
           b == plan.budget
           c == MaxModelLen - req[r].computed - 1
<1>3. a \in Int /\ b \in Int /\ c \in Int  BY <1>1, <1>2, EngineFacts
<1>4. RunningTokens(r) = IF NumTokens(r) <= req[r].computed THEN 0 ELSE Min({a, b, c})
  BY DEF RunningTokens
<1> HIDE DEF a, b, c
<1>5. Min({a, b, c}) \in Int /\ Min({a, b, c}) <= a /\ Min({a, b, c}) <= b
  BY <1>3, Min3
<1> QED  BY <1>1, <1>2, <1>4, <1>5 DEF a, b

LEMMA ScheduledDraftsFacts ==
  ASSUME NEW P, Numbers(P), SchedulerOver(P), NEW r \in Requests, NEW n \in Int,
         n + req[r].computed <= NumTokens(r) + req[r].spec.len
  PROVE  LET d == ScheduledDrafts(r, n)
             x == n + req[r].computed - NumTokens(r)
         IN  /\ d \in DraftOver(P)
             /\ x > 0 => d = [after |-> req[r].spec.after, len |-> x]
             /\ x <= 0 => d = NoDraft
<1>1. /\ req[r].spec \in DraftOver(P) /\ req[r].computed \in Int /\ NumTokens(r) \in Nat
  BY RequestFacts
<1>2. req[r].spec.len \in Nat /\ req[r].spec.len <= NumSpec
  BY <1>1, EngineFacts DEF DraftOver
<1> DEFINE x == n + req[r].computed - NumTokens(r)
           s == req[r].spec.len
<1>3. x \in Int /\ s \in Int /\ x <= s  BY <1>1, <1>2
<1>4. ScheduledDrafts(r, n) = IF s > 0 /\ x > 0 THEN [req[r].spec EXCEPT !.len = Min({s, x})]
                              ELSE NoDraft
  BY DEF ScheduledDrafts
<1>5. Min({s, x}) = x
  <2> HIDE DEF s, x
  <2> QED  BY <1>3, Min2
<1>6. x > 0 => [req[r].spec EXCEPT !.len = x] = [after |-> req[r].spec.after, len |-> x]
  BY <1>1, <1>2, <1>3 DEF DraftOver
<1>7. x > 0 => [after |-> req[r].spec.after, len |-> x] \in DraftOver(P)
  BY <1>1, <1>2, <1>3, EngineFacts DEF DraftOver
<1> QED  BY <1>2, <1>3, <1>4, <1>5, <1>6, <1>7, NoDraftType

LEMMA YoungestFacts ==
  ASSUME running \in Seq(Requests), NEW m \in 0..Len(running)
  PROVE  /\ Youngest(m) \in Seq(Requests) /\ Len(Youngest(m)) = m
         /\ \A i \in 1..m : Youngest(m)[i] = running[Len(running) - m + i]
         /\ Range(Youngest(m)) = {running[i] : i \in (Len(running) - m + 1)..Len(running)}
<1> DEFINE L == Len(running)
<1>1. L \in Nat /\ m \in Nat /\ m <= L  OBVIOUS
<1>2. /\ Youngest(m) \in Seq(Requests) /\ Len(Youngest(m)) = m
      /\ \A i \in 1..m : Youngest(m)[i] = running[L - m + i]
  <2>1. /\ SubSeq(running, L - m + 1, L) \in Seq(Requests)
        /\ Len(SubSeq(running, L - m + 1, L)) = IF L - m + 1 <= L THEN L - (L - m + 1) + 1 ELSE 0
        /\ \A i \in 1..(L - (L - m + 1) + 1) :
             SubSeq(running, L - m + 1, L)[i] = running[(L - m + 1) + i - 1]
    BY <1>1, SubSeqFacts
  <2> QED  BY <1>1, <2>1 DEF Youngest
<1>3. Range(Youngest(m)) = {Youngest(m)[i] : i \in 1..m}  BY <1>2, RangeFacts
<1>4. \A i \in (L - m + 1)..L : i - (L - m) \in 1..m /\ running[i] = Youngest(m)[i - (L - m)]
  BY <1>1, <1>2
<1>5. \A i \in 1..m : L - m + i \in (L - m + 1)..L /\ Youngest(m)[i] = running[L - m + i]
  BY <1>1, <1>2
<1> QED  BY <1>2, <1>3, <1>4, <1>5

LEMMA VictimsFacts ==
  ASSUME NEW r, NEW n, plan.idx \in 1..Len(running), Len(running) \in Nat
  PROVE  LET others == Len(running) - plan.idx
             m == Victims(r, n)
         IN  /\ m \in 0..(others + 1)
             /\ m <= others => NewBlocks(r, req[r].computed, n)
                                 <= FreeBlocks + Sum(Blocks, Range(Youngest(m)))
<1> DEFINE others == Len(running) - plan.idx
<1>1. others \in Nat  BY SMT
<1> DEFINE fits(m) == NewBlocks(r, req[r].computed, n)
                        <= FreeBlocks + Sum(Blocks, Range(Youngest(m)))
           F == {m \in 0..others : fits(m)}
<1>2. Victims(r, n) = IF \E m \in 0..others : fits(m) THEN Min(F) ELSE others + 1
  BY Zenon DEF Victims
<1>3. CASE \E m \in 0..others : fits(m)
  <2>1. SomeNats(F)  BY <1>1, <1>3 DEF SomeNats
  <2> HIDE DEF F
  <2>2. Min(F) \in F  BY <2>1, MinOfNat
  <2>3. Min(F) \in 0..others /\ fits(Min(F))  BY <2>2 DEF F
  <2>4. Victims(r, n) = Min(F)  BY <1>2, <1>3
  <2> DEFINE m == Victims(r, n)
  <2>5. m \in 0..others /\ fits(m)  BY <2>3, <2>4
  <2> HIDE DEF m, fits
  <2>6. m \in 0..(others + 1) /\ fits(m)  BY <1>1, <2>5
  <2> QED  BY <2>6 DEF m, fits
<1>4. CASE ~(\E m \in 0..others : fits(m))
  <2>1. Victims(r, n) = others + 1  BY <1>2, <1>4
  <2> QED  BY <1>1, <2>1
<1> QED  BY <1>3, <1>4

---------------------------------------------------------------------------
(* What each action does to each request *)

Current == running[plan.idx]
Given == RunningTokens(Current)
Dropped == Victims(Current, Given)
Victim == Range(Youngest(Dropped))
KeptLen == Len(running) - Dropped

\* A running request that is given its tokens: more blocks, its drafts are scheduled.
Placed(q, b) == [q EXCEPT !.blocks = @ + b, !.spec = NoDraft]

StoppedPlan == [plan EXCEPT !.preempted = TRUE, !.stop = TRUE]

\* The blocks given for a request that is placed.
NeededBlocks == NewBlocks(Current, req[Current].computed, Given)

LEMMA NewBlocksFacts ==
  ASSUME NEW P, Numbers(P), SchedulerOver(P), NEW r \in Requests, NEW c \in Int, NEW n \in Nat
  PROVE  NewBlocks(r, c, n) \in Nat
<1> DEFINE x == CeilDiv(c + n, BlockSize) - req[r].blocks
<1>1. x \in Int
  <2>1. req[r].blocks \in Nat  BY RequestFacts
  <2>2. CeilDiv(c + n, BlockSize) \in Int  BY EngineFacts DEF CeilDiv
  <2> QED  BY <2>1, <2>2
<1>2. NewBlocks(r, c, n) = Max({x, 0})  BY DEF NewBlocks
<1> HIDE DEF x
<1> QED  BY <1>1, <1>2, Max2

LEMMA PlacedFacts ==
  ASSUME NEW P, Numbers(P), NEW q \in RequestOver(P), NEW b \in Nat
  PROVE  /\ Placed(q, b) \in RequestOver(P)
         /\ Placed(q, b).status = q.status /\ Placed(q, b).blocks = q.blocks + b
         /\ Placed(q, b).computed = q.computed /\ Placed(q, b).spec = NoDraft
         /\ Placed(q, b).inFlight = q.inFlight /\ Placed(q, b).stale = q.stale
         /\ Placed(q, b).dropStale = q.dropStale /\ Placed(q, b).chunk = q.chunk
         /\ Placed(q, b).output = q.output
<1>1. NoDraft \in DraftOver(P)  BY NoDraftType
<1>2. q.blocks + b \in Nat  BY DEF RequestOver
<1>3. Placed(q, b) = [q EXCEPT !.blocks = q.blocks + b, !.spec = NoDraft]  BY DEF Placed
<1> DEFINE c == q.blocks + b
<1>4. c \in Nat /\ Placed(q, b) = [q EXCEPT !.blocks = c, !.spec = NoDraft]
  BY <1>2, <1>3
<1> HIDE DEF c
<1>5. Placed(q, b) \in RequestOver(P)  BY <1>1, <1>4 DEF RequestOver
<1>6. Placed(q, b).blocks = c  BY <1>4 DEF RequestOver
<1> QED  BY <1>4, <1>5, <1>6 DEF RequestOver, c

\* The plan with r given n tokens, d of them drafts.
PlanWith(r, n, d, prefill, preempted) ==
  [plan EXCEPT !.idx = @ + 1, !.budget = @ - n, !.n[r] = n, !.spec[r] = d,
               !.prefill = prefill, !.preempted = preempted]

LEMMA PlanWithFacts ==
  ASSUME NEW P, Numbers(P), SchedulerOver(P), NEW r \in Requests,
         NEW n \in 0..plan.budget, NEW d \in DraftOver(P),
         NEW prefill \in BOOLEAN, NEW preempted \in BOOLEAN
  PROVE  LET p == PlanWith(r, n, d, prefill, preempted)
         IN  /\ p \in PlanOver(P)
             /\ p.idx = plan.idx + 1 /\ p.n[r] = n /\ p.spec[r] = d
             /\ \A q \in Requests : q # r => p.n[q] = plan.n[q] /\ p.spec[q] = plan.spec[q]
             /\ p.new = plan.new /\ p.resumed = plan.resumed /\ p.passed = plan.passed
<1> DEFINE p == PlanWith(r, n, d, prefill, preempted)
<1>1. /\ plan \in PlanOver(P) /\ plan.idx \in Nat /\ plan.budget \in 0..TokenBudget
      /\ plan.n \in [Requests -> 0..TokenBudget] /\ plan.spec \in [Requests -> DraftOver(P)]
  BY PlanFacts
<1> DEFINE i == plan.idx + 1  b == plan.budget - n
           nn == [plan.n EXCEPT ![r] = n]  ss == [plan.spec EXCEPT ![r] = d]
<1>2. n \in 0..TokenBudget /\ b \in 0..TokenBudget /\ i \in Nat  BY <1>1, EngineFacts
<1>3. /\ nn \in [Requests -> 0..TokenBudget] /\ ss \in [Requests -> DraftOver(P)]
      /\ nn[r] = n /\ ss[r] = d
      /\ \A q \in Requests : q # r => nn[q] = plan.n[q] /\ ss[q] = plan.spec[q]
  BY <1>1, <1>2
<1>4. p = [plan EXCEPT !.idx = i, !.budget = b, !.n = nn, !.spec = ss,
                       !.prefill = prefill, !.preempted = preempted]
  BY <1>1 DEF PlanWith, PlanOver
<1> HIDE DEF p, i, b, nn, ss
<1>5. /\ p \in PlanOver(P) /\ p.idx = i /\ p.n = nn /\ p.spec = ss
      /\ p.new = plan.new /\ p.resumed = plan.resumed /\ p.passed = plan.passed
  BY <1>1, <1>2, <1>3, <1>4 DEF PlanOver
<1> QED  BY <1>3, <1>5 DEF p, i

PlacedPlan ==
  PlanWith(Current, Given, ScheduledDrafts(Current, Given),
           plan.prefill \/ req[Current].chunk, plan.preempted \/ Dropped > 0)

LEMMA ScheduleRunningFacts ==
  ASSUME NEW P, Numbers(P), SchedulerOver(P), Queued, Planned, ScheduleRunning
  PROVE  /\ pc = "schedule" /\ plan.idx \in 1..Len(running)
         /\ Current \in Requests /\ Given \in 1..plan.budget
         /\ req[Current].computed < NumTokens(Current)
         /\ Given + req[Current].computed <= NumTokens(Current) + req[Current].spec.len
         /\ Dropped \in 0..(Len(running) - plan.idx + 1) /\ NeededBlocks \in Nat
         /\ running' \in Seq(Requests) /\ Len(running') = KeptLen
         /\ \A i \in 1..KeptLen : running'[i] = running[i]
         /\ Victim = {running[i] : i \in (KeptLen + 1)..Len(running)}
         /\ waiting' = Youngest(Dropped) \o waiting
         /\ \A q \in Victim : req'[q] = Preempted(req[q], FALSE)
         /\ \A q \in Requests : q \notin Victim /\ q # Current => req'[q] = req[q]
         /\ req' = [q \in Requests |-> req'[q]]
         /\ Current \in Victim =>
              Dropped = Len(running) - plan.idx + 1 /\ plan' = StoppedPlan
         /\ Current \notin Victim =>
              /\ Dropped <= Len(running) - plan.idx
              /\ req'[Current] = Placed(req[Current], NeededBlocks)
              /\ plan' = PlacedPlan
              /\ NeededBlocks <= FreeBlocks + Sum(Blocks, Victim)
<1> DEFINE L == Len(running)
<1>1. pc = "schedule" /\ plan.idx \in 1..L /\ plan.idx \in Nat /\ L \in Nat
  <2>1. pc = "schedule" /\ MoreRunning  BY DEF ScheduleRunning
  <2>2. plan.idx \in 1..(L + 1)  BY DEF Planned
  <2>3. running \in Seq(Requests)  BY DEF SchedulerOver
  <2>4. L \in Nat  BY <2>3
  <2>5. plan.idx <= L  BY <2>1 DEF MoreRunning
  <2> HIDE DEF L
  <2> QED  BY <2>1, <2>2, <2>4, <2>5
<1>2. running \in Seq(Requests) /\ Current \in Requests
  BY <1>1 DEF SchedulerOver, Current
<1>3. Given > 0  BY DEF ScheduleRunning, Given, Current
<1>4. /\ Given \in 1..plan.budget
      /\ req[Current].computed < NumTokens(Current)
      /\ Given + req[Current].computed <= NumTokens(Current) + req[Current].spec.len
  BY <1>2, <1>3, RunningTokensFacts DEF Given
<1>5. /\ Dropped \in 0..(L - plan.idx + 1)
      /\ Dropped <= L - plan.idx => NeededBlocks <= FreeBlocks + Sum(Blocks, Victim)
  BY <1>1, VictimsFacts DEF Dropped, NeededBlocks, Victim
<1>6. NeededBlocks \in Nat
  <2>1. Given \in Nat /\ req[Current].computed \in Int
    BY <1>2, <1>4, PlanFacts, RequestFacts
  <2> QED  BY <1>2, <2>1, NewBlocksFacts DEF NeededBlocks
<1>7. Dropped \in 0..L  BY <1>1, <1>5
<1>8. Victim = {running[i] : i \in (KeptLen + 1)..L}
  BY <1>2, <1>7, YoungestFacts DEF Victim, KeptLen
<1>9. /\ running' \in Seq(Requests) /\ Len(running') = KeptLen
      /\ \A i \in 1..KeptLen : running'[i] = running[i]
  <2>1. running' = SubSeq(running, 1, KeptLen)
    BY DEF ScheduleRunning, KeptLen, Dropped, Given, Current
  <2>2. KeptLen \in 0..L  BY <1>1, <1>7 DEF KeptLen
  <2>3. /\ SubSeq(running, 1, KeptLen) \in Seq(Requests)
        /\ Len(SubSeq(running, 1, KeptLen)) = IF 1 <= KeptLen THEN KeptLen - 1 + 1 ELSE 0
        /\ \A i \in 1..(KeptLen - 1 + 1) : SubSeq(running, 1, KeptLen)[i] = running[1 + i - 1]
    BY <1>1, <1>2, <2>2, SubSeqFacts
  <2> QED  BY <2>1, <2>2, <2>3
<1>10. Current \in Victim => Dropped = L - plan.idx + 1
  <2> SUFFICES ASSUME Current \in Victim PROVE Dropped = L - plan.idx + 1
    OBVIOUS
  <2>1. PICK i \in (KeptLen + 1)..L : Current = running[i]  BY <1>8
  <2>2. i = plan.idx  BY <1>1, <1>7, <2>1 DEF Queued, NoRepeat, Current, KeptLen
  <2> QED  BY <1>1, <1>5, <2>2 DEF KeptLen
<1>11. Current \notin Victim => Dropped <= L - plan.idx
  <2> SUFFICES ASSUME Dropped > L - plan.idx PROVE Current \in Victim
    BY <1>1, <1>7
  <2>1. plan.idx \in (KeptLen + 1)..L  BY <1>1, <1>7 DEF KeptLen
  <2> QED  BY <1>8, <2>1 DEF Current
<1> DEFINE freed == [q \in Requests |-> IF q \in Victim THEN Preempted(req[q], FALSE) ELSE req[q]]
<1>12. /\ waiting' = Youngest(Dropped) \o waiting
       /\ Current \in Victim => req' = freed /\ plan' = StoppedPlan
       /\ Current \notin Victim =>
            /\ req' = [freed EXCEPT ![Current].blocks = @ + NeededBlocks, ![Current].spec = NoDraft]
            /\ plan' = PlacedPlan
  BY DEF ScheduleRunning, Victim, Dropped, Given, Current, NeededBlocks, StoppedPlan,
         PlacedPlan, PlanWith
<1>13. Victim \subseteq Requests  BY <1>1, <1>2, <1>7, <1>8 DEF KeptLen
<1>14. CASE Current \in Victim
  BY <1>1, <1>2, <1>4, <1>5, <1>6, <1>8, <1>9, <1>10, <1>12, <1>13, <1>14
<1>15. CASE Current \notin Victim
  <2>1. req' = [freed EXCEPT ![Current] = Placed(req[Current], NeededBlocks)]
    BY <1>2, <1>12, <1>15 DEF Placed
  <2> QED
    BY <1>1, <1>2, <1>4, <1>5, <1>6, <1>8, <1>9, <1>11, <1>12, <1>13, <1>15, <2>1
<1> QED  BY <1>14, <1>15

\* The request the waiting loop looks at, and what it would be given.
Candidate == NextWaiting
Offered == WaitingTokens(Candidate)
OfferedDrafts == IF Padded(Candidate) THEN Padding ELSE NoDraft
OfferedBlocks == NewBlocks(Candidate, 0, Offered)

\* A waiting request that is admitted.
Admitted(q, b) == [q EXCEPT !.status = "running", !.blocks = @ + b]

LEMMA AdmittedFacts ==
  ASSUME NEW P, Numbers(P), NEW q \in RequestOver(P), NEW b \in Nat
  PROVE  /\ Admitted(q, b) \in RequestOver(P)
         /\ Admitted(q, b).status = "running" /\ Admitted(q, b).blocks = q.blocks + b
         /\ Admitted(q, b).computed = q.computed /\ Admitted(q, b).spec = q.spec
         /\ Admitted(q, b).inFlight = q.inFlight /\ Admitted(q, b).stale = q.stale
         /\ Admitted(q, b).dropStale = q.dropStale /\ Admitted(q, b).chunk = q.chunk
         /\ Admitted(q, b).output = q.output
<1> DEFINE c == q.blocks + b
<1>1. c \in Nat /\ Admitted(q, b) = [q EXCEPT !.status = "running", !.blocks = c]
  BY DEF Admitted, RequestOver
<1> HIDE DEF c
<1>2. Admitted(q, b) \in RequestOver(P) /\ Admitted(q, b).blocks = c
  BY <1>1 DEF RequestOver
<1> QED  BY <1>1, <1>2 DEF RequestOver, c

AdmittingPlan(r, n, d, new, resumed) ==
  [plan EXCEPT !.idx = @ + 1, !.budget = @ - n, !.n[r] = n, !.spec[r] = d,
               !.new = new, !.resumed = resumed]

LEMMA AdmittingPlanFacts ==
  ASSUME NEW P, Numbers(P), SchedulerOver(P), NEW r \in Requests,
         NEW n \in 0..plan.budget, NEW d \in DraftOver(P),
         NEW new \in SUBSET Requests, NEW resumed \in SUBSET Requests
  PROVE  LET p == AdmittingPlan(r, n, d, new, resumed)
         IN  /\ p \in PlanOver(P)
             /\ p.idx = plan.idx + 1 /\ p.n[r] = n /\ p.spec[r] = d
             /\ \A q \in Requests : q # r => p.n[q] = plan.n[q] /\ p.spec[q] = plan.spec[q]
             /\ p.new = new /\ p.resumed = resumed /\ p.passed = plan.passed
<1> DEFINE p == AdmittingPlan(r, n, d, new, resumed)
<1>1. /\ plan \in PlanOver(P) /\ plan.idx \in Nat /\ plan.budget \in 0..TokenBudget
      /\ plan.n \in [Requests -> 0..TokenBudget] /\ plan.spec \in [Requests -> DraftOver(P)]
  BY PlanFacts
<1> DEFINE i == plan.idx + 1  b == plan.budget - n
           nn == [plan.n EXCEPT ![r] = n]  ss == [plan.spec EXCEPT ![r] = d]
<1>2. n \in 0..TokenBudget /\ b \in 0..TokenBudget /\ i \in Nat  BY <1>1, EngineFacts
<1>3. /\ nn \in [Requests -> 0..TokenBudget] /\ ss \in [Requests -> DraftOver(P)]
      /\ nn[r] = n /\ ss[r] = d
      /\ \A q \in Requests : q # r => nn[q] = plan.n[q] /\ ss[q] = plan.spec[q]
  BY <1>1, <1>2
<1>4. p = [plan EXCEPT !.idx = i, !.budget = b, !.n = nn, !.spec = ss,
                       !.new = new, !.resumed = resumed]
  BY <1>1 DEF AdmittingPlan, PlanOver
<1> HIDE DEF p, i, b, nn, ss
<1>5. /\ p \in PlanOver(P) /\ p.idx = i /\ p.n = nn /\ p.spec = ss
      /\ p.new = new /\ p.resumed = resumed /\ p.passed = plan.passed
  BY <1>1, <1>2, <1>3, <1>4 DEF PlanOver
<1> QED  BY <1>3, <1>5 DEF p, i

\* The candidate leaves the head of the queue it is in.
Popped ==
  \/ /\ skipped # <<>> /\ Candidate = skipped[1]
     /\ skipped' = Tail(skipped) /\ waiting' = waiting
  \/ /\ waiting # <<>> /\ Candidate = waiting[1]
     /\ waiting' = Tail(waiting) /\ skipped' = skipped

LEMMA PopFacts ==
  ASSUME waiting \in Seq(Requests), skipped \in Seq(Requests), MoreWaiting
  PROVE  /\ Candidate \in Requests
         /\ PopWaiting => /\ Popped
                          /\ waiting' \in Seq(Requests) /\ skipped' \in Seq(Requests)
<1>1. waiting # <<>> \/ skipped # <<>>  BY DEF MoreWaiting
<1>2. CASE skipped # <<>>
  <2>1. Candidate = skipped[1] /\ skipped[1] \in Requests /\ Tail(skipped) \in Seq(Requests)
    BY <1>2, TailFacts DEF Candidate, NextWaiting
  <2> QED  BY <1>2, <2>1 DEF PopWaiting, Popped
<1>3. CASE skipped = <<>>
  <2>1. Candidate = waiting[1] /\ waiting[1] \in Requests /\ Tail(waiting) \in Seq(Requests)
    BY <1>1, <1>3, TailFacts DEF Candidate, NextWaiting
  <2> QED  BY <1>1, <1>3, <2>1 DEF PopWaiting, Popped
<1> QED  BY <1>2, <1>3

LEMMA OfferedFacts ==
  ASSUME NEW P, Numbers(P), SchedulerOver(P), Candidate \in Requests,
         plan.budget > 0, CanAdmit(Candidate)
  PROVE  /\ Offered \in 1..plan.budget /\ OfferedDrafts \in DraftOver(P)
         /\ OfferedDrafts.after = 0
         /\ Padded(Candidate) => /\ Offered = NumSpec + 1 /\ NumTokens(Candidate) = 1
                                 /\ OfferedDrafts.len = NumSpec
         /\ ~Padded(Candidate) => Offered <= NumTokens(Candidate) /\ OfferedDrafts.len = 0
         /\ OfferedBlocks \in Nat /\ OfferedBlocks <= FreeBlocks
<1> DEFINE t == NumTokens(Candidate)  b == plan.budget
<1>1. t \in Nat /\ t > 0 /\ b \in Nat /\ b > 0 /\ NumSpec \in Nat
  BY RequestFacts, PlanFacts, EngineFacts
<1>2. Offered <= b /\ OfferedBlocks <= FreeBlocks
  BY DEF CanAdmit, Offered, OfferedBlocks
<1>3. Padded(Candidate) => Offered = NumSpec + 1 /\ t = 1
  BY DEF Padded, Offered, WaitingTokens
<1>4. ~Padded(Candidate) => Offered = Min({t, b})  BY DEF Offered, WaitingTokens
<1> HIDE DEF t, b
<1>5. Min({t, b}) \in Nat /\ Min({t, b}) > 0 /\ Min({t, b}) <= t  BY <1>1, Min2
<1>6. Offered \in 1..b /\ Offered \in Nat  BY <1>1, <1>2, <1>3, <1>4, <1>5
<1>7. OfferedBlocks \in Nat  BY <1>6, NewBlocksFacts DEF OfferedBlocks
<1>8. /\ OfferedDrafts \in DraftOver(P) /\ OfferedDrafts.after = 0
      /\ OfferedDrafts.len = IF Padded(Candidate) THEN NumSpec ELSE 0
  BY NoDraftType DEF OfferedDrafts, NoDraft, Padding
<1> QED  BY <1>2, <1>3, <1>4, <1>5, <1>6, <1>7, <1>8 DEF t, b

AdmittedPlan ==
  AdmittingPlan(Candidate, Offered, OfferedDrafts,
    IF req[Candidate].status = "waiting" THEN plan.new \union {Candidate} ELSE plan.new,
    IF req[Candidate].status = "waiting" THEN plan.resumed ELSE plan.resumed \union {Candidate})

LEMMA AdmitWaitingFacts ==
  ASSUME NEW P, Numbers(P), SchedulerOver(P), AdmitWaiting
  PROVE  /\ pc = "schedule" /\ ~MoreRunning /\ plan.budget > 0
         /\ Candidate \in Requests /\ CanAdmit(Candidate) /\ ~OwedOutput(Candidate)
         /\ Popped /\ waiting' \in Seq(Requests) /\ skipped' \in Seq(Requests)
         /\ running' = Append(running, Candidate)
         /\ req'[Candidate] = Admitted(req[Candidate], OfferedBlocks)
         /\ \A q \in Requests : q # Candidate => req'[q] = req[q]
         /\ req' = [q \in Requests |-> req'[q]]
         /\ plan' = AdmittedPlan
<1>1. waiting \in Seq(Requests) /\ skipped \in Seq(Requests) /\ req \in [Requests -> RequestOver(P)]
  BY DEF SchedulerOver
<1>2. MoreWaiting /\ PopWaiting /\ pc = "schedule"  BY DEF AdmitWaiting
<1>3. /\ Candidate \in Requests /\ Popped
      /\ waiting' \in Seq(Requests) /\ skipped' \in Seq(Requests)
  BY <1>1, <1>2, PopFacts
<1>4. CanAdmit(Candidate) /\ ~OwedOutput(Candidate) /\ running' = Append(running, Candidate)
  BY DEF AdmitWaiting, Candidate
<1>5. req' = [req EXCEPT ![Candidate].status = "running", ![Candidate].blocks = @ + OfferedBlocks]
  BY DEF AdmitWaiting, Candidate, OfferedBlocks, Offered
<1>6. req' = [req EXCEPT ![Candidate] = Admitted(req[Candidate], OfferedBlocks)]
  BY <1>1, <1>3, <1>5 DEF Admitted, RequestOver
<1>7. plan' = AdmittedPlan
  BY DEF AdmitWaiting, AdmittedPlan, AdmittingPlan, Candidate, Offered, OfferedDrafts
<1> QED  BY <1>1, <1>2, <1>3, <1>4, <1>6, <1>7 DEF MoreWaiting

---------------------------------------------------------------------------
(* Types are kept *)

LEMMA RanksKept ==
  ASSUME NEW P, RanksOver(P), UNCHANGED <<queue, ranks>>
  PROVE  RanksOver(P)'
BY DEF RanksOver, ranks

LEMMA AddRequestTyped ==
  ASSUME NEW P, Numbers(P), TypedOver(P), NEW r \in Requests, AddRequest(r)
  PROVE  TypedOver(P)'
<1>1. SchedulerOver(P) /\ RanksOver(P)  BY DEF TypedOver
<1>2. RanksOver(P)'  BY <1>1, RanksKept DEF AddRequest, engine
<1>3. req' \in [Requests -> RequestOver(P)]
  <2>1. req \in [Requests -> RequestOver(P)] /\ req[r] \in RequestOver(P)
    BY <1>1 DEF SchedulerOver
  <2>2. [req[r] EXCEPT !.status = "waiting"] \in RequestOver(P)  BY <2>1 DEF RequestOver
  <2>3. req' = [req EXCEPT ![r] = [req[r] EXCEPT !.status = "waiting"]]
    BY <2>1 DEF AddRequest
  <2> QED  BY <2>1, <2>2, <2>3
<1>4. waiting' \in Seq(Requests)  BY <1>1, AppendFacts DEF AddRequest, SchedulerOver
<1> QED  BY <1>1, <1>2, <1>3, <1>4 DEF AddRequest, SchedulerOver, TypedOver, engine

LEMMA AbortTyped ==
  ASSUME NEW P, Numbers(P), TypedOver(P), NEW r \in Requests, Abort(r)
  PROVE  TypedOver(P)'
<1>1. SchedulerOver(P) /\ RanksOver(P)  BY DEF TypedOver
<1>2. RanksOver(P)'  BY <1>1, RanksKept DEF Abort, engine
<1>3. req' \in [Requests -> RequestOver(P)]
  BY <1>1, FreedFacts DEF Abort, SchedulerOver
<1>4. running' \in Seq(Requests) /\ waiting' \in Seq(Requests) /\ skipped' \in Seq(Requests)
  BY <1>1, WithoutFacts DEF Abort, SchedulerOver
<1>5. finishedIds' \in SUBSET Requests  BY <1>1 DEF Abort, SchedulerOver
<1> QED  BY <1>1, <1>2, <1>3, <1>4, <1>5 DEF Abort, SchedulerOver, TypedOver, engine

LEMMA ResetRunningTyped ==
  ASSUME NEW P, Numbers(P), TypedOver(P), ResetRunning
  PROVE  TypedOver(P)'
<1>1. SchedulerOver(P) /\ RanksOver(P)  BY DEF TypedOver
<1>2. RanksOver(P)'  BY <1>1, RanksKept DEF ResetRunning, engine
<1>3. req' \in [Requests -> RequestOver(P)]
  <2>1. \A r \in Requests : Preempted(req[r], TRUE) \in RequestOver(P) /\ req[r] \in RequestOver(P)
    BY <1>1, PreemptedFacts, RequestFacts
  <2> QED  BY <2>1 DEF ResetRunning
<1>4. running' \in Seq(Requests) /\ waiting' \in Seq(Requests)
  BY <1>1, CatFacts, EmptyFacts DEF ResetRunning, SchedulerOver
<1>5. resets' \in 0..MaxResets  BY <1>1, EngineFacts DEF ResetRunning, SchedulerOver
<1> QED  BY <1>1, <1>2, <1>3, <1>4, <1>5 DEF ResetRunning, SchedulerOver, TypedOver, engine

LEMMA ScheduleRunningTyped ==
  ASSUME NEW P, Numbers(P), TypedOver(P), Queued, Planned, ScheduleRunning
  PROVE  TypedOver(P)'
<1>1. SchedulerOver(P) /\ RanksOver(P)  BY DEF TypedOver
<1>2. RanksOver(P)'  BY <1>1, RanksKept DEF ScheduleRunning
<1>3. /\ plan.idx \in 1..Len(running) /\ Current \in Requests /\ Given \in 1..plan.budget
      /\ Given + req[Current].computed <= NumTokens(Current) + req[Current].spec.len
      /\ Dropped \in 0..(Len(running) - plan.idx + 1) /\ NeededBlocks \in Nat
      /\ running' \in Seq(Requests) /\ waiting' = Youngest(Dropped) \o waiting
  BY <1>1, ScheduleRunningFacts
<1>4. /\ \A q \in Victim : req'[q] = Preempted(req[q], FALSE)
      /\ \A q \in Requests : q \notin Victim /\ q # Current => req'[q] = req[q]
      /\ req' = [q \in Requests |-> req'[q]]
      /\ Current \in Victim => plan' = StoppedPlan
      /\ Current \notin Victim =>
              /\ req'[Current] = Placed(req[Current], NeededBlocks)
              /\ plan' = PlacedPlan
  BY <1>1, ScheduleRunningFacts
<1>5. \A q \in Requests : req[q] \in RequestOver(P)  BY <1>1 DEF SchedulerOver
<1>6. \A q \in Requests : req'[q] \in RequestOver(P)
  <2> TAKE q \in Requests
  <2>1. CASE q \in Victim
    <3>1. Preempted(req[q], FALSE) \in RequestOver(P)  BY <1>5, PreemptedFacts
    <3> QED  BY <1>4, <2>1, <3>1
  <2>2. CASE q \notin Victim /\ q = Current  BY <1>3, <1>4, <1>5, <2>2, PlacedFacts
  <2>3. CASE q \notin Victim /\ q # Current  BY <1>4, <1>5, <2>3
  <2> QED  BY <2>1, <2>2, <2>3
<1>7. req' \in [Requests -> RequestOver(P)]  BY <1>4, <1>6
<1>8. waiting' \in Seq(Requests)
  <2>1. running \in Seq(Requests) /\ waiting \in Seq(Requests)
    BY <1>1 DEF SchedulerOver
  <2>2. Dropped \in 0..Len(running)  BY <1>3, <2>1
  <2>3. Youngest(Dropped) \in Seq(Requests)  BY <2>1, <2>2, YoungestFacts
  <2> QED  BY <1>3, <2>1, <2>3, CatFacts
<1>9. plan' \in PlanOver(P)
  <2>1. CASE Current \in Victim
    <3>1. plan \in PlanOver(P)  BY <1>1 DEF SchedulerOver
    <3>2. StoppedPlan \in PlanOver(P)  BY <3>1 DEF StoppedPlan, PlanOver
    <3> QED  BY <1>4, <2>1, <3>2
  <2>2. CASE Current \notin Victim
    <3>1. Given \in 0..plan.budget /\ Given \in Int /\ plan.budget \in Nat
      BY <1>1, <1>3, PlanFacts
    <3>2. ScheduledDrafts(Current, Given) \in DraftOver(P)
      BY <1>1, <1>3, <3>1, ScheduledDraftsFacts
    <3>3. /\ (plan.prefill \/ req[Current].chunk) \in BOOLEAN
          /\ (plan.preempted \/ Dropped > 0) \in BOOLEAN
      OBVIOUS
    <3>4. PlacedPlan \in PlanOver(P)
      BY <1>1, <1>3, <3>1, <3>2, <3>3, PlanWithFacts DEF PlacedPlan
    <3> QED  BY <1>4, <2>2, <3>4
  <2> QED  BY <2>1, <2>2
<1> QED
  BY <1>1, <1>2, <1>3, <1>7, <1>8, <1>9 DEF ScheduleRunning, SchedulerOver, TypedOver

LEMMA AdmitWaitingTyped ==
  ASSUME NEW P, Numbers(P), TypedOver(P), AdmitWaiting
  PROVE  /\ TypedOver(P)'
         /\ plan'.idx = plan.idx + 1 /\ plan'.n[Candidate] = Offered
         /\ plan'.spec[Candidate] = OfferedDrafts /\ plan'.passed = plan.passed
         /\ \A q \in Requests : q # Candidate => /\ plan'.n[q] = plan.n[q]
                                                 /\ plan'.spec[q] = plan.spec[q]
         /\ plan'.new = IF req[Candidate].status = "waiting" THEN plan.new \union {Candidate}
                        ELSE plan.new
<1>1. SchedulerOver(P) /\ RanksOver(P)  BY DEF TypedOver
<1>2. RanksOver(P)'  BY <1>1, RanksKept DEF AdmitWaiting
<1>3. /\ plan.budget > 0 /\ Candidate \in Requests /\ CanAdmit(Candidate)
      /\ waiting' \in Seq(Requests) /\ skipped' \in Seq(Requests)
      /\ running' = Append(running, Candidate)
      /\ req'[Candidate] = Admitted(req[Candidate], OfferedBlocks)
      /\ \A q \in Requests : q # Candidate => req'[q] = req[q]
      /\ req' = [q \in Requests |-> req'[q]]
      /\ plan' = AdmittedPlan
  BY <1>1, AdmitWaitingFacts
<1>4. Offered \in 1..plan.budget /\ OfferedDrafts \in DraftOver(P) /\ OfferedBlocks \in Nat
  BY <1>1, <1>3, OfferedFacts
<1>5. \A q \in Requests : req'[q] \in RequestOver(P)
  <2>1. \A q \in Requests : req[q] \in RequestOver(P)  BY <1>1 DEF SchedulerOver
  <2> QED  BY <1>3, <1>4, <2>1, AdmittedFacts
<1>6. req' \in [Requests -> RequestOver(P)]  BY <1>3, <1>5
<1>7. running' \in Seq(Requests)  BY <1>1, <1>3, AppendFacts DEF SchedulerOver
<1> DEFINE new == IF req[Candidate].status = "waiting" THEN plan.new \union {Candidate}
                  ELSE plan.new
           resumed == IF req[Candidate].status = "waiting" THEN plan.resumed
                      ELSE plan.resumed \union {Candidate}
<1>8. new \in SUBSET Requests /\ resumed \in SUBSET Requests  BY <1>1, <1>3, PlanFacts
<1>9. plan' = AdmittingPlan(Candidate, Offered, OfferedDrafts, new, resumed)
  BY <1>3 DEF AdmittedPlan
<1>10. Offered \in 0..plan.budget  BY <1>1, <1>4, PlanFacts
<1> HIDE DEF new, resumed
<1> DEFINE p == AdmittingPlan(Candidate, Offered, OfferedDrafts, new, resumed)
<1>11. /\ p \in PlanOver(P)
       /\ p.idx = plan.idx + 1 /\ p.n[Candidate] = Offered
       /\ p.spec[Candidate] = OfferedDrafts
       /\ \A q \in Requests : q # Candidate => p.n[q] = plan.n[q] /\ p.spec[q] = plan.spec[q]
       /\ p.new = new /\ p.passed = plan.passed
  BY <1>1, <1>3, <1>4, <1>8, <1>10, AdmittingPlanFacts
<1>12. plan' = p  BY <1>9
<1> HIDE DEF p
<1>13. /\ plan' \in PlanOver(P)
       /\ plan'.idx = plan.idx + 1 /\ plan'.n[Candidate] = Offered
       /\ plan'.spec[Candidate] = OfferedDrafts
       /\ \A q \in Requests : q # Candidate => /\ plan'.n[q] = plan.n[q]
                                               /\ plan'.spec[q] = plan.spec[q]
       /\ plan'.new = new /\ plan'.passed = plan.passed
  BY <1>11, <1>12
<1>14. TypedOver(P)'
  BY <1>1, <1>2, <1>3, <1>6, <1>7, <1>13 DEF AdmitWaiting, SchedulerOver, TypedOver
<1> QED  BY <1>13, <1>14 DEF new

LEMMA BeginScheduleTyped ==
  ASSUME NEW P, Numbers(P), TypedOver(P), BeginSchedule
  PROVE  TypedOver(P)'
<1>1. SchedulerOver(P) /\ RanksOver(P)  BY DEF TypedOver
<1>2. RanksOver(P)'  BY <1>1, RanksKept DEF BeginSchedule
<1>3. plan' \in PlanOver(P)  BY EmptyPlanType DEF BeginSchedule
<1> QED
  BY <1>1, <1>2, <1>3 DEF BeginSchedule, SchedulerOver, TypedOver, scheduler, queues

LEMMA PassRunningTyped ==
  ASSUME NEW P, Numbers(P), TypedOver(P), PassRunning
  PROVE  TypedOver(P)'
<1>1. SchedulerOver(P) /\ RanksOver(P)  BY DEF TypedOver
<1>2. RanksOver(P)'  BY <1>1, RanksKept DEF PassRunning
<1>3. plan' \in PlanOver(P)
  <2> DEFINE i == plan.idx + 1
  <2>1. plan \in PlanOver(P) /\ i \in Nat  BY <1>1, PlanFacts
  <2>2. plan' = [plan EXCEPT !.idx = i]  BY <2>1 DEF PassRunning, PlanOver
  <2> HIDE DEF i
  <2> QED  BY <2>1, <2>2 DEF PlanOver
<1> QED
  BY <1>1, <1>2, <1>3 DEF PassRunning, SchedulerOver, TypedOver, scheduler, queues

LEMMA RefuseWaitingTyped ==
  ASSUME NEW P, Numbers(P), TypedOver(P), RefuseWaiting
  PROVE  TypedOver(P)'
<1>1. SchedulerOver(P) /\ RanksOver(P)  BY DEF TypedOver
<1>2. RanksOver(P)'  BY <1>1, RanksKept DEF RefuseWaiting
<1>3. plan' \in PlanOver(P)
  <2>1. plan \in PlanOver(P)  BY <1>1, PlanFacts
  <2> QED  BY <2>1 DEF RefuseWaiting, PlanOver
<1> QED
  BY <1>1, <1>2, <1>3 DEF RefuseWaiting, SchedulerOver, TypedOver, scheduler, queues

LEMMA DrainQueueTyped ==
  ASSUME NEW P, Numbers(P), TypedOver(P), DrainQueue
  PROVE  TypedOver(P)'
<1>1. SchedulerOver(P) /\ RanksOver(P)  BY DEF TypedOver
<1>2. RanksOver(P)'  BY <1>1, RanksKept DEF DrainQueue
<1> QED
  BY <1>1, <1>2 DEF DrainQueue, SchedulerOver, TypedOver, scheduler, queues

\* A request that is passed over in the waiting loop goes to the end of plan.passed.
LEMMA PassWaitingFacts ==
  ASSUME NEW P, Numbers(P), TypedOver(P), PassWaiting
  PROVE  /\ pc = "schedule" /\ Candidate \in Requests /\ Popped
         /\ TypedOver(P)'
         /\ plan' = [plan EXCEPT !.passed = Append(plan.passed, Candidate)]
<1>1. SchedulerOver(P) /\ RanksOver(P)  BY DEF TypedOver
<1>2. RanksOver(P)'  BY <1>1, RanksKept DEF PassWaiting
<1>3. MoreWaiting /\ PopWaiting /\ pc = "schedule"  BY DEF PassWaiting
<1>4. waiting \in Seq(Requests) /\ skipped \in Seq(Requests)  BY <1>1 DEF SchedulerOver
<1>5. /\ Candidate \in Requests /\ Popped
      /\ waiting' \in Seq(Requests) /\ skipped' \in Seq(Requests)
  BY <1>3, <1>4, PopFacts
<1>6. plan' = [plan EXCEPT !.passed = Append(plan.passed, Candidate)]
  BY DEF PassWaiting, Candidate
<1>7. plan' \in PlanOver(P)
  <2>1. plan \in PlanOver(P) /\ plan.passed \in Seq(Requests)  BY <1>1, PlanFacts
  <2>2. Append(plan.passed, Candidate) \in Seq(Requests)  BY <1>5, <2>1, AppendFacts
  <2> QED  BY <1>6, <2>1, <2>2 DEF PlanOver
<1>8. TypedOver(P)'  BY <1>1, <1>2, <1>5, <1>7 DEF PassWaiting, SchedulerOver, TypedOver
<1> QED  BY <1>3, <1>5, <1>6, <1>8

LEMMA NewTokensType ==
  ASSUME NEW P, Numbers(P), SchedulerOver(P), NEW r \in Requests
  PROVE  NewTokens(r) \in Seq(TokenOver(P))
<1>1. /\ req[r].output \in Seq(TokenOver(P)) /\ Len(req[r].output) \in Nat
      /\ req[r].sent \in Nat /\ req[r].computed \in Int
      /\ NumTokens(r) = PromptLen[r] + Len(req[r].output)
      /\ NumTokens(r) \in Nat
  BY RequestFacts
<1>2. PromptLen[r] \in Nat  BY EngineFacts
<1>3. plan.n[r] \in Int /\ plan.spec[r].len \in Int
  <2>1. plan.n \in [Requests -> 0..TokenBudget] /\ plan.spec \in [Requests -> DraftOver(P)]
    BY PlanFacts
  <2>2. plan.n[r] \in 0..TokenBudget /\ plan.spec[r] \in DraftOver(P)  BY <2>1
  <2> QED  BY <2>2, EngineFacts DEF DraftOver
<1>4. SentEnd(r) \in Int  BY <1>1, <1>3 DEF SentEnd
<1>5. SentFrom(r) \in Int /\ SentFrom(r) >= PromptLen[r]
  BY <1>1, <1>2, Max2 DEF SentFrom
<1> DEFINE last == Min({SentEnd(r), NumTokens(r)})
           i == SentFrom(r) - PromptLen[r] + 1
           j == last - PromptLen[r]
<1>6. last \in Int /\ last <= NumTokens(r)
  <2>1. SentEnd(r) \in Int /\ NumTokens(r) \in Int  BY <1>1, <1>4
  <2> QED  BY <2>1, Min2
<1>7. NewTokens(r) = SubSeq(req[r].output, i, j)  BY DEF NewTokens
<1> HIDE DEF last
<1>8. i \in Nat /\ i >= 1 /\ j \in Int /\ j <= Len(req[r].output)
  <2> DEFINE l == Len(req[r].output)  p == PromptLen[r]
  <2>1. l \in Nat /\ p \in Nat /\ NumTokens(r) = p + l  BY <1>1, <1>2
  <2>2. SentFrom(r) \in Int /\ SentFrom(r) >= p  BY <1>5
  <2>3. last \in Int /\ last <= p + l  BY <1>6, <2>1
  <2> HIDE DEF l, p
  <2>4. i \in Nat /\ i >= 1  BY <2>1, <2>2 DEF p
  <2>5. j \in Int /\ j <= l  BY <2>1, <2>3 DEF p
  <2> QED  BY <2>4, <2>5 DEF l
<1> HIDE DEF i, j
<1> QED  BY <1>1, <1>7, <1>8, SubSeqFacts

LEMMA BatchInType ==
  ASSUME NEW P, Numbers(P), SchedulerOver(P)
  PROVE  Batch \in BatchOver(P)
<1>1. /\ plan.n \in [Requests -> 0..TokenBudget] /\ plan.spec \in [Requests -> DraftOver(P)]
      /\ plan.new \in SUBSET Requests /\ plan.resumed \in SUBSET Requests
      /\ finishedIds \in SUBSET Requests
  BY PlanFacts DEF SchedulerOver
<1>2. [r \in Requests |-> req[r].computed] \in [Requests -> P]  BY RequestFacts
<1>3. [r \in Requests |-> Len(req[r].output)] \in [Requests -> Nat]  BY RequestFacts
<1>4. [r \in Requests |-> IF r \in Known THEN NewTokens(r) ELSE <<>>]
        \in [Requests -> Seq(TokenOver(P))]
  BY NewTokensType, EmptyFacts
<1> QED  BY <1>1, <1>2, <1>3, <1>4 DEF Batch, BatchOver

LEMMA AdvancedFacts ==
  ASSUME NEW P, Numbers(P), NEW q \in RequestOver(P), NEW n \in Nat, NEW chunk \in BOOLEAN,
         NEW sent \in Nat
  PROVE  AdvancedFrom(q, Advanced(q, n, chunk, sent), P, n, chunk)
<1> DEFINE c == q.computed + n  f == q.inFlight + n
<1>1. c \in P /\ f \in P  BY NumbersFacts DEF RequestOver
<1>2. Advanced(q, n, chunk, sent) =
        [q EXCEPT !.computed = c, !.inFlight = f, !.chunk = chunk, !.sent = sent]
  BY DEF Advanced, RequestOver
<1> HIDE DEF c, f
<1>3. LET a == Advanced(q, n, chunk, sent)
      IN  /\ a \in RequestOver(P)
          /\ a.status = q.status /\ a.blocks = q.blocks /\ a.spec = q.spec
          /\ a.computed = c /\ a.inFlight = f
          /\ a.stale = q.stale /\ a.dropStale = q.dropStale
          /\ a.chunk = chunk /\ a.output = q.output
  BY <1>1, <1>2 DEF RequestOver
<1> QED  BY <1>3 DEF c, f, AdvancedFrom

LEMMA IssueBatchFacts ==
  ASSUME NEW P, Numbers(P), SchedulerOver(P), IssueBatch
  PROVE  /\ pc = "schedule" /\ queue' = Append(queue, Batch) /\ Batch \in BatchOver(P)
         /\ req' = [r \in Requests |-> req'[r]]
         /\ \A r \in Requests :
              /\ req'[r] \in RequestOver(P)
              /\ plan.n[r] = 0 => req'[r] = req[r]
              /\ plan.n[r] \in Nat
              /\ req'[r].status = req[r].status /\ req'[r].blocks = req[r].blocks
              /\ req'[r].spec = req[r].spec /\ req'[r].output = req[r].output
              /\ req'[r].computed = req[r].computed + plan.n[r]
              /\ req'[r].inFlight = req[r].inFlight + plan.n[r]
              /\ req'[r].stale = req[r].stale /\ req'[r].dropStale = req[r].dropStale
              /\ plan.n[r] > 0 =>
                   req'[r].chunk = (req[r].computed + plan.n[r] < NumTokens(r))
<1>1. queue' = Append(queue, Batch) /\ pc = "schedule"  BY DEF IssueBatch
<1>2. Batch \in BatchOver(P)  BY BatchInType
<1>3. req' = [r \in Requests |-> UpdatedAfterSchedule(r)]  BY DEF IssueBatch
<1>4. ASSUME NEW r \in Requests
      PROVE  /\ req'[r] \in RequestOver(P)
             /\ plan.n[r] = 0 => req'[r] = req[r]
             /\ plan.n[r] \in Nat
             /\ req'[r].status = req[r].status /\ req'[r].blocks = req[r].blocks
             /\ req'[r].spec = req[r].spec /\ req'[r].output = req[r].output
             /\ req'[r].computed = req[r].computed + plan.n[r]
             /\ req'[r].inFlight = req[r].inFlight + plan.n[r]
             /\ req'[r].stale = req[r].stale /\ req'[r].dropStale = req[r].dropStale
             /\ plan.n[r] > 0 =>
                  req'[r].chunk = (req[r].computed + plan.n[r] < NumTokens(r))
  <2> DEFINE n == plan.n[r]
             chunk == req[r].computed + n < NumTokens(r)
             sent == IF r \in Known THEN Max({SentFrom(r), SentEnd(r)}) ELSE req[r].sent
  <2>1. req[r] \in RequestOver(P) /\ req[r].computed \in Int /\ req[r].inFlight \in Int
    BY RequestFacts
  <2>2. n \in Nat
    <3>1. plan.n \in [Requests -> 0..TokenBudget]  BY PlanFacts
    <3> QED  BY <3>1
  <2>3. CASE n = 0
    <3>1. req'[r] = req[r]  BY <1>3, <2>3 DEF UpdatedAfterSchedule
    <3> QED  BY <2>1, <2>2, <2>3, <3>1
  <2>4. CASE n # 0
    <3>1. sent \in Nat
      <4>1. SentFrom(r) \in Nat
        <5>1. req[r].sent \in Nat /\ PromptLen[r] \in Nat  BY RequestFacts, EngineFacts
        <5> QED  BY <5>1, Max2 DEF SentFrom
      <4>2. SentEnd(r) \in Int
        <5>1. plan.spec \in [Requests -> DraftOver(P)]  BY PlanFacts
        <5>2. plan.spec[r] \in DraftOver(P)  BY <5>1
        <5>3. plan.spec[r].len \in Int  BY <5>2, EngineFacts DEF DraftOver
        <5> QED  BY <2>1, <2>2, <5>3 DEF SentEnd
      <4>3. Max({SentFrom(r), SentEnd(r)}) \in Nat  BY <4>1, <4>2, Max2
      <4>4. req[r].sent \in Nat  BY RequestFacts
      <4> QED  BY <4>3, <4>4
    <3>2. chunk \in BOOLEAN  OBVIOUS
    <3>3. req'[r] = Advanced(req[r], n, chunk, sent)
      BY <1>3, <2>1, <2>4 DEF UpdatedAfterSchedule, Advanced, RequestOver
    <3> HIDE DEF n, chunk, sent
    <3>4. AdvancedFrom(req[r], Advanced(req[r], n, chunk, sent), P, n, chunk)
      BY <2>1, <2>2, <3>1, <3>2, AdvancedFacts
    <3>5. AdvancedFrom(req[r], req'[r], P, n, chunk)  BY <3>3, <3>4
    <3> QED  BY <2>2, <2>4, <3>5 DEF n, chunk, AdvancedFrom
  <2> QED  BY <2>3, <2>4
<1>5. req' = [r \in Requests |-> req'[r]]  BY <1>3
<1> QED  BY <1>1, <1>2, <1>4, <1>5

LEMMA IssueBatchTyped ==
  ASSUME NEW P, Numbers(P), TypedOver(P), IssueBatch
  PROVE  TypedOver(P)'
<1>1. SchedulerOver(P) /\ RanksOver(P)  BY DEF TypedOver
<1>2. /\ queue' = Append(queue, Batch) /\ Batch \in BatchOver(P)
      /\ req' = [r \in Requests |-> req'[r]]
      /\ \A r \in Requests : req'[r] \in RequestOver(P)
  BY <1>1, IssueBatchFacts
<1>3. queue' \in Seq(BatchOver(P))  BY <1>1, <1>2, AppendFacts DEF RanksOver
<1>4. RanksOver(P)'  BY <1>1, <1>3 DEF IssueBatch, RanksOver, ranks
<1>5. req' \in [Requests -> RequestOver(P)]  BY <1>2
<1>6. skipped' \in Seq(Requests)
  <2>1. skipped \in Seq(Requests) /\ plan.passed \in Seq(Requests)
    BY <1>1, PlanFacts DEF SchedulerOver
  <2> QED  BY <2>1, CatFacts DEF IssueBatch
<1>7. plan' \in PlanOver(P)  BY EmptyPlanType DEF IssueBatch
<1>8. takeDrafts' \in BOOLEAN  BY DEF IssueBatch
<1>9. pc' \in {"inputs", "schedule", "collect", "post"} /\ finishedIds' = {}
  BY DEF IssueBatch
<1> QED
  BY <1>1, <1>4, <1>5, <1>6, <1>7, <1>8, <1>9 DEF IssueBatch, SchedulerOver, TypedOver

---------------------------------------------------------------------------
(* The ranks *)

LEMMA RanksFacts ==
  ASSUME NEW P, RanksOver(P)
  PROVE  /\ queue \in Seq(BatchOver(P)) /\ Len(queue) \in Nat
         /\ results \in Seq([Requests -> Seq(TokenOver(P))]) /\ Len(results) \in Nat
         /\ drafts \in [Requests -> DraftOver(P)]
         /\ executed \in [Ranks -> Nat] /\ \A k \in Ranks : executed[k] \in Nat
         /\ \A k \in Ranks : cached[k] \in SUBSET Requests /\ batchReqs[k] \in SUBSET Requests
         /\ \A k \in Ranks, r \in Requests : /\ history[k][r] \in Seq(TokenOver(P))
                                             /\ row[k][r] \in Seq(TokenOver(P))
<1>1. /\ queue \in Seq(BatchOver(P)) /\ results \in Seq([Requests -> Seq(TokenOver(P))])
      /\ drafts \in [Requests -> DraftOver(P)] /\ executed \in [Ranks -> Nat]
      /\ cached \in [Ranks -> SUBSET Requests] /\ batchReqs \in [Ranks -> SUBSET Requests]
      /\ history \in [Ranks -> [Requests -> Seq(TokenOver(P))]]
      /\ row \in [Ranks -> [Requests -> Seq(TokenOver(P))]]
  BY DEF RanksOver
<1>2. Len(queue) \in Nat /\ Len(results) \in Nat  BY <1>1
<1>3. \A k \in Ranks, r \in Requests : /\ history[k][r] \in Seq(TokenOver(P))
                                       /\ row[k][r] \in Seq(TokenOver(P))
  BY <1>1
<1>4. \A k \in Ranks : /\ cached[k] \in SUBSET Requests /\ batchReqs[k] \in SUBSET Requests
                       /\ executed[k] \in Nat
  BY <1>1
<1> QED  BY <1>1, <1>2, <1>3, <1>4

LEMMA BatchFacts ==
  ASSUME NEW P, Numbers(P), NEW b \in BatchOver(P), NEW r \in Requests
  PROVE  /\ b.n[r] \in Nat /\ b.n[r] <= TokenBudget /\ b.spec[r] \in DraftOver(P)
         /\ b.spec[r].len \in Nat /\ b.spec[r].len <= NumSpec
         /\ b.spec[r].after \in P /\ b.spec[r].after \in Int
         /\ b.computed[r] \in P /\ b.computed[r] \in Int
         /\ b.newTokens[r] \in Seq(TokenOver(P)) /\ b.numOutput[r] \in Nat
         /\ Base(b, r) = b.computed[r] + b.n[r] - b.spec[r].len /\ Base(b, r) \in Int
<1>1. /\ b.n[r] \in 0..TokenBudget /\ b.spec[r] \in DraftOver(P) /\ b.computed[r] \in P
      /\ b.newTokens[r] \in Seq(TokenOver(P)) /\ b.numOutput[r] \in Nat
  BY DEF BatchOver
<1>2. b.n[r] \in Nat /\ b.n[r] <= TokenBudget  BY <1>1, EngineFacts
<1>3. b.spec[r].len \in Nat /\ b.spec[r].len <= NumSpec /\ b.spec[r].after \in P
  BY <1>1, EngineFacts DEF DraftOver
<1>4. b.computed[r] \in Int /\ b.spec[r].after \in Int  BY <1>1, <1>3, NumbersFacts
<1>5. Base(b, r) = b.computed[r] + b.n[r] - b.spec[r].len  BY DEF Base
<1>6. Base(b, r) \in Int  BY <1>2, <1>3, <1>4, <1>5
<1> QED  BY <1>1, <1>2, <1>3, <1>4, <1>5, <1>6

LEMMA UpdatedHistoryType ==
  ASSUME NEW P, Numbers(P), RanksOver(P), NEW k \in Ranks, NEW b \in BatchOver(P),
         NEW r \in Requests
  PROVE  UpdatedHistory(k, b, r) \in Seq(TokenOver(P))
<1> DEFINE known == history[k][r]
           sent == b.newTokens[r]
           drop == Max({0, PromptLen[r] + Len(known) - (Base(b, r) - Len(sent))})
<1>1. known \in Seq(TokenOver(P)) /\ sent \in Seq(TokenOver(P)) /\ Base(b, r) \in Int
  BY RanksFacts, BatchFacts
<1>2. Len(known) \in Nat /\ Len(sent) \in Nat /\ b.numOutput[r] \in Nat
  BY <1>1, BatchFacts
<1>3. drop \in Nat
  <2> DEFINE x == PromptLen[r] + Len(known) - (Base(b, r) - Len(sent))
  <2>0. PromptLen[r] \in Int  BY EngineFacts
  <2> HIDE DEF known, sent
  <2>1. x \in Int  BY <1>1, <1>2, <2>0
  <2> HIDE DEF x
  <2>2. Max({0, x}) \in Nat  BY <2>1, Max2
  <2> QED  BY <2>2 DEF x
<1>4. SubSeq(sent, drop + 1, Len(sent)) \in Seq(TokenOver(P))
  <2> HIDE DEF drop, sent
  <2> QED  BY <1>1, <1>2, <1>3, SubSeqFacts
<1>5. SubSeq(known, 1, Min({Len(known), b.numOutput[r]})) \in Seq(TokenOver(P))
  <2> DEFINE m == Min({Len(known), b.numOutput[r]})
  <2> HIDE DEF known
  <2>1. m \in Int /\ m <= Len(known)  BY <1>2, Min2
  <2> HIDE DEF m
  <2>2. SubSeq(known, 1, m) \in Seq(TokenOver(P))  BY <1>1, <2>1, SubSeqFacts
  <2> QED  BY <2>2 DEF m
<1>6. UpdatedHistory(k, b, r) \in
        {<<>>, known, SubSeq(known, 1, Min({Len(known), b.numOutput[r]})),
         known \o SubSeq(sent, drop + 1, Len(sent))}
  BY DEF UpdatedHistory
<1>7. known \o SubSeq(sent, drop + 1, Len(sent)) \in Seq(TokenOver(P))
  BY <1>1, <1>4, CatFacts
<1>8. <<>> \in Seq(TokenOver(P))  BY EmptyFacts
<1> QED  BY <1>1, <1>5, <1>6, <1>7, <1>8, Zenon

LEMMA UpdatedRowType ==
  ASSUME NEW P, Numbers(P), RanksOver(P), NEW k \in Ranks, NEW b \in BatchOver(P),
         NEW r \in Requests
  PROVE  UpdatedRow(k, b, r) \in Seq(TokenOver(P))
<1> DEFINE state == UpdatedHistory(k, b, r)
           added == SubSeq(state, Len(history[k][r]) + 1, Len(state))
<1>1. state \in Seq(TokenOver(P)) /\ row[k][r] \in Seq(TokenOver(P))
  BY UpdatedHistoryType, RanksFacts
<1>2. Len(history[k][r]) \in Nat /\ Len(state) \in Nat  BY <1>1, RanksFacts
<1>3. added \in Seq(TokenOver(P))
  <2> HIDE DEF state
  <2> QED  BY <1>1, <1>2, SubSeqFacts
<1>4. UpdatedRow(k, b, r) \in {<<>>, state, row[k][r], row[k][r] \o added}
  BY DEF UpdatedRow
<1>5. row[k][r] \o added \in Seq(TokenOver(P)) /\ <<>> \in Seq(TokenOver(P))
  <2> HIDE DEF added
  <2> QED  BY <1>1, <1>3, CatFacts, EmptyFacts
<1> QED  BY <1>1, <1>4, <1>5, Zenon

LEMMA NextBatchType ==
  ASSUME NEW P, RanksOver(P), NEW k \in Ranks, executed[k] < Len(queue)
  PROVE  NextBatch(k) \in BatchOver(P) /\ executed[k] + 1 \in 1..Len(queue)
<1>1. queue \in Seq(BatchOver(P)) /\ executed[k] \in Nat /\ Len(queue) \in Nat
  BY RanksFacts
<1>2. executed[k] + 1 \in 1..Len(queue)  BY <1>1
<1> QED  BY <1>1, <1>2 DEF NextBatch

LEMMA UpdateStatesTyped ==
  ASSUME NEW P, Numbers(P), RanksOver(P), NEW k \in Ranks, NEW b \in BatchOver(P),
         UpdateStates(k, b)
  PROVE  /\ cached' \in [Ranks -> SUBSET Requests] /\ batchReqs' \in [Ranks -> SUBSET Requests]
         /\ executed' \in [Ranks -> Nat] /\ executed'[k] = executed[k] + 1
         /\ batchReqs'[k] = Scheduled(b)
         /\ \A l \in Ranks : l # k => /\ executed'[l] = executed[l]
                                      /\ batchReqs'[l] = batchReqs[l]
<1>1. /\ executed \in [Ranks -> Nat] /\ cached \in [Ranks -> SUBSET Requests]
      /\ batchReqs \in [Ranks -> SUBSET Requests]
  BY DEF RanksOver
<1>2. b.new \in SUBSET Requests /\ Scheduled(b) \in SUBSET Requests
  BY DEF BatchOver, Scheduled
<1>3. cached' \in [Ranks -> SUBSET Requests]  BY <1>1, <1>2 DEF UpdateStates
<1>4. batchReqs' \in [Ranks -> SUBSET Requests]  BY <1>1, <1>2 DEF UpdateStates
<1>5. executed' \in [Ranks -> Nat]  BY <1>1 DEF UpdateStates
<1>6. executed'[k] = executed[k] + 1 /\ batchReqs'[k] = Scheduled(b)
  BY <1>1 DEF UpdateStates
<1>7. \A l \in Ranks : l # k => executed'[l] = executed[l] /\ batchReqs'[l] = batchReqs[l]
  BY <1>1 DEF UpdateStates
<1> QED  BY <1>3, <1>4, <1>5, <1>6, <1>7

LEMMA ExecuteBatchFacts ==
  ASSUME NEW P, Numbers(P), TypedOver(P), Order, NEW k \in Ranks, ExecuteBatch(k)
  PROVE  /\ TypedOver(P)' /\ k # LastRank /\ executed[k] < Len(queue)
         /\ k > 1 => executed[k] < executed[k - 1]
         /\ executed'[k] = executed[k] + 1
         /\ \A l \in Ranks : l # k => executed'[l] = executed[l] /\ history'[l] = history[l]
                                      /\ batchReqs'[l] = batchReqs[l]
<1>1. SchedulerOver(P) /\ RanksOver(P)  BY DEF TypedOver
<1> DEFINE b == NextBatch(k)
<1>2. k # LastRank /\ executed[k] < Len(queue) /\ (k > 1 => executed[k] < executed[k - 1])
  BY DEF ExecuteBatch
<1>3. b \in BatchOver(P)  BY <1>1, <1>2, NextBatchType
<1>4. /\ UpdateStates(k, b)
      /\ history' = [history EXCEPT ![k] = [r \in Requests |->
             IF r \in b.finished THEN <<>> ELSE UpdatedHistory(k, b, r)]]
      /\ row' = [row EXCEPT ![k] = [r \in Requests |-> UpdatedRow(k, b, r)]]
  BY DEF ExecuteBatch, NextBatch
<1> HIDE DEF b
<1>5. /\ cached' \in [Ranks -> SUBSET Requests] /\ batchReqs' \in [Ranks -> SUBSET Requests]
      /\ executed' \in [Ranks -> Nat] /\ executed'[k] = executed[k] + 1
      /\ \A l \in Ranks : l # k => /\ executed'[l] = executed[l]
                                   /\ batchReqs'[l] = batchReqs[l]
  BY <1>1, <1>3, <1>4, UpdateStatesTyped
<1>6. /\ history \in [Ranks -> [Requests -> Seq(TokenOver(P))]]
      /\ row \in [Ranks -> [Requests -> Seq(TokenOver(P))]]
  BY <1>1 DEF RanksOver
<1>7. /\ history' \in [Ranks -> [Requests -> Seq(TokenOver(P))]]
      /\ \A l \in Ranks : l # k => history'[l] = history[l]
  <2> DEFINE h == [r \in Requests |-> IF r \in b.finished THEN <<>> ELSE UpdatedHistory(k, b, r)]
  <2>1. h \in [Requests -> Seq(TokenOver(P))]
    BY <1>1, <1>3, UpdatedHistoryType, EmptyFacts
  <2>2. history' = [history EXCEPT ![k] = h]  BY <1>4
  <2> HIDE DEF h
  <2> QED  BY <1>6, <2>1, <2>2
<1>8. row' \in [Ranks -> [Requests -> Seq(TokenOver(P))]]
  <2> DEFINE h == [r \in Requests |-> UpdatedRow(k, b, r)]
  <2>1. h \in [Requests -> Seq(TokenOver(P))]  BY <1>1, <1>3, UpdatedRowType
  <2>2. row' = [row EXCEPT ![k] = h]  BY <1>4
  <2> HIDE DEF h
  <2> QED  BY <1>6, <2>1, <2>2
<1>9. UNCHANGED <<scheduler, engine, results, drafts>>  BY DEF ExecuteBatch
<1>10. RanksOver(P)'  BY <1>1, <1>5, <1>7, <1>8, <1>9 DEF RanksOver, engine
<1>11. SchedulerOver(P)'  BY <1>1, <1>9 DEF SchedulerOver, scheduler, queues, engine
<1>12. TypedOver(P)'  BY <1>10, <1>11 DEF TypedOver
<1> QED  BY <1>2, <1>5, <1>7, <1>12

\* What the last rank samples and proposes, whatever it is.
LEMMA SampledTokensType ==
  ASSUME NEW P, Numbers(P), NEW b, NEW r, Base(b, r) \in P, NEW o \in SampledTokens(b, r)
  PROVE  /\ o \in Seq(TokenOver(P))
         /\ ~Samples(b, r) => o = <<>>
         /\ Samples(b, r) => /\ o # <<>>
                             /\ Len(o) <= (IF b.spec[r].after = 0 THEN 0 ELSE b.spec[r].len) + 1
                             /\ \A i \in 1..Len(o) : o[i][1] = Base(b, r) + i
<1>1. CASE ~Samples(b, r)  BY <1>1, EmptyFacts DEF SampledTokens
<1>2. CASE Samples(b, r)
  <2> DEFINE a == IF b.spec[r].after = 0 THEN 0 ELSE b.spec[r].len
  <2>1. PICK m \in 1..(a + 1) :
          o \in {[i \in 1..m |-> <<Base(b, r) + i, v[i]>>] : v \in [1..m -> Vocab]}
    BY <1>2 DEF SampledTokens
  <2>2. PICK v \in [1..m -> Vocab] : o = [i \in 1..m |-> <<Base(b, r) + i, v[i]>>]
    BY <2>1
  <2>3. m \in Nat /\ m >= 1 /\ m <= a + 1  BY <2>1
  <2> HIDE DEF a
  <2>4. \A i \in 1..m : <<Base(b, r) + i, v[i]>> \in TokenOver(P)
    <3> TAKE i \in 1..m
    <3>1. i \in Nat /\ v[i] \in Vocab  BY <2>2
    <3>2. Base(b, r) + i \in P  BY <3>1, NumbersFacts
    <3> QED  BY <3>1, <3>2 DEF TokenOver
  <2>5. o \in Seq(TokenOver(P)) /\ Len(o) = m  BY <2>2, <2>3, <2>4
  <2>6. \A i \in 1..m : o[i][1] = Base(b, r) + i  BY <2>2
  <2> QED  BY <1>2, <2>3, <2>5, <2>6 DEF a
<1> QED  BY <1>1, <1>2

LEMMA ProposedDraftsType ==
  ASSUME NEW P, Numbers(P), NEW b, NEW r, NEW o \in Seq(TokenOver(P)), Base(b, r) \in P,
         NEW d \in ProposedDrafts(b, r, o)
  PROVE  d \in DraftOver(P)
<1>1. CASE d = NoDraft  BY <1>1, NoDraftType
<1>2. CASE d # NoDraft
  <2>1. PICK m \in 1..NumSpec : d = [after |-> Base(b, r) + Len(o), len |-> m]
    BY <1>2 DEF ProposedDrafts
  <2>2. Base(b, r) + Len(o) \in P  BY NumbersFacts
  <2> QED  BY <2>1, <2>2, EngineFacts DEF DraftOver
<1> QED  BY <1>1, <1>2

LEMMA SampleBatchFacts ==
  ASSUME NEW P, Numbers(P), TypedOver(P), Order, SampleBatch, BaseIn(P, NextBatch(LastRank))
  PROVE  /\ TypedOver(P)' /\ executed[LastRank] < Len(queue)
         /\ executed[LastRank] < executed[LastRank - 1] /\ LastRank - 1 \in Ranks
         /\ executed'[LastRank] = executed[LastRank] + 1
         /\ \A l \in Ranks : l # LastRank => executed'[l] = executed[l]
         /\ batchReqs'[LastRank] = Scheduled(NextBatch(LastRank))
         /\ \E out \in [Requests -> Seq(TokenOver(P))] : Sampled(NextBatch(LastRank), out)
<1> DEFINE b == NextBatch(LastRank)
<1>1. SchedulerOver(P) /\ RanksOver(P)  BY DEF TypedOver
<1>2. LastRank \in Ranks /\ LastRank - 1 \in Ranks  BY EngineFacts DEF Ranks
<1>3. executed[LastRank] < executed[LastRank - 1] /\ executed[LastRank] < Len(queue)
  <2>1. executed[LastRank] < executed[LastRank - 1]  BY DEF SampleBatch
  <2>2. executed[LastRank - 1] <= Len(queue)  BY <1>2 DEF Order
  <2>3. /\ executed[LastRank] \in Nat /\ executed[LastRank - 1] \in Nat
        /\ Len(queue) \in Nat
    BY <1>1, <1>2, RanksFacts
  <2> QED  BY <2>1, <2>2, <2>3
<1>4. b \in BatchOver(P)  BY <1>1, <1>2, <1>3, NextBatchType
<1>5. PICK out \in {f \in [Requests -> UNION {SampledTokens(b, r) : r \in Requests}] :
                      \A r \in Requests : f[r] \in SampledTokens(b, r)} :
        \E d \in {f \in [Requests -> UNION {ProposedDrafts(b, r, out[r]) : r \in Requests}] :
                    \A r \in Requests : f[r] \in ProposedDrafts(b, r, out[r])} :
          /\ UpdateStates(LastRank, b)
          /\ history' = [history EXCEPT ![LastRank] = [r \in Requests |->
               IF r \in b.finished THEN <<>> ELSE UpdatedHistory(LastRank, b, r) \o out[r]]]
          /\ row' = [row EXCEPT ![LastRank] = [r \in Requests |->
               UpdatedRow(LastRank, b, r) \o out[r]]]
          /\ results' = Append(results, out)
          /\ drafts' = IF Scheduled(b) = {} THEN drafts ELSE d
  BY Zenon DEF SampleBatch, NextBatch
<1>6. PICK d \in {f \in [Requests -> UNION {ProposedDrafts(b, r, out[r]) : r \in Requests}] :
                    \A r \in Requests : f[r] \in ProposedDrafts(b, r, out[r])} :
        /\ UpdateStates(LastRank, b)
        /\ history' = [history EXCEPT ![LastRank] = [r \in Requests |->
               IF r \in b.finished THEN <<>> ELSE UpdatedHistory(LastRank, b, r) \o out[r]]]
        /\ row' = [row EXCEPT ![LastRank] = [r \in Requests |->
               UpdatedRow(LastRank, b, r) \o out[r]]]
        /\ results' = Append(results, out)
        /\ drafts' = IF Scheduled(b) = {} THEN drafts ELSE d
  BY <1>5
<1>7. /\ out = [r \in Requests |-> out[r]] /\ d = [r \in Requests |-> d[r]]
      /\ \A r \in Requests : out[r] \in SampledTokens(b, r)
      /\ \A r \in Requests : d[r] \in ProposedDrafts(b, r, out[r])
      /\ UpdateStates(LastRank, b)
      /\ history' = [history EXCEPT ![LastRank] = [r \in Requests |->
               IF r \in b.finished THEN <<>> ELSE UpdatedHistory(LastRank, b, r) \o out[r]]]
      /\ row' = [row EXCEPT ![LastRank] = [r \in Requests |->
               UpdatedRow(LastRank, b, r) \o out[r]]]
      /\ results' = Append(results, out)
      /\ drafts' = IF Scheduled(b) = {} THEN drafts ELSE d
  BY <1>6
<1> HIDE DEF b
<1>8. \A r \in Requests : Base(b, r) \in P  BY DEF BaseIn, b
<1>9. out \in [Requests -> Seq(TokenOver(P))]  BY <1>7, <1>8, SampledTokensType
<1>10. d \in [Requests -> DraftOver(P)]  BY <1>7, <1>8, <1>9, ProposedDraftsType
<1>11. /\ cached' \in [Ranks -> SUBSET Requests] /\ batchReqs' \in [Ranks -> SUBSET Requests]
      /\ executed' \in [Ranks -> Nat] /\ executed'[LastRank] = executed[LastRank] + 1
      /\ batchReqs'[LastRank] = Scheduled(b)
      /\ \A l \in Ranks : l # LastRank => executed'[l] = executed[l]
  BY <1>1, <1>2, <1>4, <1>7, UpdateStatesTyped
<1>12. /\ history \in [Ranks -> [Requests -> Seq(TokenOver(P))]]
       /\ row \in [Ranks -> [Requests -> Seq(TokenOver(P))]]
       /\ results \in Seq([Requests -> Seq(TokenOver(P))])
       /\ drafts \in [Requests -> DraftOver(P)]
  BY <1>1 DEF RanksOver
<1>13. /\ history' \in [Ranks -> [Requests -> Seq(TokenOver(P))]]
       /\ \A r \in Requests : history'[LastRank][r] =
            IF r \in b.finished THEN <<>> ELSE UpdatedHistory(LastRank, b, r) \o out[r]
  <2> DEFINE h == [r \in Requests |->
                     IF r \in b.finished THEN <<>> ELSE UpdatedHistory(LastRank, b, r) \o out[r]]
  <2>1. h \in [Requests -> Seq(TokenOver(P))]
    <3> SUFFICES ASSUME NEW r \in Requests
                 PROVE  UpdatedHistory(LastRank, b, r) \o out[r] \in Seq(TokenOver(P))
      BY EmptyFacts
    <3>1. UpdatedHistory(LastRank, b, r) \in Seq(TokenOver(P))
      BY <1>1, <1>2, <1>4, UpdatedHistoryType
    <3> QED  BY <1>9, <3>1, CatFacts
  <2>2. history' = [history EXCEPT ![LastRank] = h]  BY <1>7
  <2>3. \A r \in Requests : h[r] =
            IF r \in b.finished THEN <<>> ELSE UpdatedHistory(LastRank, b, r) \o out[r]
    OBVIOUS
  <2> HIDE DEF h
  <2> QED  BY <1>2, <1>12, <2>1, <2>2, <2>3
<1>14. /\ row' \in [Ranks -> [Requests -> Seq(TokenOver(P))]]
       /\ \A r \in Requests : row'[LastRank][r] = UpdatedRow(LastRank, b, r) \o out[r]
  <2> DEFINE h == [r \in Requests |-> UpdatedRow(LastRank, b, r) \o out[r]]
  <2>1. h \in [Requests -> Seq(TokenOver(P))]
    <3> SUFFICES ASSUME NEW r \in Requests
                 PROVE  UpdatedRow(LastRank, b, r) \o out[r] \in Seq(TokenOver(P))
      OBVIOUS
    <3>1. UpdatedRow(LastRank, b, r) \in Seq(TokenOver(P))
      BY <1>1, <1>2, <1>4, UpdatedRowType
    <3> QED  BY <1>9, <3>1, CatFacts
  <2>2. row' = [row EXCEPT ![LastRank] = h]  BY <1>7
  <2>3. \A r \in Requests : h[r] = UpdatedRow(LastRank, b, r) \o out[r]  OBVIOUS
  <2> HIDE DEF h
  <2> QED  BY <1>2, <1>12, <2>1, <2>2, <2>3
<1>15. results' \in Seq([Requests -> Seq(TokenOver(P))])
  BY <1>7, <1>9, <1>12, AppendFacts
<1>16. drafts' \in [Requests -> DraftOver(P)]  BY <1>7, <1>10, <1>12
<1>17. UNCHANGED <<scheduler, engine>>  BY DEF SampleBatch
<1>18. RanksOver(P)'
  BY <1>1, <1>11, <1>13, <1>14, <1>15, <1>16, <1>17 DEF RanksOver, engine
<1>19. SchedulerOver(P)'  BY <1>1, <1>17 DEF SchedulerOver, scheduler, queues, engine
<1>20. TypedOver(P)'  BY <1>18, <1>19 DEF TypedOver
<1>21. Scheduled(b) # {} => \A r \in Requests : drafts'[r] \in ProposedDrafts(b, r, out[r])
  BY <1>7
<1>22. Scheduled(b) = {} => drafts' = drafts  BY <1>7
<1>23. Sampled(b, out)  BY <1>7, <1>13, <1>14, <1>21, <1>22 DEF Sampled
<1> QED  BY <1>2, <1>3, <1>9, <1>11, <1>20, <1>23 DEF b

---------------------------------------------------------------------------
(* update_from_output *)

LEMMA KeptFacts ==
  ASSUME NEW T, NEW r, NEW o \in Seq(T)
  PROVE  /\ Kept(r, o) \in Seq(T)
         /\ Len(Kept(r, o)) <= Len(o)
         /\ \A i \in 1..Len(Kept(r, o)) : Kept(r, o)[i] = o[i]
         /\ Stops(r, o) = {} => Kept(r, o) = o
<1> DEFINE m == Min(Stops(r, o))
<1>1. CASE Stops(r, o) = {}  BY <1>1 DEF Kept
<1>2. CASE Stops(r, o) # {}
  <2>1. m \in Stops(r, o)
    <3>1. SomeNats(Stops(r, o))  BY <1>2 DEF Stops, SomeNats
    <3> QED  BY <3>1, MinOfNat
  <2>2. m \in Nat /\ m >= 1 /\ m <= Len(o)  BY <2>1 DEF Stops
  <2>3. Kept(r, o) = SubSeq(o, 1, m)  BY <1>2 DEF Kept
  <2> HIDE DEF m
  <2>4. /\ SubSeq(o, 1, m) \in Seq(T) /\ Len(SubSeq(o, 1, m)) = m
        /\ \A i \in 1..m : SubSeq(o, 1, m)[i] = o[i]
    BY <2>2, SubSeqFacts
  <2> QED  BY <1>2, <2>2, <2>3, <2>4
<1> QED  BY <1>1, <1>2

LEMMA AfterOutputFacts ==
  ASSUME NEW P, Numbers(P), SchedulerOver(P), NEW b \in BatchOver(P), NEW r \in Requests,
         NEW o \in Seq(TokenOver(P)), CountersIn(P, b, r, o)
  PROVE  /\ AfterOutput(b, r, o) \in RequestOver(P)
         /\ Processed(AfterOutput(b, r, o), b, r, o)
<1> DEFINE n == req[r].inFlight - b.n[r]
           s == StaleLeft(b, r)
           c == ComputedAfter(b, r, o)
           w == req[r].output \o Kept(r, o)
           ret == Returned(req[r], n, s, c)
           del == [ret EXCEPT !.output = w]
<1>1. n \in P /\ s \in P /\ c \in P  BY DEF CountersIn
<1>2. req[r] \in RequestOver(P) /\ req[r].output \in Seq(TokenOver(P))  BY RequestFacts
<1>3. w \in Seq(TokenOver(P))
  <2>1. Kept(r, o) \in Seq(TokenOver(P))  BY KeptFacts
  <2> QED  BY <1>2, <2>1, CatFacts
<1>4. AfterOutput(b, r, o) = IF Discards(r) THEN ret
                             ELSE IF Stops(r, o) # {} THEN Freed(del) ELSE del
  <2>1. ret = [req[r] EXCEPT !.inFlight = @ - b.n[r], !.stale = StaleLeft(b, r),
                 !.computed = IF RollsBack(r) THEN @ - Rejected(b, r, o) ELSE @]
    BY <1>2 DEF Returned, ComputedAfter, RequestOver
  <2>2. del = [ret EXCEPT !.output = @ \o Kept(r, o)]  BY <1>2 DEF Returned, RequestOver
  <2> HIDE DEF ret, del
  <2> QED  BY <2>1, <2>2 DEF AfterOutput, Discards
<1> HIDE DEF n, s, c, w
<1>5. /\ ret \in RequestOver(P) /\ ret.inFlight = n /\ ret.stale = s /\ ret.computed = c
      /\ ret.spec = req[r].spec /\ ret.dropStale = req[r].dropStale
      /\ ret.chunk = req[r].chunk /\ ret.output = req[r].output
      /\ ret.status = req[r].status /\ ret.blocks = req[r].blocks
  BY <1>1, <1>2 DEF Returned, RequestOver
<1>6. /\ del \in RequestOver(P) /\ del.inFlight = n /\ del.stale = s /\ del.computed = c
      /\ del.spec = req[r].spec /\ del.dropStale = req[r].dropStale
      /\ del.chunk = req[r].chunk /\ del.output = w
      /\ del.status = req[r].status /\ del.blocks = req[r].blocks
  <2> HIDE DEF ret
  <2> QED  BY <1>3, <1>5 DEF RequestOver
<1> HIDE DEF ret, del
<1>7. /\ Freed(del) \in RequestOver(P) /\ Freed(del).status = "finished"
      /\ Freed(del).blocks = 0 /\ Freed(del).inFlight = n /\ Freed(del).stale = s
      /\ Freed(del).computed = c /\ Freed(del).output = w
      /\ Freed(del).spec = req[r].spec /\ Freed(del).dropStale = req[r].dropStale
      /\ Freed(del).chunk = req[r].chunk
  BY <1>6 DEF Freed, RequestOver
<1>8. CASE Discards(r)  BY <1>4, <1>5, <1>8 DEF Processed, n, s, c
<1>9. CASE ~Discards(r) /\ Stops(r, o) # {}
  BY <1>4, <1>7, <1>9 DEF Processed, n, s, c, w
<1>10. CASE ~Discards(r) /\ Stops(r, o) = {}
  BY <1>4, <1>6, <1>10 DEF Processed, n, s, c, w
<1> QED  BY <1>8, <1>9, <1>10

LEMMA UpdateFromOutputFacts ==
  ASSUME NEW P, Numbers(P), TypedOver(P), Order, UpdateFromOutput, OldestIn(P)
  PROVE  /\ TypedOver(P)' /\ pc = "collect" /\ pc' = "post"
         /\ Len(queue) >= 1 /\ Len(results) >= 1 /\ Oldest \in BatchOver(P)
         /\ \A r \in Requests : OldestOutput(r) \in Seq(TokenOver(P))
         /\ queue' = Tail(queue) /\ results' = Tail(results)
         /\ \A k \in Ranks : executed'[k] = executed[k] - 1
         /\ \A r \in Requests : Updated(r) => Processed(req'[r], Oldest, r, OldestOutput(r))
         /\ \A r \in Requests : ~Updated(r) => req'[r] = req[r]
         /\ running' = Without(running, Stopped) /\ waiting' = Without(waiting, Stopped)
         /\ skipped' = Without(skipped, Stopped)
         /\ finishedIds' = finishedIds \union Stopped
         /\ UNCHANGED <<resets, plan, takeDrafts, drafts, cached, batchReqs, history, row>>
<1>1. SchedulerOver(P) /\ RanksOver(P)  BY DEF TypedOver
<1>2. /\ queue \in Seq(BatchOver(P)) /\ results \in Seq([Requests -> Seq(TokenOver(P))])
      /\ Len(queue) \in Nat /\ Len(results) \in Nat
      /\ \A k \in Ranks : executed[k] \in Nat
  BY <1>1, RanksFacts
<1>3. results # <<>> /\ pc = "collect" /\ pc' = "post"  BY DEF UpdateFromOutput
<1>4. Len(results) >= 1 /\ Len(queue) >= 1 /\ \A k \in Ranks : executed[k] >= 1
  <2>1. Len(results) >= 1  BY <1>2, <1>3, TailFacts
  <2>2. LastRank \in Ranks /\ \A k \in Ranks : k <= LastRank  BY EngineFacts DEF Ranks
  <2>3. Len(results) = executed[LastRank] /\ executed[LastRank] <= Len(queue)
    BY <2>2 DEF Order
  <2>4. \A k \in Ranks : executed[LastRank] <= executed[k]  BY <2>2 DEF Order
  <2> QED  BY <1>2, <2>1, <2>2, <2>3, <2>4
<1>5. /\ Head(queue) = Oldest /\ Oldest \in BatchOver(P)
      /\ Tail(queue) \in Seq(BatchOver(P))
  <2>1. queue # <<>>  BY <1>2, <1>4
  <2> QED  BY <1>2, <2>1, TailFacts DEF Oldest
<1>6. /\ Head(results) = results[1] /\ results[1] \in [Requests -> Seq(TokenOver(P))]
      /\ Tail(results) \in Seq([Requests -> Seq(TokenOver(P))])
  BY <1>2, <1>3, TailFacts
<1>7. \A r \in Requests : OldestOutput(r) \in Seq(TokenOver(P))
  BY <1>6 DEF OldestOutput
<1>8. /\ req' = [r \in Requests |->
             IF Updated(r) THEN AfterOutput(Oldest, r, OldestOutput(r)) ELSE req[r]]
      /\ running' = Without(running, Stopped) /\ waiting' = Without(waiting, Stopped)
      /\ skipped' = Without(skipped, Stopped)
      /\ finishedIds' = finishedIds \union Stopped
  <2> DEFINE after == [r \in Requests |->
                 IF Updated(r) THEN AfterOutput(Oldest, r, OldestOutput(r)) ELSE req[r]]
             gone == {r \in Requests : Live(r) /\ after[r].status = "finished"}
  <2>1. /\ req' = after
        /\ running' = Without(running, gone) /\ waiting' = Without(waiting, gone)
        /\ skipped' = Without(skipped, gone)
        /\ finishedIds' = finishedIds \union gone
    BY <1>5, <1>6 DEF UpdateFromOutput, Updated, OldestOutput
  <2> HIDE DEF after
  <2>2. gone = Stopped  BY <2>1 DEF Stopped
  <2> HIDE DEF gone
  <2> QED  BY <2>1, <2>2 DEF after
<1>9. ASSUME NEW r \in Requests, Updated(r)
      PROVE  /\ AfterOutput(Oldest, r, OldestOutput(r)) \in RequestOver(P)
             /\ Processed(AfterOutput(Oldest, r, OldestOutput(r)), Oldest, r, OldestOutput(r))
  <2>1. CountersIn(P, Oldest, r, OldestOutput(r))  BY <1>9 DEF OldestIn
  <2> QED  BY <1>1, <1>5, <1>7, <2>1, AfterOutputFacts
<1>10. \A r \in Requests : Updated(r) => Processed(req'[r], Oldest, r, OldestOutput(r))
  BY <1>8, <1>9
<1>11. \A r \in Requests : ~Updated(r) => req'[r] = req[r]  BY <1>8
<1>12. req' \in [Requests -> RequestOver(P)]
  <2>1. \A r \in Requests : req[r] \in RequestOver(P)  BY <1>1, RequestFacts
  <2> QED  BY <1>8, <1>9, <2>1
<1>13. running' \in Seq(Requests) /\ waiting' \in Seq(Requests) /\ skipped' \in Seq(Requests)
  <2>1. running \in Seq(Requests) /\ waiting \in Seq(Requests) /\ skipped \in Seq(Requests)
    BY <1>1 DEF SchedulerOver
  <2> QED  BY <1>8, <2>1, WithoutFacts
<1>14. finishedIds' \in SUBSET Requests
  <2>1. finishedIds \in SUBSET Requests /\ Stopped \in SUBSET Requests
    BY <1>1 DEF SchedulerOver, Stopped
  <2> QED  BY <1>8, <2>1
<1>15. /\ queue' = Tail(queue) /\ results' = Tail(results)
       /\ executed' = [k \in Ranks |-> executed[k] - 1]
       /\ UNCHANGED <<resets, plan, takeDrafts, drafts, cached, batchReqs, history, row>>
  BY DEF UpdateFromOutput
<1>16. executed' \in [Ranks -> Nat] /\ \A k \in Ranks : executed'[k] = executed[k] - 1
  <2>1. \A k \in Ranks : executed[k] - 1 \in Nat  BY <1>2, <1>4
  <2> QED  BY <1>15, <2>1
<1>17. RanksOver(P)'  BY <1>1, <1>5, <1>6, <1>15, <1>16 DEF RanksOver
<1>18. SchedulerOver(P)'  BY <1>1, <1>3, <1>12, <1>13, <1>14, <1>15 DEF SchedulerOver
<1>19. TypedOver(P)'  BY <1>17, <1>18 DEF TypedOver
<1> QED
  BY <1>3, <1>4, <1>5, <1>7, <1>8, <1>10, <1>11, <1>15, <1>16, <1>19

LEMMA PostStepFacts ==
  ASSUME NEW P, Numbers(P), TypedOver(P), PostStep
  PROVE  /\ TypedOver(P)' /\ pc = "post" /\ pc' = "inputs" /\ takeDrafts' = FALSE
         /\ takeDrafts => DraftsReady
         /\ UNCHANGED <<queues, finishedIds, resets, plan, queue, ranks>>
         /\ \A r \in Requests :
              /\ Fetched(r) => req'[r] = Drafted(req[r], FetchedDrafts(r))
              /\ ~Fetched(r) => req'[r] = req[r]
              /\ req'[r].status = req[r].status /\ req'[r].output = req[r].output
              /\ req'[r].computed = req[r].computed /\ req'[r].inFlight = req[r].inFlight
              /\ req'[r].stale = req[r].stale /\ req'[r].dropStale = req[r].dropStale
              /\ req'[r].chunk = req[r].chunk /\ req'[r].blocks = req[r].blocks
              /\ req'[r].spec = IF Fetched(r) THEN FetchedDrafts(r) ELSE req[r].spec
<1>1. SchedulerOver(P) /\ RanksOver(P)  BY DEF TypedOver
<1>2. /\ pc = "post" /\ pc' = "inputs" /\ takeDrafts' = FALSE
      /\ UNCHANGED <<queues, finishedIds, resets, plan, queue, ranks>>
      /\ takeDrafts => DraftsReady
  BY DEF PostStep
<1>3. req' = [r \in Requests |->
                IF Fetched(r) THEN Drafted(req[r], FetchedDrafts(r)) ELSE req[r]]
  <2>1. req = [r \in Requests |-> req[r]]  BY <1>1 DEF SchedulerOver
  <2>2. CASE takeDrafts
    BY <2>2 DEF PostStep, UpdatedDrafts, Fetched, Drafted, FetchedDrafts
  <2>3. CASE ~takeDrafts
    <3>1. req' = req  BY <2>3 DEF PostStep
    <3> QED  BY <2>1, <2>3, <3>1 DEF Fetched
  <2> QED  BY <2>2, <2>3
<1>4. ASSUME NEW r \in Requests
      PROVE  /\ req'[r] \in RequestOver(P)
             /\ Fetched(r) => req'[r] = Drafted(req[r], FetchedDrafts(r))
             /\ ~Fetched(r) => req'[r] = req[r]
             /\ req'[r].status = req[r].status /\ req'[r].output = req[r].output
             /\ req'[r].computed = req[r].computed /\ req'[r].inFlight = req[r].inFlight
             /\ req'[r].stale = req[r].stale /\ req'[r].dropStale = req[r].dropStale
             /\ req'[r].chunk = req[r].chunk /\ req'[r].blocks = req[r].blocks
             /\ req'[r].spec = IF Fetched(r) THEN FetchedDrafts(r) ELSE req[r].spec
  <2>1. req[r] \in RequestOver(P)  BY <1>1, RequestFacts
  <2>2. FetchedDrafts(r) \in DraftOver(P)
    BY <1>1, NoDraftType DEF FetchedDrafts, RanksOver
  <2>3. CASE Fetched(r)  BY <1>3, <2>1, <2>2, <2>3 DEF Drafted, RequestOver
  <2>4. CASE ~Fetched(r)  BY <1>3, <2>1, <2>4
  <2> QED  BY <2>3, <2>4
<1>5. req' \in [Requests -> RequestOver(P)]
  <2>1. req' = [r \in Requests |-> req'[r]]  BY <1>3
  <2> QED  BY <1>4, <2>1
<1>6. RanksOver(P)'  BY <1>1, <1>2, RanksKept
<1>7. SchedulerOver(P)'  BY <1>1, <1>2, <1>5 DEF SchedulerOver, queues
<1>8. TypedOver(P)'  BY <1>6, <1>7 DEF TypedOver
<1> QED  BY <1>2, <1>4, <1>8

---------------------------------------------------------------------------
(* The queues, without some of their requests *)

LEMMA InWithout ==
  ASSUME NEW s \in Seq(Requests), NEW S
  PROVE  /\ \A x : In(x, Without(s, S)) => In(x, s) /\ x \notin S
         /\ NoRepeat(s) => NoRepeat(Without(s, S))
<1> DEFINE w == Without(s, S)
<1>1. From(w, s, Len(s), S) /\ (NoRepeat(s) => NoRepeat(w))  BY WithoutFacts
<1> HIDE DEF w
<1>2. \A x : In(x, w) => In(x, s) /\ x \notin S  BY <1>1 DEF From, In
<1> QED  BY <1>1, <1>2 DEF w

---------------------------------------------------------------------------
(* The shape of the state: queues, plan and batches in step with each other *)

LEMMA EmptyPlanFacts ==
  /\ EmptyPlan.idx = 1 /\ EmptyPlan.new = {} /\ EmptyPlan.passed = <<>>
  /\ \A r \in Requests : EmptyPlan.n[r] = 0 /\ EmptyPlan.spec[r] = NoDraft
BY DEF EmptyPlan

LEMMA EmptyPlanned ==
  ASSUME plan' = EmptyPlan, running' \in Seq(Requests)
  PROVE  Planned'
<1>1. 1 \in 1..(Len(running') + 1)  OBVIOUS
<1> QED  BY <1>1, EmptyPlanFacts DEF Planned

LEMMA InitShape ==
  ASSUME Init
  PROVE  Shape
<1>1. Order  BY EngineFacts, EmptyFacts DEF Init, Order
<1>2. Queued  BY InEmpty, EmptyPlanFacts DEF Init, Queued, WaitingQueue, Only, Apart
<1>3. Planned  BY EmptyPlanFacts, EmptyFacts DEF Init, Planned
<1>4. AtRest  BY EmptyFacts DEF Init, AtRest, NewRequest
<1>5. Announced  BY EmptyFacts DEF Init, Announced
<1> QED  BY <1>1, <1>2, <1>3, <1>4, <1>5 DEF Shape

LEMMA OrderKept ==
  ASSUME Order, UNCHANGED <<executed, queue, results>>, (pc' = "collect") <=> (pc = "collect")
  PROVE  Order'
BY DEF Order

LEMMA AnnouncedKept ==
  ASSUME Announced, queue' = queue, finishedIds' \subseteq finishedIds,
         \A r \in Requests : req[r].status = "finished" => req'[r].status = "finished"
  PROVE  Announced'
BY DEF Announced

LEMMA QueuedKept ==
  ASSUME Queued, UNCHANGED queues, plan'.passed = plan.passed,
         \A r \in Requests : req'[r].status = req[r].status
  PROVE  Queued'
BY DEF Queued, queues, WaitingQueue, Only, Apart

LEMMA AtRestKept ==
  ASSUME AtRest, queue' = queue, req' = req
  PROVE  AtRest'
BY DEF AtRest

LEMMA AddRequestShape ==
  ASSUME TypedOver(Int), Shape, NEW r \in Requests, AddRequest(r)
  PROVE  /\ Shape'
         /\ pc = "inputs" /\ req[r] = NewRequest
         /\ \A q \in Requests : q # r => req'[q] = req[q]
         /\ req'[r] = [NewRequest EXCEPT !.status = "waiting"]
<1> USE DEF Shape
<1>1. /\ pc = "inputs" /\ req[r].status = "new"
      /\ req' = [req EXCEPT ![r].status = "waiting"] /\ waiting' = Append(waiting, r)
      /\ UNCHANGED <<running, skipped, finishedIds, resets, engine, ranks>>
  BY DEF AddRequest
<1>2. req \in [Requests -> RequestOver(Int)] /\ waiting \in Seq(Requests)
  BY DEF TypedOver, SchedulerOver
<1>3. req[r] = NewRequest  BY <1>1 DEF AtRest
<1>4. /\ \A q \in Requests : q # r => req'[q] = req[q]
      /\ req'[r] = [NewRequest EXCEPT !.status = "waiting"]
  BY <1>1, <1>2, <1>3
<1>5. req'[r].status = "waiting" /\ req'[r].output = <<>> /\ req'[r].computed = 0
  BY <1>4 DEF NewRequest
<1>6. Order'  BY <1>1, OrderKept DEF engine, ranks
<1>7. Queued'
  <2>1. ~In(r, running) /\ ~In(r, waiting) /\ ~In(r, skipped) /\ ~In(r, plan.passed)
    BY <1>1 DEF Queued, WaitingQueue, Only
  <2>2. /\ \A x : In(x, waiting') <=> In(x, waiting) \/ x = r
        /\ NoRepeat(waiting) => NoRepeat(waiting')
    BY <1>1, <1>2, <2>1, InAppend
  <2>3. running' = running /\ skipped' = skipped /\ plan' = plan  BY <1>1 DEF engine
  <2> QED  BY <1>4, <1>5, <2>1, <2>2, <2>3 DEF Queued, WaitingQueue, Only, Apart
<1>8. Planned'
  <2>1. plan' = EmptyPlan  BY <1>1 DEF Planned, engine
  <2>2. running' \in Seq(Requests)  BY <1>1 DEF TypedOver, SchedulerOver
  <2> QED  BY <2>1, <2>2, EmptyPlanned
<1>9. AtRest'  BY <1>1, <1>4, <1>5 DEF AtRest, engine
<1>10. Announced'  BY <1>1, <1>4, AnnouncedKept DEF engine
<1> QED  BY <1>1, <1>3, <1>4, <1>6, <1>7, <1>8, <1>9, <1>10

LEMMA AbortShape ==
  ASSUME TypedOver(Int), Shape, NEW r \in Requests, Abort(r)
  PROVE  /\ Shape' /\ Live(r) /\ plan = EmptyPlan
         /\ \A q \in Requests : q # r => req'[q] = req[q]
         /\ req'[r] = Freed(req[r]) /\ req'[r].status = "finished"
<1> USE DEF Shape
<1>1. /\ pc \in {"inputs", "collect"} /\ Live(r)
      /\ req' = [req EXCEPT ![r] = Freed(req[r])]
      /\ running' = Without(running, {r}) /\ waiting' = Without(waiting, {r})
      /\ skipped' = Without(skipped, {r}) /\ finishedIds' = finishedIds \union {r}
      /\ UNCHANGED <<resets, engine, ranks>>
  BY DEF Abort
<1>2. req \in [Requests -> RequestOver(Int)]  BY DEF TypedOver, SchedulerOver
<1>3. running \in Seq(Requests) /\ waiting \in Seq(Requests) /\ skipped \in Seq(Requests)
  BY DEF TypedOver, SchedulerOver
<1>4. /\ \A q \in Requests : q # r => req'[q] = req[q]
      /\ req'[r] = Freed(req[r])
  BY <1>1, <1>2
<1>5. req'[r].status = "finished"  BY <1>2, <1>4, FreedFacts DEF Numbers
<1>6. plan = EmptyPlan /\ plan' = EmptyPlan  BY <1>1 DEF Planned, engine
<1>7. Order'  BY <1>1, OrderKept DEF engine, ranks
<1>8. Queued'
  <2>1. /\ \A x : In(x, running') => In(x, running) /\ x # r
        /\ \A x : In(x, waiting') => In(x, waiting) /\ x # r
        /\ \A x : In(x, skipped') => In(x, skipped) /\ x # r
        /\ NoRepeat(running) => NoRepeat(running')
        /\ NoRepeat(waiting) => NoRepeat(waiting')
        /\ NoRepeat(skipped) => NoRepeat(skipped')
    BY <1>1, <1>3, InWithout
  <2>2. plan'.passed = <<>> /\ NoRepeat(<<>>) /\ \A x : ~In(x, <<>>)
    BY <1>6, EmptyPlanFacts, InEmpty
  <2> QED  BY <1>4, <2>1, <2>2 DEF Queued, WaitingQueue, Only, Apart
<1>9. Planned'
  <2>1. running' \in Seq(Requests)  BY <1>1, <1>3, WithoutFacts
  <2> QED  BY <1>6, <2>1, EmptyPlanned
<1>10. AtRest'  BY <1>1, <1>4, <1>5 DEF AtRest, engine
<1>11. Announced'  BY <1>1, <1>4, <1>5 DEF Announced, engine
<1> QED  BY <1>1, <1>4, <1>5, <1>6, <1>7, <1>8, <1>9, <1>10, <1>11

LEMMA ResetRunningShape ==
  ASSUME TypedOver(Int), Shape, ResetRunning
  PROVE  /\ Shape' /\ pc = "inputs" /\ plan = EmptyPlan
         /\ \A q \in Requests : /\ In(q, running) => req'[q] = Preempted(req[q], TRUE)
                                /\ ~In(q, running) => req'[q] = req[q]
<1> USE DEF Shape
<1>1. /\ pc = "inputs"
      /\ req' = [q \in Requests |->
                   IF q \in Range(running) THEN Preempted(req[q], TRUE) ELSE req[q]]
      /\ waiting' = running \o waiting /\ running' = <<>>
      /\ UNCHANGED <<skipped, finishedIds, engine, ranks>>
  BY DEF ResetRunning
<1>2. /\ req \in [Requests -> RequestOver(Int)]
      /\ running \in Seq(Requests) /\ waiting \in Seq(Requests) /\ skipped \in Seq(Requests)
  BY DEF TypedOver, SchedulerOver
<1>3. \A q : q \in Range(running) <=> In(q, running)  BY <1>2, RangeFacts DEF In
<1>4. \A q \in Requests : /\ In(q, running) => req'[q] = Preempted(req[q], TRUE)
                          /\ ~In(q, running) => req'[q] = req[q]
  BY <1>1, <1>3
<1>5. \A q \in Requests : In(q, running) =>
        /\ req'[q].status = "preempted" /\ req'[q].computed = 0 /\ req[q].status = "running"
  <2> SUFFICES ASSUME NEW q \in Requests, In(q, running)
               PROVE  req'[q].status = "preempted" /\ req'[q].computed = 0
    BY DEF Queued, Only
  <2>1. req[q] \in RequestOver(Int)  BY <1>2
  <2>2. Preempted(req[q], TRUE).status = "preempted" /\ Preempted(req[q], TRUE).computed = 0
    BY <2>1, PreemptedFacts DEF Numbers
  <2> QED  BY <1>4, <2>2
<1>6. plan = EmptyPlan /\ plan' = EmptyPlan  BY <1>1 DEF Planned, engine
<1>7. Order'  BY <1>1, OrderKept DEF engine, ranks
<1>8. Queued'
  <2>1. Apart(running, waiting)  BY DEF Queued, WaitingQueue, Only, Apart
  <2>2. /\ \A x : In(x, waiting') <=> In(x, running) \/ In(x, waiting)
        /\ NoRepeat(waiting')
    BY <1>1, <1>2, <2>1, InCat DEF Apart, Queued, WaitingQueue
  <2>3. plan'.passed = <<>> /\ NoRepeat(<<>>) /\ \A x : ~In(x, <<>>)
    BY <1>6, EmptyPlanFacts, InEmpty
  <2>4. running' = <<>> /\ skipped' = skipped  BY <1>1
  <2>5. \A q \in Requests : In(q, skipped) => ~In(q, running)
    BY DEF Queued, WaitingQueue, Only
  <2>6. \A q \in Requests : In(q, waiting) => ~In(q, running) /\ ~In(q, skipped)
    BY DEF Queued, WaitingQueue, Only, Apart
  <2>7. Only(waiting, {"waiting", "preempted"}) /\ Only(skipped, {"waiting", "preempted"})
        /\ NoRepeat(skipped)
    BY DEF Queued, WaitingQueue
  <2>8. WaitingQueue(waiting)'  BY <1>4, <1>5, <2>2, <2>6, <2>7 DEF WaitingQueue, Only
  <2>9. WaitingQueue(skipped)'  BY <1>4, <2>4, <2>5, <2>7 DEF WaitingQueue, Only
  <2>10. NoRepeat(running)' /\ Only(running, {"running"})' /\ WaitingQueue(plan.passed)'
    BY <2>3, <2>4 DEF WaitingQueue, Only
  <2>11. Apart(waiting, skipped)'  BY <2>2, <2>4, <2>5, <2>6 DEF Apart
  <2>12. Apart(waiting, plan.passed)' /\ Apart(skipped, plan.passed)'  BY <2>3 DEF Apart
  <2> QED  BY <2>8, <2>9, <2>10, <2>11, <2>12 DEF Queued
<1>9. Planned'
  <2>1. running' \in Seq(Requests)  BY <1>1, EmptyFacts
  <2> QED  BY <1>6, <2>1, EmptyPlanned
<1>10. AtRest'
  <2>1. queue' = queue  BY <1>1 DEF engine
  <2>2. ASSUME NEW q \in Requests
        PROVE  /\ req'[q].status = "new" => req'[q] = NewRequest
               /\ req'[q].status \in {"new", "waiting"} =>
                    req'[q].output = <<>> /\ \A j \in 1..Len(queue) : queue[j].n[q] = 0
               /\ req'[q].status \in {"new", "waiting", "preempted"} => req'[q].computed = 0
    <3>1. CASE In(q, running)  BY <1>5, <3>1
    <3>2. CASE ~In(q, running)  BY <1>4, <3>2 DEF AtRest
    <3> QED  BY <3>1, <3>2
  <2> QED  BY <2>1, <2>2, Zenon DEF AtRest
<1>11. Announced'  BY <1>1, <1>4, <1>5, AnnouncedKept DEF engine
<1> QED  BY <1>1, <1>4, <1>6, <1>7, <1>8, <1>9, <1>10, <1>11

LEMMA ScheduleRunningShape ==
  ASSUME TypedOver(Int), Shape, ScheduleRunning
  PROVE  /\ Shape' /\ queue' = queue
         /\ req[Current].status = "running" /\ plan.n[Current] = 0
         /\ \A q \in Victim : q \in Requests /\ req[q].status = "running" /\ plan.n[q] = 0
<1> USE DEF Shape
<1>1. SchedulerOver(Int) /\ Numbers(Int)  BY DEF TypedOver, Numbers
<1>2. /\ running \in Seq(Requests) /\ waiting \in Seq(Requests) /\ skipped \in Seq(Requests)
      /\ req \in [Requests -> RequestOver(Int)] /\ Len(running) \in Nat
  BY <1>1 DEF SchedulerOver
<1>3. /\ pc = "schedule" /\ plan.idx \in 1..Len(running)
      /\ Current \in Requests /\ Given \in 1..plan.budget
      /\ Given + req[Current].computed <= NumTokens(Current) + req[Current].spec.len
      /\ Dropped \in 0..(Len(running) - plan.idx + 1) /\ NeededBlocks \in Nat
      /\ running' \in Seq(Requests) /\ Len(running') = KeptLen
      /\ \A i \in 1..KeptLen : running'[i] = running[i]
      /\ Victim = {running[i] : i \in (KeptLen + 1)..Len(running)}
      /\ waiting' = Youngest(Dropped) \o waiting
  BY <1>1, ScheduleRunningFacts
<1>4. /\ \A q \in Victim : req'[q] = Preempted(req[q], FALSE)
      /\ \A q \in Requests : q \notin Victim /\ q # Current => req'[q] = req[q]
      /\ Current \in Victim =>
           Dropped = Len(running) - plan.idx + 1 /\ plan' = StoppedPlan
      /\ Current \notin Victim =>
           /\ Dropped <= Len(running) - plan.idx
           /\ req'[Current] = Placed(req[Current], NeededBlocks)
           /\ plan' = PlacedPlan
  BY <1>1, ScheduleRunningFacts
<1>5. UNCHANGED <<skipped, finishedIds, resets, pc, queue, takeDrafts, ranks>>
  BY DEF ScheduleRunning
<1>6. Dropped \in Nat /\ plan.idx \in Nat /\ KeptLen \in Nat /\ KeptLen = Len(running) - Dropped
      /\ plan.idx - 1 <= KeptLen
  BY <1>2, <1>3 DEF KeptLen
<1>7. Len(running') = KeptLen /\ \A i \in 1..KeptLen : running'[i] = running[i]  BY <1>3
<1>8. plan.idx \in 1..Len(running) /\ (Current \notin Victim => Dropped <= Len(running) - plan.idx)
  BY <1>3, <1>4
<1>9. \A q \in Victim : q \in Requests /\ In(q, running) /\ req[q].status = "running"
  <2> SUFFICES ASSUME NEW i \in (KeptLen + 1)..Len(running)
               PROVE  In(running[i], running)
    BY <1>2, <1>3, InFacts DEF Queued, Only
  <2>1. i \in 1..Len(running)  BY <1>2, <1>6
  <2> QED  BY <2>1 DEF In
<1>10. In(Current, running) /\ req[Current].status = "running"
  BY <1>2, <1>3, InFacts DEF Current, Queued, Only
<1>11. \A i \in 1..(plan.idx - 1), j \in plan.idx..Len(running) : running[i] # running[j]
  BY <1>2, <1>6 DEF Queued, NoRepeat
<1>12. \A q \in Requests : plan.n[q] > 0 => q \notin Victim /\ q # Current
  <2> SUFFICES ASSUME NEW q \in Requests, plan.n[q] > 0
               PROVE  q \notin Victim /\ q # Current
    OBVIOUS
  <2>1. PICK i \in 1..(plan.idx - 1) : running[i] = q  BY DEF Planned
  <2>2. q # Current  BY <1>3, <1>11, <2>1 DEF Current
  <2>3. \A j \in (KeptLen + 1)..Len(running) : j \in plan.idx..Len(running)
    BY <1>2, <1>6
  <2>4. q \notin Victim  BY <1>3, <1>11, <2>1, <2>3
  <2> QED  BY <2>2, <2>4
<1>13. \A q \in Requests : plan.n[q] \in Nat
  <2>1. plan.n \in [Requests -> 0..TokenBudget]  BY <1>1, PlanFacts
  <2> QED  BY <2>1
<1>14. plan.n[Current] = 0 /\ \A q \in Victim : plan.n[q] = 0
  <2>1. \A q \in Requests : plan.n[q] > 0 \/ plan.n[q] = 0  BY <1>13
  <2> QED  BY <1>3, <1>9, <1>12, <2>1
<1>15. \A q \in Victim : req'[q].status = "preempted" /\ req'[q].computed = 0
  <2> TAKE q \in Victim
  <2>1. req[q] \in RequestOver(Int)  BY <1>2, <1>9
  <2>2. Preempted(req[q], FALSE).status = "preempted" /\ Preempted(req[q], FALSE).computed = 0
    BY <1>1, <2>1, PreemptedFacts
  <2> QED  BY <1>4, <2>2
<1>16. Current \notin Victim =>
         /\ req'[Current].status = "running" /\ req'[Current].output = req[Current].output
  <2>1. req[Current] \in RequestOver(Int)  BY <1>2, <1>3
  <2>2. Placed(req[Current], NeededBlocks).status = req[Current].status
        /\ Placed(req[Current], NeededBlocks).output = req[Current].output
    BY <1>1, <1>3, <2>1, PlacedFacts
  <2> QED  BY <1>4, <1>10, <2>2
<1>17. \A q \in Requests : q \notin Victim =>
         req'[q].status = req[q].status /\ req'[q].output = req[q].output
  BY <1>4, <1>10, <1>16
<1>18. Order'  BY <1>5, OrderKept DEF ranks
<1>19. AtRest'
  <2> SUFFICES ASSUME NEW q \in Requests
               PROVE  /\ req'[q].status = "new" => req'[q] = NewRequest
                      /\ req'[q].status \in {"new", "waiting"} =>
                           /\ req'[q].output = <<>>
                           /\ \A j \in 1..Len(queue) : queue[j].n[q] = 0
                      /\ req'[q].status \in {"new", "waiting", "preempted"} =>
                           req'[q].computed = 0
    BY <1>5 DEF AtRest
  <2>1. CASE q \in Victim  BY <1>15, <2>1
  <2>2. CASE q \notin Victim /\ q = Current  BY <1>16, <2>2
  <2>3. CASE q \notin Victim /\ q # Current  BY <1>4, <2>3 DEF AtRest
  <2> QED  BY <2>1, <2>2, <2>3
<1>20. Announced'
  <2>1. \A q \in Requests : req[q].status = "finished" => req'[q].status = "finished"
    BY <1>4, <1>9, <1>10
  <2> QED  BY <1>5, <2>1, AnnouncedKept
<1>21. \A q \in Requests : In(q, running') => In(q, running) /\ q \notin Victim
  <2>3. \A q : In(q, running') => \E i \in 1..KeptLen : running[i] = q  BY <1>7 DEF In
  <2> SUFFICES ASSUME NEW i \in 1..KeptLen
               PROVE  In(running[i], running) /\ running[i] \notin Victim
    BY <2>3
  <2>1. i \in 1..Len(running)  BY <1>2, <1>6
  <2>2. \A j \in (KeptLen + 1)..Len(running) : running[i] # running[j]
    BY <1>2, <1>6, <2>1 DEF Queued, NoRepeat
  <2> QED  BY <1>3, <2>1, <2>2 DEF In
<1>22. NoRepeat(running')
  <2> SUFFICES ASSUME NEW i \in 1..KeptLen, NEW j \in 1..KeptLen, running[i] = running[j]
               PROVE  i = j
    BY <1>3 DEF NoRepeat
  <2>1. i \in 1..Len(running) /\ j \in 1..Len(running)  BY <1>2, <1>6
  <2> QED  BY <2>1 DEF Queued, NoRepeat
<1>23. plan'.passed = plan.passed
  <2>1. StoppedPlan.passed = plan.passed /\ PlacedPlan.passed = plan.passed
    BY <1>1, PlanFacts DEF StoppedPlan, PlacedPlan, PlanWith, PlanOver
  <2> QED  BY <1>4, <2>1
<1>24. /\ \A q \in Requests : In(q, waiting') <=> q \in Victim \/ In(q, waiting)
       /\ NoRepeat(waiting')
  <2>1. Dropped \in 0..Len(running)  BY <1>2, <1>3
  <2>2. /\ Youngest(Dropped) \in Seq(Requests) /\ Len(Youngest(Dropped)) = Dropped
        /\ \A i \in 1..Dropped : Youngest(Dropped)[i] = running[KeptLen + i]
    BY <1>2, <2>1, YoungestFacts DEF KeptLen
  <2>3. \A q : In(q, Youngest(Dropped)) <=> q \in Victim
    BY <2>2, RangeFacts DEF In, Victim
  <2>4. NoRepeat(Youngest(Dropped))
    <3> SUFFICES ASSUME NEW i \in 1..Dropped, NEW j \in 1..Dropped,
                        running[KeptLen + i] = running[KeptLen + j]
                 PROVE  i = j
      BY <2>2 DEF NoRepeat
    <3>1. KeptLen + i \in 1..Len(running) /\ KeptLen + j \in 1..Len(running)
      BY <1>2, <1>6
    <3>2. KeptLen + i = KeptLen + j  BY <3>1 DEF Queued, NoRepeat
    <3> QED  BY <1>6, <3>2
  <2>5. Apart(Youngest(Dropped), waiting)
    BY <1>9, <2>3 DEF Apart, Queued, WaitingQueue, Only
  <2>6. NoRepeat(waiting)  BY DEF Queued, WaitingQueue
  <2> QED  BY <1>2, <1>3, <2>2, <2>3, <2>4, <2>5, <2>6, InCat DEF Apart
<1>25. Queued'
  <2>1. \A q \in Requests : In(q, waiting) \/ In(q, skipped) \/ In(q, plan.passed) =>
          q \notin Victim /\ req'[q].status \in {"waiting", "preempted"}
    BY <1>9, <1>17 DEF Queued, WaitingQueue, Only
  <2>2. Only(running, {"running"})'  BY <1>17, <1>21 DEF Queued, Only
  <2>3. WaitingQueue(waiting)'  BY <1>15, <1>24, <2>1 DEF WaitingQueue, Only
  <2>4. WaitingQueue(skipped)' /\ WaitingQueue(plan.passed)'
    BY <1>5, <1>23, <2>1 DEF Queued, WaitingQueue, Only
  <2>5. /\ Apart(waiting, skipped)' /\ Apart(waiting, plan.passed)'
        /\ Apart(skipped, plan.passed)'
    BY <1>5, <1>23, <1>24, <2>1 DEF Queued, Apart
  <2> QED  BY <1>22, <2>2, <2>3, <2>4, <2>5 DEF Queued
<1>26. Planned'
  <2>1. plan \in PlanOver(Int) /\ plan.new \in SUBSET Requests  BY <1>1, PlanFacts
  <2>2. CASE Current \in Victim
    <3>1. /\ plan'.idx = plan.idx /\ plan'.n = plan.n /\ plan'.new = plan.new
          /\ plan'.spec = plan.spec
      BY <1>4, <2>1, <2>2 DEF StoppedPlan, PlanOver
    <3>2. plan.idx \in 1..(Len(running') + 1)  BY <1>3, <1>6
    <3>3. \A q \in Requests : plan.n[q] > 0 => \E i \in 1..(plan.idx - 1) : running'[i] = q
      <4>1. \A i \in 1..(plan.idx - 1) : running'[i] = running[i]  BY <1>6, <1>7
      <4> QED  BY <4>1 DEF Planned
    <3>4. \A q \in plan.new : plan.n[q] > 0 /\ req'[q].output = <<>>
      BY <1>12, <1>17, <2>1 DEF Planned
    <3>5. pc' = "schedule"  BY <1>3, <1>5
    <3> QED  BY <3>1, <3>2, <3>3, <3>4, <3>5 DEF Planned
  <2>3. CASE Current \notin Victim
    <3>1. Given \in 0..plan.budget /\ Given \in Nat /\ Given > 0
      BY <1>1, <1>3, PlanFacts
    <3>2. ScheduledDrafts(Current, Given) \in DraftOver(Int)
      BY <1>1, <1>3, <3>1, ScheduledDraftsFacts
    <3>3. /\ (plan.prefill \/ req[Current].chunk) \in BOOLEAN
          /\ (plan.preempted \/ Dropped > 0) \in BOOLEAN
      OBVIOUS
    <3>4. /\ PlacedPlan.idx = plan.idx + 1 /\ PlacedPlan.n[Current] = Given
          /\ PlacedPlan.new = plan.new
          /\ \A q \in Requests : q # Current => /\ PlacedPlan.n[q] = plan.n[q]
                                                /\ PlacedPlan.spec[q] = plan.spec[q]
      <4> DEFINE prefill == plan.prefill \/ req[Current].chunk
                 preempted == plan.preempted \/ Dropped > 0
                 d == ScheduledDrafts(Current, Given)
                 p == PlanWith(Current, Given, d, prefill, preempted)
      <4>1. p = PlacedPlan  BY DEF PlacedPlan
      <4> HIDE DEF prefill, preempted, d
      <4>2. /\ p.idx = plan.idx + 1 /\ p.n[Current] = Given /\ p.new = plan.new
            /\ \A q \in Requests : q # Current => p.n[q] = plan.n[q] /\ p.spec[q] = plan.spec[q]
        <5>1. prefill \in BOOLEAN /\ preempted \in BOOLEAN /\ d \in DraftOver(Int)
          BY <3>2, <3>3 DEF prefill, preempted, d
        <5> QED  BY <1>1, <1>3, <3>1, <5>1, PlanWithFacts
      <4> HIDE DEF p
      <4> QED  BY <4>1, <4>2
    <3>5. plan' = PlacedPlan  BY <1>4, <2>3
    <3>6. plan.idx + 1 \in 1..(Len(running') + 1) /\ plan.idx \in 1..KeptLen
      BY <1>2, <1>6, <1>7, <1>8, <2>3
    <3>7. \A q \in Requests : plan'.n[q] > 0 => \E i \in 1..plan.idx : running'[i] = q
      <4> SUFFICES ASSUME NEW q \in Requests, plan'.n[q] > 0
                   PROVE  \E i \in 1..plan.idx : running'[i] = q
        OBVIOUS
      <4>1. CASE q = Current
        <5>1. running'[plan.idx] = q  BY <1>3, <3>6, <4>1 DEF Current
        <5> QED  BY <1>3, <5>1
      <4>2. CASE q # Current
        <5>1. PICK i \in 1..(plan.idx - 1) : running[i] = q
          BY <3>4, <3>5, <4>2 DEF Planned
        <5>2. i \in 1..plan.idx /\ i \in 1..KeptLen  BY <1>6, <5>1
        <5> QED  BY <1>3, <5>1, <5>2
      <4> QED  BY <4>1, <4>2
    <3>8. \A q \in plan.new : plan'.n[q] > 0 /\ req'[q].output = <<>>
      <4> TAKE q \in plan.new
      <4>1. q \in Requests /\ plan.n[q] > 0 /\ req[q].output = <<>>  BY <2>1 DEF Planned
      <4>2. q \notin Victim /\ q # Current  BY <1>12, <4>1
      <4> QED  BY <1>17, <3>4, <3>5, <4>1, <4>2
    <3>9. \A q \in Requests : plan'.n[q] = 0 => plan'.spec[q] = NoDraft
      <4> TAKE q \in Requests
      <4>1. CASE q = Current  BY <3>1, <3>4, <3>5, <4>1
      <4>2. CASE q # Current  BY <3>4, <3>5, <4>2 DEF Planned
      <4> QED  BY <4>1, <4>2
    <3>10. pc' = "schedule" /\ plan'.idx = plan.idx + 1 /\ plan'.idx - 1 = plan.idx
           /\ plan'.new = plan.new
      BY <1>3, <1>5, <1>6, <3>4, <3>5
    <3> QED  BY <3>6, <3>7, <3>8, <3>9, <3>10 DEF Planned
  <2> QED  BY <2>2, <2>3
<1> QED  BY <1>5, <1>9, <1>10, <1>14, <1>18, <1>19, <1>20, <1>25, <1>26

\* Taking the candidate out of its queue leaves the queues apart, and it in neither.
LEMMA PopQueues ==
  ASSUME waiting \in Seq(Requests), skipped \in Seq(Requests), Queued, Popped,
         Candidate \in Requests
  PROVE  /\ NoRepeat(waiting') /\ NoRepeat(skipped')
         /\ \A q \in Requests : In(q, waiting') => In(q, waiting)
         /\ \A q \in Requests : In(q, skipped') => In(q, skipped)
         /\ ~In(Candidate, waiting') /\ ~In(Candidate, skipped') /\ ~In(Candidate, plan.passed)
         /\ req[Candidate].status \in {"waiting", "preempted"}
<1>1. CASE skipped # <<>> /\ Candidate = skipped[1]
          /\ skipped' = Tail(skipped) /\ waiting' = waiting
  <2>1. /\ In(Candidate, skipped) /\ \A x : In(x, skipped') => In(x, skipped)
        /\ NoRepeat(skipped') /\ ~In(Candidate, skipped')
    BY <1>1, InTail DEF Queued, WaitingQueue
  <2> QED  BY <1>1, <2>1 DEF Queued, WaitingQueue, Apart, Only
<1>2. CASE waiting # <<>> /\ Candidate = waiting[1]
          /\ waiting' = Tail(waiting) /\ skipped' = skipped
  <2>1. /\ In(Candidate, waiting) /\ \A x : In(x, waiting') => In(x, waiting)
        /\ NoRepeat(waiting') /\ ~In(Candidate, waiting')
    BY <1>2, InTail DEF Queued, WaitingQueue
  <2> QED  BY <1>2, <2>1 DEF Queued, WaitingQueue, Apart, Only
<1> QED  BY <1>1, <1>2 DEF Popped

LEMMA PassWaitingShape ==
  ASSUME TypedOver(Int), Shape, PassWaiting
  PROVE  Shape'
<1> USE DEF Shape
<1>1. Numbers(Int) /\ SchedulerOver(Int)  BY DEF Numbers, TypedOver
<1>2. /\ pc = "schedule" /\ Candidate \in Requests /\ Popped
      /\ plan' = [plan EXCEPT !.passed = Append(plan.passed, Candidate)]
  BY <1>1, PassWaitingFacts
<1>3. waiting \in Seq(Requests) /\ skipped \in Seq(Requests) /\ plan.passed \in Seq(Requests)
  BY <1>1, PlanFacts DEF SchedulerOver
<1>4. UNCHANGED <<req, running, finishedIds, resets, pc, queue, takeDrafts, ranks>>
  BY DEF PassWaiting
<1>5. /\ NoRepeat(waiting') /\ NoRepeat(skipped')
      /\ \A q \in Requests : In(q, waiting') => In(q, waiting)
      /\ \A q \in Requests : In(q, skipped') => In(q, skipped)
      /\ ~In(Candidate, waiting') /\ ~In(Candidate, skipped') /\ ~In(Candidate, plan.passed)
      /\ req[Candidate].status \in {"waiting", "preempted"}
  BY <1>2, <1>3, PopQueues
<1>6. /\ plan'.passed = Append(plan.passed, Candidate)
      /\ plan'.idx = plan.idx /\ plan'.n = plan.n /\ plan'.spec = plan.spec
      /\ plan'.new = plan.new
  <2>1. plan \in PlanOver(Int)  BY <1>1, PlanFacts
  <2> QED  BY <1>2, <2>1 DEF PlanOver
<1>7. /\ \A x : In(x, plan'.passed) <=> In(x, plan.passed) \/ x = Candidate
      /\ NoRepeat(plan'.passed)
  BY <1>2, <1>3, <1>5, <1>6, InAppend DEF Queued, WaitingQueue
<1>8. Queued'
  <2>1. NoRepeat(running)' /\ Only(running, {"running"})'  BY <1>4 DEF Queued, Only
  <2>2. WaitingQueue(waiting)' /\ WaitingQueue(skipped)'
    BY <1>4, <1>5 DEF Queued, WaitingQueue, Only
  <2>3. WaitingQueue(plan.passed)'  BY <1>4, <1>5, <1>7 DEF Queued, WaitingQueue, Only
  <2>4. /\ Apart(waiting, skipped)' /\ Apart(waiting, plan.passed)'
        /\ Apart(skipped, plan.passed)'
    BY <1>5, <1>7 DEF Queued, Apart
  <2> QED  BY <2>1, <2>2, <2>3, <2>4 DEF Queued
<1>9. Planned'  BY <1>2, <1>4, <1>6 DEF Planned
<1>10. Order' /\ AtRest' /\ Announced'
  BY <1>4, OrderKept, AtRestKept, AnnouncedKept DEF ranks
<1> QED  BY <1>8, <1>9, <1>10

LEMMA AdmitWaitingShape ==
  ASSUME TypedOver(Int), Shape, AdmitWaiting
  PROVE  /\ Shape' /\ queue' = queue
         /\ req[Candidate].status \in {"waiting", "preempted"}
         /\ plan.n[Candidate] = 0
<1> USE DEF Shape
<1>1. SchedulerOver(Int) /\ Numbers(Int)  BY DEF TypedOver, Numbers
<1>2. /\ running \in Seq(Requests) /\ waiting \in Seq(Requests) /\ skipped \in Seq(Requests)
      /\ req \in [Requests -> RequestOver(Int)] /\ Len(running) \in Nat
      /\ plan.passed \in Seq(Requests) /\ plan.new \in SUBSET Requests
  BY <1>1, PlanFacts DEF SchedulerOver
<1>3. /\ pc = "schedule" /\ ~MoreRunning /\ plan.budget > 0
      /\ Candidate \in Requests /\ CanAdmit(Candidate) /\ Popped
      /\ running' = Append(running, Candidate)
      /\ req'[Candidate] = Admitted(req[Candidate], OfferedBlocks)
      /\ \A q \in Requests : q # Candidate => req'[q] = req[q]
  BY <1>1, AdmitWaitingFacts
<1>4. UNCHANGED <<finishedIds, resets, pc, queue, takeDrafts, ranks>>
  BY DEF AdmitWaiting
<1>5. /\ NoRepeat(waiting') /\ NoRepeat(skipped')
      /\ \A q \in Requests : In(q, waiting') => In(q, waiting)
      /\ \A q \in Requests : In(q, skipped') => In(q, skipped)
      /\ ~In(Candidate, waiting') /\ ~In(Candidate, skipped') /\ ~In(Candidate, plan.passed)
      /\ req[Candidate].status \in {"waiting", "preempted"}
  BY <1>2, <1>3, PopQueues
<1>6. /\ plan'.idx = plan.idx + 1 /\ plan'.n[Candidate] = Offered /\ plan'.passed = plan.passed
      /\ \A q \in Requests : q # Candidate => /\ plan'.n[q] = plan.n[q]
                                              /\ plan'.spec[q] = plan.spec[q]
      /\ plan'.new = IF req[Candidate].status = "waiting" THEN plan.new \union {Candidate}
                     ELSE plan.new
  BY <1>1, AdmitWaitingTyped
<1>7. Offered \in 1..plan.budget /\ Offered > 0 /\ OfferedBlocks \in Nat /\ Offered # 0
  <2>1. Offered \in 1..plan.budget /\ OfferedBlocks \in Nat  BY <1>1, <1>3, OfferedFacts
  <2> QED  BY <2>1
<1>8. /\ req'[Candidate].status = "running" /\ req'[Candidate].output = req[Candidate].output
  <2>1. req[Candidate] \in RequestOver(Int) /\ OfferedBlocks \in Nat
    BY <1>2, <1>3, <1>7
  <2>2. /\ Admitted(req[Candidate], OfferedBlocks).status = "running"
        /\ Admitted(req[Candidate], OfferedBlocks).output = req[Candidate].output
    BY <1>1, <2>1, AdmittedFacts
  <2>3. req'[Candidate] = Admitted(req[Candidate], OfferedBlocks)  BY <1>3
  <2> QED  BY <2>2, <2>3
<1>9. ~In(Candidate, running)  BY <1>3, <1>5 DEF Queued, Only
<1>10. /\ \A x : In(x, running') <=> In(x, running) \/ x = Candidate
       /\ NoRepeat(running') /\ Len(running') = Len(running) + 1
       /\ running'[Len(running) + 1] = Candidate
       /\ \A i \in 1..Len(running) : running'[i] = running[i]
  BY <1>2, <1>3, <1>9, InAppend, AppendFacts DEF Queued
<1>11. \A q \in Requests : plan.n[q] \in Nat
  <2>1. plan.n \in [Requests -> 0..TokenBudget]  BY <1>1, PlanFacts
  <2> QED  BY <2>1
<1>12. \A q \in Requests : plan.n[q] > 0 => In(q, running)
  <2> SUFFICES ASSUME NEW q \in Requests, plan.n[q] > 0 PROVE In(q, running)
    OBVIOUS
  <2>1. PICK i \in 1..(plan.idx - 1) : running[i] = q  BY DEF Planned
  <2>2. i \in 1..Len(running)
    <3>1. plan.idx \in 1..(Len(running) + 1)  BY DEF Planned
    <3> QED  BY <1>2, <3>1
  <2> QED  BY <2>1, <2>2 DEF In
<1>13. plan.n[Candidate] = 0  BY <1>3, <1>9, <1>11, <1>12
<1>14. Queued'
  <2>1. NoRepeat(running)' /\ Only(running, {"running"})'
    BY <1>3, <1>8, <1>10 DEF Queued, Only
  <2>2. WaitingQueue(waiting)' /\ WaitingQueue(skipped)'
    BY <1>3, <1>5 DEF Queued, WaitingQueue, Only
  <2>3. WaitingQueue(plan.passed)'  BY <1>3, <1>5, <1>6 DEF Queued, WaitingQueue, Only
  <2>4. /\ Apart(waiting, skipped)' /\ Apart(waiting, plan.passed)'
        /\ Apart(skipped, plan.passed)'
    BY <1>5, <1>6 DEF Queued, Apart
  <2> QED  BY <2>1, <2>2, <2>3, <2>4 DEF Queued
<1>15. plan.idx = Len(running) + 1
  <2>1. plan.idx \in 1..(Len(running) + 1) /\ plan.stop \in BOOLEAN
    BY <1>1, PlanFacts DEF Planned, PlanOver
  <2>2. ~plan.stop  BY DEF AdmitWaiting, MoreWaiting
  <2>3. ~(plan.idx <= Len(running))  BY <1>3, <2>2 DEF MoreRunning
  <2> QED  BY <1>2, <2>1, <2>3
<1>16. Planned'
  <2>1. plan'.idx \in 1..(Len(running') + 1) /\ plan'.idx - 1 = Len(running) + 1
    BY <1>2, <1>6, <1>10, <1>15
  <2>2. \A q \in Requests : plan'.n[q] > 0 => \E i \in 1..(plan'.idx - 1) : running'[i] = q
    <3> SUFFICES ASSUME NEW q \in Requests, plan'.n[q] > 0
                 PROVE  \E i \in 1..(Len(running) + 1) : running'[i] = q
      BY <2>1
    <3>1. In(q, running')  BY <1>6, <1>10, <1>12
    <3> QED  BY <1>10, <3>1 DEF In
  <2>3. \A q \in plan'.new : plan'.n[q] > 0 /\ req'[q].output = <<>>
    <3> TAKE q \in plan'.new
    <3>1. CASE q = Candidate
      <4>1. req[q].status = "waiting"
        <5>1. SUFFICES q \notin plan.new  BY <1>6, <3>1
        <5>2. q \in plan.new => plan.n[q] > 0  BY DEF Planned
        <5> QED  BY <1>13, <3>1, <5>2
      <4> QED  BY <1>3, <1>6, <1>7, <1>8, <3>1, <4>1 DEF AtRest
    <3>2. CASE q # Candidate
      <4>1. q \in plan.new /\ q \in Requests  BY <1>2, <1>6, <3>2
      <4> QED  BY <1>3, <1>6, <3>2, <4>1 DEF Planned
    <3> QED  BY <3>1, <3>2
  <2>4. \A q \in Requests : plan'.n[q] = 0 => plan'.spec[q] = NoDraft
    <3> TAKE q \in Requests
    <3>1. CASE q = Candidate  BY <1>6, <1>7, <3>1
    <3>2. CASE q # Candidate  BY <1>6, <3>2 DEF Planned
    <3> QED  BY <3>1, <3>2
  <2>5. pc' = "schedule"  BY <1>3, <1>4
  <2> QED  BY <2>1, <2>2, <2>3, <2>4, <2>5 DEF Planned
<1>17. Order'  BY <1>4, OrderKept DEF ranks
<1>18. AtRest'  BY <1>3, <1>4, <1>8 DEF AtRest
<1>19. Announced'
  <2>1. \A q \in Requests : req[q].status = "finished" => req'[q].status = "finished"
    BY <1>3, <1>5
  <2> QED  BY <1>4, <2>1, AnnouncedKept
<1> QED  BY <1>4, <1>5, <1>13, <1>14, <1>16, <1>17, <1>18, <1>19

LEMMA BeginScheduleShape ==
  ASSUME TypedOver(Int), Shape, BeginSchedule
  PROVE  /\ Shape' /\ plan = EmptyPlan /\ plan' = EmptyPlan /\ req' = req /\ queue' = queue
<1> USE DEF Shape
<1>1. /\ pc = "inputs" /\ pc' = "schedule" /\ plan' = EmptyPlan
      /\ UNCHANGED <<scheduler, queue, takeDrafts, ranks>>
  BY DEF BeginSchedule
<1>2. plan = EmptyPlan  BY <1>1 DEF Planned
<1>3. Order'  BY <1>1, OrderKept DEF ranks
<1>4. Queued' /\ AtRest' /\ Announced'
  BY <1>1, <1>2, QueuedKept, AtRestKept, AnnouncedKept DEF scheduler
<1>5. Planned'  BY <1>1, <1>2 DEF Planned, scheduler, queues
<1> QED  BY <1>1, <1>2, <1>3, <1>4, <1>5 DEF scheduler

LEMMA PassRunningShape ==
  ASSUME TypedOver(Int), Shape, PassRunning
  PROVE  /\ Shape' /\ req' = req /\ queue' = queue
         /\ plan'.n = plan.n /\ plan'.spec = plan.spec /\ plan'.new = plan.new
<1> USE DEF Shape
<1>1. /\ pc = "schedule" /\ plan.idx <= Len(running) /\ plan' = [plan EXCEPT !.idx = @ + 1]
      /\ UNCHANGED <<scheduler, pc, queue, takeDrafts, ranks>>
  BY DEF PassRunning, MoreRunning
<1>2. plan \in PlanOver(Int) /\ plan.idx \in Nat /\ running \in Seq(Requests)
  BY PlanFacts DEF TypedOver, Numbers, SchedulerOver
<1> DEFINE i == plan.idx + 1
<1>3. plan' = [plan EXCEPT !.idx = i]  BY <1>1, <1>2 DEF PlanOver
<1>4. i \in 1..(Len(running) + 1) /\ i - 1 >= plan.idx - 1 /\ i \in Nat  BY <1>1, <1>2
<1> HIDE DEF i
<1>5. /\ plan'.idx = i /\ plan'.n = plan.n /\ plan'.spec = plan.spec /\ plan'.new = plan.new
      /\ plan'.passed = plan.passed
  BY <1>2, <1>3 DEF PlanOver
<1>6. Order'  BY <1>1, OrderKept DEF ranks
<1>7. Queued' /\ AtRest' /\ Announced'
  BY <1>1, <1>5, QueuedKept, AtRestKept, AnnouncedKept DEF scheduler
<1>8. Planned'
  <2>1. running' = running /\ req' = req /\ pc' = "schedule"
    BY <1>1 DEF scheduler, queues
  <2>2. \A r \in Requests : plan.n[r] > 0 => \E j \in 1..(i - 1) : running[j] = r
    <3> SUFFICES ASSUME NEW r \in Requests, plan.n[r] > 0
                 PROVE  \E j \in 1..(i - 1) : running[j] = r
      OBVIOUS
    <3>1. PICK j \in 1..(plan.idx - 1) : running[j] = r  BY DEF Planned
    <3>2. j \in 1..(i - 1)  BY <1>2, <1>4
    <3> QED  BY <3>1, <3>2
  <2> QED  BY <1>4, <1>5, <2>1, <2>2 DEF Planned
<1> QED  BY <1>1, <1>5, <1>6, <1>7, <1>8 DEF scheduler

LEMMA RefuseWaitingShape ==
  ASSUME TypedOver(Int), Shape, RefuseWaiting
  PROVE  /\ Shape' /\ req' = req /\ queue' = queue
         /\ plan'.n = plan.n /\ plan'.spec = plan.spec /\ plan'.new = plan.new
<1> USE DEF Shape
<1>1. /\ pc = "schedule" /\ plan' = [plan EXCEPT !.stop = TRUE]
      /\ UNCHANGED <<scheduler, pc, queue, takeDrafts, ranks>>
  BY DEF RefuseWaiting
<1>2. plan \in PlanOver(Int)  BY PlanFacts DEF TypedOver, Numbers
<1>3. /\ plan'.idx = plan.idx /\ plan'.n = plan.n /\ plan'.spec = plan.spec
      /\ plan'.new = plan.new /\ plan'.passed = plan.passed
  BY <1>1, <1>2 DEF PlanOver
<1>4. Order'  BY <1>1, OrderKept DEF ranks
<1>5. Queued' /\ AtRest' /\ Announced'
  BY <1>1, <1>3, QueuedKept, AtRestKept, AnnouncedKept DEF scheduler
<1>6. Planned'  BY <1>1, <1>3 DEF Planned, scheduler, queues
<1> QED  BY <1>1, <1>3, <1>4, <1>5, <1>6 DEF scheduler

LEMMA DrainQueueShape ==
  ASSUME TypedOver(Int), Shape, DrainQueue
  PROVE  /\ Shape' /\ req' = req /\ queue' = queue /\ plan = EmptyPlan /\ plan' = EmptyPlan
<1> USE DEF Shape
<1>1. /\ pc = "inputs" /\ pc' = "collect" /\ queue # <<>>
      /\ UNCHANGED <<scheduler, plan, queue, ranks>>
  BY DEF DrainQueue
<1>2. plan = EmptyPlan  BY <1>1 DEF Planned
<1>3. Order'
  <2>1. Len(queue) \in 1..QueueSize
    <3>1. queue \in Seq(BatchOver(Int)) /\ Len(queue) < QueueSize
      BY <1>1 DEF TypedOver, RanksOver, Order
    <3>2. Len(queue) >= 1 /\ Len(queue) \in Nat  BY <1>1, <3>1, TailFacts
    <3> QED  BY <3>1, <3>2, EngineFacts
  <2> QED  BY <1>1, <2>1 DEF Order, ranks
<1>4. Queued' /\ AtRest' /\ Announced'
  BY <1>1, QueuedKept, AtRestKept, AnnouncedKept DEF scheduler
<1>5. Planned'  BY <1>1, <1>2 DEF Planned, scheduler, queues
<1> QED  BY <1>1, <1>2, <1>3, <1>4, <1>5 DEF scheduler

\* Only running requests are planned.
LEMMA PlannedRun ==
  ASSUME TypedOver(Int), Shape, NEW r \in Requests
  PROVE  /\ plan.n[r] \in Nat
         /\ plan.n[r] > 0 => In(r, running) /\ req[r].status = "running"
<1>1. plan.n[r] \in Nat
  <2>1. plan.n \in [Requests -> 0..TokenBudget]  BY PlanFacts DEF TypedOver, Numbers
  <2> QED  BY <2>1
<1>2. ASSUME plan.n[r] > 0 PROVE In(r, running) /\ req[r].status = "running"
  <2>1. PICK i \in 1..(plan.idx - 1) : running[i] = r  BY <1>2 DEF Shape, Planned
  <2>2. i \in 1..Len(running)
    <3>1. plan.idx \in 1..(Len(running) + 1) /\ Len(running) \in Nat
      BY DEF Shape, Planned, TypedOver, SchedulerOver
    <3> QED  BY <3>1
  <2>3. In(r, running)  BY <2>1, <2>2 DEF In
  <2> QED  BY <2>3 DEF Shape, Queued, Only
<1> QED  BY <1>1, <1>2

LEMMA IssueBatchShape ==
  ASSUME TypedOver(Int), Shape, IssueBatch
  PROVE  Shape' /\ plan' = EmptyPlan
<1> USE DEF Shape
<1>1. SchedulerOver(Int) /\ Numbers(Int) /\ RanksOver(Int)  BY DEF TypedOver, Numbers
<1>2. /\ pc = "schedule" /\ queue' = Append(queue, Batch) /\ Batch \in BatchOver(Int)
      /\ \A r \in Requests :
           /\ plan.n[r] = 0 => req'[r] = req[r]
           /\ req'[r].status = req[r].status
  BY <1>1, IssueBatchFacts
<1>3. /\ skipped' = plan.passed \o skipped /\ finishedIds' = {} /\ plan' = EmptyPlan
      /\ UNCHANGED <<running, waiting, resets, ranks>>
      /\ pc' \in {"post", "collect"} /\ (pc' = "post" => Len(queue) + 1 < QueueSize)
  BY DEF IssueBatch
<1>4. /\ queue \in Seq(BatchOver(Int)) /\ Len(queue) \in Nat /\ Len(queue) < QueueSize
  BY <1>1, <1>2, RanksFacts DEF Order
<1>5. /\ Len(queue') = Len(queue) + 1 /\ queue'[Len(queue) + 1] = Batch
      /\ \A j \in 1..Len(queue) : queue'[j] = queue[j]
  BY <1>2, <1>4, AppendFacts
<1>6. Batch.n = plan.n /\ Batch.finished = finishedIds  BY DEF Batch
<1>7. Order'
  <2>1. \A k \in Ranks : executed[k] \in Nat /\ executed'[k] = executed[k]
    BY <1>1, <1>3, RanksFacts DEF ranks
  <2>2. \A k \in Ranks : executed'[k] <= Len(queue')  BY <1>4, <1>5, <2>1 DEF Order
  <2>3. /\ \A k, l \in Ranks : k <= l => executed'[l] <= executed'[k]
        /\ Len(results') = executed'[LastRank]
    BY <1>3, <2>1, EngineFacts DEF Order, ranks
  <2>4. IF pc' = "collect" THEN Len(queue') \in 1..QueueSize ELSE Len(queue') < QueueSize
    BY <1>3, <1>4, <1>5, EngineFacts
  <2> QED  BY <2>2, <2>3, <2>4 DEF Order
<1>8. Queued'
  <2>1. skipped \in Seq(Requests) /\ plan.passed \in Seq(Requests)
    BY <1>1, PlanFacts DEF SchedulerOver
  <2>2. Apart(plan.passed, skipped)  BY DEF Queued, Apart
  <2>3. /\ \A x : In(x, skipped') <=> In(x, plan.passed) \/ In(x, skipped)
        /\ NoRepeat(skipped')
    BY <1>3, <2>1, <2>2, InCat DEF Apart, Queued, WaitingQueue
  <2>4. plan'.passed = <<>> /\ NoRepeat(<<>>) /\ \A x : ~In(x, <<>>)
    BY <1>3, EmptyPlanFacts, InEmpty
  <2>5. NoRepeat(running)' /\ Only(running, {"running"})'
    BY <1>2, <1>3 DEF Queued, Only
  <2>6. WaitingQueue(waiting)' /\ WaitingQueue(skipped)'
    BY <1>2, <1>3, <2>3 DEF Queued, WaitingQueue, Only
  <2>7. WaitingQueue(plan.passed)'  BY <2>4 DEF WaitingQueue, Only
  <2>8. /\ Apart(waiting, skipped)' /\ Apart(waiting, plan.passed)'
        /\ Apart(skipped, plan.passed)'
    BY <1>3, <2>3, <2>4 DEF Queued, Apart
  <2> QED  BY <2>5, <2>6, <2>7, <2>8 DEF Queued
<1>9. Planned'
  <2>1. running' \in Seq(Requests)  BY <1>1, <1>3 DEF SchedulerOver
  <2> QED  BY <1>3, <2>1, EmptyPlanned
<1>10. AtRest'
  <2> SUFFICES ASSUME NEW r \in Requests, req'[r].status # "running"
               PROVE  /\ req'[r].status = "new" => req'[r] = NewRequest
                      /\ req'[r].status \in {"new", "waiting"} =>
                           /\ req'[r].output = <<>>
                           /\ \A j \in 1..Len(queue') : queue'[j].n[r] = 0
                      /\ req'[r].status \in {"new", "waiting", "preempted"} =>
                           req'[r].computed = 0
    BY DEF AtRest
  <2>1. plan.n[r] = 0  BY <1>2, PlannedRun
  <2>2. req'[r] = req[r]  BY <1>2, <2>1
  <2>3. req[r].status \in {"new", "waiting"} => \A j \in 1..Len(queue') : queue'[j].n[r] = 0
    <3>1. \A j \in 1..Len(queue') : j = Len(queue) + 1 \/ j \in 1..Len(queue)
      BY <1>4, <1>5
    <3> QED  BY <1>5, <1>6, <2>1, <3>1 DEF AtRest
  <2> QED  BY <2>2, <2>3 DEF AtRest
<1>11. Announced'
  <2>1. \A j \in 1..Len(queue') : j = Len(queue) + 1 \/ j \in 1..Len(queue)
    BY <1>4, <1>5
  <2> QED  BY <1>2, <1>3, <1>5, <1>6, <2>1 DEF Announced
<1> QED  BY <1>3, <1>7, <1>8, <1>9, <1>10, <1>11

\* A rank runs ahead of the next one and behind the one before.
LEMMA ExecutedInOrder ==
  ASSUME RanksOver(Int), Order, NEW k \in Ranks, executed[k] < Len(queue),
         k > 1 => executed[k] < executed[k - 1],
         executed'[k] = executed[k] + 1,
         \A l \in Ranks : l # k => executed'[l] = executed[l]
  PROVE  /\ \A l \in Ranks : executed'[l] <= Len(queue)
         /\ \A l, m \in Ranks : l <= m => executed'[m] <= executed'[l]
<1>1. Len(queue) \in Nat /\ \A l \in Ranks : executed[l] \in Nat  BY RanksFacts
<1>2. \A l \in Ranks : executed'[l] <= Len(queue)  BY <1>1 DEF Order
<1>3. \A l \in Ranks : l < k => executed[k] < executed[l]
  <2> SUFFICES ASSUME NEW l \in Ranks, l < k PROVE executed[k] < executed[l]
    OBVIOUS
  <2>1. k > 1 /\ k - 1 \in Ranks /\ l <= k - 1  BY EngineFacts DEF Ranks
  <2>2. executed[k - 1] <= executed[l] /\ executed[k] < executed[k - 1]
    BY <2>1 DEF Order
  <2> QED  BY <1>1, <2>1, <2>2
<1>4. ASSUME NEW l \in Ranks, NEW m \in Ranks, l <= m PROVE executed'[m] <= executed'[l]
  <2>1. executed[m] <= executed[l]  BY <1>4 DEF Order
  <2>2. l \in Int /\ m \in Int /\ k \in Int  BY DEF Ranks
  <2>3. CASE m = k /\ l = k  BY <1>1, <2>3
  <2>4. CASE m = k /\ l # k
    <3>1. executed[k] < executed[l]  BY <1>3, <1>4, <2>2, <2>4
    <3> QED  BY <1>1, <2>4, <3>1
  <2>5. CASE m # k  BY <1>1, <2>1, <2>5
  <2> QED  BY <2>3, <2>4, <2>5
<1> QED  BY <1>2, <1>4

\* A step of a rank changes nothing the scheduler and the engine hold.
LEMMA RankStepShape ==
  ASSUME Shape, UNCHANGED <<scheduler, engine>>, Order'
  PROVE  Shape'
<1> USE DEF Shape
<1>1. /\ req' = req /\ running' = running /\ waiting' = waiting /\ skipped' = skipped
      /\ finishedIds' = finishedIds /\ pc' = pc /\ plan' = plan /\ queue' = queue
  BY DEF scheduler, queues, engine
<1>2. Queued'  BY <1>1 DEF Queued, WaitingQueue, Only, Apart
<1>3. Planned'  BY <1>1 DEF Planned
<1>4. AtRest' /\ Announced'  BY <1>1 DEF AtRest, Announced
<1> QED  BY <1>2, <1>3, <1>4

LEMMA ExecuteBatchShape ==
  ASSUME TypedOver(Int), Shape, NEW k \in Ranks, ExecuteBatch(k)
  PROVE  Shape' /\ UNCHANGED <<scheduler, engine, results, drafts>>
<1>1. RanksOver(Int) /\ Numbers(Int) /\ Order  BY DEF TypedOver, Numbers, Shape
<1>2. /\ k # LastRank /\ executed[k] < Len(queue)
      /\ k > 1 => executed[k] < executed[k - 1]
      /\ executed'[k] = executed[k] + 1
      /\ \A l \in Ranks : l # k => executed'[l] = executed[l]
  BY <1>1, ExecuteBatchFacts
<1>3. UNCHANGED <<scheduler, engine, results, drafts>>  BY DEF ExecuteBatch
<1>4. Order'
  <2>1. queue' = queue /\ results' = results /\ pc' = pc  BY <1>3 DEF engine
  <2>2. /\ \A l \in Ranks : executed'[l] <= Len(queue)
        /\ \A l, m \in Ranks : l <= m => executed'[m] <= executed'[l]
    BY <1>1, <1>2, ExecutedInOrder
  <2>3. executed'[LastRank] = executed[LastRank]  BY <1>2, EngineFacts
  <2> QED  BY <1>1, <2>1, <2>2, <2>3 DEF Order
<1> QED  BY <1>3, <1>4, RankStepShape

LEMMA SampleBatchShape ==
  ASSUME TypedOver(Int), Shape, SampleBatch
  PROVE  /\ TypedOver(Int)' /\ Shape' /\ UNCHANGED <<scheduler, engine>>
         /\ Len(results) + 1 <= Len(queue) /\ executed[LastRank] = Len(results)
         /\ NextBatch(LastRank) = queue[Len(results) + 1]
         /\ NextBatch(LastRank) \in BatchOver(Int)
         /\ executed'[LastRank] = Len(results) + 1
         /\ batchReqs'[LastRank] = Scheduled(NextBatch(LastRank))
         /\ \E out \in [Requests -> Seq(TokenOver(Int))] : Sampled(NextBatch(LastRank), out)
<1>1. RanksOver(Int) /\ Numbers(Int) /\ Order /\ LastRank \in Ranks
  BY EngineFacts DEF TypedOver, Numbers, Shape
<1>2. executed[LastRank] < Len(queue)
  <2>1. executed[LastRank] < executed[LastRank - 1]  BY DEF SampleBatch
  <2>2. LastRank - 1 \in Ranks  BY EngineFacts DEF Ranks
  <2>3. executed[LastRank - 1] <= Len(queue)  BY <1>1, <2>2 DEF Order
  <2>4. /\ executed[LastRank] \in Nat /\ executed[LastRank - 1] \in Nat
        /\ Len(queue) \in Nat
    BY <1>1, <2>2, RanksFacts
  <2> QED  BY <2>1, <2>3, <2>4
<1>3. NextBatch(LastRank) \in BatchOver(Int) /\ executed[LastRank] + 1 \in 1..Len(queue)
  BY <1>1, <1>2, NextBatchType
<1>4. BaseIn(Int, NextBatch(LastRank))  BY <1>1, <1>3, BatchFacts DEF BaseIn
<1>5. /\ TypedOver(Int)'
      /\ executed[LastRank] < executed[LastRank - 1]
      /\ executed'[LastRank] = executed[LastRank] + 1
      /\ \A l \in Ranks : l # LastRank => executed'[l] = executed[l]
      /\ batchReqs'[LastRank] = Scheduled(NextBatch(LastRank))
      /\ \E out \in [Requests -> Seq(TokenOver(Int))] : Sampled(NextBatch(LastRank), out)
  BY <1>1, <1>4, SampleBatchFacts
<1>6. UNCHANGED <<scheduler, engine>>  BY DEF SampleBatch
<1>7. Len(results) = executed[LastRank]  BY <1>1 DEF Order
<1>8. Order'
  <2>1. queue' = queue /\ pc' = pc  BY <1>6 DEF engine
  <2>2. /\ \A l \in Ranks : executed'[l] <= Len(queue)
        /\ \A l, m \in Ranks : l <= m => executed'[m] <= executed'[l]
    BY <1>1, <1>2, <1>5, ExecutedInOrder
  <2>3. PICK out \in [Requests -> Seq(TokenOver(Int))] : results' = Append(results, out)
    BY <1>5 DEF Sampled
  <2>4. Len(results') = Len(results) + 1  BY <1>1, <2>3, AppendFacts, RanksFacts
  <2> QED  BY <1>1, <1>5, <1>7, <2>1, <2>2, <2>4 DEF Order
<1>9. Shape'  BY <1>6, <1>8, RankStepShape
<1>10. executed[LastRank] = Len(results) /\ Len(results) + 1 <= Len(queue)
  BY <1>1, <1>2, <1>3, <1>7, RanksFacts
<1>11. NextBatch(LastRank) = queue[Len(results) + 1] /\ executed'[LastRank] = Len(results) + 1
  BY <1>5, <1>7 DEF NextBatch
<1> QED  BY <1>3, <1>5, <1>6, <1>9, <1>10, <1>11

LEMMA OldestInInt ==
  ASSUME TypedOver(Int), Shape, UpdateFromOutput
  PROVE  OldestIn(Int)
<1>1. SchedulerOver(Int) /\ RanksOver(Int) /\ Numbers(Int) /\ Order
  BY DEF TypedOver, Numbers, Shape
<1>2. Oldest \in BatchOver(Int) /\ results[1] \in [Requests -> Seq(TokenOver(Int))]
  <2>1. results # <<>> /\ results \in Seq([Requests -> Seq(TokenOver(Int))])
        /\ queue \in Seq(BatchOver(Int))
    BY <1>1 DEF UpdateFromOutput, RanksOver
  <2>2. Len(results) >= 1 /\ results[1] \in [Requests -> Seq(TokenOver(Int))]
    BY <2>1, TailFacts
  <2>3. Len(queue) >= Len(results)  BY <1>1, EngineFacts DEF Order
  <2> QED  BY <2>1, <2>2, <2>3 DEF Oldest
<1>3. ASSUME NEW r \in Requests
      PROVE  CountersIn(Int, Oldest, r, OldestOutput(r))
  <2>1. /\ Oldest.n[r] \in Int /\ Oldest.spec[r].len \in Int
        /\ req[r].inFlight \in Int /\ req[r].stale \in Int /\ req[r].computed \in Int
    BY <1>1, <1>2, BatchFacts, RequestFacts
  <2>2. OldestOutput(r) \in Seq(TokenOver(Int))  BY <1>2 DEF OldestOutput
  <2>3. Rejected(Oldest, r, OldestOutput(r)) \in Int  BY <2>1, <2>2 DEF Rejected
  <2>4. ComputedAfter(Oldest, r, OldestOutput(r)) \in Int
    BY <2>1, <2>3 DEF ComputedAfter
  <2>5. StaleLeft(Oldest, r) \in Int  BY <2>1 DEF StaleLeft
  <2> QED  BY <2>1, <2>4, <2>5 DEF CountersIn
<1> QED  BY <1>3 DEF OldestIn

LEMMA UpdateFromOutputShape ==
  ASSUME TypedOver(Int), Shape, UpdateFromOutput
  PROVE  /\ TypedOver(Int)' /\ Shape' /\ plan = EmptyPlan /\ plan' = EmptyPlan
         /\ pc = "collect" /\ pc' = "post"
         /\ Len(queue') = Len(queue) - 1 /\ Len(results') = Len(results) - 1
         /\ Len(queue) >= 1 /\ Len(results) >= 1
         /\ \A j \in 1..Len(queue') : queue'[j] = queue[j + 1]
         /\ \A j \in 1..Len(results') : results'[j] = results[j + 1]
         /\ Oldest \in BatchOver(Int)
         /\ \A r \in Requests : OldestOutput(r) \in Seq(TokenOver(Int))
         /\ \A r \in Requests : Updated(r) => Processed(req'[r], Oldest, r, OldestOutput(r))
         /\ \A r \in Requests : ~Updated(r) => req'[r] = req[r]
         /\ UNCHANGED <<resets, takeDrafts, drafts, batchReqs, history>>
<1> USE DEF Shape
<1>1. SchedulerOver(Int) /\ RanksOver(Int) /\ Numbers(Int)  BY DEF TypedOver, Numbers
<1>2. OldestIn(Int)  BY OldestInInt
<1>3. /\ TypedOver(Int)' /\ pc = "collect" /\ pc' = "post"
      /\ Len(queue) >= 1 /\ Len(results) >= 1 /\ Oldest \in BatchOver(Int)
      /\ \A r \in Requests : OldestOutput(r) \in Seq(TokenOver(Int))
      /\ queue' = Tail(queue) /\ results' = Tail(results)
      /\ \A k \in Ranks : executed'[k] = executed[k] - 1
      /\ \A r \in Requests : Updated(r) => Processed(req'[r], Oldest, r, OldestOutput(r))
      /\ \A r \in Requests : ~Updated(r) => req'[r] = req[r]
      /\ running' = Without(running, Stopped) /\ waiting' = Without(waiting, Stopped)
      /\ skipped' = Without(skipped, Stopped)
      /\ finishedIds' = finishedIds \union Stopped
      /\ UNCHANGED <<resets, plan, takeDrafts, drafts, cached, batchReqs, history, row>>
  BY <1>1, <1>2, UpdateFromOutputFacts
<1>4. /\ Len(queue') = Len(queue) - 1 /\ Len(results') = Len(results) - 1
      /\ \A j \in 1..Len(queue') : queue'[j] = queue[j + 1]
      /\ \A j \in 1..Len(results') : results'[j] = results[j + 1]
  <2>1. queue \in Seq(BatchOver(Int)) /\ results \in Seq([Requests -> Seq(TokenOver(Int))])
        /\ queue # <<>> /\ results # <<>>
    BY <1>1, <1>3, EmptyFacts, RanksFacts
  <2> QED  BY <1>3, <2>1, TailFacts
<1>5. plan = EmptyPlan /\ plan' = EmptyPlan  BY <1>3 DEF Planned
<1>6. Order'
  <2>1. \A k \in Ranks : executed[k] \in Nat  BY <1>1, RanksFacts
  <2>2. Len(queue) \in Nat /\ Len(queue) \in 1..QueueSize
    BY <1>1, <1>3, RanksFacts DEF Order
  <2>3. \A k \in Ranks : executed'[k] <= Len(queue')
    BY <1>3, <1>4, <2>1, <2>2 DEF Order
  <2>4. \A k, l \in Ranks : k <= l => executed'[l] <= executed'[k]
    BY <1>3, <2>1 DEF Order
  <2>5. Len(results') = executed'[LastRank]  BY <1>3, <1>4, EngineFacts DEF Order
  <2>6. Len(queue') < QueueSize  BY <1>4, <2>2, EngineFacts
  <2> QED  BY <1>3, <2>3, <2>4, <2>5, <2>6 DEF Order
<1>7. ASSUME NEW r \in Requests
      PROVE  \/ req'[r].status = req[r].status
             \/ r \in Stopped /\ req'[r].status = "finished"
  <2>1. CASE Updated(r)
    <3>1. Processed(req'[r], Oldest, r, OldestOutput(r)) /\ Live(r)
      BY <1>3, <2>1 DEF Updated
    <3>2. req'[r].status = req[r].status \/ req'[r].status = "finished"
      BY <3>1 DEF Processed
    <3> QED  BY <3>1, <3>2 DEF Stopped
  <2>2. CASE ~Updated(r)  BY <1>3, <2>2
  <2> QED  BY <2>1, <2>2
<1>8. Queued'
  <2>1. /\ \A x : In(x, running') => In(x, running) /\ x \notin Stopped
        /\ \A x : In(x, waiting') => In(x, waiting) /\ x \notin Stopped
        /\ \A x : In(x, skipped') => In(x, skipped) /\ x \notin Stopped
        /\ NoRepeat(running) => NoRepeat(running')
        /\ NoRepeat(waiting) => NoRepeat(waiting')
        /\ NoRepeat(skipped) => NoRepeat(skipped')
    <3>1. running \in Seq(Requests) /\ waiting \in Seq(Requests) /\ skipped \in Seq(Requests)
      BY <1>1 DEF SchedulerOver
    <3> QED  BY <1>3, <3>1, InWithout
  <2>2. plan'.passed = <<>> /\ NoRepeat(<<>>) /\ \A x : ~In(x, <<>>)
    BY <1>5, EmptyPlanFacts, InEmpty
  <2>3. \A r \in Requests : r \notin Stopped => req'[r].status = req[r].status  BY <1>7
  <2>4. NoRepeat(running)' /\ Only(running, {"running"})'
    BY <2>1, <2>3 DEF Queued, Only
  <2>5. WaitingQueue(waiting)' /\ WaitingQueue(skipped)'
    BY <2>1, <2>3 DEF Queued, WaitingQueue, Only
  <2>6. WaitingQueue(plan.passed)'  BY <2>2 DEF WaitingQueue, Only
  <2>7. /\ Apart(waiting, skipped)' /\ Apart(waiting, plan.passed)'
        /\ Apart(skipped, plan.passed)'
    BY <2>1, <2>2 DEF Queued, Apart
  <2> QED  BY <2>4, <2>5, <2>6, <2>7 DEF Queued
<1>9. Planned'
  <2>1. running' \in Seq(Requests)  BY <1>3 DEF TypedOver, SchedulerOver
  <2> QED  BY <1>5, <2>1, EmptyPlanned
<1>10. AtRest'
  <2> SUFFICES ASSUME NEW r \in Requests
               PROVE  /\ req'[r].status = "new" => req'[r] = NewRequest
                      /\ req'[r].status \in {"new", "waiting"} =>
                           /\ req'[r].output = <<>>
                           /\ \A j \in 1..Len(queue') : queue'[j].n[r] = 0
                      /\ req'[r].status \in {"new", "waiting", "preempted"} =>
                           req'[r].computed = 0
    BY DEF AtRest
  <2>1. /\ req[r].status \in {"new", "waiting"} => \A j \in 1..Len(queue) : queue[j].n[r] = 0
        /\ req[r].status \in {"new", "waiting", "preempted"} => req[r].computed = 0
        /\ req[r].status \in {"new", "waiting"} => req[r].output = <<>>
        /\ req[r].status = "new" => req[r] = NewRequest
    BY DEF AtRest
  <2>2. CASE Updated(r)
    <3>1. Oldest.n[r] > 0 /\ Live(r) /\ Processed(req'[r], Oldest, r, OldestOutput(r))
      BY <1>3, <2>2 DEF Updated
    <3>2. req[r].status \notin {"new", "waiting"}
      <4>1. 1 \in 1..Len(queue)  BY <1>1, <1>3, RanksFacts
      <4>2. queue[1].n[r] # 0  BY <3>1 DEF Oldest
      <4> QED  BY <2>1, <4>1, <4>2
    <3>3. req[r].status = "preempted" => req'[r].computed = 0
      BY <2>1, <3>1 DEF Processed, ComputedAfter, RollsBack
    <3> QED  BY <1>7, <3>2, <3>3
  <2>3. CASE ~Updated(r)
    <3>1. req'[r] = req[r]  BY <1>3, <2>3
    <3>2. req[r].status \in {"new", "waiting"} => \A j \in 1..Len(queue') : queue'[j].n[r] = 0
      <4>1. \A j \in 1..Len(queue') : j + 1 \in 1..Len(queue)  BY <1>1, <1>4, RanksFacts
      <4> QED  BY <1>4, <2>1, <4>1
    <3> QED  BY <2>1, <3>1, <3>2
  <2> QED  BY <2>2, <2>3
<1>11. Announced'
  <2>1. \A j \in 1..Len(queue') : j + 1 \in 1..Len(queue)  BY <1>1, <1>4, RanksFacts
  <2>2. \A r \in Stopped : req'[r].status = "finished"  BY DEF Stopped
  <2>3. \A r \in Requests : req[r].status = "finished" => req'[r].status = "finished"
    BY <1>7
  <2>4. \A j \in 1..Len(queue') : queue'[j].finished = queue[j + 1].finished  BY <1>4
  <2> QED  BY <1>3, <2>1, <2>2, <2>3, <2>4 DEF Announced
<1> QED  BY <1>3, <1>4, <1>5, <1>6, <1>8, <1>9, <1>10, <1>11

LEMMA PostStepShape ==
  ASSUME TypedOver(Int), Shape, PostStep
  PROVE  /\ Shape' /\ plan = EmptyPlan /\ plan' = EmptyPlan
<1> USE DEF Shape
<1>1. Numbers(Int)  BY DEF Numbers
<1>2. /\ pc = "post" /\ pc' = "inputs"
      /\ UNCHANGED <<queues, finishedIds, resets, plan, queue, ranks>>
      /\ \A r \in Requests :
              /\ ~Fetched(r) => req'[r] = req[r]
              /\ req'[r].status = req[r].status /\ req'[r].output = req[r].output
              /\ req'[r].computed = req[r].computed
  BY <1>1, PostStepFacts
<1>3. plan = EmptyPlan /\ plan' = EmptyPlan  BY <1>2 DEF Planned
<1>4. Order'  BY <1>2, OrderKept DEF ranks
<1>5. Queued' /\ Announced'  BY <1>2, QueuedKept, AnnouncedKept
<1>6. Planned'
  <2>1. running' \in Seq(Requests)  BY <1>2 DEF queues, TypedOver, SchedulerOver
  <2> QED  BY <1>3, <2>1, EmptyPlanned
<1>7. AtRest'  BY <1>2 DEF AtRest, Fetched, Live
<1> QED  BY <1>3, <1>4, <1>5, <1>6, <1>7

---------------------------------------------------------------------------
(* The steps, seen by one request *)

LEMMA StillFacts ==
  ASSUME UNCHANGED <<queue, ranks>>
  PROVE  Still
BY DEF Still, ranks

LEMMA EvictedFacts ==
  ASSUME SchedulerOver(Int), NEW r \in Requests, NEW drop \in BOOLEAN,
         req'[r] = Preempted(req[r], drop), req[r].status = "running",
         plan.n[r] = 0, plan'.n[r] = 0
  PROVE  Evicted(r)
<1>1. req[r] \in RequestOver(Int) /\ Numbers(Int)  BY DEF SchedulerOver, Numbers
<1>2. /\ Preempted(req[r], drop).status = "preempted" /\ Preempted(req[r], drop).blocks = 0
      /\ Preempted(req[r], drop).computed = 0 /\ Preempted(req[r], drop).spec = NoDraft
      /\ Preempted(req[r], drop).stale = req[r].inFlight
      /\ Preempted(req[r], drop).inFlight = req[r].inFlight
      /\ Preempted(req[r], drop).output = req[r].output
      /\ Preempted(req[r], drop).dropStale = (drop \/ (req[r].dropStale /\ req[r].stale > 0))
  BY <1>1, PreemptedFacts
<1>3. ~req'[r].dropStale => ~(req[r].dropStale /\ req[r].stale > 0)  BY <1>2, Zenon
<1> QED  BY <1>2, <1>3 DEF Evicted

LEMMA ScheduleRunningSteps ==
  ASSUME TypedOver(Int), Shape, ScheduleRunning
  PROVE  Still /\ \A r \in Requests : QuietStep(r)
<1>1. SchedulerOver(Int) /\ Numbers(Int) /\ Queued /\ Planned
  BY DEF TypedOver, Numbers, Shape
<1>2. /\ req[Current].status = "running" /\ plan.n[Current] = 0
      /\ \A q \in Victim : q \in Requests /\ req[q].status = "running" /\ plan.n[q] = 0
  BY ScheduleRunningShape
<1>3. /\ Current \in Requests /\ Given \in 1..plan.budget
      /\ req[Current].computed < NumTokens(Current)
      /\ Given + req[Current].computed <= NumTokens(Current) + req[Current].spec.len
      /\ Dropped \in 0..(Len(running) - plan.idx + 1)
      /\ NeededBlocks \in Nat
  BY <1>1, ScheduleRunningFacts
<1>4. /\ \A q \in Victim : req'[q] = Preempted(req[q], FALSE)
      /\ \A q \in Requests : q \notin Victim /\ q # Current => req'[q] = req[q]
      /\ Current \in Victim => plan' = StoppedPlan
      /\ Current \notin Victim =>
           /\ req'[Current] = Placed(req[Current], NeededBlocks)
           /\ plan' = PlacedPlan
  BY <1>1, ScheduleRunningFacts
<1>5. Still  BY StillFacts DEF ScheduleRunning
<1>6. plan \in PlanOver(Int)  BY <1>1, PlanFacts
<1>7. ASSUME Current \in Victim
      PROVE  plan'.n = plan.n /\ plan'.spec = plan.spec
  BY <1>4, <1>6, <1>7 DEF StoppedPlan, PlanOver
<1>8. ASSUME Current \notin Victim
      PROVE  /\ plan'.n[Current] = Given
             /\ plan'.spec[Current] = ScheduledDrafts(Current, Given)
             /\ \A q \in Requests : q # Current => /\ plan'.n[q] = plan.n[q]
                                                   /\ plan'.spec[q] = plan.spec[q]
  <2> DEFINE prefill == plan.prefill \/ req[Current].chunk
             preempted == plan.preempted \/ Dropped > 0
             d == ScheduledDrafts(Current, Given)
             p == PlanWith(Current, Given, d, prefill, preempted)
  <2>1. prefill \in BOOLEAN /\ preempted \in BOOLEAN  OBVIOUS
  <2>2. Given \in 0..plan.budget /\ Given \in Int  BY <1>1, <1>3, PlanFacts
  <2>3. d \in DraftOver(Int)  BY <1>1, <1>3, <2>2, ScheduledDraftsFacts
  <2>4. plan' = p  BY <1>4, <1>8 DEF PlacedPlan
  <2> HIDE DEF prefill, preempted, d
  <2>5. /\ p.n[Current] = Given /\ p.spec[Current] = d
        /\ \A q \in Requests : q # Current => p.n[q] = plan.n[q] /\ p.spec[q] = plan.spec[q]
    BY <1>1, <1>3, <2>1, <2>2, <2>3, PlanWithFacts
  <2> HIDE DEF p
  <2> QED  BY <2>4, <2>5 DEF d
<1>9. ASSUME NEW r \in Requests PROVE QuietStep(r)
  <2>1. CASE r \in Victim
    <3>1. plan'.n[r] = 0  BY <1>2, <1>7, <1>8, <2>1
    <3>2. FALSE \in BOOLEAN  OBVIOUS
    <3>3. req'[r] = Preempted(req[r], FALSE) /\ req[r].status = "running" /\ plan.n[r] = 0
      BY <1>2, <1>4, <2>1
    <3>4. Evicted(r)  BY <1>1, <3>1, <3>2, <3>3, EvictedFacts
    <3> QED  BY <3>4 DEF QuietStep
  <2>2. CASE r \notin Victim /\ r # Current
    BY <1>4, <1>7, <1>8, <2>2 DEF QuietStep, Untouched
  <2>3. CASE r \notin Victim /\ r = Current
    <3>1. req[r] \in RequestOver(Int)  BY <1>1 DEF SchedulerOver
    <3> DEFINE b == NeededBlocks  q == Placed(req[r], b)
    <3>2. req'[r] = q  BY <1>4, <2>3
    <3>3. /\ q.status = req[r].status /\ q.blocks = req[r].blocks + b
          /\ q.computed = req[r].computed /\ q.spec = NoDraft
          /\ q.inFlight = req[r].inFlight /\ q.stale = req[r].stale
          /\ q.dropStale = req[r].dropStale /\ q.chunk = req[r].chunk
          /\ q.output = req[r].output
      <4>1. b \in Nat /\ Numbers(Int)  BY <1>1, <1>3
      <4> HIDE DEF b
      <4>2. /\ Placed(req[r], b).status = req[r].status
            /\ Placed(req[r], b).blocks = req[r].blocks + b
            /\ Placed(req[r], b).computed = req[r].computed /\ Placed(req[r], b).spec = NoDraft
            /\ Placed(req[r], b).inFlight = req[r].inFlight
            /\ Placed(req[r], b).stale = req[r].stale
            /\ Placed(req[r], b).dropStale = req[r].dropStale
            /\ Placed(req[r], b).chunk = req[r].chunk
            /\ Placed(req[r], b).output = req[r].output
        BY <3>1, <4>1, PlacedFacts
      <4> QED  BY <4>2
    <3>4. plan'.n[r] = Given /\ plan'.spec[r] = ScheduledDrafts(r, Given)  BY <1>8, <2>3
    <3>5. Given \in Nat /\ Given > 0  BY <1>1, <1>3, PlanFacts
    <3>6. SameProgress(r)  BY <3>2, <3>3 DEF SameProgress
    <3>7. b = NewBlocks(r, req[r].computed, Given)  BY <2>3 DEF NeededBlocks
    <3> HIDE DEF q, b
    <3>8. GivenTokens(r)
      BY <1>2, <1>3, <2>3, <3>2, <3>3, <3>4, <3>5, <3>6, <3>7 DEF GivenTokens
    <3> QED  BY <3>8 DEF QuietStep
  <2> QED  BY <2>1, <2>2, <2>3
<1> QED  BY <1>5, <1>9

LEMMA AdmitWaitingSteps ==
  ASSUME TypedOver(Int), Shape, AdmitWaiting
  PROVE  Still /\ \A r \in Requests : QuietStep(r)
<1>1. SchedulerOver(Int) /\ Numbers(Int)  BY DEF TypedOver, Numbers
<1>2. req[Candidate].status \in {"waiting", "preempted"} /\ plan.n[Candidate] = 0
  BY AdmitWaitingShape
<1>3. /\ Candidate \in Requests /\ CanAdmit(Candidate) /\ ~OwedOutput(Candidate)
      /\ plan.budget > 0
      /\ req'[Candidate] = Admitted(req[Candidate], OfferedBlocks)
      /\ \A q \in Requests : q # Candidate => req'[q] = req[q]
  BY <1>1, AdmitWaitingFacts
<1>4. /\ plan'.n[Candidate] = Offered /\ plan'.spec[Candidate] = OfferedDrafts
      /\ \A q \in Requests : q # Candidate => /\ plan'.n[q] = plan.n[q]
                                              /\ plan'.spec[q] = plan.spec[q]
  BY <1>1, AdmitWaitingTyped
<1>5. /\ Offered \in 1..plan.budget /\ OfferedBlocks \in Nat
      /\ Padded(Candidate) => Offered = NumSpec + 1 /\ NumTokens(Candidate) = 1
      /\ ~Padded(Candidate) => Offered <= NumTokens(Candidate)
  BY <1>1, <1>3, OfferedFacts
<1>6. Still  BY StillFacts DEF AdmitWaiting
<1>7. ASSUME NEW r \in Requests PROVE QuietStep(r)
  <2>1. CASE r # Candidate  BY <1>3, <1>4, <2>1 DEF QuietStep, Untouched
  <2>2. CASE r = Candidate
    <3>1. req[r] \in RequestOver(Int)  BY <1>1 DEF SchedulerOver
    <3> DEFINE b == OfferedBlocks  q == Admitted(req[r], b)
    <3>2. req'[r] = q  BY <1>3, <2>2
    <3>3. /\ q.status = "running" /\ q.blocks = req[r].blocks + b
          /\ q.computed = req[r].computed /\ q.spec = req[r].spec
          /\ q.inFlight = req[r].inFlight /\ q.stale = req[r].stale
          /\ q.dropStale = req[r].dropStale /\ q.chunk = req[r].chunk
          /\ q.output = req[r].output
      BY <1>1, <1>5, <3>1, AdmittedFacts
    <3>4. SameProgress(r)  BY <3>2, <3>3 DEF SameProgress
    <3>5. Offered \in Nat /\ Offered > 0  BY <1>1, <1>5, PlanFacts
    <3>6. \/ Offered = NumSpec + 1 /\ NumTokens(r) = 1 /\ OfferedDrafts = Padding
          \/ Offered <= NumTokens(r) /\ OfferedDrafts = NoDraft
      BY <1>5, <2>2 DEF OfferedDrafts
    <3>7. b = NewBlocks(r, 0, Offered)  BY <2>2 DEF OfferedBlocks
    <3>8. plan'.n[r] = Offered /\ plan'.spec[r] = OfferedDrafts  BY <1>4, <2>2
    <3> HIDE DEF q, b
    <3>9. TakenIn(r)
      BY <1>2, <1>3, <2>2, <3>2, <3>3, <3>4, <3>5, <3>6, <3>7, <3>8 DEF TakenIn
    <3> QED  BY <3>9 DEF QuietStep
  <2> QED  BY <2>1, <2>2
<1> QED  BY <1>6, <1>7

LEMMA EmptyPlans ==
  ASSUME plan = EmptyPlan, plan' = EmptyPlan, NEW r \in Requests
  PROVE  plan.n[r] = 0 /\ plan'.n[r] = 0 /\ plan'.spec[r] = plan.spec[r]
BY EmptyPlanFacts

\* A step issues a batch, samples, takes an output, ends the engine's step or does none of these.
LEMMA StepCases ==
  ASSUME TypedOver(Int), Shape, Next
  PROVE  /\ TypedOver(Int)' /\ Shape'
         /\ \/ Still /\ \A r \in Requests : QuietStep(r)
            \/ IssueBatch
            \/ SampleBatch
            \/ UpdateFromOutput
            \/ PostStep
<1> DEFINE Cases == \/ Still /\ \A r \in Requests : QuietStep(r)
                    \/ IssueBatch \/ SampleBatch \/ UpdateFromOutput \/ PostStep
           Goal == TypedOver(Int)' /\ Shape' /\ Cases
<1>1. Numbers(Int) /\ SchedulerOver(Int) /\ RanksOver(Int) /\ Order /\ Queued /\ Planned
  BY DEF Numbers, TypedOver, Shape
<1>2. ASSUME NEW r \in Requests, AddRequest(r) PROVE Goal
  <2>1. TypedOver(Int)'  BY <1>1, <1>2, AddRequestTyped
  <2>2. /\ Shape' /\ pc = "inputs" /\ req[r] = NewRequest
        /\ \A q \in Requests : q # r => req'[q] = req[q]
        /\ req'[r] = [NewRequest EXCEPT !.status = "waiting"]
    BY <1>2, AddRequestShape
  <2>3. plan = EmptyPlan /\ plan' = EmptyPlan
    BY <1>1, <1>2, <2>2 DEF Planned, AddRequest, engine
  <2>4. Still  BY <1>2, StillFacts DEF AddRequest, engine
  <2>5. \A q \in Requests : QuietStep(q)
    BY <2>2, <2>3, EmptyPlans DEF QuietStep, Untouched, Added
  <2> QED  BY <2>1, <2>2, <2>4, <2>5
<1>3. ASSUME NEW r \in Requests, Abort(r) PROVE Goal
  <2>1. TypedOver(Int)'  BY <1>1, <1>3, AbortTyped
  <2>2. /\ Shape' /\ Live(r) /\ plan = EmptyPlan
        /\ \A q \in Requests : q # r => req'[q] = req[q]
        /\ req'[r] = Freed(req[r])
    BY <1>3, AbortShape
  <2>3. plan' = EmptyPlan  BY <1>3, <2>2 DEF Abort, engine
  <2>4. Still  BY <1>3, StillFacts DEF Abort, engine
  <2>5. /\ req'[r].status = "finished" /\ req'[r].blocks = 0
        /\ req'[r].computed = req[r].computed /\ req'[r].output = req[r].output
    <3>1. req[r] \in RequestOver(Int)  BY <1>1 DEF SchedulerOver
    <3> QED  BY <1>1, <2>2, <3>1, FreedFacts
  <2>6. \A q \in Requests : QuietStep(q)
    BY <2>2, <2>3, <2>5, EmptyPlans DEF QuietStep, Untouched, Aborted
  <2> QED  BY <2>1, <2>2, <2>4, <2>6
<1>4. ASSUME ResetRunning PROVE Goal
  <2>1. TypedOver(Int)'  BY <1>1, <1>4, ResetRunningTyped
  <2>2. /\ Shape' /\ pc = "inputs" /\ plan = EmptyPlan
        /\ \A q \in Requests : /\ In(q, running) => req'[q] = Preempted(req[q], TRUE)
                               /\ ~In(q, running) => req'[q] = req[q]
    BY <1>4, ResetRunningShape
  <2>3. plan' = EmptyPlan  BY <1>4, <2>2 DEF ResetRunning, engine
  <2>4. Still  BY <1>4, StillFacts DEF ResetRunning, engine
  <2>5. ASSUME NEW q \in Requests PROVE QuietStep(q)
    <3>1. plan.n[q] = 0 /\ plan'.n[q] = 0 /\ plan'.spec[q] = plan.spec[q]
      BY <2>2, <2>3, EmptyPlans
    <3>2. CASE In(q, running)
      <4>1. req[q].status = "running" /\ TRUE \in BOOLEAN
        BY <1>1, <3>2 DEF Queued, Only
      <4>2. Evicted(q)  BY <1>1, <2>2, <3>1, <3>2, <4>1, EvictedFacts
      <4> QED  BY <4>2 DEF QuietStep
    <3>3. CASE ~In(q, running)  BY <2>2, <3>1, <3>3 DEF QuietStep, Untouched
    <3> QED  BY <3>2, <3>3
  <2> QED  BY <2>1, <2>2, <2>4, <2>5
<1>5. ASSUME BeginSchedule PROVE Goal
  <2>1. TypedOver(Int)'  BY <1>1, <1>5, BeginScheduleTyped
  <2>2. Shape' /\ plan = EmptyPlan /\ plan' = EmptyPlan /\ req' = req
    BY <1>5, BeginScheduleShape
  <2>3. Still  BY <1>5, StillFacts DEF BeginSchedule
  <2>4. \A q \in Requests : QuietStep(q)  BY <2>2, EmptyPlans DEF QuietStep, Untouched
  <2> QED  BY <2>1, <2>2, <2>3, <2>4
<1>6. ASSUME PassRunning PROVE Goal
  <2>1. TypedOver(Int)'  BY <1>1, <1>6, PassRunningTyped
  <2>2. Shape' /\ req' = req /\ plan'.n = plan.n /\ plan'.spec = plan.spec
    BY <1>6, PassRunningShape
  <2>3. Still  BY <1>6, StillFacts DEF PassRunning
  <2>4. \A q \in Requests : QuietStep(q)  BY <2>2 DEF QuietStep, Untouched
  <2> QED  BY <2>1, <2>2, <2>3, <2>4
<1>7. ASSUME ScheduleRunning PROVE Goal
  <2>1. TypedOver(Int)'  BY <1>1, <1>7, ScheduleRunningTyped
  <2>2. Shape'  BY <1>7, ScheduleRunningShape
  <2>3. Still /\ \A q \in Requests : QuietStep(q)  BY <1>7, ScheduleRunningSteps
  <2> QED  BY <2>1, <2>2, <2>3
<1>8. ASSUME PassWaiting PROVE Goal
  <2>1. TypedOver(Int)' /\ plan' = [plan EXCEPT !.passed = Append(plan.passed, Candidate)]
    BY <1>1, <1>8, PassWaitingFacts
  <2>2. Shape'  BY <1>8, PassWaitingShape
  <2>3. Still /\ req' = req  BY <1>8, StillFacts DEF PassWaiting
  <2>4. plan'.n = plan.n /\ plan'.spec = plan.spec
    BY <1>1, <2>1, PlanFacts DEF PlanOver
  <2>5. \A q \in Requests : QuietStep(q)  BY <2>3, <2>4 DEF QuietStep, Untouched
  <2> QED  BY <2>1, <2>2, <2>3, <2>5
<1>9. ASSUME AdmitWaiting PROVE Goal
  <2>1. TypedOver(Int)'  BY <1>1, <1>9, AdmitWaitingTyped
  <2>2. Shape'  BY <1>9, AdmitWaitingShape
  <2>3. Still /\ \A q \in Requests : QuietStep(q)  BY <1>9, AdmitWaitingSteps
  <2> QED  BY <2>1, <2>2, <2>3
<1>10. ASSUME RefuseWaiting PROVE Goal
  <2>1. TypedOver(Int)'  BY <1>1, <1>10, RefuseWaitingTyped
  <2>2. Shape' /\ req' = req /\ plan'.n = plan.n /\ plan'.spec = plan.spec
    BY <1>10, RefuseWaitingShape
  <2>3. Still  BY <1>10, StillFacts DEF RefuseWaiting
  <2>4. \A q \in Requests : QuietStep(q)  BY <2>2 DEF QuietStep, Untouched
  <2> QED  BY <2>1, <2>2, <2>3, <2>4
<1>11. ASSUME IssueBatch PROVE Goal  BY <1>1, <1>11, IssueBatchTyped, IssueBatchShape
<1>12. ASSUME DrainQueue PROVE Goal
  <2>1. TypedOver(Int)'  BY <1>1, <1>12, DrainQueueTyped
  <2>2. Shape' /\ req' = req /\ plan = EmptyPlan /\ plan' = EmptyPlan
    BY <1>12, DrainQueueShape
  <2>3. Still  BY <1>12, StillFacts DEF DrainQueue
  <2>4. \A q \in Requests : QuietStep(q)  BY <2>2, EmptyPlans DEF QuietStep, Untouched
  <2> QED  BY <2>1, <2>2, <2>3, <2>4
<1>13. ASSUME UpdateFromOutput PROVE Goal  BY <1>13, UpdateFromOutputShape
<1>14. ASSUME PostStep PROVE Goal
  <2>1. TypedOver(Int)'  BY <1>1, <1>14, PostStepFacts
  <2>2. Shape'  BY <1>14, PostStepShape
  <2> QED  BY <1>14, <2>1, <2>2
<1>15. ASSUME NEW k \in Ranks, ExecuteBatch(k) PROVE Goal
  <2>1. /\ TypedOver(Int)' /\ k # LastRank
        /\ \A l \in Ranks : l # k => executed'[l] = executed[l] /\ history'[l] = history[l]
                                      /\ batchReqs'[l] = batchReqs[l]
    BY <1>1, <1>15, ExecuteBatchFacts
  <2>2. Shape' /\ UNCHANGED <<scheduler, engine, results, drafts>>
    BY <1>15, ExecuteBatchShape
  <2>3. Still  BY <2>1, <2>2, EngineFacts DEF Still, engine
  <2>4. \A q \in Requests : QuietStep(q)
    BY <2>2 DEF QuietStep, Untouched, scheduler, engine
  <2> QED  BY <2>1, <2>2, <2>3, <2>4
<1>16. ASSUME SampleBatch PROVE Goal  BY <1>16, SampleBatchShape
<1>17. ASSUME Idle PROVE Goal
  <2>1. UNCHANGED vars  BY <1>17 DEF Idle
  <2>2. Still /\ \A q \in Requests : QuietStep(q)
    BY <2>1 DEF Still, QuietStep, Untouched, vars
  <2>3. TypedOver(Int)'  BY <2>1 DEF TypedOver, SchedulerOver, RanksOver, vars
  <2>4. Shape'
    BY <2>1 DEF Shape, Order, Queued, WaitingQueue, Only, Apart, Planned, AtRest, Announced, vars
  <2> QED  BY <2>2, <2>3, <2>4
<1> HIDE DEF Goal
<1>18. Goal
  BY <1>2, <1>3, <1>4, <1>5, <1>6, <1>7, <1>8, <1>9, <1>10, <1>11, <1>12, <1>13, <1>14,
     <1>15, <1>16, <1>17 DEF Next, EngineStep, ScheduleStep
<1> QED  BY <1>18 DEF Goal

LEMMA NothingChanges ==
  ASSUME UNCHANGED vars
  PROVE  /\ TypedOver(Int) => TypedOver(Int)'
         /\ Shape => Shape'
         /\ Still /\ \A r \in Requests : QuietStep(r)
<1>1. TypedOver(Int) => TypedOver(Int)'
  BY DEF TypedOver, SchedulerOver, RanksOver, vars
<1>2. Shape => Shape'
  BY DEF Shape, Order, Queued, WaitingQueue, Only, Apart, Planned, AtRest, Announced, vars
<1>3. Still /\ \A r \in Requests : QuietStep(r)
  BY DEF Still, QuietStep, Untouched, vars
<1> QED  BY <1>1, <1>2, <1>3

LEMMA Steps ==
  ASSUME TypedOver(Int), Shape, [Next]_vars
  PROVE  /\ TypedOver(Int)' /\ Shape'
         /\ \/ Still /\ \A r \in Requests : QuietStep(r)
            \/ IssueBatch
            \/ SampleBatch
            \/ UpdateFromOutput
            \/ PostStep
BY StepCases, NothingChanges

---------------------------------------------------------------------------
(* What is in flight of a request *)

LEMMA InFlightNow == \A r, i : InFlight(r, i) = Flight(queue, r, i)
<1> TAKE r, i
<1> QED  BY DEF InFlight, Prefix, Flight, Total, Sum

LEMMA InFlightNext == (\A r, i : InFlight(r, i) = Flight(queue, r, i))'
BY InFlightNow, PTL

LEMMA InFlightIs ==
  ASSUME NEW r, NEW i
  PROVE  InFlight(r, i) = Flight(queue, r, i) /\ InFlight(r, i)' = Flight(queue', r, i)
BY InFlightNow, InFlightNext

LEMMA FlightFacts ==
  ASSUME NEW q \in Seq(BatchOver(Int)), NEW r \in Requests
  PROVE  /\ Flight(q, r, 0) = 0
         /\ \A j \in 1..Len(q) : /\ q[j].n[r] \in Nat
                                 /\ Flight(q, r, j) = Flight(q, r, j - 1) + q[j].n[r]
         /\ \A i \in 0..Len(q) : Flight(q, r, i) \in Nat
         /\ \A i, j \in 0..Len(q) : i <= j => Flight(q, r, i) <= Flight(q, r, j)
<1> DEFINE L == Len(q)  f == [j \in 1..L |-> q[j].n[r]]
<1>1. L \in Nat /\ Numbers(Int)  BY DEF Numbers
<1>2. \A j \in 1..L : q[j].n[r] \in Nat /\ f[j] = q[j].n[r]
  <2> TAKE j \in 1..L
  <2>1. q[j] \in BatchOver(Int)  OBVIOUS
  <2> QED  BY <1>1, <2>1, BatchFacts
<1>3. \A i : Flight(q, r, i) = Prefix(f, i)  BY DEF Flight
<1> HIDE DEF f
<1>4. \A i \in 0..L : i \in Nat /\ NatUpTo(f, i) /\ IntUpTo(f, i)
  BY <1>1, <1>2 DEF NatUpTo, IntUpTo
<1>5. Prefix(f, 0) = 0  BY PrefixZero
<1>6. ASSUME NEW j \in 1..L
      PROVE  Prefix(f, j) = Prefix(f, j - 1) + q[j].n[r]
  <2> DEFINE i == j - 1
  <2>1. i \in Nat /\ i + 1 = j /\ j \in 0..L  BY <1>1
  <2> HIDE DEF i
  <2>2. IntUpTo(f, i + 1)  BY <1>4, <2>1
  <2>3. Prefix(f, i + 1) = Prefix(f, i) + f[i + 1]  BY <2>1, <2>2, PrefixStep
  <2> QED  BY <1>2, <2>1, <2>3 DEF i
<1>7. \A i \in 0..L : Prefix(f, i) \in Nat  BY <1>4, PrefixNat
<1>8. ASSUME NEW i \in 0..L, NEW j \in 0..L, i <= j
      PROVE  Prefix(f, i) <= Prefix(f, j)
  <2>1. i \in 0..j /\ j \in Nat /\ NatUpTo(f, j)  BY <1>1, <1>4, <1>8
  <2> QED  BY <2>1, PrefixMonotone
<1> QED  BY <1>2, <1>5, <1>6, <1>7, <1>8, <1>3

\* A batch more at the end, and one less at the front.
LEMMA FlightGrows ==
  ASSUME NEW q \in Seq(BatchOver(Int)), NEW p \in Seq(BatchOver(Int)), NEW r \in Requests,
         Len(p) = Len(q) + 1, \A j \in 1..Len(q) : p[j] = q[j]
  PROVE  /\ \A i \in 0..Len(q) : Flight(p, r, i) = Flight(q, r, i)
         /\ Flight(p, r, Len(q) + 1) = Flight(q, r, Len(q)) + p[Len(q) + 1].n[r]
<1> DEFINE L == Len(q)  f == [j \in 1..L |-> q[j].n[r]]  g == [j \in 1..(L + 1) |-> p[j].n[r]]
<1>1. L \in Nat /\ \A j \in 1..L : q[j].n[r] \in Nat  BY FlightFacts
<1>2. Flight(p, r, L + 1) = Flight(p, r, L) + p[L + 1].n[r]
  <2>1. L + 1 \in 1..Len(p) /\ (L + 1) - 1 = L  BY <1>1
  <2>2. Flight(p, r, L + 1) = Flight(p, r, (L + 1) - 1) + p[L + 1].n[r]
    BY <2>1, FlightFacts
  <2> QED  BY <2>1, <2>2
<1>3. \A j \in 1..L : g[j] = f[j] /\ f[j] \in Int  BY <1>1
<1>4. \A i : Flight(q, r, i) = Prefix(f, i) /\ Flight(p, r, i) = Prefix(g, i)
  BY DEF Flight
<1> HIDE DEF f, g
<1>5. \A i \in 0..L : Prefix(g, i) = Prefix(f, i)
  <2> TAKE i \in 0..L
  <2>1. i \in Nat /\ IntUpTo(f, i) /\ SameUpTo(g, f, i)
    BY <1>1, <1>3 DEF IntUpTo, SameUpTo
  <2> QED  BY <2>1, PrefixSame
<1>6. L \in 0..L  BY <1>1
<1> QED  BY <1>2, <1>4, <1>5, <1>6

LEMMA FlightShrinks ==
  ASSUME NEW q \in Seq(BatchOver(Int)), NEW p \in Seq(BatchOver(Int)), NEW r \in Requests,
         Len(p) = Len(q) - 1, \A j \in 1..Len(p) : p[j] = q[j + 1]
  PROVE  \A i \in 0..Len(p) : Flight(q, r, i + 1) = q[1].n[r] + Flight(p, r, i)
<1> DEFINE L == Len(p)  f == [j \in 1..(L + 1) |-> q[j].n[r]]  g == [j \in 1..L |-> p[j].n[r]]
<1>1. L \in Nat /\ Len(q) = L + 1 /\ \A j \in 1..(L + 1) : q[j].n[r] \in Nat
  <2>1. L \in Nat /\ Len(q) = L + 1  OBVIOUS
  <2> QED  BY <2>1, FlightFacts
<1>2. \A j \in 1..L : g[j] = f[j + 1]  BY <1>1
<1>3. \A j \in 1..(L + 1) : f[j] \in Int /\ f[j] = q[j].n[r]  BY <1>1
<1>4. \A i : Flight(q, r, i) = Prefix(f, i) /\ Flight(p, r, i) = Prefix(g, i)
  BY <1>1 DEF Flight
<1> HIDE DEF f, g
<1> SUFFICES ASSUME NEW i \in 0..L PROVE Prefix(f, i + 1) = q[1].n[r] + Prefix(g, i)
  BY <1>4
<1>5. i \in Nat /\ IntUpTo(f, i + 1) /\ ShiftUpTo(f, g, i)
  BY <1>1, <1>2, <1>3 DEF IntUpTo, ShiftUpTo
<1>6. f[1] = q[1].n[r]  BY <1>1, <1>3
<1> QED  BY <1>5, <1>6, PrefixShift

---------------------------------------------------------------------------
(* The counters of a request agree with the batches in flight *)

LEMMA LiveFacts ==
  ASSUME NEW P, SchedulerOver(P), NEW r \in Requests
  PROVE  /\ req[r].status \in {"new", "waiting", "running", "preempted", "finished"}
         /\ Live(r) <=> req[r].status # "new" /\ req[r].status # "finished"
<1>1. req[r] \in RequestOver(P)  BY DEF SchedulerOver
<1>2. req[r].status \in {"new", "waiting", "running", "preempted", "finished"}
  BY <1>1 DEF RequestOver
<1> QED  BY <1>2 DEF Live

LEMMA QueueFacts ==
  ASSUME TypedOver(Int)
  PROVE  queue \in Seq(BatchOver(Int)) /\ Len(queue) \in Nat /\ Numbers(Int)
BY RanksFacts DEF TypedOver, Numbers

LEMMA QuietAccounted ==
  ASSUME TypedOver(Int), NEW r \in Requests, QuietStep(r), CountersAgree(queue, req[r], r)
  PROVE  CountersAgree(queue, req'[r], r)
<1> DEFINE a == req[r]  z == req'[r]  L == Len(queue)
<1>1. queue \in Seq(BatchOver(Int)) /\ L \in Nat /\ L \in 0..L /\ Numbers(Int)
  BY QueueFacts
<1>2. a.inFlight \in Int /\ a.stale \in Int  BY <1>1, RequestFacts DEF TypedOver
<1>3. CountersAgree(queue, a, r)  OBVIOUS
<1> HIDE DEF a, z, L
<1> SUFFICES CountersAgree(queue, z, r)
  BY DEF z
<1>4. CASE Untouched(r)  BY <1>3, <1>4 DEF Untouched, a, z
<1>5. CASE Added(r)
  <2>1. /\ a.status # "finished" /\ a.status # "running" /\ z.status # "running"
        /\ z.inFlight = a.inFlight /\ z.stale = a.stale
    BY <1>5 DEF Added, NewRequest, a, z
  <2> QED  BY <1>3, <2>1 DEF CountersAgree
<1>6. CASE Aborted(r)
  <2>1. z.status = "finished"  BY <1>6 DEF Aborted, a, z
  <2> QED  BY <2>1 DEF CountersAgree
<1>7. CASE Evicted(r)
  <2>1. /\ a.status = "running" /\ z.status = "preempted"
        /\ z.inFlight = a.inFlight /\ z.stale = a.inFlight
    BY <1>7 DEF Evicted, a, z
  <2> QED  BY <1>1, <1>3, <2>1 DEF CountersAgree, L
<1>8. CASE GivenTokens(r)
  <2>1. /\ a.status = "running" /\ z.status = "running"
        /\ z.inFlight = a.inFlight /\ z.stale = a.stale /\ z.dropStale = a.dropStale
    BY <1>8 DEF GivenTokens, SameProgress, a, z
  <2> QED  BY <1>3, <2>1 DEF CountersAgree
<1>9. CASE TakenIn(r)
  <2>1. /\ a.status # "finished" /\ z.status = "running"
        /\ z.inFlight = a.inFlight /\ z.stale = a.stale /\ z.dropStale = a.dropStale
        /\ a.stale > 0 => a.dropStale
    BY <1>9 DEF TakenIn, SameProgress, OwedOutput, a, z
  <2> QED  BY <1>3, <2>1 DEF CountersAgree
<1> QED  BY <1>4, <1>5, <1>6, <1>7, <1>8, <1>9 DEF QuietStep

LEMMA IssueAccounted ==
  ASSUME TypedOver(Int), Shape, Accounted, IssueBatch
  PROVE  Accounted'
<1> SUFFICES ASSUME NEW r \in Requests PROVE CountersAgree(queue', req'[r], r)
  BY DEF Accounted
<1> DEFINE a == req[r]  z == req'[r]  L == Len(queue)  n == plan.n[r]
<1>1. queue \in Seq(BatchOver(Int)) /\ L \in Nat /\ Numbers(Int) /\ SchedulerOver(Int)
  BY QueueFacts DEF TypedOver
<1>2. /\ queue' = Append(queue, Batch) /\ Batch \in BatchOver(Int)
      /\ n \in Nat /\ z.status = a.status /\ z.inFlight = a.inFlight + n
      /\ z.stale = a.stale /\ z.dropStale = a.dropStale
  BY <1>1, IssueBatchFacts
<1>3. n > 0 => a.status = "running"  BY PlannedRun
<1>4. a.inFlight \in Int /\ a.stale \in Int  BY <1>1, RequestFacts
<1>5. /\ queue' \in Seq(BatchOver(Int)) /\ Len(queue') = L + 1 /\ queue'[L + 1].n[r] = n
      /\ \A j \in 1..L : queue'[j] = queue[j]
  <2>1. Batch.n = plan.n  BY DEF Batch
  <2> QED  BY <1>1, <1>2, <2>1, AppendFacts
<1>6. /\ \A i \in 0..L : Flight(queue', r, i) = Flight(queue, r, i)
      /\ Flight(queue', r, L + 1) = Flight(queue, r, L) + n
  BY <1>1, <1>5, FlightGrows
<1>7. CountersAgree(queue, a, r)  BY DEF Accounted
<1> HIDE DEF a, z, L, n
<1> SUFFICES ASSUME z.status # "finished"
             PROVE  /\ z.inFlight = Flight(queue', r, L + 1)
                    /\ \E i \in 0..(L + 1) : z.stale = Flight(queue', r, i)
                    /\ z.status # "running" => z.stale = z.inFlight
                    /\ z.status = "running" /\ z.stale > 0 => z.dropStale
  BY <1>5 DEF CountersAgree, z
<1>8. /\ a.inFlight = Flight(queue, r, L)
      /\ \E i \in 0..L : a.stale = Flight(queue, r, i)
      /\ a.status # "running" => a.stale = a.inFlight
      /\ a.status = "running" /\ a.stale > 0 => a.dropStale
  BY <1>2, <1>7 DEF CountersAgree, L
<1>9. PICK i \in 0..L : a.stale = Flight(queue, r, i)  BY <1>8
<1>10. i \in 0..(L + 1) /\ z.stale = Flight(queue', r, i)  BY <1>1, <1>2, <1>6, <1>9
<1>11. z.inFlight = Flight(queue', r, L + 1)  BY <1>2, <1>6, <1>8
<1>12. z.status # "running" => z.stale = z.inFlight  BY <1>2, <1>3, <1>4, <1>8
<1>13. z.status = "running" /\ z.stale > 0 => z.dropStale  BY <1>2, <1>8, Zenon
<1> QED  BY <1>10, <1>11, <1>12, <1>13

LEMMA UpdateAccounted ==
  ASSUME TypedOver(Int), Shape, Accounted, UpdateFromOutput
  PROVE  Accounted'
<1> SUFFICES ASSUME NEW r \in Requests PROVE CountersAgree(queue', req'[r], r)
  BY DEF Accounted
<1> DEFINE a == req[r]  z == req'[r]  L == Len(queue)  n == Oldest.n[r]
<1>1. queue \in Seq(BatchOver(Int)) /\ L \in Nat /\ Numbers(Int) /\ SchedulerOver(Int)
  BY QueueFacts DEF TypedOver
<1>2. /\ TypedOver(Int)' /\ L >= 1 /\ Len(queue') = L - 1
      /\ \A j \in 1..Len(queue') : queue'[j] = queue[j + 1]
      /\ Updated(r) => Processed(z, Oldest, r, OldestOutput(r))
      /\ ~Updated(r) => z = a
  BY UpdateFromOutputShape
<1>3. queue' \in Seq(BatchOver(Int))  BY <1>2 DEF TypedOver, RanksOver
<1>4. a.inFlight \in Int /\ a.stale \in Int  BY <1>1, RequestFacts
<1>5. /\ Flight(queue, r, 0) = 0 /\ \A i \in 0..L : Flight(queue, r, i) \in Nat
      /\ \A i, j \in 0..L : i <= j => Flight(queue, r, i) <= Flight(queue, r, j)
  BY <1>1, FlightFacts
<1>6. \A i \in 0..(L - 1) : Flight(queue, r, i + 1) = n + Flight(queue', r, i)
  <2> DEFINE K == Len(queue')
  <2>1. K = L - 1 /\ \A j \in 1..K : queue'[j] = queue[j + 1]  BY <1>2
  <2>2. \A i \in 0..K : Flight(queue, r, i + 1) = queue[1].n[r] + Flight(queue', r, i)
    BY <1>1, <1>3, <2>1, FlightShrinks
  <2> QED  BY <2>1, <2>2 DEF Oldest
<1>7. Flight(queue', r, 0) = 0 /\ \A i \in 0..(L - 1) : Flight(queue', r, i) \in Nat
  BY <1>2, <1>3, FlightFacts
<1>8. n \in Nat
  <2>1. 1 \in 1..L  BY <1>1, <1>2
  <2>2. queue[1].n[r] \in Nat  BY <1>1, <2>1, FlightFacts
  <2> QED  BY <2>2 DEF Oldest
<1>9. CountersAgree(queue, a, r)  BY DEF Accounted
<1>10. a.status # "finished" /\ ~Updated(r) => n = 0
  <2>1. a.status \in {"new", "waiting", "running", "preempted", "finished"}
    BY <1>1, LiveFacts
  <2>2. a.status = "new" => n = 0  BY <1>1, <1>2 DEF Shape, AtRest, Oldest
  <2>3. a.status # "finished" /\ a.status # "new" => Live(r)  BY <1>1, LiveFacts
  <2> QED  BY <1>8, <2>2, <2>3 DEF Updated
<1>11. /\ Updated(r) => /\ n > 0 /\ z.inFlight = a.inFlight - n /\ z.dropStale = a.dropStale
                        /\ z.stale = IF a.stale > 0 THEN a.stale - n ELSE 0
                        /\ z.status = "finished" \/ z.status = a.status
       /\ ~Updated(r) => z = a
  <2>1. Updated(r) => n > 0  BY DEF Updated
  <2>2. Updated(r) => z.status = "finished" \/ z.status = a.status
    BY <1>2 DEF Processed
  <2>3. Updated(r) => /\ z.inFlight = a.inFlight - n /\ z.dropStale = a.dropStale
                      /\ z.stale = IF a.stale > 0 THEN a.stale - n ELSE 0
    BY <1>2 DEF Processed, StaleLeft
  <2> QED  BY <1>2, <2>1, <2>2, <2>3
<1> HIDE DEF a, z, L, n
<1> SUFFICES ASSUME z.status # "finished"
             PROVE  /\ z.inFlight = Flight(queue', r, L - 1)
                    /\ \E i \in 0..(L - 1) : z.stale = Flight(queue', r, i)
                    /\ z.status # "running" => z.stale = z.inFlight
                    /\ z.status = "running" /\ z.stale > 0 => z.dropStale
  BY <1>2 DEF CountersAgree, z
<1>12. a.status # "finished"
  <2>1. Updated(r) => a.status # "finished"  BY <1>11
  <2> QED  BY <1>11, <2>1
<1>13. /\ a.inFlight = Flight(queue, r, L)
       /\ \E i \in 0..L : a.stale = Flight(queue, r, i)
       /\ a.status # "running" => a.stale = a.inFlight
       /\ a.status = "running" /\ a.stale > 0 => a.dropStale
  BY <1>9, <1>12 DEF CountersAgree, L
<1>14. Flight(queue, r, L) = n + Flight(queue', r, L - 1)
  <2>1. L - 1 \in 0..(L - 1) /\ (L - 1) + 1 = L  BY <1>1, <1>2
  <2>2. Flight(queue, r, (L - 1) + 1) = n + Flight(queue', r, L - 1)  BY <1>6, <2>1
  <2> QED  BY <2>1, <2>2
<1>15. Flight(queue', r, L - 1) \in Nat  BY <1>1, <1>2, <1>7
<1>16. PICK i \in 0..L : a.stale = Flight(queue, r, i)  BY <1>13
<1>17. i > 0 => /\ i - 1 \in 0..(L - 1) /\ a.stale = n + Flight(queue', r, i - 1)
                /\ Flight(queue', r, i - 1) \in Nat
  <2> SUFFICES ASSUME i > 0
               PROVE  /\ i - 1 \in 0..(L - 1) /\ a.stale = n + Flight(queue', r, i - 1)
                      /\ Flight(queue', r, i - 1) \in Nat
    OBVIOUS
  <2>1. i - 1 \in 0..(L - 1) /\ (i - 1) + 1 = i  BY <1>1
  <2>2. Flight(queue, r, (i - 1) + 1) = n + Flight(queue', r, i - 1)  BY <1>6, <2>1
  <2> QED  BY <1>7, <1>16, <2>1, <2>2
<1>18. i = 0 => a.stale = 0  BY <1>5, <1>16
<1>19. 0 \in 0..(L - 1)  BY <1>1, <1>2
<1>20. CASE Updated(r)
  <2>1. /\ n > 0 /\ z.inFlight = a.inFlight - n /\ z.dropStale = a.dropStale
        /\ z.stale = IF a.stale > 0 THEN a.stale - n ELSE 0
        /\ z.status = a.status
    BY <1>11, <1>20
  <2>2. z.inFlight = Flight(queue', r, L - 1)  BY <1>8, <1>13, <1>14, <1>15, <2>1
  <2>3. \E j \in 0..(L - 1) : z.stale = Flight(queue', r, j)
    <3>1. CASE a.stale > 0
      <4>1. i > 0  BY <1>1, <1>18, <3>1
      <4>2. z.stale = Flight(queue', r, i - 1)  BY <1>8, <1>17, <2>1, <3>1, <4>1
      <4> QED  BY <1>17, <4>1, <4>2
    <3>2. CASE ~(a.stale > 0)  BY <1>7, <1>19, <2>1, <3>2
    <3> QED  BY <3>1, <3>2
  <2>4. z.status # "running" => z.stale = z.inFlight
    <3>1. a.inFlight > 0  BY <1>8, <1>13, <1>14, <1>15, <2>1
    <3> QED  BY <1>13, <2>1, <3>1
  <2>5. z.status = "running" /\ z.stale > 0 => z.dropStale
    <3>1. z.stale > 0 => a.stale > 0  BY <2>1
    <3> QED  BY <1>13, <2>1, <3>1, Zenon
  <2> QED  BY <2>2, <2>3, <2>4, <2>5
<1>21. CASE ~Updated(r)
  <2>1. z = a /\ n = 0  BY <1>10, <1>11, <1>12, <1>21
  <2>2. z.inFlight = Flight(queue', r, L - 1)  BY <1>13, <1>14, <1>15, <2>1
  <2>3. \E j \in 0..(L - 1) : z.stale = Flight(queue', r, j)
    <3>1. CASE i > 0  BY <1>17, <2>1, <3>1
    <3>2. CASE i = 0  BY <1>7, <1>18, <1>19, <2>1, <3>2
    <3> QED  BY <1>1, <3>1, <3>2
  <2> QED  BY <1>13, <2>1, <2>2, <2>3
<1> QED  BY <1>20, <1>21

LEMMA AccountedStep ==
  ASSUME TypedOver(Int), Shape, Accounted, [Next]_vars
  PROVE  Accounted'
<1>1. CASE Still /\ \A r \in Requests : QuietStep(r)
  <2>1. queue' = queue  BY <1>1 DEF Still
  <2>2. ASSUME NEW r \in Requests PROVE CountersAgree(queue, req'[r], r)
    BY <1>1, QuietAccounted DEF Accounted
  <2> QED  BY <2>1, <2>2 DEF Accounted
<1>2. CASE IssueBatch  BY <1>2, IssueAccounted
<1>3. CASE UpdateFromOutput  BY <1>3, UpdateAccounted
<1>4. CASE SampleBatch  BY <1>4, SampleBatchShape DEF Accounted, scheduler, engine
<1>5. CASE PostStep
  <2>1. queue' = queue
        /\ \A r \in Requests :
             /\ req'[r].status = req[r].status /\ req'[r].inFlight = req[r].inFlight
             /\ req'[r].stale = req[r].stale /\ req'[r].dropStale = req[r].dropStale
    BY <1>5, PostStepFacts, QueueFacts
  <2> QED  BY <2>1, Zenon DEF Accounted, CountersAgree
<1> QED  BY <1>1, <1>2, <1>3, <1>4, <1>5, Steps

LEMMA AccountedInit ==
  ASSUME Init
  PROVE  Accounted
<1> SUFFICES ASSUME NEW r \in Requests PROVE CountersAgree(queue, req[r], r)
  BY DEF Accounted
<1>1. queue = <<>> /\ req[r] = NewRequest  BY DEF Init
<1>2. queue \in Seq(BatchOver(Int)) /\ Len(queue) = 0 /\ Numbers(Int)
  BY <1>1, EmptyFacts DEF Numbers
<1>3. Flight(queue, r, 0) = 0  BY <1>2, FlightFacts
<1>4. req[r].status = "new" /\ req[r].inFlight = 0 /\ req[r].stale = 0
  BY <1>1 DEF NewRequest
<1> QED  BY <1>2, <1>3, <1>4 DEF CountersAgree

---------------------------------------------------------------------------
(* What the last rank samples *)

LEMMA ResultsFacts ==
  ASSUME TypedOver(Int), Shape
  PROVE  /\ results \in Seq([Requests -> Seq(TokenOver(Int))]) /\ Len(results) \in Nat
         /\ Len(results) <= Len(queue)
         /\ \A j \in 1..Len(results) : j \in 1..Len(queue) /\ queue[j] \in BatchOver(Int)
         /\ \A j \in 1..Len(results), r \in Requests : results[j][r] \in Seq(TokenOver(Int))
<1>1. RanksOver(Int) /\ Order  BY DEF TypedOver, Shape
<1>2. /\ results \in Seq([Requests -> Seq(TokenOver(Int))]) /\ Len(results) \in Nat
      /\ queue \in Seq(BatchOver(Int)) /\ Len(queue) \in Nat
  BY <1>1, RanksFacts
<1>3. Len(results) <= Len(queue)  BY <1>1, EngineFacts DEF Order
<1>4. \A j \in 1..Len(results) : j \in 1..Len(queue)  BY <1>2, <1>3
<1>5. \A j \in 1..Len(results), r \in Requests : results[j][r] \in Seq(TokenOver(Int))
  BY <1>2
<1> QED  BY <1>2, <1>3, <1>4, <1>5

\* The sample of the batch that is executed.
LEMMA SampledIs ==
  ASSUME TypedOver(Int), Shape, SampleBatch
  PROVE  \E out \in [Requests -> Seq(TokenOver(Int))] :
           /\ Sampled(queue[Len(results) + 1], out)
           /\ Len(results') = Len(results) + 1 /\ results'[Len(results) + 1] = out
           /\ \A j \in 1..Len(results) : results'[j] = results[j]
           /\ \A r \in Requests : SampleOf(queue[Len(results) + 1], r, out[r])
<1> DEFINE m == Len(results) + 1  b == queue[m]
<1>1. b \in BatchOver(Int) /\ \E out \in [Requests -> Seq(TokenOver(Int))] : Sampled(b, out)
  BY SampleBatchShape
<1>2. PICK out \in [Requests -> Seq(TokenOver(Int))] : Sampled(b, out)  BY <1>1
<1>3. results \in Seq([Requests -> Seq(TokenOver(Int))]) /\ Numbers(Int)
  BY ResultsFacts DEF Numbers
<1>4. /\ Len(results') = m /\ results'[m] = out
      /\ \A j \in 1..Len(results) : results'[j] = results[j]
  BY <1>2, <1>3, AppendFacts DEF Sampled
<1> HIDE DEF b
<1>5. ASSUME NEW r \in Requests PROVE SampleOf(b, r, out[r])
  <2> DEFINE o == out[r]
  <2>1. o \in SampledTokens(b, r)  BY <1>2 DEF Sampled
  <2>2. Base(b, r) \in Int  BY <1>1, <1>3, BatchFacts
  <2>3. b.n[r] \in Nat /\ b.spec[r].len \in Nat  BY <1>1, <1>3, BatchFacts
  <2> HIDE DEF o
  <2>4. /\ o \in Seq(TokenOver(Int))
        /\ ~Samples(b, r) => o = <<>>
        /\ Samples(b, r) => /\ Len(o) <= (IF b.spec[r].after = 0 THEN 0 ELSE b.spec[r].len) + 1
                            /\ \A i \in 1..Len(o) : o[i][1] = Base(b, r) + i
    BY <1>3, <2>1, <2>2, SampledTokensType
  <2>5. CASE Samples(b, r)
    <3>1. b.n[r] > 0  BY <2>5 DEF Samples, Scheduled
    <3>2. Len(o) <= 1 + (IF b.spec[r].after = 0 THEN 0 ELSE b.spec[r].len)
      BY <2>3, <2>4, <2>5
    <3> QED  BY <2>4, <2>5, <3>1, <3>2 DEF SampleOf, o
  <2>6. CASE ~Samples(b, r)
    <3>1. o = <<>> /\ Len(o) = 0  BY <2>4, <2>6
    <3>2. 0 <= 1 + (IF b.spec[r].after = 0 THEN 0 ELSE b.spec[r].len)  BY <2>3
    <3> QED  BY <3>1, <3>2 DEF SampleOf, o
  <2> QED  BY <2>5, <2>6
<1> QED  BY <1>2, <1>4, <1>5 DEF b

LEMMA SampledInPlaceStep ==
  ASSUME TypedOver(Int), Shape, SampledInPlace, [Next]_vars
  PROVE  SampledInPlace'
<1>1. /\ Len(results) \in Nat /\ queue \in Seq(BatchOver(Int)) /\ Len(queue) \in Nat /\ Numbers(Int)
      /\ \A j \in 1..Len(results) : j \in 1..Len(queue)
  BY ResultsFacts, QueueFacts
<1>2. CASE Still  BY <1>2 DEF Still, SampledInPlace
<1>3. CASE IssueBatch
  <2>1. queue' = Append(queue, Batch) /\ results' = results /\ Batch \in BatchOver(Int)
    BY <1>1, <1>3, IssueBatchFacts DEF TypedOver, IssueBatch, ranks
  <2>2. \A j \in 1..Len(queue) : queue'[j] = queue[j]  BY <1>1, <2>1, AppendFacts
  <2>3. \A j \in 1..Len(results) : queue'[j] = queue[j]  BY <1>1, <2>2
  <2> QED  BY <2>1, <2>3 DEF SampledInPlace
<1>4. CASE UpdateFromOutput
  <2>1. /\ Len(queue') = Len(queue) - 1 /\ Len(results') = Len(results) - 1
        /\ \A j \in 1..Len(queue') : queue'[j] = queue[j + 1]
        /\ \A j \in 1..Len(results') : results'[j] = results[j + 1]
    BY <1>4, UpdateFromOutputShape
  <2>2. ASSUME NEW j \in 1..Len(results'), NEW r \in Requests
        PROVE  SampleOf(queue'[j], r, results'[j][r])
    <3>1. j + 1 \in 1..Len(results)  BY <1>1, <2>1
    <3>2. j \in 1..Len(queue')
      <4>1. j + 1 \in 1..Len(queue)  BY <1>1, <3>1
      <4>2. j \in Nat /\ j >= 1  BY <1>1, <2>1
      <4> QED  BY <1>1, <2>1, <4>1, <4>2
    <3>3. SampleOf(queue[j + 1], r, results[j + 1][r])  BY <3>1 DEF SampledInPlace
    <3> QED  BY <2>1, <3>2, <3>3
  <2> QED  BY <2>2 DEF SampledInPlace
<1>5. CASE SampleBatch
  <2> DEFINE m == Len(results) + 1
  <2>1. PICK out \in [Requests -> Seq(TokenOver(Int))] :
           /\ Len(results') = m /\ results'[m] = out
           /\ \A j \in 1..Len(results) : results'[j] = results[j]
           /\ \A r \in Requests : SampleOf(queue[m], r, out[r])
    BY <1>5, SampledIs
  <2>2. queue' = queue  BY <1>5 DEF SampleBatch, engine
  <2>3. ASSUME NEW j \in 1..m, NEW r \in Requests PROVE SampleOf(queue[j], r, results'[j][r])
    <3>1. CASE j = m  BY <2>1, <3>1
    <3>2. CASE j # m
      <4>1. j \in 1..Len(results)  BY <1>1, <3>2
      <4> QED  BY <2>1, <4>1 DEF SampledInPlace
    <3> QED  BY <3>1, <3>2
  <2> HIDE DEF m
  <2> QED  BY <2>1, <2>2, <2>3 DEF SampledInPlace
<1>6. CASE PostStep  BY <1>6 DEF PostStep, ranks, SampledInPlace
<1> QED  BY <1>2, <1>3, <1>4, <1>5, <1>6, Steps

---------------------------------------------------------------------------
(* The KV pool *)

LEMMA CeilDivCovers ==
  ASSUME NEW a \in Int, NEW b \in Nat \ {0}
  PROVE  CeilDiv(a, b) \in Int /\ CeilDiv(a, b) * b >= a
<1> DEFINE q == (a + b - 1) \div b
<1>1. q \in Int /\ b * q <= a + b - 1 /\ a + b - 1 < b * (q + 1)  OBVIOUS
<1> QED  BY <1>1 DEF CeilDiv

LEMMA MoreCovers ==
  ASSUME NEW a \in Int, NEW b \in Int, NEW c \in Nat, a >= b
  PROVE  a * c >= b * c
OBVIOUS

\* With the new blocks a request has blocks for the tokens they were asked for.
LEMMA NewBlocksCover ==
  ASSUME SchedulerOver(Int), NEW r \in Requests, NEW c \in Int, NEW n \in Nat
  PROVE  /\ req[r].blocks + NewBlocks(r, c, n) \in Nat
         /\ (req[r].blocks + NewBlocks(r, c, n)) * BlockSize >= c + n
<1> DEFINE k == CeilDiv(c + n, BlockSize)  b == req[r].blocks  x == k - b
           s == b + NewBlocks(r, c, n)
<1>1. BlockSize \in Nat \ {0} /\ c + n \in Int /\ b \in Nat /\ Numbers(Int)
  BY EngineFacts, RequestFacts DEF Numbers
<1>2. k \in Int /\ k * BlockSize >= c + n  BY <1>1, CeilDivCovers
<1>3. x \in Int  BY <1>1, <1>2
<1>4. NewBlocks(r, c, n) = Max({x, 0})  BY DEF NewBlocks
<1> HIDE DEF k
<1>5. s \in Nat /\ s >= k  BY <1>1, <1>2, <1>3, <1>4, Max2
<1> HIDE DEF s
<1>6. s * BlockSize >= k * BlockSize  BY <1>1, <1>2, <1>5, MoreCovers
<1>7. s * BlockSize \in Int /\ k * BlockSize \in Int  BY <1>1, <1>2, <1>5
<1>8. s * BlockSize >= c + n  BY <1>1, <1>2, <1>6, <1>7
<1> QED  BY <1>5, <1>8 DEF s

LEMMA QuietCovered ==
  ASSUME TypedOver(Int), Shape, NEW r \in Requests, QuietStep(r), Covered(req[r], plan.n[r])
  PROVE  Covered(req'[r], plan'.n[r])
<1> DEFINE a == req[r]  z == req'[r]
<1>1. SchedulerOver(Int) /\ Numbers(Int)  BY DEF TypedOver, Numbers
<1>2. a.computed \in Int /\ a.blocks \in Nat  BY <1>1, RequestFacts
<1>3. CASE Untouched(r)  BY <1>3 DEF Untouched
<1>4. CASE Added(r)  BY <1>4 DEF Added, NewRequest, Covered
<1>5. CASE Aborted(r)  BY <1>5 DEF Aborted, Covered
<1>6. CASE Evicted(r)  BY <1>6 DEF Evicted, Covered
<1>7. CASE GivenTokens(r)
  <2> DEFINE n == plan'.n[r]
  <2>1. /\ z.status = "running" /\ z.computed = a.computed /\ n \in Nat
        /\ z.blocks = a.blocks + NewBlocks(r, a.computed, n)
    BY <1>7 DEF GivenTokens, SameProgress
  <2> HIDE DEF n
  <2>2. (a.blocks + NewBlocks(r, a.computed, n)) * BlockSize >= a.computed + n
    BY <1>1, <1>2, <2>1, NewBlocksCover
  <2>3. z.blocks * BlockSize >= z.computed + n  BY <2>1, <2>2
  <2> QED  BY <2>1, <2>3 DEF Covered, n
<1>8. CASE TakenIn(r)
  <2> DEFINE n == plan'.n[r]
  <2>1. /\ z.status = "running" /\ z.computed = a.computed /\ n \in Nat
        /\ z.blocks = a.blocks + NewBlocks(r, 0, n)
        /\ a.status \in {"waiting", "preempted"}
    BY <1>8 DEF TakenIn, SameProgress
  <2>2. a.computed = 0  BY <2>1 DEF Shape, AtRest
  <2> HIDE DEF n
  <2> DEFINE c == 0
  <2>3. c = 0 /\ c \in Int
    OBVIOUS
  <2> HIDE DEF c
  <2>4. (a.blocks + NewBlocks(r, c, n)) * BlockSize >= c + n
    BY <1>1, <2>1, <2>3, NewBlocksCover
  <2>5. z.blocks * BlockSize >= z.computed + n  BY <2>1, <2>2, <2>3, <2>4
  <2> QED  BY <2>1, <2>5 DEF Covered, n
<1> QED  BY <1>3, <1>4, <1>5, <1>6, <1>7, <1>8 DEF QuietStep

\* No more drafts are rejected than were scheduled.
LEMMA RejectedFacts ==
  ASSUME NEW b \in BatchOver(Int), NEW r \in Requests, NEW o \in Seq(TokenOver(Int)),
         SampleOf(b, r, o)
  PROVE  /\ Rejected(b, r, o) \in Nat
         /\ Rejected(b, r, o) =
              IF b.spec[r].len > 0 /\ o # <<>> THEN b.spec[r].len - (Len(o) - 1) ELSE 0
<1>1. b.spec[r].len \in Nat /\ Len(o) \in Nat  BY BatchFacts DEF Numbers
<1>2. Len(o) <= 1 + b.spec[r].len
  <2>1. Len(o) <= 1 + (IF b.spec[r].after = 0 THEN 0 ELSE b.spec[r].len)
    BY DEF SampleOf
  <2> QED  BY <1>1, <2>1
<1> QED  BY <1>1, <1>2 DEF Rejected

LEMMA OldestSample ==
  ASSUME TypedOver(Int), Shape, SampledInPlace, UpdateFromOutput, NEW r \in Requests
  PROVE  /\ Oldest \in BatchOver(Int) /\ OldestOutput(r) \in Seq(TokenOver(Int))
         /\ SampleOf(Oldest, r, OldestOutput(r))
<1>1. /\ Oldest \in BatchOver(Int) /\ OldestOutput(r) \in Seq(TokenOver(Int))
      /\ Len(results) >= 1
  BY UpdateFromOutputShape
<1>2. 1 \in 1..Len(results)  BY <1>1, ResultsFacts
<1> QED  BY <1>1, <1>2 DEF SampledInPlace, Oldest, OldestOutput

LEMMA BackedStep ==
  ASSUME TypedOver(Int), Shape, SampledInPlace, Backed, [Next]_vars
  PROVE  Backed'
<1>1. SchedulerOver(Int) /\ Numbers(Int)  BY DEF TypedOver, Numbers
<1> SUFFICES ASSUME NEW r \in Requests PROVE Covered(req'[r], plan'.n[r])
  BY DEF Backed
<1> DEFINE a == req[r]  z == req'[r]
<1>2. Covered(a, plan.n[r])  BY DEF Backed
<1>3. a.computed \in Int /\ a.blocks \in Nat /\ BlockSize \in Nat
  BY <1>1, RequestFacts, EngineFacts
<1>4. CASE \A q \in Requests : QuietStep(q)  BY <1>2, <1>4, QuietCovered
<1>5. CASE IssueBatch
  <2>1. /\ z.status = a.status /\ z.blocks = a.blocks /\ plan.n[r] \in Nat
        /\ z.computed = a.computed + plan.n[r]
    BY <1>1, <1>5, IssueBatchFacts
  <2>2. plan'.n[r] = 0  BY <1>5, IssueBatchShape, EmptyPlanFacts
  <2> DEFINE n == plan.n[r]
  <2> HIDE DEF n
  <2>3. z.computed + 0 = a.computed + n /\ n = plan.n[r]  BY <1>3, <2>1 DEF n
  <2> QED  BY <1>2, <2>1, <2>2, <2>3 DEF Covered
<1>6. CASE UpdateFromOutput
  <2>1. /\ plan = EmptyPlan /\ plan' = EmptyPlan
        /\ Updated(r) => Processed(z, Oldest, r, OldestOutput(r))
        /\ ~Updated(r) => z = a
    BY <1>6, UpdateFromOutputShape
  <2>2. plan.n[r] = 0 /\ plan'.n[r] = 0  BY <2>1, EmptyPlanFacts
  <2>3. CASE ~Updated(r)  BY <1>2, <2>1, <2>2, <2>3
  <2>4. CASE Updated(r)
    <3>1. Oldest \in BatchOver(Int) /\ OldestOutput(r) \in Seq(TokenOver(Int))
          /\ SampleOf(Oldest, r, OldestOutput(r))
      BY <1>6, OldestSample
    <3>2. Rejected(Oldest, r, OldestOutput(r)) \in Nat  BY <3>1, RejectedFacts
    <3>3. z.computed \in Int /\ z.computed <= a.computed
      BY <1>3, <2>1, <2>4, <3>2 DEF Processed, ComputedAfter
    <3>4. \/ z.status = "finished" /\ z.blocks = 0
          \/ z.status = a.status /\ z.blocks = a.blocks
      BY <2>1, <2>4 DEF Processed
    <3>5. CASE z.status = "finished" /\ z.blocks = 0  BY <3>5 DEF Covered
    <3>6. CASE z.status = a.status /\ z.blocks = a.blocks
      <4> DEFINE x == a.blocks * BlockSize
      <4>1. x \in Int  BY <1>3
      <4> HIDE DEF x
      <4>2. a.status = "running" => x >= a.computed + 0  BY <1>2, <2>2 DEF Covered, x
      <4>3. a.status = "running" => x >= z.computed + 0  BY <1>3, <3>3, <4>1, <4>2
      <4> QED  BY <1>2, <2>2, <3>6, <4>3 DEF Covered, x
    <3> QED  BY <3>4, <3>5, <3>6
  <2> QED  BY <2>3, <2>4
<1>7. CASE SampleBatch  BY <1>2, <1>7 DEF SampleBatch, scheduler, engine
<1>8. CASE PostStep
  <2>1. z.status = a.status /\ z.blocks = a.blocks /\ z.computed = a.computed /\ plan' = plan
    BY <1>1, <1>8, PostStepFacts
  <2> QED  BY <1>2, <2>1 DEF Covered
<1> QED  BY <1>4, <1>5, <1>6, <1>7, <1>8, Steps

LEMMA BackedInit ==
  ASSUME Init
  PROVE  Backed
BY DEF Init, Backed, Covered, NewRequest

LEMMA FreeBlocksNow == FreeBlocks = NumBlocks - PoolUse(req)
BY DEF FreeBlocks, Sum, Blocks, PoolUse, BlocksOf, Total

LEMMA FreeBlocksNext == (FreeBlocks = NumBlocks - PoolUse(req))'
BY FreeBlocksNow, PTL

LEMMA PoolUseFacts ==
  ASSUME NEW q, \A r \in Requests : q[r].blocks \in Nat
  PROVE  PoolUse(q) \in Nat /\ IntOn(BlocksOf(q), Requests) /\ IsFiniteSet(Requests)
<1>1. IsFiniteSet(Requests)  BY EngineAssumption
<1>2. NatOn(BlocksOf(q), Requests) /\ IntOn(BlocksOf(q), Requests)
  BY DEF NatOn, IntOn, BlocksOf
<1>3. Total(BlocksOf(q), Requests) \in Nat  BY <1>1, <1>2, TotalNat
<1> QED  BY <1>1, <1>2, <1>3 DEF PoolUse

\* Every step but the two that hand blocks out leaves every request with what it had, or less.
LEMMA PoolCases ==
  ASSUME TypedOver(Int), Shape, Next
  PROVE  \/ ScheduleRunning \/ AdmitWaiting
         \/ \A r \in Requests : req'[r].blocks <= req[r].blocks
<1> DEFINE Less == \A r \in Requests : req'[r].blocks <= req[r].blocks
<1>1. SchedulerOver(Int) /\ Numbers(Int)  BY DEF TypedOver, Numbers
<1>2. \A r \in Requests : req[r] \in RequestOver(Int)  BY <1>1, RequestFacts
<1>3. \A r \in Requests : req[r].blocks \in Nat  BY <1>1, RequestFacts
<1>4. req' = req => Less  BY <1>3
<1>5. ASSUME NEW r \in Requests, AddRequest(r) PROVE Less
  <2>1. /\ \A q \in Requests : q # r => req'[q] = req[q]
        /\ req[r] = NewRequest /\ req'[r] = [NewRequest EXCEPT !.status = "waiting"]
    BY <1>5, AddRequestShape
  <2>2. req'[r].blocks = 0 /\ req[r].blocks = 0  BY <2>1 DEF NewRequest
  <2>3. ASSUME NEW q \in Requests PROVE req'[q].blocks <= req[q].blocks
    <3>1. CASE q = r  BY <2>2, <3>1
    <3>2. CASE q # r
      <4>1. req'[q] = req[q] /\ req[q].blocks \in Nat  BY <1>3, <2>1, <3>2
      <4> QED  BY <4>1
    <3> QED  BY <3>1, <3>2
  <2> QED  BY <2>3
<1>6. ASSUME NEW r \in Requests, Abort(r) PROVE Less
  <2>1. /\ \A q \in Requests : q # r => req'[q] = req[q]
        /\ req'[r] = Freed(req[r])
    BY <1>6, AbortShape
  <2>2. req'[r].blocks = 0  BY <1>1, <1>2, <2>1, FreedFacts
  <2> QED  BY <1>3, <2>1, <2>2
<1>7. ASSUME ResetRunning PROVE Less
  <2>1. \A q \in Requests : /\ In(q, running) => req'[q] = Preempted(req[q], TRUE)
                            /\ ~In(q, running) => req'[q] = req[q]
    BY <1>7, ResetRunningShape
  <2>2. TRUE \in BOOLEAN  OBVIOUS
  <2>3. \A q \in Requests : Preempted(req[q], TRUE).blocks = 0
    BY <1>1, <1>2, <2>2, PreemptedFacts
  <2>4. \A q \in Requests : req'[q].blocks = 0 \/ req'[q].blocks = req[q].blocks
    BY <2>1, <2>3
  <2> QED  BY <1>3, <2>4
<1>8. ASSUME IssueBatch PROVE Less
  <2>1. \A r \in Requests : req'[r].blocks = req[r].blocks
    BY <1>1, <1>8, IssueBatchFacts
  <2> QED  BY <1>3, <2>1
<1>9. ASSUME UpdateFromOutput PROVE Less
  <2>1. \A r \in Requests : /\ Updated(r) => Processed(req'[r], Oldest, r, OldestOutput(r))
                            /\ ~Updated(r) => req'[r] = req[r]
    BY <1>9, UpdateFromOutputShape
  <2>2. \A r \in Requests : Updated(r) => req'[r].blocks = 0 \/ req'[r].blocks = req[r].blocks
    BY <2>1 DEF Processed
  <2> QED  BY <1>3, <2>1, <2>2
<1>10. ASSUME PostStep PROVE Less
  <2>1. \A r \in Requests : req'[r].blocks = req[r].blocks
    BY <1>1, <1>10, PostStepFacts
  <2> QED  BY <1>3, <2>1
<1>11. BeginSchedule \/ PassRunning \/ PassWaiting \/ RefuseWaiting \/ DrainQueue
        \/ (\E k \in Ranks : ExecuteBatch(k)) \/ SampleBatch \/ Idle => req' = req
  BY DEF BeginSchedule, PassRunning, PassWaiting, RefuseWaiting, DrainQueue, ExecuteBatch,
         SampleBatch, Idle, scheduler, vars
<1> HIDE DEF Less
<1>12. ScheduleRunning \/ AdmitWaiting \/ Less
  BY <1>4, <1>5, <1>6, <1>7, <1>8, <1>9, <1>10, <1>11 DEF Next, EngineStep, ScheduleStep
<1> QED  BY <1>12 DEF Less

\* Placing a running request: its victims give up more than it needs.
LEMMA ScheduleRunningPool ==
  ASSUME TypedOver(Int), Shape, PoolUse(req) <= NumBlocks, ScheduleRunning
  PROVE  PoolUse(req') <= NumBlocks
<1>1. SchedulerOver(Int) /\ Numbers(Int) /\ Queued /\ Planned /\ NumBlocks \in Nat
  BY EngineFacts DEF TypedOver, Numbers, Shape
<1>2. \A r \in Requests : req[r] \in RequestOver(Int) /\ req[r].blocks \in Nat
  BY <1>1, RequestFacts
<1> DEFINE f == BlocksOf(req)  h == BlocksOf(req')  c == Current  V == Victim
           g == [r \in Requests |-> IF r \in V THEN 0 ELSE f[r]]
<1>3. /\ c \in Requests /\ NeededBlocks \in Nat
      /\ \A q \in V : req'[q] = Preempted(req[q], FALSE)
      /\ \A q \in Requests : q \notin V /\ q # c => req'[q] = req[q]
      /\ c \notin V => /\ req'[c] = Placed(req[c], NeededBlocks)
                       /\ NeededBlocks <= FreeBlocks + Sum(Blocks, V)
  BY <1>1, ScheduleRunningFacts
<1>4. V \in SUBSET Requests  BY ScheduleRunningShape
<1>5. /\ \A q \in V : req'[q].blocks = 0
      /\ \A q \in Requests : q \notin V /\ q # c => req'[q].blocks = req[q].blocks
      /\ c \notin V => req'[c].blocks = req[c].blocks + NeededBlocks
  <2>1. FALSE \in BOOLEAN  OBVIOUS
  <2>2. \A q \in V : Preempted(req[q], FALSE).blocks = 0
    BY <1>1, <1>2, <1>4, <2>1, PreemptedFacts
  <2>3. Placed(req[c], NeededBlocks).blocks = req[c].blocks + NeededBlocks
    BY <1>1, <1>2, <1>3, PlacedFacts
  <2> QED  BY <1>3, <2>2, <2>3
<1>6. /\ \A r \in Requests : f[r] = req[r].blocks /\ f[r] \in Nat
      /\ \A r \in Requests : h[r] = req'[r].blocks
  BY <1>2 DEF BlocksOf
<1> HIDE DEF f, h, c, V
<1>7. IsFiniteSet(Requests) /\ IntOn(f, Requests) /\ Total(f, Requests) = PoolUse(req)
      /\ PoolUse(req) \in Nat
  BY <1>2, PoolUseFacts DEF PoolUse, f
<1>8. ZeroOn(g, V) /\ SameOn(g, f, Requests \ V) /\ IntOn(g, Requests)
  BY <1>4, <1>6 DEF ZeroOn, SameOn, IntOn
<1>9. \A r \in Requests : g[r] = IF r \in V THEN 0 ELSE f[r]  OBVIOUS
<1> HIDE DEF g
<1>10. Total(f, Requests) = Total(g, Requests) + Total(f, V)
  BY <1>4, <1>7, <1>8, TotalDrop
<1>11. Total(g, Requests) \in Int /\ Total(f, V) \in Nat
  <2>1. IsFiniteSet(V)  BY <1>4, <1>7, FS_Subset
  <2>2. NatOn(f, V)  BY <1>4, <1>6 DEF NatOn
  <2> QED  BY <1>7, <1>8, <2>1, <2>2, TotalInt, TotalNat
<1>12. CASE c \in V
  <2>1. SameOn(h, g, Requests)  BY <1>5, <1>6, <1>9, <1>12 DEF SameOn
  <2>2. Total(h, Requests) = Total(g, Requests)  BY <1>7, <1>8, <2>1, TotalCongruence
  <2>3. Total(h, Requests) <= NumBlocks  BY <1>1, <1>7, <1>10, <1>11, <2>2
  <2> QED  BY <2>3 DEF PoolUse, h
<1>13. CASE c \notin V
  <2>1. h[c] = f[c] + NeededBlocks /\ g[c] = f[c] /\ f[c] \in Nat
    BY <1>3, <1>5, <1>6, <1>9, <1>13
  <2>2. SameOn(h, g, Requests \ {c})  BY <1>5, <1>6, <1>9 DEF SameOn
  <2>3. IntOn(h, Requests)
    <3>1. \A r \in Requests : r # c => h[r] \in Int
      BY <1>6, <1>8, <2>2 DEF SameOn, IntOn
    <3> QED  BY <1>3, <2>1, <3>1 DEF IntOn
  <2>4. Total(h, Requests) = Total(g, Requests) - g[c] + h[c]
    BY <1>3, <1>7, <1>8, <2>2, <2>3, TotalUpdate
  <2>5. FreeBlocks = NumBlocks - Total(f, Requests)  BY <1>7, FreeBlocksNow
  <2>6. Sum(Blocks, V) = Total(f, V)  BY DEF Sum, Total, Blocks, BlocksOf, f
  <2>7. NeededBlocks <= FreeBlocks + Total(f, V)  BY <1>3, <1>13, <2>6
  <2>8. Total(h, Requests) <= NumBlocks
    BY <1>1, <1>3, <1>7, <1>10, <1>11, <2>1, <2>4, <2>5, <2>7
  <2> QED  BY <2>8 DEF PoolUse, h
<1> QED  BY <1>12, <1>13

LEMMA AdmitWaitingPool ==
  ASSUME TypedOver(Int), Shape, PoolUse(req) <= NumBlocks, AdmitWaiting
  PROVE  PoolUse(req') <= NumBlocks
<1>1. SchedulerOver(Int) /\ Numbers(Int) /\ NumBlocks \in Nat
  BY EngineFacts DEF TypedOver, Numbers
<1>2. \A r \in Requests : req[r] \in RequestOver(Int) /\ req[r].blocks \in Nat
  BY <1>1, RequestFacts
<1> DEFINE f == BlocksOf(req)  h == BlocksOf(req')  c == Candidate  b == OfferedBlocks
<1>3. /\ c \in Requests /\ req'[c] = Admitted(req[c], b) /\ CanAdmit(c) /\ plan.budget > 0
      /\ \A q \in Requests : q # c => req'[q] = req[q]
  BY <1>1, AdmitWaitingFacts
<1>4. b \in Nat /\ b <= FreeBlocks  BY <1>1, <1>3, OfferedFacts
<1>5. req'[c].blocks = req[c].blocks + b
  <2>1. req[c] \in RequestOver(Int)  BY <1>2, <1>3
  <2>2. Admitted(req[c], b).blocks = req[c].blocks + b
    BY <1>1, <1>4, <2>1, AdmittedFacts
  <2> QED  BY <1>3, <2>2
<1>6. /\ \A r \in Requests : f[r] = req[r].blocks /\ f[r] \in Nat
      /\ \A r \in Requests : h[r] = req'[r].blocks
  BY <1>2 DEF BlocksOf
<1> HIDE DEF f, h, c, b
<1>7. IsFiniteSet(Requests) /\ IntOn(f, Requests) /\ Total(f, Requests) = PoolUse(req)
      /\ PoolUse(req) \in Nat
  BY <1>2, PoolUseFacts DEF PoolUse, f
<1>8. SameOn(h, f, Requests \ {c}) /\ h[c] = f[c] + b /\ f[c] \in Nat
  BY <1>3, <1>5, <1>6 DEF SameOn
<1>9. IntOn(h, Requests)
  <2>1. \A r \in Requests : r # c => h[r] \in Int  BY <1>3, <1>6
  <2> QED  BY <1>3, <1>4, <1>8, <2>1 DEF IntOn
<1>10. Total(h, Requests) = Total(f, Requests) - f[c] + h[c]
  <2>1. c \in Requests  BY <1>3
  <2> QED  BY <1>7, <1>8, <1>9, <2>1, TotalUpdate
<1>11. FreeBlocks = NumBlocks - Total(f, Requests)  BY <1>7, FreeBlocksNow
<1>12. Total(h, Requests) <= NumBlocks  BY <1>1, <1>4, <1>7, <1>8, <1>10, <1>11
<1> QED  BY <1>12 DEF PoolUse, h

LEMMA PoolStep ==
  ASSUME TypedOver(Int), Shape, PoolUse(req) <= NumBlocks, [Next]_vars
  PROVE  PoolUse(req') <= NumBlocks
<1>1. TypedOver(Int)' /\ SchedulerOver(Int) /\ Numbers(Int) /\ NumBlocks \in Nat
  BY Steps, EngineFacts DEF TypedOver, Numbers
<1>2. \A r \in Requests : req[r].blocks \in Nat  BY <1>1, RequestFacts
<1>3. \A r \in Requests : req'[r].blocks \in Nat
  BY <1>1 DEF TypedOver, SchedulerOver, RequestOver
<1>4. CASE \A r \in Requests : req'[r].blocks <= req[r].blocks
  <2> DEFINE f == BlocksOf(req)  h == BlocksOf(req')
  <2>1. \A r \in Requests : h[r] <= f[r]  BY <1>4 DEF BlocksOf
  <2>2. /\ IsFiniteSet(Requests) /\ IntOn(f, Requests) /\ IntOn(h, Requests)
        /\ PoolUse(req) \in Nat /\ PoolUse(req') \in Nat
    BY <1>2, <1>3, PoolUseFacts
  <2> HIDE DEF f, h
  <2>3. Total(h, Requests) <= Total(f, Requests)  BY <2>1, <2>2, TotalLeq
  <2> QED  BY <1>1, <2>2, <2>3 DEF PoolUse, f, h
<1>5. CASE ScheduleRunning  BY <1>5, ScheduleRunningPool
<1>6. CASE AdmitWaiting  BY <1>6, AdmitWaitingPool
<1>7. CASE UNCHANGED vars  BY <1>7 DEF vars
<1> QED  BY <1>4, <1>5, <1>6, <1>7, PoolCases

LEMMA PoolInit ==
  ASSUME Init
  PROVE  PoolUse(req) <= NumBlocks
<1>1. \A r \in Requests : req[r].blocks = 0  BY DEF Init, NewRequest
<1>2. ZeroOn(BlocksOf(req), Requests)  BY <1>1 DEF ZeroOn, BlocksOf
<1>3. Total(BlocksOf(req), Requests) = 0  BY <1>2, EngineAssumption, TotalZero
<1> QED  BY <1>3, EngineFacts DEF PoolUse

---------------------------------------------------------------------------
(* Progress, as long as a request continues *)

LEMMA ContinuesFacts ==
  ASSUME NEW q, NEW s, NEW a, NEW z, NEW r, NEW k, Continues(q, a, z, r),
         \A j \in 1..Len(s) : j \in 1..Len(q)
  PROVE  /\ ChainOf(q, a, r) => ChainOf(q, z, r)
         /\ KnownOf(q, s, a, r, k) => KnownOf(q, s, z, r, k)
<1>1. ASSUME ChainOf(q, a, r), NEW j \in 1..Len(q), q[j].n[r] > 0 PROVE LinkAt(q, z, r, j)
  <2>1. LinkAt(q, a, r, j)  BY <1>1 DEF ChainOf, Continues
  <2>2. /\ FreshAt(q, z, r, j) => FreshAt(q, a, r, j) /\ z.computed = a.computed
        /\ DeliveredAt(q, z, r, j) => DeliveredAt(q, a, r, j)
        /\ z.output = a.output
    BY DEF Continues
  <2> QED  BY <2>1, <2>2, Zenon DEF LinkAt
<1>2. ASSUME KnownOf(q, s, a, r, k), NEW j \in 1..Len(s), q[j].n[r] > 0
      PROVE  KnownAt(q, s, z, r, k, j)
  <2>1. KnownAt(q, s, a, r, k, j)  BY <1>2 DEF KnownOf, Continues
  <2>2. /\ DeliveredAt(q, z, r, j) => DeliveredAt(q, a, r, j)
        /\ z.output = a.output
    BY <1>2 DEF Continues
  <2> QED  BY <2>1, <2>2, Zenon DEF KnownAt
<1>3. KnownOf(q, s, a, r, k) => k >= Len(z.output)  BY DEF KnownOf, Continues
<1> QED  BY <1>1, <1>2, <1>3 DEF ChainOf, KnownOf

LEMMA NoneInFlightFacts ==
  ASSUME NEW q, NEW s, NEW z, NEW r, NEW k, NoneInFlight(q, r),
         \A j \in 1..Len(s) : j \in 1..Len(q)
  PROVE  /\ ChainOf(q, z, r)
         /\ k >= Len(z.output) => KnownOf(q, s, z, r, k)
<1>1. \A j \in 1..Len(q) : ~(q[j].n[r] > 0)  BY DEF NoneInFlight
<1> QED  BY <1>1 DEF ChainOf, KnownOf

LEMMA QuietContinues ==
  ASSUME TypedOver(Int), Shape, NEW r \in Requests, CountersAgree(queue, req[r], r),
         QuietStep(r), LiveState(req'[r])
  PROVE  \/ Continues(queue, req[r], req'[r], r)
         \/ NoneInFlight(queue, r) /\ Len(req'[r].output) = 0
<1> DEFINE a == req[r]  z == req'[r]  L == Len(queue)
<1>1. queue \in Seq(BatchOver(Int)) /\ L \in Nat /\ Numbers(Int) /\ SchedulerOver(Int)
  BY QueueFacts DEF TypedOver
<1>2. /\ a.inFlight \in Int /\ a.stale \in Int
      /\ a.status # "finished" => a.inFlight = Flight(queue, r, L)
  BY <1>1, RequestFacts DEF CountersAgree
<1>3. ASSUME LiveState(a), SameProgress(r) PROVE Continues(queue, a, z, r)
  <2>1. /\ z.output = a.output /\ z.stale = a.stale /\ z.computed = a.computed
        /\ z.dropStale = a.dropStale
    BY <1>3 DEF SameProgress
  <2> HIDE DEF a, z
  <2> QED  BY <1>3, <2>1 DEF Continues, FreshAt, DeliveredAt
<1>4. CASE Untouched(r)  BY <1>4 DEF Untouched, Continues, FreshAt, DeliveredAt
<1>5. CASE Added(r)
  <2>1. a.status = "new" /\ z.output = <<>>  BY <1>5 DEF Added, NewRequest
  <2>2. NoneInFlight(queue, r)  BY <2>1 DEF Shape, AtRest, NoneInFlight
  <2> QED  BY <2>1, <2>2
<1>6. CASE Aborted(r)  BY <1>6 DEF Aborted, LiveState
<1>7. CASE Evicted(r)
  <2>1. /\ a.status = "running" /\ z.output = a.output /\ z.stale = a.inFlight
        /\ ~z.dropStale => ~(a.dropStale /\ a.stale > 0)
    BY <1>7 DEF Evicted
  <2> HIDE DEF a, z, L
  <2>2. a.inFlight = Flight(queue, r, L)  BY <1>2, <2>1 DEF a
  <2>3. ASSUME NEW j \in 1..L
        PROVE  /\ ~FreshAt(queue, z, r, j)
               /\ DeliveredAt(queue, z, r, j) => DeliveredAt(queue, a, r, j)
    <3>1. j \in 0..L /\ L \in 0..L /\ j <= L /\ j - 1 \in 0..L  BY <1>1
    <3>2. /\ Flight(queue, r, j) \in Nat /\ Flight(queue, r, j - 1) \in Nat
          /\ Flight(queue, r, L) \in Nat /\ Flight(queue, r, j) <= Flight(queue, r, L)
          /\ Flight(queue, r, j) = Flight(queue, r, j - 1) + queue[j].n[r]
          /\ queue[j].n[r] \in Nat
      BY <1>1, <3>1, FlightFacts DEF L
    <3>3. ~(Flight(queue, r, j) > z.stale)  BY <1>2, <2>1, <2>2, <3>2
    <3>4. queue[j].n[r] > 0 /\ ~(Flight(queue, r, j) > a.stale) => a.stale > 0
      BY <1>2, <3>2 DEF a
    <3> QED  BY <2>1, <3>3, <3>4, Zenon DEF FreshAt, DeliveredAt
  <2>4. LiveState(a)  BY <2>1 DEF LiveState
  <2>5. Continues(queue, a, z, r)  BY <2>1, <2>3, <2>4 DEF Continues, L
  <2> QED  BY <2>5 DEF a, z
<1>8. CASE GivenTokens(r)  BY <1>3, <1>8 DEF GivenTokens, LiveState
<1>9. CASE TakenIn(r)  BY <1>3, <1>9 DEF TakenIn, LiveState
<1> QED  BY <1>4, <1>5, <1>6, <1>7, <1>8, <1>9 DEF QuietStep

---------------------------------------------------------------------------
(* Progress through the steps of the scheduler *)

LEMMA GivenFits ==
  ASSUME TypedOver(Int), ComputedNat, NEW r \in Requests, GivenTokens(r)
  PROVE  Fits(req'[r].computed, plan'.n[r], plan'.spec[r], TokensOf(req'[r], r))
<1> DEFINE n == plan'.n[r]  c == req[r].computed  t == NumTokens(r)  d == ScheduledDrafts(r, n)
           x == n + c - t
<1>1. SchedulerOver(Int) /\ Numbers(Int)  BY DEF TypedOver, Numbers
<1>2. /\ req'[r].computed = c /\ req'[r].output = req[r].output
      /\ n \in Nat /\ n > 0 /\ c < t /\ n + c <= t + req[r].spec.len /\ plan'.spec[r] = d
  BY DEF GivenTokens, SameProgress
<1>3. c \in Nat /\ t \in Nat /\ t = TokensOf(req'[r], r) /\ req[r].spec.len \in Nat
  BY <1>1, <1>2, RequestFacts DEF ComputedNat, TokensOf
<1>4. n \in Int  BY <1>2
<1>5. /\ x > 0 => d = [after |-> req[r].spec.after, len |-> x]
      /\ x <= 0 => d = NoDraft
  <2> HIDE DEF d
  <2>1. LET D == ScheduledDrafts(r, n)
        IN  /\ n + c - t > 0 => D = [after |-> req[r].spec.after, len |-> n + c - t]
            /\ n + c - t <= 0 => D = NoDraft
    <3> HIDE DEF n
    <3> QED  BY <1>1, <1>2, <1>4, ScheduledDraftsFacts
  <2> QED  BY <2>1 DEF d
<1>6. /\ x > 0 => d.len = x
      /\ x <= 0 => d.len = 0
  <2> HIDE DEF d, x
  <2> QED  BY <1>5 DEF NoDraft
<1> HIDE DEF d, n, c, t
<1>7. Fits(c, n, d, t)  BY <1>2, <1>3, <1>6 DEF Fits
<1> QED  BY <1>2, <1>3, <1>7 DEF n, c

LEMMA TakenFits ==
  ASSUME TypedOver(Int), Shape, NEW r \in Requests, TakenIn(r)
  PROVE  Fits(req'[r].computed, plan'.n[r], plan'.spec[r], TokensOf(req'[r], r))
<1> DEFINE n == plan'.n[r]  t == NumTokens(r)  d == plan'.spec[r]
<1>1. SchedulerOver(Int) /\ Numbers(Int)  BY DEF TypedOver, Numbers
<1>2. /\ req'[r].computed = req[r].computed /\ req'[r].output = req[r].output
      /\ n \in Nat /\ n > 0
      /\ \/ n = NumSpec + 1 /\ t = 1 /\ d = Padding
         \/ n <= t /\ d = NoDraft
      /\ req[r].status \in {"waiting", "preempted"}
  BY DEF TakenIn, SameProgress
<1>3. t \in Nat /\ t > 0 /\ t = TokensOf(req'[r], r)
  BY <1>1, <1>2, RequestFacts DEF TokensOf
<1>4. req[r].computed = 0  BY <1>2 DEF Shape, AtRest
<1>5. NumSpec \in Nat  BY EngineFacts
<1>6. \/ n = NumSpec + 1 /\ t = 1 /\ d.len = NumSpec
      \/ n <= t /\ d.len = 0
  BY <1>2 DEF Padding, NoDraft
<1> HIDE DEF d, n, t
<1>7. Fits(0, n, d, t)  BY <1>2, <1>3, <1>5, <1>6 DEF Fits
<1> QED  BY <1>2, <1>3, <1>4, <1>7 DEF n, d

\* One request through a quiet step.
LEMMA QuietProgress ==
  ASSUME TypedOver(Int), Shape, ComputedNat, NEW r \in Requests, QuietStep(r),
         plan.n[r] > 0 => Fits(req[r].computed, plan.n[r], plan.spec[r], NumTokens(r)),
         Paced(req[r], plan.n[r], r)
  PROVE  /\ plan'.n[r] > 0 =>
              Fits(req'[r].computed, plan'.n[r], plan'.spec[r], TokensOf(req'[r], r))
         /\ Paced(req'[r], plan'.n[r], r)
         /\ req'[r].computed \in Nat
<1> DEFINE Goal == /\ plan'.n[r] > 0 =>
                        Fits(req'[r].computed, plan'.n[r], plan'.spec[r], TokensOf(req'[r], r))
                   /\ Paced(req'[r], plan'.n[r], r)
                   /\ req'[r].computed \in Nat
<1>1. req[r].computed \in Nat /\ NumTokens(r) = TokensOf(req[r], r)
  BY DEF ComputedNat, NumTokens, TokensOf
<1>2. CASE Untouched(r)  BY <1>1, <1>2 DEF Untouched
<1>3. CASE Added(r)
  <2>1. plan'.n[r] = 0 /\ req'[r].status = "waiting" /\ req'[r].computed = 0
    BY <1>3 DEF Added, NewRequest
  <2> QED  BY <2>1 DEF Paced
<1>4. CASE Aborted(r)  BY <1>1, <1>4 DEF Aborted, Paced
<1>5. CASE Evicted(r)  BY <1>5 DEF Evicted, Paced
<1>6. CASE GivenTokens(r)
  <2>1. plan'.n[r] > 0 /\ plan'.n[r] \in Nat /\ req'[r].computed = req[r].computed
    BY <1>6 DEF GivenTokens, SameProgress
  <2>2. Paced(req'[r], plan'.n[r], r)  BY <2>1 DEF Paced
  <2> QED  BY <1>1, <1>6, <2>1, <2>2, GivenFits
<1>7. CASE TakenIn(r)
  <2>1. plan'.n[r] > 0 /\ plan'.n[r] \in Nat /\ req'[r].computed = req[r].computed
    BY <1>7 DEF TakenIn, SameProgress
  <2>2. Paced(req'[r], plan'.n[r], r)  BY <2>1 DEF Paced
  <2> QED  BY <1>1, <1>7, <2>1, <2>2, TakenFits
<1> HIDE DEF Goal
<1> QED  BY <1>2, <1>3, <1>4, <1>5, <1>6, <1>7 DEF QuietStep, Goal

---------------------------------------------------------------------------
(* Progress when a batch is issued *)

LEMMA IssueFits ==
  ASSUME TypedOver(Int), Shape, PlanFits, BatchesFit, IssueBatch
  PROVE  BatchesFit'
<1> DEFINE L == Len(queue)
<1>1. queue \in Seq(BatchOver(Int)) /\ L \in Nat /\ Numbers(Int) /\ SchedulerOver(Int)
  BY QueueFacts DEF TypedOver
<1>2. queue' = Append(queue, Batch) /\ Batch \in BatchOver(Int)
  BY <1>1, IssueBatchFacts
<1>3. Len(queue') = L + 1 /\ queue'[L + 1] = Batch /\ \A j \in 1..L : queue'[j] = queue[j]
  BY <1>1, <1>2, AppendFacts
<1>4. ASSUME NEW r \in Requests PROVE BatchFits(Batch, r)
  <2>1. /\ Batch.n[r] = plan.n[r] /\ Batch.spec[r] = plan.spec[r] /\ Batch.new = plan.new
        /\ Batch.computed[r] = req[r].computed
        /\ Batch.numOutput[r] = Len(req[r].output)
    BY DEF Batch
  <2>2. CASE plan.n[r] > 0
    <3>1. Fits(req[r].computed, plan.n[r], plan.spec[r], NumTokens(r))
      BY <2>2 DEF PlanFits
    <3>2. NumTokens(r) = PromptLen[r] + Batch.numOutput[r]  BY <2>1 DEF NumTokens
    <3> QED  BY <2>1, <2>2, <3>1, <3>2 DEF BatchFits
  <2>3. CASE ~(plan.n[r] > 0)
    <3>1. plan.n[r] = 0  BY <2>3, PlannedRun
    <3>2. plan.spec[r] = NoDraft  BY <3>1 DEF Shape, Planned
    <3>3. r \notin plan.new  BY <2>3 DEF Shape, Planned
    <3> QED  BY <2>1, <2>3, <3>2, <3>3 DEF BatchFits
  <2> QED  BY <2>2, <2>3
<1>5. ASSUME NEW j \in 1..(L + 1), NEW r \in Requests PROVE BatchFits(queue'[j], r)
  <2>1. CASE j = L + 1  BY <1>3, <1>4, <2>1
  <2>2. CASE j # L + 1
    <3>1. j \in 1..L  BY <1>1, <2>2
    <3> QED  BY <1>3, <3>1 DEF BatchesFit
  <2> QED  BY <2>1, <2>2
<1> QED  BY <1>3, <1>5 DEF BatchesFit

\* A running request that is planned has no batch in flight whose sample it will be given.
LEMMA PlannedWaitsForNone ==
  ASSUME TypedOver(Int), Shape, Accounted, PlanFits, Chained, NEW r \in Requests,
         plan.n[r] > 0, NEW j \in 1..Len(queue), DeliveredAt(queue, req[r], r, j)
  PROVE  /\ FreshAt(queue, req[r], r, j) /\ ~ReachesAt(queue, r, j)
         /\ req[r].status = "running"
<1> DEFINE a == req[r]  L == Len(queue)  t == NumTokens(r)  n == queue[j].n[r]
           c == queue[j].computed[r]  f == Flight(queue, r, j)
           e == Flight(queue, r, j - 1)  g == Flight(queue, r, L)
<1>1. queue \in Seq(BatchOver(Int)) /\ L \in Nat /\ Numbers(Int) /\ SchedulerOver(Int)
  BY QueueFacts DEF TypedOver
<1>2. a.status = "running"  BY PlannedRun
<1>3. LiveState(a) /\ n > 0  BY <1>2 DEF LiveState, DeliveredAt
<1>4. LinkAt(queue, a, r, j)  BY <1>3 DEF Chained, ChainOf
<1>5. CountersAgree(queue, a, r)  BY DEF Accounted
<1>6. a.stale \in Int /\ a.computed \in Int /\ t \in Nat  BY <1>1, RequestFacts
<1>7. a.computed < t  BY DEF PlanFits, Fits
<1>8. j \in 0..L /\ j - 1 \in 0..L /\ L \in 0..L /\ j <= L  BY <1>1
<1>9. e \in Nat /\ f \in Nat /\ g \in Nat /\ f <= g /\ n \in Nat /\ f = e + n
  BY <1>1, <1>8, FlightFacts
<1>10. c \in Int
  <2>1. queue[j] \in BatchOver(Int)  BY <1>1
  <2> QED  BY <1>1, <2>1, BatchFacts
<1>11. t = PromptLen[r] + queue[j].numOutput[r]  BY <1>4 DEF LinkAt, NumTokens
<1>12. FreshAt(queue, a, r, j)
  <2>1. a.stale > 0 => a.dropStale  BY <1>2, <1>5 DEF CountersAgree
  <2>2. CASE a.stale > 0  BY <2>1, <2>2 DEF DeliveredAt
  <2>3. CASE ~(a.stale > 0)
    <3>1. f > a.stale  BY <1>3, <1>6, <1>9, <2>3
    <3> QED  BY <1>3, <3>1 DEF FreshAt
  <2> QED  BY <2>2, <2>3
<1>13. c + g - e = a.computed  BY <1>4, <1>12 DEF LinkAt
<1>14. c + n < t
  <2> HIDE DEF a, L, t, n, c, f, e, g
  <2> QED  BY <1>6, <1>7, <1>9, <1>10, <1>13
<1>15. ~(c + n >= t)
  <2> HIDE DEF a, L, t, n, c, f, e, g
  <2> QED  BY <1>6, <1>9, <1>10, <1>14
<1>16. ~ReachesAt(queue, r, j)  BY <1>11, <1>15 DEF ReachesAt
<1> QED  BY <1>2, <1>12, <1>16

LEMMA IssueChained ==
  ASSUME TypedOver(Int), Shape, Accounted, PlanFits, Chained, IssueBatch
  PROVE  Chained'
<1> SUFFICES ASSUME NEW r \in Requests PROVE ChainOf(queue', req'[r], r)
  BY DEF Chained
<1> DEFINE a == req[r]  z == req'[r]  L == Len(queue)  p == plan.n[r]
<1>1. queue \in Seq(BatchOver(Int)) /\ L \in Nat /\ Numbers(Int) /\ SchedulerOver(Int)
  BY QueueFacts DEF TypedOver
<1>2. /\ queue' = Append(queue, Batch) /\ Batch \in BatchOver(Int)
      /\ p \in Nat /\ z.status = a.status /\ z.output = a.output
      /\ z.computed = a.computed + p /\ z.stale = a.stale /\ z.dropStale = a.dropStale
  BY <1>1, IssueBatchFacts
<1>3. /\ queue' \in Seq(BatchOver(Int)) /\ Len(queue') = L + 1 /\ queue'[L + 1] = Batch
      /\ \A j \in 1..L : queue'[j] = queue[j]
  BY <1>1, <1>2, AppendFacts
<1>4. /\ Batch.n[r] = p /\ Batch.new = plan.new /\ Batch.computed[r] = a.computed
      /\ Batch.numOutput[r] = Len(a.output)
  BY DEF Batch
<1>5. /\ \A i \in 0..L : Flight(queue', r, i) = Flight(queue, r, i)
      /\ Flight(queue', r, L + 1) = Flight(queue, r, L) + p
  BY <1>1, <1>3, <1>4, FlightGrows
<1>6. ChainOf(queue, a, r)  BY DEF Chained
<1>7. /\ \A i \in 0..L : Flight(queue, r, i) \in Nat
      /\ L \in 0..L /\ L + 1 \in 1..(L + 1) /\ (L + 1) - 1 = L
  BY <1>1, FlightFacts
<1>8. r \in plan.new => a.output = <<>>  BY DEF Shape, Planned
<1>9. a.computed \in Int  BY <1>1, RequestFacts
<1>10. ASSUME LiveState(z), NEW j \in 1..(L + 1), queue'[j].n[r] > 0
       PROVE  LinkAt(queue', z, r, j)
  <2>1. CASE j = L + 1
    <3>1. queue'[j].numOutput[r] = Len(z.output) /\ (r \in queue'[j].new => z.output = <<>>)
      BY <1>2, <1>3, <1>4, <1>8, <1>9, <2>1
    <3> DEFINE g == Flight(queue, r, L)  c == a.computed
    <3>2. g \in Nat /\ c \in Int  BY <1>7, <1>9
    <3>3. /\ Flight(queue', r, Len(queue')) = g + p /\ Flight(queue', r, j - 1) = g
          /\ Flight(queue', r, j) = Flight(queue', r, Len(queue'))
          /\ queue'[j].computed[r] = c /\ z.computed = c + p
      BY <1>1, <1>2, <1>3, <1>4, <1>5, <1>7, <2>1
    <3> HIDE DEF g, c, p
    <3>4. c + (g + p) - g = c + p  BY <1>2, <3>2
    <3> QED  BY <3>1, <3>3, <3>4 DEF LinkAt
  <2>2. CASE j # L + 1
    <3>1. j \in 1..L /\ j \in 0..L /\ j - 1 \in 0..L /\ j <= L  BY <1>1, <2>2
    <3>2. queue'[j] = queue[j] /\ queue[j].n[r] > 0  BY <1>3, <1>10, <3>1
    <3>3. Flight(queue', r, j) = Flight(queue, r, j)
          /\ Flight(queue', r, j - 1) = Flight(queue, r, j - 1)
          /\ Flight(queue', r, Len(queue')) = Flight(queue, r, L) + p
      BY <1>3, <1>5, <3>1
    <3>4. LinkAt(queue, a, r, j)
      BY <1>2, <1>6, <1>10, <3>1, <3>2 DEF ChainOf, LiveState
    <3>5. /\ FreshAt(queue', z, r, j) <=> FreshAt(queue, a, r, j)
          /\ DeliveredAt(queue', z, r, j) <=> DeliveredAt(queue, a, r, j)
          /\ ReachesAt(queue', r, j) <=> ReachesAt(queue, r, j)
      BY <1>2, <3>2, <3>3, Zenon DEF FreshAt, DeliveredAt, ReachesAt
    <3>6. queue'[j].numOutput[r] = Len(z.output) /\ (r \in queue'[j].new => z.output = <<>>)
      BY <1>2, <3>2, <3>4 DEF LinkAt
    <3> DEFINE c == queue[j].computed[r]  g == Flight(queue, r, L)
               e == Flight(queue, r, j - 1)  x == a.computed
    <3>7. c \in Int /\ g \in Nat /\ e \in Nat /\ x \in Int
      <4>1. queue[j] \in BatchOver(Int)  BY <1>1, <3>1
      <4> QED  BY <1>1, <1>7, <1>9, <3>1, <4>1, BatchFacts
    <3>8. ASSUME FreshAt(queue', z, r, j)
          PROVE  queue'[j].computed[r] + Flight(queue', r, Len(queue'))
                   - Flight(queue', r, j - 1) = z.computed
      <4>1. c + g - e = x  BY <3>4, <3>5, <3>8 DEF LinkAt
      <4>2. /\ queue'[j].computed[r] = c /\ Flight(queue', r, Len(queue')) = g + p
            /\ Flight(queue', r, j - 1) = e /\ z.computed = x + p
        BY <1>2, <3>2, <3>3
      <4> HIDE DEF c, g, e, x, p
      <4>3. c + (g + p) - e = x + p  BY <1>2, <3>7, <4>1
      <4> QED  BY <4>2, <4>3
    <3>9. ASSUME DeliveredAt(queue', z, r, j), ReachesAt(queue', r, j)
          PROVE  Flight(queue', r, j) = Flight(queue', r, Len(queue'))
      <4>1. DeliveredAt(queue, a, r, j) /\ ReachesAt(queue, r, j)  BY <3>5, <3>9
      <4>2. ~(p > 0)  BY <3>1, <4>1, PlannedWaitsForNone
      <4>3. p = 0  BY <1>2, <4>2
      <4>4. Flight(queue, r, j) = Flight(queue, r, L)  BY <3>4, <4>1 DEF LinkAt
      <4>5. Flight(queue, r, L) + 0 = Flight(queue, r, L)  BY <1>7
      <4> QED  BY <3>3, <4>3, <4>4, <4>5
    <3> QED  BY <3>6, <3>8, <3>9 DEF LinkAt
  <2> QED  BY <2>1, <2>2
<1> QED  BY <1>3, <1>10 DEF ChainOf

LEMMA IssueInPace ==
  ASSUME TypedOver(Int), Shape, Accounted, InPace, ComputedNat, IssueBatch
  PROVE  InPace' /\ ComputedNat' /\ PlanFits'
<1>1. Numbers(Int) /\ SchedulerOver(Int) /\ queue \in Seq(BatchOver(Int)) /\ Len(queue) \in Nat
  BY QueueFacts DEF TypedOver
<1>2. \A r \in Requests : plan'.n[r] = 0  BY IssueBatchShape, EmptyPlanFacts
<1>3. ASSUME NEW r \in Requests
      PROVE  Paced(req'[r], plan'.n[r], r) /\ req'[r].computed \in Nat
  <2> DEFINE a == req[r]  z == req'[r]  p == plan.n[r]  t == TokensOf(a, r)
  <2>1. /\ p \in Nat /\ z.status = a.status /\ z.output = a.output
        /\ z.computed = a.computed + p /\ z.inFlight = a.inFlight + p
        /\ z.stale = a.stale /\ (p = 0 => z = a)
        /\ p > 0 => z.chunk = (a.computed + p < NumTokens(r))
    BY <1>1, IssueBatchFacts
  <2>2. a.computed \in Nat /\ TokensOf(z, r) = t /\ NumTokens(r) = t /\ t \in Nat
    BY <1>1, <2>1, RequestFacts DEF ComputedNat, TokensOf
  <2>3. CASE p = 0  BY <1>2, <2>1, <2>2, <2>3 DEF InPace
  <2>4. CASE p # 0
    <3>1. a.status = "running"  BY <2>1, <2>4, PlannedRun
    <3>2. a.inFlight \in Int /\ a.stale \in Int  BY <1>1, RequestFacts
    <3>3. a.stale <= a.inFlight
      <4>1. CountersAgree(queue, a, r)  BY DEF Accounted
      <4>2. PICK i \in 0..Len(queue) : a.stale = Flight(queue, r, i)
        BY <3>1, <4>1 DEF CountersAgree
      <4>3. a.inFlight = Flight(queue, r, Len(queue))  BY <3>1, <4>1 DEF CountersAgree
      <4>4. Len(queue) \in 0..Len(queue) /\ i <= Len(queue)  BY <1>1
      <4>5. Flight(queue, r, i) <= Flight(queue, r, Len(queue))
        BY <1>1, <4>4, FlightFacts
      <4> QED  BY <4>2, <4>3, <4>5
    <3> HIDE DEF a, z, p, t
    <3>4. z.chunk = (a.computed + p < t)  BY <2>1, <2>2, <2>4
    <3>5. z.chunk => z.computed < TokensOf(z, r)  BY <2>1, <2>2, <3>4
    <3>6. z.inFlight # z.stale
      <4>1. p > 0 /\ p \in Nat /\ z.inFlight = a.inFlight + p /\ z.stale = a.stale
        BY <2>1, <2>4
      <4> QED  BY <3>2, <3>3, <4>1
    <3>7. ~z.chunk => z.computed >= TokensOf(z, r)
      <4>1. z.computed = a.computed + p /\ p \in Nat  BY <2>1
      <4>2. ~z.chunk => ~(a.computed + p < t)  BY <3>4
      <4>3. ~(a.computed + p < t) => z.computed >= TokensOf(z, r)  BY <2>2, <4>1
      <4> QED  BY <4>2, <4>3
    <3>8. z.computed \in Nat  BY <2>1, <2>2
    <3>9. Paced(z, plan'.n[r], r)  BY <3>5, <3>6, <3>7 DEF Paced
    <3> QED  BY <3>8, <3>9 DEF z
  <2> QED  BY <2>3, <2>4
<1> QED  BY <1>2, <1>3 DEF InPace, ComputedNat, PlanFits

LEMMA IssueKnown ==
  ASSUME TypedOver(Int), Shape, KnownByLast, IssueBatch
  PROVE  KnownByLast'
<1> SUFFICES ASSUME NEW r \in Requests
             PROVE  KnownOf(queue', results', req'[r], r, Len(history'[LastRank][r]))
  BY DEF KnownByLast
<1> DEFINE a == req[r]  z == req'[r]  L == Len(queue)  k == Len(history[LastRank][r])
<1>1. queue \in Seq(BatchOver(Int)) /\ L \in Nat /\ Numbers(Int) /\ SchedulerOver(Int)
  BY QueueFacts DEF TypedOver
<1>2. /\ queue' = Append(queue, Batch) /\ Batch \in BatchOver(Int)
      /\ z.status = a.status /\ z.output = a.output
      /\ z.stale = a.stale /\ z.dropStale = a.dropStale
  BY <1>1, IssueBatchFacts
<1>3. /\ queue' \in Seq(BatchOver(Int)) /\ Len(queue') = L + 1
      /\ \A j \in 1..L : queue'[j] = queue[j]
  BY <1>1, <1>2, AppendFacts
<1>4. results' = results /\ history' = history  BY DEF IssueBatch, ranks
<1>5. \A i \in 0..L : Flight(queue', r, i) = Flight(queue, r, i)
  BY <1>1, <1>3, FlightGrows
<1>6. KnownOf(queue, results, a, r, k)  BY DEF KnownByLast
<1>7. ASSUME LiveState(z), NEW j \in 1..Len(results), queue'[j].n[r] > 0
      PROVE  KnownAt(queue', results, z, r, k, j)
  <2>1. j \in 1..L /\ j \in 0..L  BY <1>1, ResultsFacts
  <2>2. queue'[j] = queue[j] /\ Flight(queue', r, j) = Flight(queue, r, j)
    BY <1>3, <1>5, <2>1
  <2>3. KnownAt(queue, results, a, r, k, j)
    BY <1>2, <1>6, <1>7, <2>2 DEF KnownOf, LiveState
  <2>4. /\ DeliveredAt(queue', z, r, j) <=> DeliveredAt(queue, a, r, j)
        /\ ReachesAt(queue', r, j) <=> ReachesAt(queue, r, j)
    BY <1>2, <2>2, Zenon DEF FreshAt, DeliveredAt, ReachesAt
  <2> QED  BY <1>2, <2>3, <2>4, Zenon DEF KnownAt
<1>8. LiveState(z) => k >= Len(z.output)  BY <1>2, <1>6 DEF KnownOf, LiveState
<1> QED  BY <1>4, <1>7, <1>8 DEF KnownOf

---------------------------------------------------------------------------
(* What the counters and the pool rest on *)

LEMMA BooksStep ==
  ASSUME TypedOver(Int), Shape, Books, [Next]_vars
  PROVE  Books'
<1>1. Accounted' /\ SampledInPlace'  BY AccountedStep, SampledInPlaceStep DEF Books
<1>2. Backed'  BY BackedStep DEF Books
<1>3. PoolUse(req') <= NumBlocks  BY PoolStep DEF Books
<1> QED  BY <1>1, <1>2, <1>3 DEF Books

LEMMA BooksInit ==
  ASSUME Init
  PROVE  Books
<1>1. SampledInPlace  BY DEF Init, SampledInPlace
<1> QED  BY <1>1, AccountedInit, BackedInit, PoolInit DEF Books

---------------------------------------------------------------------------
(* Progress when an output is taken *)

LEMMA OldestFacts ==
  ASSUME TypedOver(Int), Shape, UpdateFromOutput, NEW r \in Requests
  PROVE  /\ queue \in Seq(BatchOver(Int)) /\ Len(queue) \in Nat /\ Len(queue) >= 1
         /\ 1 \in 1..Len(queue) /\ 1 \in 1..Len(results) /\ Len(results) \in Nat
         /\ Flight(queue, r, 0) = 0 /\ Flight(queue, r, 1) = Oldest.n[r]
         /\ Oldest.n[r] \in Nat /\ Flight(queue, r, Len(queue)) \in Nat
         /\ Oldest \in BatchOver(Int) /\ OldestOutput(r) \in Seq(TokenOver(Int))
<1>1. /\ queue \in Seq(BatchOver(Int)) /\ Len(queue) \in Nat /\ Numbers(Int)
      /\ Len(results) \in Nat
  BY QueueFacts, ResultsFacts
<1>2. /\ Len(queue) >= 1 /\ Len(results) >= 1
      /\ Oldest \in BatchOver(Int) /\ OldestOutput(r) \in Seq(TokenOver(Int))
  BY UpdateFromOutputShape
<1>3. 1 \in 1..Len(queue) /\ 1 \in 1..Len(results) /\ Len(queue) \in 0..Len(queue) /\ 1 - 1 = 0
  BY <1>1, <1>2
<1>4. /\ Flight(queue, r, 0) = 0 /\ queue[1].n[r] \in Nat
      /\ Flight(queue, r, 1) = Flight(queue, r, 1 - 1) + queue[1].n[r]
      /\ Flight(queue, r, Len(queue)) \in Nat
  BY <1>1, <1>3, FlightFacts
<1>5. Flight(queue, r, 1) = queue[1].n[r]  BY <1>3, <1>4
<1> QED  BY <1>1, <1>2, <1>3, <1>4, <1>5 DEF Oldest

LEMMA UpdatedCases ==
  ASSUME TypedOver(Int), Shape, Books, BatchesFit, Chained, KnownByLast, ComputedNat,
         UpdateFromOutput, NEW r \in Requests, Updated(r)
  PROVE  NothingGiven(r) \/ TokensGiven(r, OldestOutput(r))
<1> DEFINE a == req[r]  z == req'[r]  L == Len(queue)  n == Oldest.n[r]  o == OldestOutput(r)
           k == Len(history[LastRank][r])  t == TokensOf(a, r)  c == Oldest.computed[r]
           d == Oldest.spec[r].len
<1>1. /\ queue \in Seq(BatchOver(Int)) /\ L \in Nat /\ L >= 1
      /\ 1 \in 1..L /\ 1 \in 1..Len(results)
      /\ Flight(queue, r, 0) = 0 /\ Flight(queue, r, 1) = n
      /\ n \in Nat /\ Oldest \in BatchOver(Int) /\ o \in Seq(TokenOver(Int))
  BY OldestFacts
<1>2. Numbers(Int) /\ SchedulerOver(Int)  BY DEF Numbers, TypedOver
<1>3. /\ Processed(z, Oldest, r, o) /\ Len(queue') = L - 1
      /\ \A j \in 1..Len(queue') : queue'[j] = queue[j + 1]
  BY UpdateFromOutputShape
<1>4. n > 0 /\ LiveState(a) /\ a.status # "finished"  BY DEF Updated, Live, LiveState
<1>5. CountersAgree(queue, a, r)  BY DEF Books, Accounted
<1>6. LinkAt(queue, a, r, 1)
  <2>1. queue[1].n[r] > 0  BY <1>4 DEF Oldest
  <2> QED  BY <1>1, <1>4, <2>1 DEF Chained, ChainOf
<1>7. KnownAt(queue, results, a, r, k, 1)
  <2>1. queue[1].n[r] > 0  BY <1>4 DEF Oldest
  <2> QED  BY <1>1, <1>4, <2>1 DEF KnownByLast, KnownOf
<1>8. a.stale \in Int /\ a.computed \in Nat /\ t \in Nat /\ a.inFlight \in Int
      /\ a.output \in Seq(TokenOver(Int))
  <2>1. NumTokens(r) = t  BY DEF NumTokens, TokensOf
  <2>2. /\ req[r].stale \in Int /\ NumTokens(r) \in Nat /\ req[r].inFlight \in Int
        /\ req[r].output \in Seq(TokenOver(Int))
    BY <1>2, RequestFacts
  <2>3. req[r].computed \in Nat  BY DEF ComputedNat
  <2>4. t \in Nat  BY <2>1, <2>2
  <2> QED  BY <2>2, <2>3, <2>4
<1>9. SampleOf(Oldest, r, o)  BY OldestSample DEF Books
<1>10. CASE Discards(r)
  <2>1. z.output = a.output /\ z.status = a.status /\ z.computed = ComputedAfter(Oldest, r, o)
    BY <1>3, <1>10 DEF Processed
  <2>2. ~RollsBack(r)  BY <1>8, <1>10 DEF Discards, RollsBack
  <2> QED  BY <1>10, <2>1, <2>2 DEF NothingGiven, ComputedAfter
<1>11. CASE ~Discards(r)
  <2>1. /\ z.output = a.output \o Kept(r, o) /\ z.computed = ComputedAfter(Oldest, r, o)
        /\ z.status = IF Stops(r, o) # {} THEN "finished" ELSE a.status
        /\ z.inFlight = a.inFlight - n /\ z.stale = StaleLeft(Oldest, r)
    BY <1>3, <1>11 DEF Processed
  <2>2. DeliveredAt(queue, a, r, 1)
    <3>1. a.stale > 0 => ~a.dropStale  BY <1>11 DEF Discards
    <3>2. ~(a.stale > 0) => Flight(queue, r, 1) > a.stale  BY <1>1, <1>4, <1>8
    <3>3. queue[1].n[r] > 0  BY <1>4 DEF Oldest
    <3> QED  BY <3>1, <3>2, <3>3 DEF DeliveredAt, FreshAt
  <2>3. /\ o # <<>> <=> ReachesAt(queue, r, 1)
        /\ k >= Len(a.output) + Len(o)
    BY <1>7, <2>2 DEF KnownAt, OldestOutput
  <2>4. CASE o = <<>>
    <3>1. Stops(r, o) = {}
      <4>1. Len(o) = 0  BY <2>4
      <4> HIDE DEF o
      <4>2. 1..Len(o) = {}  BY <4>1
      <4> QED  BY <4>2 DEF Stops
    <3>2. Kept(r, o) = <<>>  BY <2>4, <3>1 DEF Kept
    <3>3. z.output = a.output  BY <1>8, <2>1, <3>2
    <3>4. Rejected(Oldest, r, o) = 0  BY <2>4 DEF Rejected
    <3>5. z.computed = a.computed  BY <1>8, <2>1, <3>4 DEF ComputedAfter
    <3> QED  BY <2>1, <2>3, <2>4, <3>1, <3>3, <3>5 DEF NothingGiven
  <2>5. CASE o # <<>>
    <3>1. Flight(queue, r, L) = n  BY <1>1, <1>6, <2>2, <2>3, <2>5 DEF LinkAt
    <3>2. NoneInFlight(queue', r)
      <4> SUFFICES ASSUME NEW j \in 1..Len(queue') PROVE queue'[j].n[r] = 0
        BY DEF NoneInFlight
      <4> DEFINE i == j + 1
      <4>1. /\ i \in 1..L /\ i \in 0..L /\ i - 1 \in 0..L /\ 1 <= i - 1 /\ i <= L
            /\ 1 \in 0..L /\ L \in 0..L
        BY <1>1, <1>3
      <4> HIDE DEF i
      <4>2. /\ Flight(queue, r, i) = Flight(queue, r, i - 1) + queue[i].n[r]
            /\ Flight(queue, r, 1) <= Flight(queue, r, i - 1)
            /\ Flight(queue, r, i) <= Flight(queue, r, L)
            /\ Flight(queue, r, i - 1) \in Nat /\ queue[i].n[r] \in Nat
        BY <1>1, <4>1, FlightFacts
      <4>3. queue[i].n[r] = 0  BY <1>1, <3>1, <4>2
      <4> QED  BY <1>3, <4>3 DEF i
    <3>3. Fits(c, n, Oldest.spec[r], t)
      <4>1. BatchFits(Oldest, r)  BY <1>1 DEF BatchesFit, Oldest
      <4>2. t = PromptLen[r] + Oldest.numOutput[r]  BY <1>6 DEF LinkAt, TokensOf, Oldest
      <4> QED  BY <1>4, <4>1, <4>2 DEF BatchFits
    <3>4. c + n >= t
      <4>1. t = PromptLen[r] + Oldest.numOutput[r]  BY <1>6 DEF LinkAt, TokensOf, Oldest
      <4> QED  BY <2>3, <2>5, <4>1 DEF ReachesAt, Oldest
    <3>5. c \in Nat /\ d \in Nat /\ c + n - d = t /\ d < n
      BY <1>1, <1>2, <3>3, <3>4, BatchFacts DEF Fits
    <3>6. Base(Oldest, r) = t  BY <3>5 DEF Base
    <3>7. z.status = "finished" \/ (z.status = a.status /\ Kept(r, o) = o)
      BY <2>1 DEF Kept
    <3>8. Len(o) \in Nat /\ Len(o) >= 1 /\ Len(o) <= 1 + d
      <4>1. Len(o) <= 1 + (IF Oldest.spec[r].after = 0 THEN 0 ELSE d)
        BY <1>9 DEF SampleOf
      <4> HIDE DEF o
      <4>2. Len(o) \in Nat /\ Len(o) >= 1  BY <1>1, <2>5
      <4> QED  BY <3>5, <4>1, <4>2
    <3>9. ASSUME a.stale = 0
          PROVE  /\ z.computed = t + Len(o) - 1 /\ z.computed \in Nat
                 /\ z.inFlight = z.stale
      <4>1. FreshAt(queue, a, r, 1)
        <5>1. Flight(queue, r, 1) > a.stale /\ queue[1].n[r] > 0
          BY <1>1, <1>4, <3>9 DEF Oldest
        <5> QED  BY <5>1 DEF FreshAt
      <4>2. queue[1].computed[r] + Flight(queue, r, L) - Flight(queue, r, 1 - 1) = a.computed
        BY <1>6, <4>1 DEF LinkAt
      <4>3. 1 - 1 = 0 /\ queue[1].computed[r] = c  BY DEF Oldest
      <4>4. c + n - 0 = a.computed  BY <1>1, <3>1, <4>2, <4>3
      <4>5. a.computed = c + n /\ a.computed > 0  BY <1>1, <1>4, <3>5, <4>4
      <4>6. RollsBack(r)  BY <3>9, <4>5 DEF RollsBack
      <4>7. z.computed = a.computed - Rejected(Oldest, r, o)
        BY <2>1, <4>6 DEF ComputedAfter
      <4>8. Rejected(Oldest, r, o) = IF d > 0 THEN d - (Len(o) - 1) ELSE 0
        BY <2>5 DEF Rejected
      <4>9. z.inFlight = 0 /\ z.stale = 0
        <5>1. a.inFlight = n  BY <1>4, <1>5, <3>1 DEF CountersAgree
        <5>2. z.stale = 0  BY <2>1, <3>9 DEF StaleLeft
        <5> QED  BY <1>1, <2>1, <5>1, <5>2
      <4> DEFINE m == Len(o)  x == a.computed  y == Rejected(Oldest, r, o)
      <4>10. /\ z.computed = x - y /\ x = c + n
             /\ y = IF d > 0 THEN d - (m - 1) ELSE 0
             /\ m = Len(o)
        BY <4>5, <4>7, <4>8
      <4> HIDE DEF a, z, L, n, o, t, c, d, m, x, y
      <4>11. z.computed = t + m - 1 /\ z.computed \in Nat
        <5>1. m \in Nat /\ m >= 1 /\ m <= 1 + d /\ n \in Nat  BY <1>1, <3>8, <4>10
        <5>2. CASE d > 0  BY <3>5, <4>10, <5>1, <5>2
        <5>3. CASE ~(d > 0)  BY <3>5, <4>10, <5>1, <5>3
        <5> QED  BY <5>2, <5>3
      <4> QED  BY <4>9, <4>10, <4>11
    <3>10. a.stale # 0 => z.computed \in Nat /\ a.status # "running"
      <4>1. a.stale # 0 => ~RollsBack(r)  BY DEF RollsBack
      <4>2. PICK i \in 0..L : a.stale = Flight(queue, r, i)
        BY <1>4, <1>5 DEF CountersAgree
      <4>3. a.stale \in Nat  BY <1>1, <4>2, FlightFacts
      <4>4. a.status = "running" /\ a.stale > 0 => a.dropStale
        BY <1>4, <1>5 DEF CountersAgree
      <4>5. a.stale # 0 => a.status # "running"  BY <1>11, <4>3, <4>4 DEF Discards
      <4> QED  BY <1>8, <2>1, <4>1, <4>5 DEF ComputedAfter
    <3>11. z.computed \in Nat  BY <3>9, <3>10
    <3>12. a.status = "running" => z.computed = t + Len(o) - 1 /\ z.inFlight = z.stale
      BY <3>9, <3>10
    <3>13. TokensGiven(r, o)
      BY <2>1, <2>3, <2>5, <3>2, <3>6, <3>7, <3>11, <3>12 DEF TokensGiven
    <3> QED  BY <3>13
  <2> QED  BY <2>4, <2>5
<1> QED  BY <1>10, <1>11

---------------------------------------------------------------------------
(* The batches behind the oldest one, when its output is taken *)

LEMMA ShiftFacts ==
  ASSUME NEW q \in Seq(BatchOver(Int)), NEW p \in Seq(BatchOver(Int)), NEW r \in Requests,
         NEW a, NEW z, Len(p) = Len(q) - 1, \A j \in 1..Len(p) : p[j] = q[j + 1],
         Shifted(a, z, q[1].n[r]), NEW j \in 1..Len(p)
  PROVE  /\ j + 1 \in 1..Len(q) /\ p[j] = q[j + 1]
         /\ FreshAt(p, z, r, j) => FreshAt(q, a, r, j + 1)
         /\ DeliveredAt(p, z, r, j) => DeliveredAt(q, a, r, j + 1)
         /\ ReachesAt(p, r, j) <=> ReachesAt(q, r, j + 1)
         /\ LinkAt(q, a, r, j + 1) => LinkAt(p, z, r, j)
<1> DEFINE i == j + 1  L == Len(p)  n == q[1].n[r]
<1>1. /\ L \in Nat /\ Len(q) = L + 1 /\ i \in 1..Len(q) /\ i - 1 = j
      /\ j \in 0..L /\ j - 1 \in 0..L /\ L \in 0..L /\ (j - 1) + 1 = j
      /\ i \in 0..Len(q)
  OBVIOUS
<1>2. p[j] = q[i]  OBVIOUS
<1>3. \A m \in 0..L : Flight(q, r, m + 1) = n + Flight(p, r, m)  BY FlightShrinks
<1>4. /\ Flight(q, r, i) = n + Flight(p, r, j)
      /\ Flight(q, r, i - 1) = n + Flight(p, r, j - 1)
      /\ Flight(q, r, Len(q)) = n + Flight(p, r, L)
  <2>1. Flight(q, r, (j - 1) + 1) = n + Flight(p, r, j - 1)  BY <1>1, <1>3
  <2> QED  BY <1>1, <1>3, <2>1
<1>5. /\ n \in Nat /\ Flight(p, r, j) \in Nat /\ Flight(p, r, j - 1) \in Nat
      /\ Flight(p, r, L) \in Nat /\ p[j].n[r] \in Nat /\ p[j].computed[r] \in Int
      /\ Flight(p, r, j) = Flight(p, r, j - 1) + p[j].n[r]
  <2>1. p[j] \in BatchOver(Int) /\ 1 \in 1..Len(q)  BY <1>1
  <2>2. n \in Nat  BY <2>1, FlightFacts
  <2>3. /\ Flight(p, r, j) \in Nat /\ Flight(p, r, j - 1) \in Nat
        /\ Flight(p, r, L) \in Nat /\ p[j].n[r] \in Nat
        /\ Flight(p, r, j) = Flight(p, r, j - 1) + p[j].n[r]
    BY <1>1, FlightFacts
  <2>4. p[j].computed[r] \in Int  BY <2>1, BatchFacts DEF Numbers
  <2> QED  BY <2>2, <2>3, <2>4
<1> DEFINE fj == Flight(p, r, j)  fi == Flight(p, r, j - 1)  fl == Flight(p, r, L)
           c == p[j].computed[r]  m == p[j].n[r]
<1>6. /\ z.output = a.output /\ z.computed = a.computed /\ z.dropStale = a.dropStale
      /\ a.stale \in Int /\ z.stale \in Int
      /\ z.stale = a.stale - n \/ ~(a.stale > 0)
  BY DEF Shifted
<1>7. FreshAt(p, z, r, j) => FreshAt(q, a, r, i)
  <2> SUFFICES ASSUME m > 0, fj > z.stale PROVE n + fj > a.stale
    BY <1>2, <1>4 DEF FreshAt
  <2>1. n \in Nat /\ fj \in Nat /\ fi \in Nat /\ m \in Nat /\ fj = fi + m  BY <1>5
  <2> HIDE DEF n, fj, fi, m
  <2> QED  BY <1>6, <2>1
<1>8. DeliveredAt(p, z, r, j) => DeliveredAt(q, a, r, i)
  BY <1>2, <1>6, <1>7, Zenon DEF DeliveredAt
<1>9. ReachesAt(p, r, j) <=> ReachesAt(q, r, i)  BY <1>2 DEF ReachesAt
<1>10. LinkAt(q, a, r, i) => LinkAt(p, z, r, j)
  <2> SUFFICES ASSUME LinkAt(q, a, r, i) PROVE LinkAt(p, z, r, j)
    OBVIOUS
  <2>1. p[j].numOutput[r] = Len(z.output) /\ (r \in p[j].new => z.output = <<>>)
    BY <1>2, <1>6 DEF LinkAt
  <2>2. FreshAt(p, z, r, j) => c + fl - fi = z.computed
    <3>1. FreshAt(p, z, r, j) => c + (n + fl) - (n + fi) = z.computed
      BY <1>2, <1>4, <1>6, <1>7 DEF LinkAt
    <3>2. n \in Nat /\ fl \in Nat /\ fi \in Nat /\ c \in Int  BY <1>5
    <3> HIDE DEF n, fl, fi, c
    <3>3. c + (n + fl) - (n + fi) = c + fl - fi  BY <3>2
    <3> QED  BY <3>1, <3>3
  <2>3. DeliveredAt(p, z, r, j) /\ ReachesAt(p, r, j) => fj = fl
    <3>1. DeliveredAt(p, z, r, j) /\ ReachesAt(p, r, j) => n + fj = n + fl
      BY <1>4, <1>8, <1>9 DEF LinkAt
    <3>2. n \in Nat /\ fj \in Nat /\ fl \in Nat  BY <1>5
    <3> HIDE DEF n, fj, fl
    <3> QED  BY <3>1, <3>2
  <2> QED  BY <2>1, <2>2, <2>3 DEF LinkAt
<1> QED  BY <1>1, <1>2, <1>7, <1>8, <1>9, <1>10

LEMMA ShiftContinues ==
  ASSUME NEW q \in Seq(BatchOver(Int)), NEW p \in Seq(BatchOver(Int)), NEW r \in Requests,
         NEW a, NEW z, NEW s, NEW t, NEW k,
         Len(p) = Len(q) - 1, \A j \in 1..Len(p) : p[j] = q[j + 1],
         \A j \in 1..Len(t) : t[j] = s[j + 1] /\ j \in 1..Len(p) /\ j + 1 \in 1..Len(s),
         Shifted(a, z, q[1].n[r])
  PROVE  /\ ChainOf(q, a, r) => ChainOf(p, z, r)
         /\ KnownOf(q, s, a, r, k) => KnownOf(p, t, z, r, k)
<1>1. LiveState(a) /\ z.output = a.output  BY DEF Shifted
<1>2. \A j \in 1..Len(p) :
         /\ j + 1 \in 1..Len(q) /\ p[j] = q[j + 1]
         /\ DeliveredAt(p, z, r, j) => DeliveredAt(q, a, r, j + 1)
         /\ ReachesAt(p, r, j) <=> ReachesAt(q, r, j + 1)
         /\ LinkAt(q, a, r, j + 1) => LinkAt(p, z, r, j)
  BY ShiftFacts
<1>3. ASSUME ChainOf(q, a, r), NEW j \in 1..Len(p), p[j].n[r] > 0 PROVE LinkAt(p, z, r, j)
  <2>1. LinkAt(q, a, r, j + 1)  BY <1>1, <1>2, <1>3 DEF ChainOf
  <2> QED  BY <1>2, <2>1
<1>4. ASSUME KnownOf(q, s, a, r, k), NEW j \in 1..Len(t), p[j].n[r] > 0
      PROVE  KnownAt(p, t, z, r, k, j)
  <2>1. /\ p[j] = q[j + 1] /\ t[j] = s[j + 1] /\ j + 1 \in 1..Len(s)
        /\ DeliveredAt(p, z, r, j) => DeliveredAt(q, a, r, j + 1)
        /\ ReachesAt(p, r, j) <=> ReachesAt(q, r, j + 1)
    BY <1>2
  <2>2. KnownAt(q, s, a, r, k, j + 1)  BY <1>1, <1>4, <2>1 DEF KnownOf
  <2> QED  BY <1>1, <2>1, <2>2 DEF KnownAt
<1>5. KnownOf(q, s, a, r, k) => k >= Len(z.output)  BY <1>1 DEF KnownOf
<1> QED  BY <1>3, <1>4, <1>5 DEF ChainOf, KnownOf

---------------------------------------------------------------------------
(* One request when an output is taken *)

LEMMA UpdateNext ==
  ASSUME TypedOver(Int), Shape, UpdateFromOutput
  PROVE  /\ queue' \in Seq(BatchOver(Int)) /\ Len(queue') \in Nat /\ Len(queue') = Len(queue) - 1
         /\ \A j \in 1..Len(queue') : queue'[j] = queue[j + 1]
         /\ \A j \in 1..Len(results') : /\ results'[j] = results[j + 1]
                                        /\ j \in 1..Len(queue') /\ j + 1 \in 1..Len(results)
         /\ \A r \in Requests : plan.n[r] = 0 /\ plan'.n[r] = 0
         /\ history' = history
<1>1. /\ TypedOver(Int)' /\ plan = EmptyPlan /\ plan' = EmptyPlan
      /\ Len(queue') = Len(queue) - 1 /\ Len(results') = Len(results) - 1
      /\ Len(queue) >= 1 /\ Len(results) >= 1
      /\ \A j \in 1..Len(queue') : queue'[j] = queue[j + 1]
      /\ \A j \in 1..Len(results') : results'[j] = results[j + 1]
      /\ history' = history
  BY UpdateFromOutputShape
<1>2. /\ Len(queue) \in Nat /\ Len(results) \in Nat /\ Len(results) <= Len(queue)
  BY QueueFacts, ResultsFacts
<1>3. queue' \in Seq(BatchOver(Int))  BY <1>1 DEF TypedOver, RanksOver
<1>4. \A j \in 1..Len(results') : j \in 1..Len(queue') /\ j + 1 \in 1..Len(results)
  BY <1>1, <1>2
<1>5. Len(queue') \in Nat  BY <1>1, <1>2
<1> QED  BY <1>1, <1>3, <1>4, <1>5, EmptyPlans

LEMMA KeepsPace ==
  ASSUME TypedOver(Int), Shape, Books, Chained, InPace, UpdateFromOutput,
         NEW r \in Requests, Updated(r), NothingGiven(r)
  PROVE  Paced(req'[r], plan'.n[r], r)
<1> DEFINE a == req[r]  z == req'[r]  L == Len(queue)  n == Oldest.n[r]  t == TokensOf(a, r)
           g == Flight(queue, r, L)
<1>1. /\ L \in Nat /\ 1 \in 1..L /\ Flight(queue, r, 0) = 0 /\ Flight(queue, r, 1) = n
      /\ n \in Nat /\ g \in Nat /\ Oldest \in BatchOver(Int)
  BY OldestFacts
<1>2. SchedulerOver(Int) /\ Numbers(Int)  BY DEF TypedOver, Numbers
<1>3. /\ z.output = a.output /\ z.computed = a.computed /\ z.status = a.status
      /\ ~Discards(r) => ~ReachesAt(queue, r, 1)
  BY DEF NothingGiven
<1>4. /\ z.inFlight = a.inFlight - n /\ z.stale = StaleLeft(Oldest, r) /\ z.chunk = a.chunk
  BY UpdateFromOutputShape DEF Processed
<1>5. n > 0 /\ LiveState(a) /\ a.status # "finished"  BY DEF Updated, Live, LiveState
<1>6. a.inFlight = g  BY <1>5 DEF Books, Accounted, CountersAgree
<1>7. a.stale \in Int /\ a.computed \in Int  BY <1>2, RequestFacts
<1>8. z.stale = IF a.stale > 0 THEN a.stale - n ELSE 0  BY <1>4 DEF StaleLeft
<1>9. a.stale \in Nat
  <2>1. PICK i \in 0..L : a.stale = Flight(queue, r, i)
    BY <1>5 DEF Books, Accounted, CountersAgree
  <2> QED  BY <2>1, QueueFacts, FlightFacts
<1>10. plan.n[r] = 0 /\ plan'.n[r] = 0  BY UpdateNext
<1>11. Paced(a, 0, r)  BY <1>10 DEF InPace
<1>12. TokensOf(z, r) = t  BY <1>3 DEF TokensOf
<1>13. ASSUME a.stale = 0, g = n PROVE a.computed < t
  <2>1. FreshAt(queue, a, r, 1) /\ LinkAt(queue, a, r, 1)
    <3>1. queue[1].n[r] > 0 /\ Flight(queue, r, 1) > a.stale
      BY <1>1, <1>5, <1>13 DEF Oldest
    <3> QED  BY <1>1, <1>5, <3>1 DEF FreshAt, Chained, ChainOf
  <2> DEFINE c == queue[1].computed[r]  m == queue[1].numOutput[r]
  <2>2. c + g - Flight(queue, r, 1 - 1) = a.computed /\ m = Len(a.output)
    BY <2>1 DEF LinkAt
  <2>3. 1 - 1 = 0 /\ c \in Int /\ n = queue[1].n[r]
    BY <1>1, <1>2, BatchFacts DEF Oldest
  <2>4. ~Discards(r)  BY <1>13 DEF Discards
  <2>5. ~(c + n >= t)  BY <1>3, <2>2, <2>3, <2>4 DEF ReachesAt, TokensOf
  <2>6. t \in Int
    <3>1. t = NumTokens(r)  BY DEF TokensOf, NumTokens
    <3>2. NumTokens(r) \in Nat  BY <1>2, RequestFacts
    <3> QED  BY <3>1, <3>2
  <2>7. c + g - 0 = a.computed  BY <1>1, <2>2, <2>3
  <2> HIDE DEF a, z, L, n, t, g, c, m
  <2> QED  BY <1>1, <1>7, <1>13, <2>3, <2>5, <2>6, <2>7
<1>14. t \in Nat
  <2>1. t = NumTokens(r)  BY DEF TokensOf, NumTokens
  <2> QED  BY <1>2, <2>1, RequestFacts
<1> SUFFICES ASSUME z.status = "running"
             PROVE  /\ z.chunk => z.computed < t
                    /\ ~z.chunk => IF z.inFlight = z.stale THEN z.computed = t - 1
                                                           ELSE z.computed >= t
  BY <1>12 DEF Paced
<1>15. /\ a.chunk => a.computed < t
       /\ ~a.chunk => IF a.inFlight = a.stale THEN a.computed = t - 1 ELSE a.computed >= t
  BY <1>3, <1>11 DEF Paced
<1> HIDE DEF a, z, L, n, t, g
<1>16. CASE a.stale > 0
  <2>1. z.inFlight = z.stale <=> a.inFlight = a.stale
    BY <1>1, <1>4, <1>6, <1>8, <1>9, <1>16
  <2> QED  BY <1>3, <1>4, <1>15, <2>1
<1>17. CASE a.stale = 0
  <2>1. a.inFlight # a.stale
    <3>1. g >= n
      <4>1. L \in 0..L /\ 1 \in 0..L /\ 1 <= L  BY <1>1
      <4>2. Flight(queue, r, 1) <= Flight(queue, r, L)
        BY <4>1, QueueFacts, FlightFacts DEF L
      <4> QED  BY <1>1, <4>2 DEF g, L
    <3> QED  BY <1>1, <1>5, <1>6, <1>17, <3>1
  <2>2. ~a.chunk => z.inFlight # z.stale
    <3>1. ~a.chunk => a.computed >= t  BY <1>15, <2>1
    <3>2. g = n => a.computed < t  BY <1>13, <1>17
    <3>3. z.inFlight = z.stale => g = n  BY <1>1, <1>4, <1>6, <1>8, <1>17
    <3>4. ~(a.computed >= t /\ a.computed < t)  BY <1>7, <1>14 DEF a
    <3> QED  BY <3>1, <3>2, <3>3, <3>4
  <2> QED  BY <1>3, <1>4, <1>15, <2>1, <2>2
<1> QED  BY <1>9, <1>16, <1>17

LEMMA UpdateShifts ==
  ASSUME TypedOver(Int), Shape, UpdateFromOutput, NEW r \in Requests, LiveState(req[r]),
         Updated(r) => NothingGiven(r)
  PROVE  Shifted(req[r], req'[r], queue[1].n[r])
<1> DEFINE a == req[r]  z == req'[r]  n == Oldest.n[r]
<1>1. /\ Updated(r) => Processed(z, Oldest, r, OldestOutput(r))
      /\ ~Updated(r) => z = a
      /\ TypedOver(Int)'
  BY UpdateFromOutputShape
<1>2. n \in Nat /\ Live(r) /\ n = queue[1].n[r]
  BY OldestFacts DEF LiveState, Live, Oldest
<1>3. a.stale \in Int /\ z.stale \in Int
  <2>1. a.stale \in Int  BY RequestFacts DEF TypedOver, Numbers
  <2>2. z \in RequestOver(Int)  BY <1>1 DEF TypedOver, SchedulerOver
  <2> QED  BY <2>1, <2>2 DEF RequestOver
<1>4. CASE Updated(r)
  <2>1. z.output = a.output /\ z.computed = a.computed  BY <1>4 DEF NothingGiven
  <2>2. z.dropStale = a.dropStale /\ (z.stale = a.stale - n \/ ~(a.stale > 0))
    BY <1>1, <1>4 DEF Processed, StaleLeft
  <2> QED  BY <1>2, <1>3, <2>1, <2>2 DEF Shifted
<1>5. CASE ~Updated(r)
  <2>1. n = 0 /\ z = a  BY <1>1, <1>2, <1>5 DEF Updated
  <2>2. z.stale = a.stale - n  BY <1>3, <2>1
  <2> QED  BY <1>2, <1>3, <2>1, <2>2 DEF Shifted
<1> QED  BY <1>4, <1>5

LEMMA KeepsGoing ==
  ASSUME TypedOver(Int), Shape, Books, Chained, KnownByLast, InPace, ComputedNat, OutputInOrder,
         UpdateFromOutput, NEW r \in Requests, LiveState(req[r]),
         Updated(r) => NothingGiven(r)
  PROVE  Advances(r)
<1> DEFINE a == req[r]  z == req'[r]  k == Len(history[LastRank][r])
<1>1. /\ queue \in Seq(BatchOver(Int)) /\ queue' \in Seq(BatchOver(Int))
      /\ Len(queue') = Len(queue) - 1
      /\ \A j \in 1..Len(queue') : queue'[j] = queue[j + 1]
      /\ \A j \in 1..Len(results') : /\ results'[j] = results[j + 1]
                                     /\ j \in 1..Len(queue') /\ j + 1 \in 1..Len(results)
      /\ plan.n[r] = 0 /\ plan'.n[r] = 0 /\ history' = history
  BY UpdateNext, QueueFacts
<1>2. ~Updated(r) => z = a  BY UpdateFromOutputShape
<1>3. Shifted(a, z, queue[1].n[r])  BY UpdateShifts
<1>4. ChainOf(queue, a, r) /\ KnownOf(queue, results, a, r, k)
  BY DEF Chained, KnownByLast
<1>5. ChainOf(queue', z, r) /\ KnownOf(queue', results', z, r, k)
  <2> HIDE DEF a, z, k
  <2> QED  BY <1>1, <1>3, <1>4, ShiftContinues
<1>6. Paced(z, plan'.n[r], r)
  <2>1. CASE Updated(r)  BY <2>1, KeepsPace
  <2>2. CASE ~Updated(r)  BY <1>1, <1>2, <2>2 DEF InPace
  <2> QED  BY <2>1, <2>2
<1>7. z.computed \in Nat /\ InOrder(r, z.output)
  <2>1. a.computed \in Nat /\ InOrder(r, a.output)  BY DEF ComputedNat, OutputInOrder
  <2> QED  BY <1>3, <2>1 DEF Shifted
<1> QED  BY <1>1, <1>5, <1>6, <1>7 DEF Advances

\* Tokens for the positions after those of s, appended to s, keep it in order.
LEMMA InOrderCat ==
  ASSUME NEW r \in Requests, NEW s \in Seq(TokenOver(Int)), NEW o \in Seq(TokenOver(Int)),
         InOrder(r, s), \A i \in 1..Len(o) : o[i][1] = PromptLen[r] + Len(s) + i
  PROVE  InOrder(r, s \o o)
<1>1. /\ Len(s) \in Nat /\ Len(o) \in Nat /\ Len(s \o o) = Len(s) + Len(o)
      /\ PromptLen[r] \in Nat
  BY EngineFacts
<1> SUFFICES ASSUME NEW i \in 1..(Len(s) + Len(o)) PROVE (s \o o)[i][1] = PromptLen[r] + i
  BY <1>1 DEF InOrder
<1>2. CASE i <= Len(s)  BY <1>1, <1>2 DEF InOrder
<1>3. CASE i > Len(s)
  <2>1. i - Len(s) \in 1..Len(o) /\ (s \o o)[i] = o[i - Len(s)]  BY <1>1, <1>3
  <2>2. o[i - Len(s)][1] = PromptLen[r] + Len(s) + (i - Len(s))  BY <2>1
  <2>3. PromptLen[r] + Len(s) + (i - Len(s)) = PromptLen[r] + i  BY <1>1
  <2> QED  BY <2>1, <2>2, <2>3
<1> QED  BY <1>1, <1>2, <1>3

LEMMA GoesOn ==
  ASSUME TypedOver(Int), Shape, Books, Chained, KnownByLast, InPace, ComputedNat, OutputInOrder,
         UpdateFromOutput, NEW r \in Requests, Updated(r), TokensGiven(r, OldestOutput(r))
  PROVE  Advances(r)
<1> DEFINE a == req[r]  z == req'[r]  o == OldestOutput(r)  k == Len(history[LastRank][r])
           t == TokensOf(a, r)
<1>1. /\ \A j \in 1..Len(results') : j \in 1..Len(queue')
      /\ plan.n[r] = 0 /\ plan'.n[r] = 0 /\ history' = history
  BY UpdateNext
<1>2. /\ o # <<>> /\ NoneInFlight(queue', r) /\ Base(Oldest, r) = t
      /\ z.output = a.output \o Kept(r, o)
      /\ z.status = "finished" \/ (z.status = a.status /\ Kept(r, o) = o)
      /\ k >= Len(a.output) + Len(o) /\ z.computed \in Nat
      /\ a.status = "running" => z.computed = t + Len(o) - 1 /\ z.inFlight = z.stale
  BY DEF TokensGiven
<1>3. o \in Seq(TokenOver(Int)) /\ a.output \in Seq(TokenOver(Int)) /\ PromptLen[r] \in Nat
  BY OldestSample, RequestFacts, EngineFacts DEF TypedOver, Numbers, Books
<1>4. SampleOf(Oldest, r, o)  BY OldestSample DEF Books
<1>5. /\ Kept(r, o) \in Seq(TokenOver(Int)) /\ Len(Kept(r, o)) <= Len(o)
      /\ \A i \in 1..Len(Kept(r, o)) : Kept(r, o)[i] = o[i]
  BY <1>3, KeptFacts
<1>6. InOrder(r, z.output)
  <2> DEFINE w == Kept(r, o)
  <2>1. ASSUME NEW i \in 1..Len(w) PROVE w[i][1] = PromptLen[r] + Len(a.output) + i
    <3>1. i \in 1..Len(o)  BY <1>3, <1>5
    <3>2. w[i] = o[i] /\ o[i][1] = Base(Oldest, r) + i  BY <1>4, <1>5, <3>1 DEF SampleOf
    <3> QED  BY <1>2, <3>2 DEF TokensOf
  <2>2. InOrder(r, a.output)  BY DEF OutputInOrder
  <2> HIDE DEF w
  <2>3. InOrder(r, a.output \o w)  BY <1>3, <1>5, <2>1, <2>2, InOrderCat DEF w
  <2> QED  BY <1>2, <2>3 DEF w
<1>7. /\ Len(z.output) = Len(a.output) + Len(Kept(r, o))
      /\ Len(a.output) \in Nat /\ Len(o) \in Nat /\ Len(Kept(r, o)) \in Nat
  BY <1>2, <1>3, <1>5
<1>8. k >= Len(z.output)
  <2>1. k \in Nat
    <3>1. history[LastRank][r] \in Seq(TokenOver(Int))
      BY RanksFacts, EngineFacts DEF TypedOver, Numbers
    <3> QED  BY <3>1
  <2> DEFINE x == Len(a.output)  y == Len(o)  w == Len(Kept(r, o))
  <2>2. k >= x + y /\ w <= y /\ x \in Nat /\ y \in Nat /\ w \in Nat /\ Len(z.output) = x + w
    BY <1>2, <1>5, <1>7
  <2> HIDE DEF x, y, w, k, z
  <2> QED  BY <2>1, <2>2
<1>9. ChainOf(queue', z, r) /\ KnownOf(queue', results', z, r, k)
  <2> HIDE DEF z, k
  <2> QED  BY <1>1, <1>2, <1>8, NoneInFlightFacts
<1>10. Paced(z, plan'.n[r], r)
  <2> SUFFICES ASSUME z.status = "running"
               PROVE  /\ z.computed < TokensOf(z, r) /\ z.computed = TokensOf(z, r) - 1
                      /\ z.inFlight = z.stale
    BY DEF Paced
  <2>1. a.status = "running" /\ Kept(r, o) = o  BY <1>2
  <2> DEFINE x == Len(a.output)  y == Len(o)
  <2>2. TokensOf(z, r) = PromptLen[r] + (x + y) /\ t = PromptLen[r] + x
    BY <1>7, <2>1 DEF TokensOf
  <2>3. x \in Nat /\ y \in Nat /\ PromptLen[r] \in Nat  BY <1>3, <1>7
  <2>4. z.computed = t + y - 1 /\ z.inFlight = z.stale  BY <1>2, <2>1
  <2> HIDE DEF x, y, t, z, a, o
  <2> QED  BY <2>2, <2>3, <2>4
<1> QED  BY <1>1, <1>2, <1>6, <1>9, <1>10 DEF Advances

LEMMA UpdateProgress ==
  ASSUME TypedOver(Int), Shape, Books, BatchesFit, Chained, KnownByLast, InPace, ComputedNat,
         OutputInOrder, UpdateFromOutput
  PROVE  /\ BatchesFit' /\ PlanFits' /\ \A r \in Requests : Advances(r)
<1>1. /\ Len(queue') = Len(queue) - 1 /\ Len(queue) \in Nat
      /\ \A j \in 1..Len(queue') : queue'[j] = queue[j + 1]
      /\ \A r \in Requests : plan.n[r] = 0 /\ plan'.n[r] = 0
  BY UpdateNext, QueueFacts
<1>2. BatchesFit'
  <2> SUFFICES ASSUME NEW j \in 1..Len(queue'), NEW r \in Requests PROVE BatchFits(queue'[j], r)
    BY DEF BatchesFit
  <2>1. j + 1 \in 1..Len(queue)  BY <1>1
  <2> QED  BY <1>1, <2>1 DEF BatchesFit
<1>3. PlanFits'  BY <1>1 DEF PlanFits
<1>4. ASSUME NEW r \in Requests PROVE Advances(r)
  <2>1. /\ Updated(r) => Processed(req'[r], Oldest, r, OldestOutput(r))
        /\ ~Updated(r) => req'[r] = req[r]
    BY UpdateFromOutputShape
  <2>2. CASE LiveState(req[r])
    <3>1. Updated(r) => NothingGiven(r) \/ TokensGiven(r, OldestOutput(r))
      BY UpdatedCases
    <3>2. CASE Updated(r) => NothingGiven(r)  BY <2>2, <3>2, KeepsGoing
    <3>3. CASE Updated(r) /\ TokensGiven(r, OldestOutput(r))  BY <3>3, GoesOn
    <3> QED  BY <3>1, <3>2, <3>3
  <2>3. CASE ~LiveState(req[r])
    <3>1. req'[r] = req[r]  BY <2>1, <2>3 DEF Updated, Live, LiveState
    <3>2. ~LiveState(req'[r]) /\ req'[r].status # "running"  BY <2>3, <3>1 DEF LiveState
    <3> QED  BY <3>1, <3>2 DEF Advances, ChainOf, KnownOf, Paced, ComputedNat, OutputInOrder
  <2> QED  BY <2>2, <2>3
<1> QED  BY <1>2, <1>3, <1>4

---------------------------------------------------------------------------
(* Progress when the last rank samples *)

\* What the last rank keeps of a live request's output is what the request was given.
LEMMA SampleKeeps ==
  ASSUME NEW b \in BatchOver(Int), NEW r \in Requests, RanksOver(Int), r \notin b.new,
         b.n[r] > 0, b.numOutput[r] <= Len(history[LastRank][r])
  PROVE  Len(UpdatedHistory(LastRank, b, r)) = b.numOutput[r]
<1> DEFINE known == history[LastRank][r]  m == Min({Len(known), b.numOutput[r]})
           n == b.numOutput[r]
<1>1. known \in Seq(TokenOver(Int)) /\ n \in Nat
  BY RanksFacts, BatchFacts, EngineFacts DEF Numbers
<1>2. UpdatedHistory(LastRank, b, r) = SubSeq(known, 1, m)
  BY Zenon DEF UpdatedHistory, Scheduled
<1>3. n <= Len(known)  OBVIOUS
<1> HIDE DEF known, n
<1>4. m = n
  <2>1. Len(known) \in Int /\ n \in Int /\ m = Min({Len(known), n})  BY <1>1 DEF n
  <2> HIDE DEF m
  <2> QED  BY <1>3, <2>1, Min2
<1> HIDE DEF m
<1>5. Len(SubSeq(known, 1, n)) = n  BY <1>1, <1>3, SubSeqFacts
<1> QED  BY <1>2, <1>4, <1>5 DEF n

LEMMA SampleKnown ==
  ASSUME TypedOver(Int), Shape, BatchesFit, Chained, KnownByLast, SampleBatch
  PROVE  KnownByLast'
<1> DEFINE m == Len(results) + 1  b == queue[m]  L == Len(queue)
<1>1. /\ UNCHANGED <<scheduler, engine>> /\ m <= L /\ b \in BatchOver(Int)
  BY SampleBatchShape
<1>2. PICK out \in [Requests -> Seq(TokenOver(Int))] :
         /\ Sampled(b, out)
         /\ Len(results') = m /\ results'[m] = out
         /\ \A j \in 1..Len(results) : results'[j] = results[j]
         /\ \A r \in Requests : SampleOf(b, r, out[r])
  BY SampledIs
<1>3. /\ Len(results) \in Nat /\ L \in Nat /\ queue \in Seq(BatchOver(Int)) /\ Numbers(Int)
      /\ RanksOver(Int) /\ m \in 1..L /\ m \in 0..L /\ L \in 0..L /\ m - 1 \in 0..L
  BY <1>1, ResultsFacts, QueueFacts DEF TypedOver
<1>4. queue' = queue /\ req' = req  BY <1>1 DEF scheduler, engine
<1> SUFFICES ASSUME NEW r \in Requests
             PROVE  KnownOf(queue, results', req[r], r, Len(history'[LastRank][r]))
  BY <1>4 DEF KnownByLast
<1> DEFINE a == req[r]  k == Len(history[LastRank][r])  z == Len(history'[LastRank][r])
           o == out[r]  U == UpdatedHistory(LastRank, b, r)
<1>5. KnownOf(queue, results, a, r, k)  BY DEF KnownByLast
<1>6. CASE ~LiveState(a)  BY <1>6 DEF KnownOf
<1>7. CASE LiveState(a)
  <2>1. r \notin b.finished  BY <1>3, <1>7 DEF Shape, Announced, LiveState
  <2>2. /\ U \in Seq(TokenOver(Int)) /\ o \in Seq(TokenOver(Int))
        /\ a.output \in Seq(TokenOver(Int)) /\ Len(a.output) \in Nat
        /\ k \in Nat /\ k >= Len(a.output)
    <3>1. U \in Seq(TokenOver(Int)) /\ history[LastRank][r] \in Seq(TokenOver(Int))
      BY <1>1, <1>3, UpdatedHistoryType, RanksFacts, EngineFacts
    <3>2. a.output \in Seq(TokenOver(Int))  BY <1>3, RequestFacts DEF TypedOver
    <3> QED  BY <1>5, <1>7, <3>1, <3>2 DEF KnownOf
  <2>3. z = Len(U) + Len(o)
    <3>1. history'[LastRank][r] = U \o o  BY <1>2, <2>1 DEF Sampled
    <3> HIDE DEF U, o
    <3> QED  BY <2>2, <3>1
  <2>4. o \in SampledTokens(b, r) /\ (b.n[r] = 0 => o = <<>>)
    BY <1>2 DEF Sampled, SampleOf
  <2>5. BatchFits(b, r)  BY <1>3 DEF BatchesFit
  <2>6. b.n[r] \in Nat  BY <1>1, <1>3, BatchFacts
  <2>7. ASSUME NEW j \in 1..m, j # m
        PROVE  /\ j \in 1..Len(results) /\ results'[j] = results[j] /\ j \in 0..L /\ j <= m - 1
               /\ queue[j].n[r] > 0 => KnownAt(queue, results, a, r, k, j)
    <3>1. j \in 1..Len(results) /\ j \in 0..L /\ j <= m - 1  BY <1>1, <1>3, <2>7
    <3> QED  BY <1>2, <1>5, <1>7, <3>1 DEF KnownOf
  <2>8. CASE ~(b.n[r] > 0)
    <3>1. r \notin Scheduled(b) /\ r \notin b.new /\ o = <<>>
      BY <2>4, <2>5, <2>6, <2>8 DEF BatchFits, Scheduled
    <3>2. U = history[LastRank][r]  BY <3>1, Zenon DEF UpdatedHistory
    <3>3. z = k  BY <2>2, <2>3, <3>1, <3>2
    <3>4. ASSUME NEW j \in 1..m, queue[j].n[r] > 0 PROVE KnownAt(queue, results', a, r, z, j)
      <4>1. j # m  BY <2>8, <3>4
      <4>2. KnownAt(queue, results, a, r, k, j) /\ results'[j] = results[j]
        BY <2>7, <3>4, <4>1
      <4> QED  BY <3>3, <4>2 DEF KnownAt
    <3> QED  BY <1>2, <2>2, <3>3, <3>4 DEF KnownOf
  <2>9. CASE b.n[r] > 0
    <3>1. LinkAt(queue, a, r, m)  BY <1>3, <1>7, <2>9 DEF Chained, ChainOf
    <3>2. b.numOutput[r] = Len(a.output) /\ (r \in b.new => a.output = <<>>)
      BY <3>1 DEF LinkAt
    <3>3. Len(U) = Len(a.output)
      <4>1. CASE r \in b.new
        <5>1. U = <<>> /\ a.output = <<>>  BY <3>2, <4>1 DEF UpdatedHistory
        <5> QED  BY <5>1
      <4>2. CASE r \notin b.new  BY <1>1, <1>3, <2>2, <2>9, <3>2, <4>2, SampleKeeps
      <4> QED  BY <4>1, <4>2
    <3>4. Samples(b, r) <=> ReachesAt(queue, r, m)
      BY <2>9, <3>2, <3>3 DEF Samples, ReachesAt, Scheduled
    <3>5. o # <<>> <=> Samples(b, r)
      <4>1. Base(b, r) \in Int  BY <1>1, <1>3, BatchFacts
      <4> QED  BY <1>3, <2>4, <4>1, SampledTokensType
    <3>6. z = Len(a.output) + Len(o) /\ Len(o) \in Nat  BY <2>2, <2>3, <3>3
    <3>7. ASSUME NEW j \in 1..m, queue[j].n[r] > 0 PROVE KnownAt(queue, results', a, r, z, j)
      <4>1. CASE j = m  BY <1>2, <3>4, <3>5, <3>6, <4>1 DEF KnownAt
      <4>2. CASE j # m
        <5>1. /\ KnownAt(queue, results, a, r, k, j) /\ results'[j] = results[j]
              /\ j \in 1..Len(results) /\ j \in 0..L /\ j <= m - 1
          BY <2>7, <3>7, <4>2
        <5>2. ~(DeliveredAt(queue, a, r, j) /\ ReachesAt(queue, r, j))
          <6>1. Flight(queue, r, j) # Flight(queue, r, L)
            <7>1. /\ Flight(queue, r, m) = Flight(queue, r, m - 1) + b.n[r]
                  /\ Flight(queue, r, j) <= Flight(queue, r, m - 1)
                  /\ Flight(queue, r, m) <= Flight(queue, r, L)
                  /\ Flight(queue, r, j) \in Nat /\ Flight(queue, r, m - 1) \in Nat
                  /\ Flight(queue, r, L) \in Nat
              <8> HIDE DEF m, L
              <8>1. m <= L  BY <1>1
              <8> QED  BY <1>3, <5>1, <8>1, FlightFacts DEF L
            <7> QED  BY <2>6, <2>9, <7>1
          <6>2. LinkAt(queue, a, r, j)  BY <1>3, <1>7, <3>7 DEF Chained, ChainOf
          <6> QED  BY <6>1, <6>2 DEF LinkAt
        <5>3. DeliveredAt(queue, a, r, j) => results[j][r] = <<>>
          BY <5>1, <5>2 DEF KnownAt
        <5>4. DeliveredAt(queue, a, r, j) => z >= Len(a.output) + Len(results'[j][r])
          BY <2>2, <3>6, <5>1, <5>3
        <5> QED  BY <5>1, <5>4 DEF KnownAt
      <4> QED  BY <4>1, <4>2
    <3>8. z >= Len(a.output)  BY <2>2, <3>6
    <3> QED  BY <1>2, <3>7, <3>8 DEF KnownOf
  <2> QED  BY <2>8, <2>9
<1> QED  BY <1>6, <1>7

---------------------------------------------------------------------------
(* Progress in every step *)

LEMMA QuietAdvances ==
  ASSUME TypedOver(Int), Shape, Books, Progress, Still, NEW r \in Requests, QuietStep(r)
  PROVE  /\ Advances(r)
         /\ plan'.n[r] > 0 =>
              Fits(req'[r].computed, plan'.n[r], plan'.spec[r], TokensOf(req'[r], r))
<1> DEFINE a == req[r]  z == req'[r]  k == Len(history[LastRank][r])
<1>1. /\ queue' = queue /\ results' = results /\ history'[LastRank] = history[LastRank]
      /\ \A j \in 1..Len(results) : j \in 1..Len(queue)
  BY ResultsFacts DEF Still
<1>2. /\ plan.n[r] > 0 => Fits(req[r].computed, plan.n[r], plan.spec[r], NumTokens(r))
      /\ Paced(req[r], plan.n[r], r) /\ ComputedNat
      /\ ChainOf(queue, a, r) /\ KnownOf(queue, results, a, r, k)
      /\ InOrder(r, a.output) /\ CountersAgree(queue, a, r)
  BY DEF Progress, PlanFits, InPace, Chained, KnownByLast, OutputInOrder, Books, Accounted
<1>3. /\ plan'.n[r] > 0 =>
           Fits(req'[r].computed, plan'.n[r], plan'.spec[r], TokensOf(req'[r], r))
      /\ Paced(z, plan'.n[r], r) /\ z.computed \in Nat
  BY <1>2, QuietProgress
<1>4. InOrder(r, z.output)
  <2>1. z.output = a.output \/ z.output = <<>>
    BY DEF QuietStep, Untouched, Added, Aborted, Evicted, GivenTokens, TakenIn, SameProgress,
           NewRequest
  <2>2. InOrder(r, <<>>)  BY DEF InOrder
  <2> QED  BY <1>2, <2>1, <2>2
<1>5. k \in Nat
  <2>1. history[LastRank][r] \in Seq(TokenOver(Int))
    BY RanksFacts, EngineFacts DEF TypedOver, Numbers
  <2> QED  BY <2>1
<1>6. ChainOf(queue, z, r) /\ KnownOf(queue, results, z, r, k)
  <2>1. CASE LiveState(z)
    <3>1. \/ Continues(queue, a, z, r)
          \/ NoneInFlight(queue, r) /\ Len(z.output) = 0
      BY <1>2, <2>1, QuietContinues
    <3> HIDE DEF a, z, k
    <3>2. CASE Continues(queue, a, z, r)  BY <1>1, <1>2, <3>2, ContinuesFacts
    <3>3. CASE NoneInFlight(queue, r) /\ Len(z.output) = 0
      <4>1. k >= Len(z.output)  BY <1>5, <3>3
      <4> QED  BY <1>1, <3>3, <4>1, NoneInFlightFacts
    <3> QED  BY <3>1, <3>2, <3>3
  <2>2. CASE ~LiveState(z)  BY <2>2 DEF ChainOf, KnownOf
  <2> QED  BY <2>1, <2>2
<1> QED  BY <1>1, <1>3, <1>4, <1>6 DEF Advances

\* A request only the drafts of which change.
LEMMA SameAdvances ==
  ASSUME TypedOver(Int), Shape, Progress, NEW r \in Requests,
         queue' = queue, results' = results, plan' = plan, history' = history,
         req'[r].status = req[r].status, SameProgress(r)
  PROVE  Advances(r)
<1> DEFINE a == req[r]  z == req'[r]  k == Len(history[LastRank][r])
<1>1. /\ z.status = a.status /\ z.output = a.output /\ z.computed = a.computed
      /\ z.inFlight = a.inFlight /\ z.stale = a.stale /\ z.dropStale = a.dropStale
      /\ z.chunk = a.chunk
  BY DEF SameProgress
<1>2. /\ ChainOf(queue, a, r) /\ KnownOf(queue, results, a, r, k) /\ Paced(a, plan.n[r], r)
      /\ InOrder(r, a.output) /\ a.computed \in Nat
  BY DEF Progress, InPace, Chained, KnownByLast, OutputInOrder, ComputedNat
<1> HIDE DEF a, z, k
<1>3. LiveState(z) <=> LiveState(a)  BY <1>1 DEF LiveState
<1>4. CASE LiveState(a)
  <2>1. Continues(queue, a, z, r)  BY <1>1, <1>4 DEF Continues, FreshAt, DeliveredAt
  <2>2. ChainOf(queue, z, r) /\ KnownOf(queue, results, z, r, k)
    BY <1>2, <2>1, ContinuesFacts, ResultsFacts
  <2>3. Paced(z, plan.n[r], r)  BY <1>1, <1>2 DEF Paced, TokensOf
  <2> QED  BY <1>1, <1>2, <2>2, <2>3 DEF Advances, z, k
<1>5. CASE ~LiveState(a)
  <2>1. ~LiveState(z) /\ z.status # "running"  BY <1>3, <1>5 DEF LiveState
  <2> QED  BY <1>1, <1>2, <2>1 DEF Advances, ChainOf, KnownOf, Paced, z
<1> QED  BY <1>4, <1>5

LEMMA AdvancesAll ==
  ASSUME \A r \in Requests : Advances(r)
  PROVE  Chained' /\ KnownByLast' /\ InPace' /\ ComputedNat' /\ OutputInOrder'
BY DEF Advances, Chained, KnownByLast, InPace, ComputedNat, OutputInOrder

LEMMA ProgressStep ==
  ASSUME TypedOver(Int), Shape, Books, Progress, [Next]_vars
  PROVE  Progress'
<1>1. CASE Still /\ \A r \in Requests : QuietStep(r)
  <2>1. /\ \A r \in Requests : Advances(r)
        /\ \A r \in Requests : plan'.n[r] > 0 =>
             Fits(req'[r].computed, plan'.n[r], plan'.spec[r], TokensOf(req'[r], r))
    BY <1>1, QuietAdvances
  <2>2. PlanFits'  BY <2>1 DEF PlanFits, TokensOf, NumTokens
  <2>3. BatchesFit'  BY <1>1 DEF Still, Progress, BatchesFit
  <2> QED  BY <2>1, <2>2, <2>3, AdvancesAll DEF Progress
<1>2. CASE IssueBatch
  <2>1. Accounted  BY DEF Books
  <2>2. BatchesFit' /\ Chained' /\ KnownByLast' /\ InPace' /\ ComputedNat' /\ PlanFits'
    BY <1>2, <2>1, IssueFits, IssueChained, IssueKnown, IssueInPace DEF Progress
  <2>3. \A r \in Requests : req'[r].output = req[r].output
    BY <1>2, IssueBatchFacts DEF TypedOver, Numbers
  <2>4. OutputInOrder'  BY <2>3 DEF Progress, OutputInOrder
  <2> QED  BY <2>2, <2>4 DEF Progress
<1>3. CASE SampleBatch
  <2>1. KnownByLast'  BY <1>3, SampleKnown DEF Progress
  <2>2. queue' = queue /\ req' = req /\ plan' = plan
    BY <1>3 DEF SampleBatch, scheduler, engine
  <2>3. BatchesFit' /\ PlanFits' /\ Chained' /\ InPace' /\ ComputedNat' /\ OutputInOrder'
    BY <2>2 DEF Progress, BatchesFit, PlanFits, Chained, InPace, ComputedNat, OutputInOrder,
                NumTokens
  <2> QED  BY <2>1, <2>3 DEF Progress
<1>4. CASE UpdateFromOutput  BY <1>4, UpdateProgress, AdvancesAll DEF Progress
<1>5. CASE PostStep
  <2>1. /\ UNCHANGED <<plan, queue, ranks>>
        /\ \A r \in Requests : req'[r].status = req[r].status /\ SameProgress(r)
    BY <1>5, PostStepFacts DEF TypedOver, Numbers, SameProgress
  <2>2. queue' = queue /\ results' = results /\ plan' = plan /\ history' = history
    BY <2>1 DEF ranks
  <2>3. \A r \in Requests : Advances(r)  BY <2>1, <2>2, SameAdvances
  <2>4. BatchesFit' /\ PlanFits'
    BY <2>1, <2>2 DEF Progress, BatchesFit, PlanFits, NumTokens, SameProgress
  <2> QED  BY <2>3, <2>4, AdvancesAll DEF Progress
<1> QED  BY <1>1, <1>2, <1>3, <1>4, <1>5, Steps

LEMMA ProgressInit ==
  ASSUME Init
  PROVE  Progress
<1>1. /\ queue = <<>> /\ results = <<>> /\ plan = EmptyPlan
      /\ \A r \in Requests : /\ req[r].status = "new" /\ req[r].computed = 0
                             /\ req[r].output = <<>> /\ plan.n[r] = 0
  BY EmptyPlanFacts DEF Init, NewRequest
<1>2. BatchesFit  BY <1>1 DEF BatchesFit
<1>3. PlanFits /\ ComputedNat /\ OutputInOrder
  BY <1>1 DEF PlanFits, ComputedNat, OutputInOrder, InOrder
<1>4. Chained /\ KnownByLast /\ InPace
  BY <1>1 DEF Chained, ChainOf, KnownByLast, KnownOf, InPace, Paced, LiveState
<1> QED  BY <1>2, <1>3, <1>4 DEF Progress

---------------------------------------------------------------------------
(* No counter is negative *)

LEMMA BaseIsNat ==
  ASSUME NEW b \in BatchOver(Nat), NEW r \in Requests, BatchFits(b, r)
  PROVE  Base(b, r) \in Nat
<1>1. /\ b.n[r] \in Nat /\ b.computed[r] \in Nat /\ b.spec[r].len \in Nat
      /\ Base(b, r) = b.computed[r] + b.n[r] - b.spec[r].len
  BY BatchFacts DEF Numbers
<1>2. CASE b.n[r] > 0
  <2>1. b.spec[r].len < b.n[r]  BY <1>2 DEF BatchFits, Fits
  <2> QED  BY <1>1, <2>1
<1>3. CASE ~(b.n[r] > 0)
  <2>1. b.spec[r].len = 0  BY <1>3 DEF BatchFits, NoDraft
  <2> QED  BY <1>1, <2>1
<1> QED  BY <1>2, <1>3

LEMMA OldestIsNat ==
  ASSUME TypedOver(Int), Shape, Books, Progress, UpdateFromOutput
  PROVE  OldestIn(Nat)
<1> SUFFICES ASSUME NEW r \in Requests, Updated(r)
             PROVE  CountersIn(Nat, Oldest, r, OldestOutput(r))
  BY DEF OldestIn
<1> DEFINE a == req[r]  L == Len(queue)  n == Oldest.n[r]
<1>1. /\ L \in Nat /\ 1 \in 1..L /\ Flight(queue, r, 0) = 0 /\ Flight(queue, r, 1) = n
      /\ n \in Nat /\ Flight(queue, r, L) \in Nat /\ queue \in Seq(BatchOver(Int))
  BY OldestFacts
<1>2. a.status # "finished"  BY DEF Updated, Live
<1>3. PICK i \in 0..L : a.stale = Flight(queue, r, i)
  BY <1>2 DEF Books, Accounted, CountersAgree
<1>4. a.inFlight = Flight(queue, r, L)  BY <1>2 DEF Books, Accounted, CountersAgree
<1>5. ASSUME NEW m \in 0..L, m > 0 PROVE Flight(queue, r, m) - n \in Nat
  <2>1. 1 \in 0..L /\ 1 <= m  BY <1>1, <1>5
  <2>2. Flight(queue, r, 1) <= Flight(queue, r, m) /\ Flight(queue, r, m) \in Nat
    BY <1>1, <2>1, FlightFacts
  <2> QED  BY <1>1, <2>2
<1>6. a.inFlight - n \in Nat
  <2>1. L \in 0..L /\ L > 0  BY <1>1
  <2> QED  BY <1>4, <1>5, <2>1
<1>7. StaleLeft(Oldest, r) \in Nat
  <2>1. CASE i > 0
    <3>1. a.stale - n \in Nat  BY <1>3, <1>5, <2>1
    <3> QED  BY <3>1 DEF StaleLeft
  <2>2. CASE ~(i > 0)
    <3>1. a.stale = 0  BY <1>1, <1>3, <2>2
    <3> QED  BY <3>1 DEF StaleLeft
  <2> QED  BY <2>1, <2>2
<1>8. ComputedAfter(Oldest, r, OldestOutput(r)) \in Nat
  <2>1. req'[r].computed = ComputedAfter(Oldest, r, OldestOutput(r))
    BY UpdateFromOutputShape DEF Processed
  <2>2. Advances(r)  BY UpdateProgress DEF Progress
  <2> QED  BY <2>1, <2>2 DEF Advances
<1> QED  BY <1>6, <1>7, <1>8 DEF CountersIn

LEMMA NatStep ==
  ASSUME TypedOver(Int), Shape, Books, Progress, TypedOver(Nat), [Next]_vars
  PROVE  TypedOver(Nat)'
<1>1. Numbers(Nat) /\ Order /\ Queued /\ Planned  BY DEF Numbers, Shape
<1>2. ASSUME NEW r \in Requests, AddRequest(r) PROVE TypedOver(Nat)'
  BY <1>1, <1>2, AddRequestTyped
<1>3. ASSUME NEW r \in Requests, Abort(r) PROVE TypedOver(Nat)'
  BY <1>1, <1>3, AbortTyped
<1>4. CASE ResetRunning  BY <1>1, <1>4, ResetRunningTyped
<1>5. CASE BeginSchedule  BY <1>1, <1>5, BeginScheduleTyped
<1>6. CASE PassRunning  BY <1>1, <1>6, PassRunningTyped
<1>7. CASE ScheduleRunning  BY <1>1, <1>7, ScheduleRunningTyped
<1>8. CASE PassWaiting  BY <1>1, <1>8, PassWaitingFacts
<1>9. CASE AdmitWaiting  BY <1>1, <1>9, AdmitWaitingTyped
<1>10. CASE RefuseWaiting  BY <1>1, <1>10, RefuseWaitingTyped
<1>11. CASE IssueBatch  BY <1>1, <1>11, IssueBatchTyped
<1>12. CASE DrainQueue  BY <1>1, <1>12, DrainQueueTyped
<1>13. CASE UpdateFromOutput  BY <1>1, <1>13, OldestIsNat, UpdateFromOutputFacts
<1>14. CASE PostStep  BY <1>1, <1>14, PostStepFacts
<1>15. ASSUME NEW k \in Ranks, ExecuteBatch(k) PROVE TypedOver(Nat)'
  BY <1>1, <1>15, ExecuteBatchFacts
<1>16. CASE SampleBatch
  <2> DEFINE b == NextBatch(LastRank)
  <2>1. /\ b = queue[Len(results) + 1] /\ Len(results) + 1 <= Len(queue)
        /\ Len(results) \in Nat /\ Len(queue) \in Nat
    BY <1>16, SampleBatchShape, ResultsFacts, QueueFacts
  <2>2. Len(results) + 1 \in 1..Len(queue)  BY <2>1
  <2>3. b \in BatchOver(Nat)  BY <2>1, <2>2 DEF TypedOver, RanksOver
  <2>4. \A r \in Requests : BatchFits(b, r)  BY <2>1, <2>2 DEF Progress, BatchesFit
  <2>5. BaseIn(Nat, b)  BY <2>3, <2>4, BaseIsNat DEF BaseIn
  <2> QED  BY <1>1, <1>16, <2>5, SampleBatchFacts
<1>17. CASE UNCHANGED vars  BY <1>17 DEF TypedOver, SchedulerOver, RanksOver, vars
<1> QED
  BY <1>2, <1>3, <1>4, <1>5, <1>6, <1>7, <1>8, <1>9, <1>10, <1>11, <1>12, <1>13, <1>14, <1>15,
     <1>16, <1>17
  DEF Next, EngineStep, ScheduleStep, Idle

LEMMA TypesAsStated ==
  ASSUME TypedOver(Nat), Shape, Books
  PROVE  TypeOK
<1>1. /\ SchedulerOver(Nat) /\ RanksOver(Nat) /\ Order /\ Numbers(Nat)
      /\ \A r \in Requests : req[r] \in RequestOver(Nat)
  BY DEF TypedOver, Shape, Numbers, SchedulerOver
<1>2. DraftOver(Nat) = Draft /\ TokenOver(Nat) = Token
  BY DEF DraftOver, TokenOver, Draft, Token
<1>3. BatchOver(Nat) = BatchType  BY <1>2 DEF BatchOver, BatchType
<1>4. \A r \in Requests : req[r].blocks \in 0..NumBlocks
  <2> SUFFICES ASSUME NEW r \in Requests PROVE req[r].blocks \in 0..NumBlocks
    OBVIOUS
  <2>1. \A q \in Requests : req[q].blocks \in Nat  BY <1>1, RequestFacts
  <2>2. /\ PoolUse(req) \in Nat /\ NatOn(BlocksOf(req), Requests) /\ IsFiniteSet(Requests)
        /\ PoolUse(req) <= NumBlocks /\ NumBlocks \in Nat
    BY <2>1, PoolUseFacts, EngineFacts DEF Books, NatOn, BlocksOf
  <2>3. req[r].blocks <= PoolUse(req)
    <3> DEFINE f == BlocksOf(req)  R == Requests \ {r}
    <3>1. f[r] = req[r].blocks /\ IntOn(f, Requests) /\ NatOn(f, R)
      BY <2>1, PoolUseFacts, <2>2 DEF BlocksOf, NatOn
    <3>2. IsFiniteSet(R) /\ R = Requests \ {r}  BY <2>2, FS_RemoveElement
    <3> HIDE DEF f, R
    <3>3. Total(f, Requests) = f[r] + Total(f, R)  BY <2>2, <3>1, <3>2, TotalRemove
    <3>4. Total(f, R) \in Nat  BY <3>1, <3>2, TotalNat
    <3>5. PoolUse(req) = req[r].blocks + Total(f, R)  BY <3>1, <3>3 DEF PoolUse, f
    <3> QED  BY <2>1, <3>4, <3>5
  <2> QED  BY <2>1, <2>2, <2>3
<1>5. \A r \in Requests : req[r] \in RequestState
  <2> SUFFICES ASSUME NEW r \in Requests PROVE req[r] \in RequestState
    OBVIOUS
  <2>1. req[r] \in RequestOver(Nat) /\ req[r].blocks \in 0..NumBlocks  BY <1>1, <1>4
  <2> QED  BY <1>2, <2>1 DEF RequestOver, RequestState
<1>6. req \in [Requests -> RequestState]  BY <1>1, <1>5 DEF SchedulerOver
<1>7. /\ plan.idx \in Nat /\ plan.budget \in 0..TokenBudget
      /\ plan.n \in [Requests -> 0..TokenBudget] /\ plan.spec \in [Requests -> Draft]
      /\ plan.new \subseteq Requests /\ plan.resumed \subseteq Requests
      /\ plan.passed \in Seq(Requests)
      /\ {plan.prefill, plan.preempted, plan.stop} \subseteq BOOLEAN
  <2>1. plan \in PlanOver(Nat)  BY <1>1 DEF SchedulerOver
  <2> QED  BY <1>2, <2>1 DEF PlanOver
<1>8. Len(queue) <= QueueSize /\ executed \in [Ranks -> 0..QueueSize]
  <2>1. /\ Len(queue) \in Nat /\ QueueSize \in Nat /\ executed \in [Ranks -> Nat]
        /\ \A k \in Ranks : executed[k] \in Nat /\ executed[k] <= Len(queue)
    BY <1>1, RanksFacts, EngineFacts DEF Order
  <2>2. Len(queue) <= QueueSize  BY <1>1, <2>1 DEF Order
  <2>3. \A k \in Ranks : executed[k] \in 0..QueueSize  BY <2>1, <2>2
  <2> QED  BY <2>1, <2>2, <2>3
<1>9. /\ queue \in Seq(BatchType) /\ results \in Seq([Requests -> Seq(Token)])
      /\ drafts \in [Requests -> Draft]
      /\ cached \in [Ranks -> SUBSET Requests] /\ batchReqs \in [Ranks -> SUBSET Requests]
      /\ history \in [Ranks -> [Requests -> Seq(Token)]]
      /\ row \in [Ranks -> [Requests -> Seq(Token)]]
  BY <1>1, <1>2, <1>3 DEF RanksOver
<1>10. /\ running \in Seq(Requests) /\ waiting \in Seq(Requests) /\ skipped \in Seq(Requests)
       /\ finishedIds \in SUBSET Requests /\ resets \in 0..MaxResets
       /\ pc \in {"inputs", "schedule", "collect", "post"} /\ takeDrafts \in BOOLEAN
  BY <1>1 DEF SchedulerOver
<1> QED  BY <1>6, <1>7, <1>8, <1>9, <1>10 DEF TypeOK

---------------------------------------------------------------------------
(* Drafts in the steps of the scheduler *)

LEMMA NoDraftFollows ==
  ASSUME NEW q, NEW s, NEW a, NEW r, NEW n, a.spec = NoDraft \/ ~LiveState(a)
  PROVE  DraftFollows(q, s, a, r, n)
BY DEF DraftFollows

LEMMA QuietDrafts ==
  ASSUME TypedOver(Int), Shape, DraftsKnown, Still, NEW r \in Requests, QuietStep(r)
  PROVE  DraftFollows(queue', results', req'[r], r, plan'.n[r])
<1> DEFINE a == req[r]  z == req'[r]
<1>1. queue' = queue /\ results' = results /\ DraftFollows(queue, results, a, r, plan.n[r])
  BY DEF Still, DraftsKnown
<1>2. CASE Untouched(r)  BY <1>1, <1>2 DEF Untouched
<1>3. CASE Added(r)
  <2>1. z.spec = NoDraft  BY <1>3 DEF Added, NewRequest
  <2> QED  BY <2>1, NoDraftFollows
<1>4. CASE Aborted(r)
  <2>1. ~LiveState(z)  BY <1>4 DEF Aborted, LiveState
  <2> QED  BY <2>1, NoDraftFollows
<1>5. CASE Evicted(r) \/ GivenTokens(r)
  <2>1. z.spec = NoDraft  BY <1>5 DEF Evicted, GivenTokens
  <2> QED  BY <2>1, NoDraftFollows
<1>6. CASE TakenIn(r)
  <2>1. a.status \in {"waiting", "preempted"} /\ z.spec = a.spec  BY <1>6 DEF TakenIn
  <2>2. a.spec = NoDraft  BY <1>1, <2>1 DEF DraftFollows, LiveState
  <2> QED  BY <2>1, <2>2, NoDraftFollows
<1> QED  BY <1>2, <1>3, <1>4, <1>5, <1>6 DEF QuietStep

\* Drafts that are scheduled follow the request's last token: it waits for no sample.
LEMMA GivenFollow ==
  ASSUME TypedOver(Int), Shape, Progress, DraftsKnown, NEW r \in Requests, GivenTokens(r),
         req[r].spec.after # 0
  PROVE  req[r].spec.after = NumTokens(r)
<1> DEFINE a == req[r]  L == Len(queue)  t == NumTokens(r)
<1>1. queue \in Seq(BatchOver(Int)) /\ L \in Nat /\ Numbers(Int) /\ SchedulerOver(Int)
  BY QueueFacts DEF TypedOver
<1>2. a.status = "running" /\ LiveState(a) /\ a.computed < t /\ plan.n[r] = 0
  BY DEF GivenTokens, LiveState
<1>3. a.spec # NoDraft /\ TokensOf(a, r) = t  BY DEF NoDraft, TokensOf, NumTokens
<1>4. /\ \/ a.inFlight = a.stale /\ a.spec.after = TokensOf(a, r)
         \/ \E j \in 1..Len(results) : SampledAhead(queue, results, a, r, j)
  BY <1>2, <1>3 DEF DraftsKnown, DraftFollows
<1>5. ASSUME NEW j \in 1..Len(results), SampledAhead(queue, results, a, r, j)
      PROVE  FALSE
  <2> DEFINE c == queue[j].computed[r]  n == queue[j].n[r]  g == Flight(queue, r, L)
             e == Flight(queue, r, j - 1)
  <2>1. FreshAt(queue, a, r, j) /\ results[j][r] # <<>> /\ n > 0
    BY <1>5 DEF SampledAhead, FreshAt
  <2>2. j \in 1..L /\ queue[j] \in BatchOver(Int)  BY ResultsFacts
  <2>3. LinkAt(queue, a, r, j)  BY <1>2, <2>1, <2>2 DEF Progress, Chained, ChainOf
  <2>4. KnownAt(queue, results, a, r, Len(history[LastRank][r]), j)
    BY <1>2, <2>1 DEF Progress, KnownByLast, KnownOf
  <2>5. ReachesAt(queue, r, j) /\ DeliveredAt(queue, a, r, j)
    BY <2>1, <2>4 DEF KnownAt, DeliveredAt
  <2>6. /\ c + g - e = a.computed /\ Flight(queue, r, j) = g
        /\ t = PromptLen[r] + queue[j].numOutput[r]
    BY <2>1, <2>3, <2>5 DEF LinkAt, NumTokens
  <2>7. c + n >= t  BY <2>5, <2>6 DEF ReachesAt
  <2>8. /\ Flight(queue, r, j) = e + n /\ e \in Nat /\ n \in Nat /\ c \in Int
        /\ a.computed \in Int /\ t \in Nat
    <3>1. j \in 1..L /\ j - 1 \in 0..L  BY <1>1, <2>2
    <3>2. Flight(queue, r, j) = e + n /\ e \in Nat /\ n \in Nat
      BY <1>1, <3>1, FlightFacts
    <3>3. c \in Int  BY <1>1, <2>2, BatchFacts
    <3>4. a.computed \in Int /\ t \in Nat  BY <1>1, RequestFacts
    <3> QED  BY <3>2, <3>3, <3>4
  <2> HIDE DEF a, L, t, c, n, g, e
  <2>9. c + (e + n) - e = c + n  BY <2>8
  <2> QED  BY <1>2, <2>6, <2>7, <2>8, <2>9
<1> QED  BY <1>3, <1>4, <1>5

LEMMA QuietPlanFollows ==
  ASSUME TypedOver(Int), Shape, Shape', Progress, DraftsKnown, PlanFollows,
         NEW r \in Requests, QuietStep(r)
  PROVE  FollowsOn(plan'.spec[r], req'[r].computed, plan'.n[r])
<1> DEFINE a == req[r]  z == req'[r]
<1>1. plan'.n[r] = 0 => plan'.spec[r].after = 0  BY DEF Shape, Planned, NoDraft
<1>2. CASE plan'.n[r] = 0  BY <1>1, <1>2 DEF FollowsOn
<1>3. CASE Untouched(r)  BY <1>3 DEF Untouched, PlanFollows
<1>4. CASE GivenTokens(r)
  <2> DEFINE n == plan'.n[r]  c == a.computed  t == NumTokens(r)  d == ScheduledDrafts(r, n)
             x == n + c - t
  <2>1. /\ z.computed = c /\ n \in Nat /\ n + c <= t + a.spec.len /\ plan'.spec[r] = d
        /\ n \in Int
    BY <1>4 DEF GivenTokens, SameProgress
  <2>2. c \in Int /\ t \in Nat /\ a.spec.after \in Int
    <3>1. SchedulerOver(Int) /\ Numbers(Int)  BY DEF TypedOver, Numbers
    <3>2. a.spec \in DraftOver(Int)  BY <3>1, RequestFacts
    <3> QED  BY <3>1, <3>2, RequestFacts DEF DraftOver
  <2>3. /\ x > 0 => d = [after |-> a.spec.after, len |-> x]
        /\ x <= 0 => d = NoDraft
    <3> HIDE DEF d
    <3>1. LET D == ScheduledDrafts(r, n)
          IN  /\ n + c - t > 0 => D = [after |-> a.spec.after, len |-> n + c - t]
              /\ n + c - t <= 0 => D = NoDraft
      <4> HIDE DEF n
      <4>1. SchedulerOver(Int) /\ Numbers(Int)  BY DEF TypedOver, Numbers
      <4> QED  BY <2>1, <4>1, ScheduledDraftsFacts
    <3> QED  BY <3>1 DEF d
  <2>4. a.spec.after # 0 => a.spec.after = t  BY <1>4, GivenFollow
  <2>5. CASE x > 0
    <3>1. d.after = a.spec.after /\ d.len = x  BY <2>3, <2>5
    <3> HIDE DEF d, a
    <3>2. d.after # 0 => d.after = c + n - d.len  BY <2>1, <2>2, <2>4, <3>1
    <3> QED  BY <2>1, <3>2 DEF FollowsOn
  <2>6. CASE ~(x > 0)
    <3>1. x <= 0  BY <2>1, <2>2, <2>6
    <3>2. d.after = 0  BY <2>3, <3>1 DEF NoDraft
    <3> QED  BY <2>1, <3>2 DEF FollowsOn
  <2> QED  BY <2>5, <2>6
<1>5. CASE TakenIn(r)  BY <1>5 DEF TakenIn, Padding, NoDraft, FollowsOn
<1> QED  BY <1>2, <1>3, <1>4, <1>5 DEF QuietStep, Added, Aborted, Evicted

---------------------------------------------------------------------------
(* Drafts when a batch is issued or sampled *)

LEMMA IssueDrafts ==
  ASSUME TypedOver(Int), Shape, DraftsKnown, IssueBatch
  PROVE  DraftsKnown'
<1> SUFFICES ASSUME NEW r \in Requests
             PROVE  DraftFollows(queue', results', req'[r], r, plan'.n[r])
  BY DEF DraftsKnown
<1> DEFINE a == req[r]  z == req'[r]  L == Len(queue)
<1>1. queue \in Seq(BatchOver(Int)) /\ L \in Nat /\ Numbers(Int) /\ SchedulerOver(Int)
  BY QueueFacts DEF TypedOver
<1>2. /\ queue' = Append(queue, Batch) /\ Batch \in BatchOver(Int)
      /\ (plan.n[r] = 0 => z = a) /\ z.spec = a.spec /\ z.status = a.status
  BY <1>1, IssueBatchFacts
<1>3. /\ queue' \in Seq(BatchOver(Int)) /\ Len(queue') = L + 1
      /\ \A j \in 1..L : queue'[j] = queue[j]
  BY <1>1, <1>2, AppendFacts
<1>4. results' = results  BY DEF IssueBatch, ranks
<1>5. \A i \in 0..L : Flight(queue', r, i) = Flight(queue, r, i)
  BY <1>1, <1>3, FlightGrows
<1>6. DraftFollows(queue, results, a, r, plan.n[r])  BY DEF DraftsKnown
<1>7. plan'.n[r] = 0  BY IssueBatchShape, EmptyPlanFacts
<1>8. CASE a.spec = NoDraft \/ ~LiveState(a)
  <2>1. z.spec = NoDraft \/ ~LiveState(z)  BY <1>2, <1>8 DEF LiveState
  <2> QED  BY <2>1, NoDraftFollows
<1>9. CASE a.spec # NoDraft /\ LiveState(a)
  <2>1. z = a /\ a.status = "running"  BY <1>2, <1>6, <1>9 DEF DraftFollows
  <2>2. ASSUME NEW j \in 1..Len(results), SampledAhead(queue, results, a, r, j)
        PROVE  SampledAhead(queue', results, z, r, j)
    <3>1. j \in 1..L /\ j \in 0..L  BY <1>1, ResultsFacts
    <3>2. FreshAt(queue', z, r, j)
      BY <1>3, <1>5, <2>1, <2>2, <3>1 DEF SampledAhead, FreshAt
    <3> QED  BY <2>1, <2>2, <3>2 DEF SampledAhead
  <2> QED  BY <1>4, <1>6, <1>7, <1>9, <2>1, <2>2 DEF DraftFollows
<1> QED  BY <1>8, <1>9

LEMMA IssueFollows ==
  ASSUME TypedOver(Int), Shape, PlanFollows, DraftsFollowHistory, IssueBatch
  PROVE  DraftsFollowHistory' /\ PlanFollows'
<1> DEFINE L == Len(queue)
<1>1. queue \in Seq(BatchOver(Int)) /\ L \in Nat /\ Numbers(Int) /\ SchedulerOver(Int)
  BY QueueFacts DEF TypedOver
<1>2. queue' = Append(queue, Batch) /\ Batch \in BatchOver(Int)
  BY <1>1, IssueBatchFacts
<1>3. Len(queue') = L + 1 /\ queue'[L + 1] = Batch /\ \A j \in 1..L : queue'[j] = queue[j]
  BY <1>1, <1>2, AppendFacts
<1>4. ASSUME NEW i \in 1..(L + 1), NEW r \in Requests, queue'[i].spec[r].after # 0
      PROVE  queue'[i].spec[r].after = Base(queue'[i], r)
  <2>1. CASE i = L + 1
    <3>1. Batch.spec[r].after = req[r].computed + plan.n[r] - plan.spec[r].len
      BY <1>3, <1>4, <2>1 DEF PlanFollows, FollowsOn, Batch
    <3>2. Base(Batch, r) = req[r].computed + plan.n[r] - plan.spec[r].len
      BY DEF Base, Batch
    <3> QED  BY <1>3, <2>1, <3>1, <3>2
  <2>2. CASE i # L + 1
    <3>1. i \in 1..L  BY <1>1, <2>2
    <3> QED  BY <1>3, <1>4, <3>1 DEF DraftsFollowHistory
  <2> QED  BY <2>1, <2>2
<1>5. \A r \in Requests : plan'.spec[r] = NoDraft  BY IssueBatchShape DEF EmptyPlan
<1> QED  BY <1>3, <1>4, <1>5 DEF DraftsFollowHistory, PlanFollows, FollowsOn, NoDraft

LEMMA IssueOfLast ==
  ASSUME TypedOver(Int), Shape, DraftsOfLast, IssueBatch
  PROVE  DraftsOfLast'
<1> DEFINE e == Len(results)
<1>1. queue \in Seq(BatchOver(Int)) /\ Len(queue) \in Nat /\ Numbers(Int) /\ SchedulerOver(Int)
  BY QueueFacts DEF TypedOver
<1>2. queue' = Append(queue, Batch) /\ Batch \in BatchOver(Int)
  BY <1>1, IssueBatchFacts
<1>3. \A j \in 1..Len(queue) : queue'[j] = queue[j]  BY <1>1, <1>2, AppendFacts
<1>4. results' = results /\ batchReqs' = batchReqs /\ drafts' = drafts
  BY DEF IssueBatch, ranks
<1>5. CASE e > 0
  <2>1. e \in 1..Len(results)  BY <1>5, ResultsFacts
  <2>2. e \in 1..Len(queue)  BY <2>1, ResultsFacts
  <2>3. queue'[e] = queue[e]  BY <1>3, <2>2
  <2> QED  BY <1>4, <2>3 DEF DraftsOfLast
<1>6. CASE ~(e > 0)  BY <1>4, <1>6 DEF DraftsOfLast
<1> QED  BY <1>5, <1>6

LEMMA IssueWanted ==
  ASSUME TypedOver(Int), Shape, Accounted, IssueBatch
  PROVE  DraftsWanted'
<1> SUFFICES ASSUME takeDrafts'
             PROVE  /\ pc' \in {"collect", "post"}
                    /\ Len(queue') >= (IF pc' = "collect" THEN 2 ELSE 1)
                    /\ \A r \in Requests :
                         Live(r)' /\ queue'[Len(queue')].n[r] > 0
                           => FreshAt(queue', req'[r], r, Len(queue'))
  BY DEF DraftsWanted
<1> DEFINE L == Len(queue)
<1>1. /\ queue \in Seq(BatchOver(Int)) /\ L \in Nat /\ Numbers(Int) /\ SchedulerOver(Int)
      /\ QueueSize \in Nat /\ QueueSize > 1
  BY QueueFacts, EngineFacts DEF TypedOver
<1>2. queue' = Append(queue, Batch) /\ Batch \in BatchOver(Int)
  BY <1>1, IssueBatchFacts
<1>3. /\ queue' \in Seq(BatchOver(Int)) /\ Len(queue') = L + 1 /\ queue'[L + 1] = Batch
      /\ \A j \in 1..L : queue'[j] = queue[j]
  BY <1>1, <1>2, AppendFacts
<1>4. Scheduled(plan) # {}  BY DEF IssueBatch
<1>5. pc' = IF L + 1 < QueueSize THEN "post" ELSE "collect"  BY <1>4 DEF IssueBatch
<1>6. pc' \in {"collect", "post"} /\ Len(queue') >= (IF pc' = "collect" THEN 2 ELSE 1)
  BY <1>1, <1>3, <1>5
<1>7. ASSUME NEW r \in Requests, queue'[L + 1].n[r] > 0
      PROVE  FreshAt(queue', req'[r], r, L + 1)
  <2> DEFINE a == req[r]  z == req'[r]  p == plan.n[r]  g == Flight(queue, r, L)
  <2>1. p \in Nat /\ p > 0 /\ z.stale = a.stale /\ Batch.n[r] = p
    BY <1>1, <1>3, <1>7, IssueBatchFacts DEF Batch
  <2>2. a.status = "running"  BY <2>1, PlannedRun
  <2>3. CountersAgree(queue, a, r)  BY DEF Accounted
  <2>4. PICK i \in 0..L : a.stale = Flight(queue, r, i)  BY <2>2, <2>3 DEF CountersAgree
  <2>5. i <= L /\ L \in 0..L  BY <1>1
  <2>6. Flight(queue, r, i) \in Nat /\ g \in Nat /\ Flight(queue, r, i) <= g
    BY <1>1, <2>5, FlightFacts
  <2>7. Flight(queue', r, L + 1) = g + p  BY <1>1, <1>3, <2>1, FlightGrows
  <2> HIDE DEF a, z, p, g
  <2>8. g + p > z.stale  BY <2>1, <2>4, <2>6
  <2> QED  BY <1>7, <2>7, <2>8 DEF FreshAt, z
<1> QED  BY <1>3, <1>6, <1>7

LEMMA SampleDrafts ==
  ASSUME TypedOver(Int), Shape, Drafting, SampleBatch
  PROVE  Drafting'
<1> DEFINE m == Len(results) + 1  b == queue[m]
<1>1. /\ UNCHANGED <<scheduler, engine>> /\ NextBatch(LastRank) = b
      /\ batchReqs'[LastRank] = Scheduled(b)
  BY SampleBatchShape
<1>2. PICK out \in [Requests -> Seq(TokenOver(Int))] : Sampled(b, out)
  BY <1>1, SampleBatchShape
<1>3. results \in Seq([Requests -> Seq(TokenOver(Int))]) /\ Len(results) \in Nat
  BY ResultsFacts
<1>4. /\ Len(results') = m /\ results'[m] = out
      /\ \A j \in 1..Len(results) : results'[j] = results[j]
  BY <1>2, <1>3, AppendFacts DEF Sampled
<1>5. /\ queue' = queue /\ req' = req /\ plan' = plan /\ takeDrafts' = takeDrafts /\ pc' = pc
  BY <1>1 DEF scheduler, engine
<1>6. DraftsKnown'
  <2> SUFFICES ASSUME NEW r \in Requests
               PROVE  DraftFollows(queue, results', req[r], r, plan.n[r])
    BY <1>5 DEF DraftsKnown
  <2>1. DraftFollows(queue, results, req[r], r, plan.n[r])  BY DEF Drafting, DraftsKnown
  <2>2. ASSUME NEW j \in 1..Len(results), SampledAhead(queue, results, req[r], r, j)
        PROVE  j \in 1..m /\ SampledAhead(queue, results', req[r], r, j)
    <3>1. j \in 1..m  BY <1>3
    <3> QED  BY <1>4, <2>2, <3>1 DEF SampledAhead
  <2>3. (\E j \in 1..Len(results) : SampledAhead(queue, results, req[r], r, j))
          => \E j \in 1..m : SampledAhead(queue, results', req[r], r, j)
    BY <2>2
  <2> HIDE DEF m
  <2> QED  BY <1>4, <2>1, <2>3, Zenon DEF DraftFollows
<1>7. DraftsOfLast'
  <2>1. Scheduled(b) # {} => \A r \in Requests : drafts'[r] \in ProposedDrafts(b, r, out[r])
    BY <1>2 DEF Sampled
  <2> QED  BY <1>1, <1>4, <1>5, <2>1 DEF DraftsOfLast
<1>8. PlanFollows' /\ DraftsWanted' /\ DraftsFollowHistory'
  BY <1>5 DEF Drafting, PlanFollows, DraftsWanted, DraftsFollowHistory, Live
<1> QED  BY <1>6, <1>7, <1>8 DEF Drafting

---------------------------------------------------------------------------
(* Drafts when an output is taken *)

\* A batch that stays in flight is as fresh without the oldest one before it.
LEMMA StaysFresh ==
  ASSUME NEW q \in Seq(BatchOver(Int)), NEW p \in Seq(BatchOver(Int)), NEW r \in Requests,
         NEW a, NEW z, Len(p) = Len(q) - 1, \A j \in 1..Len(p) : p[j] = q[j + 1],
         a.stale \in Int, z.stale \in Int, z.stale = a.stale - q[1].n[r] \/ z.stale = 0,
         NEW j \in 1..Len(p), FreshAt(q, a, r, j + 1)
  PROVE  FreshAt(p, z, r, j)
<1> DEFINE L == Len(p)  n == q[1].n[r]  f == Flight(p, r, j)  e == Flight(p, r, j - 1)
           m == p[j].n[r]
<1>1. /\ L \in Nat /\ Len(q) = L + 1 /\ j \in 0..L /\ j - 1 \in 0..L /\ 1 \in 1..Len(q)
      /\ p[j] = q[j + 1]
  OBVIOUS
<1>2. Flight(q, r, j + 1) = n + f  BY <1>1, FlightShrinks
<1>3. n \in Nat /\ f \in Nat /\ e \in Nat /\ m \in Nat /\ f = e + m
  <2>1. n \in Nat  BY <1>1, FlightFacts
  <2>2. f \in Nat /\ e \in Nat /\ m \in Nat /\ f = e + m  BY <1>1, FlightFacts
  <2> QED  BY <2>1, <2>2
<1>4. m > 0 /\ n + f > a.stale  BY <1>1, <1>2 DEF FreshAt
<1>5. z.stale = a.stale - n \/ z.stale = 0  OBVIOUS
<1> HIDE DEF L, n, f, e, m
<1>6. f > z.stale  BY <1>3, <1>4, <1>5
<1> QED  BY <1>4, <1>6 DEF FreshAt, f, m

\* The stale share of a request before and after the oldest output is taken.
LEMMA StaleShare ==
  ASSUME TypedOver(Int), Shape, Books, UpdateFromOutput, NEW r \in Requests, LiveState(req[r])
  PROVE  /\ req[r].stale \in Nat /\ req'[r].stale \in Int
         /\ req'[r].stale = req[r].stale - Oldest.n[r] \/ req'[r].stale = 0
         /\ req[r].stale > 0 => Oldest.n[r] <= req[r].stale
<1> DEFINE a == req[r]  z == req'[r]  L == Len(queue)  n == Oldest.n[r]
<1>1. /\ queue \in Seq(BatchOver(Int)) /\ L \in Nat /\ 1 \in 1..L
      /\ Flight(queue, r, 0) = 0 /\ Flight(queue, r, 1) = n /\ n \in Nat
  BY OldestFacts
<1>2. /\ Updated(r) => Processed(z, Oldest, r, OldestOutput(r))
      /\ ~Updated(r) => z = a
      /\ TypedOver(Int)'
  BY UpdateFromOutputShape
<1>3. z.stale \in Int
  <2>1. z \in RequestOver(Int)  BY <1>2 DEF TypedOver, SchedulerOver
  <2> QED  BY <2>1 DEF RequestOver
<1>4. CountersAgree(queue, a, r) /\ a.status # "finished"
  BY DEF Books, Accounted, LiveState
<1>5. PICK i \in 0..L : a.stale = Flight(queue, r, i)  BY <1>4 DEF CountersAgree
<1>6. a.stale \in Nat  BY <1>1, <1>5, FlightFacts
<1>7. a.stale > 0 => n <= a.stale
  <2> SUFFICES ASSUME a.stale > 0 PROVE n <= a.stale
    OBVIOUS
  <2>1. i # 0  BY <1>1, <1>5
  <2>2. 1 \in 0..L /\ 1 <= i  BY <1>1, <2>1
  <2> QED  BY <1>1, <1>5, <2>2, FlightFacts
<1>8. z.stale = a.stale - n \/ z.stale = 0
  <2>1. CASE Updated(r)  BY <1>2, <2>1 DEF Processed, StaleLeft
  <2>2. CASE ~Updated(r)
    <3>1. n = 0  BY <1>1, <2>2 DEF Updated, Live, LiveState
    <3> QED  BY <1>2, <1>6, <2>2, <3>1
  <2> QED  BY <2>1, <2>2
<1> QED  BY <1>3, <1>6, <1>7, <1>8

\* A sample that is still on its way to the request.
LEMMA StaysAhead ==
  ASSUME TypedOver(Int), Shape, Books, UpdateFromOutput, NEW r \in Requests, LiveState(req[r]),
         req'[r].output = req[r].output, req'[r].spec = req[r].spec,
         NEW j \in 1..Len(results), j # 1, SampledAhead(queue, results, req[r], r, j)
  PROVE  \E i \in 1..Len(results') : SampledAhead(queue', results', req'[r], r, i)
<1> DEFINE a == req[r]  z == req'[r]  i == j - 1
<1>1. /\ queue \in Seq(BatchOver(Int)) /\ queue' \in Seq(BatchOver(Int))
      /\ Len(queue') = Len(queue) - 1
      /\ \A k \in 1..Len(queue') : queue'[k] = queue[k + 1]
      /\ \A k \in 1..Len(results') : results'[k] = results[k + 1] /\ k \in 1..Len(queue')
  BY UpdateNext, QueueFacts
<1>2. i \in 1..Len(results') /\ i + 1 = j
  <2>1. Len(results') = Len(results) - 1 /\ Len(results) \in Nat
    BY UpdateFromOutputShape, ResultsFacts
  <2> QED  BY <2>1
<1>3. /\ a.stale \in Int /\ z.stale \in Int
      /\ z.stale = a.stale - queue[1].n[r] \/ z.stale = 0
  BY StaleShare DEF Oldest
<1> HIDE DEF i
<1>4. FreshAt(queue, a, r, i + 1)  BY <1>2 DEF SampledAhead
<1>5. i \in 1..Len(queue')  BY <1>1, <1>2
<1>6. FreshAt(queue', z, r, i)
  <2> HIDE DEF a, z
  <2> QED  BY <1>1, <1>3, <1>4, <1>5, StaysFresh
<1>7. z.spec.after = TokensOf(z, r) + Len(results'[i][r]) /\ results'[i][r] # <<>>
  BY <1>1, <1>2 DEF SampledAhead, TokensOf
<1> QED  BY <1>2, <1>6, <1>7 DEF SampledAhead

LEMMA UpdateDrafts ==
  ASSUME TypedOver(Int), Shape, Books, Progress, DraftsKnown, UpdateFromOutput
  PROVE  DraftsKnown'
<1> SUFFICES ASSUME NEW r \in Requests
             PROVE  DraftFollows(queue', results', req'[r], r, plan'.n[r])
  BY DEF DraftsKnown
<1> DEFINE a == req[r]  z == req'[r]  L == Len(queue)  n == Oldest.n[r]  o == OldestOutput(r)
           t == TokensOf(a, r)
<1>1. /\ Updated(r) => Processed(z, Oldest, r, o)
      /\ ~Updated(r) => z = a
  BY UpdateFromOutputShape
<1>2. DraftFollows(queue, results, a, r, plan.n[r]) /\ plan'.n[r] = 0
  BY UpdateNext DEF DraftsKnown
<1>3. z.spec = a.spec  BY <1>1 DEF Processed
<1>4. LiveState(z) => LiveState(a)  BY <1>1 DEF Updated, Live, LiveState
<1> SUFFICES ASSUME LiveState(z), a.spec # NoDraft
             PROVE  /\ z.status = "running"
                    /\ \/ z.inFlight = z.stale /\ z.spec.after = TokensOf(z, r)
                       \/ \E i \in 1..Len(results') : SampledAhead(queue', results', z, r, i)
  BY <1>2, <1>3, NoDraftFollows DEF DraftFollows
<1>5. /\ a.status = "running"
      /\ \/ a.inFlight = a.stale /\ a.spec.after = t
         \/ \E j \in 1..Len(results) : SampledAhead(queue, results, a, r, j)
  BY <1>2, <1>4 DEF DraftFollows
<1>6. LiveState(a) /\ a.status # "finished"  BY <1>5 DEF LiveState
<1>7. /\ L \in Nat /\ 1 \in 1..L /\ Flight(queue, r, 1) = n /\ n \in Nat
      /\ queue \in Seq(BatchOver(Int))
  BY OldestFacts
<1>8. a.stale \in Nat /\ (a.stale > 0 => n <= a.stale) /\ a.inFlight \in Int
  BY <1>6, StaleShare, RequestFacts DEF TypedOver, Numbers
<1>9. a.inFlight = Flight(queue, r, L) /\ (a.stale > 0 => a.dropStale)
  BY <1>5, <1>6 DEF Books, Accounted, CountersAgree
<1>10. n <= a.inFlight
  <2>1. L \in 0..L /\ 1 \in 0..L /\ 1 <= L  BY <1>7
  <2> QED  BY <1>7, <1>9, <2>1, FlightFacts
<1>11. ASSUME z.output = a.output, z.status = a.status,
              \/ ~Updated(r) \/ Discards(r) \/ ~ReachesAt(queue, r, 1)
       PROVE  /\ z.status = "running"
              /\ \/ z.inFlight = z.stale /\ z.spec.after = TokensOf(z, r)
                 \/ \E i \in 1..Len(results') : SampledAhead(queue', results', z, r, i)
  <2>1. CASE a.inFlight = a.stale /\ a.spec.after = t
    <3>1. z.spec.after = TokensOf(z, r)  BY <1>3, <1>11, <2>1 DEF TokensOf
    <3>2. z.inFlight = z.stale
      <4>1. CASE ~Updated(r)  BY <1>1, <2>1, <4>1
      <4>2. CASE Updated(r)
        <5>1. n > 0 /\ z.inFlight = a.inFlight - n /\ z.stale = StaleLeft(Oldest, r)
          BY <1>1, <4>2 DEF Updated, Processed
        <5>2. a.stale > 0  BY <1>7, <1>8, <1>10, <2>1, <5>1
        <5> QED  BY <2>1, <5>1, <5>2 DEF StaleLeft
      <4> QED  BY <4>1, <4>2
    <3> QED  BY <1>5, <1>11, <3>1, <3>2
  <2>2. ASSUME NEW j \in 1..Len(results), SampledAhead(queue, results, a, r, j)
        PROVE  \E i \in 1..Len(results') : SampledAhead(queue', results', z, r, i)
    <3>1. j # 1
      <4> SUFFICES ASSUME j = 1 PROVE FALSE
        OBVIOUS
      <4>1. n > 0 /\ Flight(queue, r, 1) > a.stale /\ o # <<>>
        BY <2>2 DEF SampledAhead, FreshAt, Oldest, OldestOutput
      <4>2. Updated(r)  BY <1>6, <4>1 DEF Updated, Live, LiveState
      <4>3. ~Discards(r)
        <5>1. ~(a.stale > 0)  BY <1>7, <1>8, <4>1
        <5> QED  BY <5>1 DEF Discards
      <4>4. queue[1].n[r] > 0  BY <4>1 DEF Oldest
      <4>5. KnownAt(queue, results, a, r, Len(history[LastRank][r]), 1)
        BY <1>6, <4>4 DEF Progress, KnownByLast, KnownOf
      <4> QED  BY <1>11, <4>1, <4>2, <4>3, <4>5 DEF KnownAt, OldestOutput
    <3> QED  BY <1>3, <1>6, <1>11, <2>2, <3>1, StaysAhead
  <2> QED  BY <1>5, <1>11, <2>1, <2>2
<1>12. CASE ~Updated(r)  BY <1>1, <1>11, <1>12
<1>13. CASE Updated(r) /\ Discards(r)  BY <1>1, <1>11, <1>13 DEF Processed
<1>14. CASE Updated(r) /\ ~Discards(r)
  <2>1. NothingGiven(r) \/ TokensGiven(r, o)  BY <1>14, UpdatedCases DEF Progress
  <2>2. CASE NothingGiven(r)  BY <1>11, <1>14, <2>2 DEF NothingGiven
  <2>3. CASE TokensGiven(r, o)
    <3>1. a.stale = 0 /\ n > 0  BY <1>8, <1>9, <1>14 DEF Discards, Updated
    <3>2. PICK j \in 1..Len(results) : SampledAhead(queue, results, a, r, j)
      <4>1. a.inFlight # a.stale  BY <1>7, <1>8, <1>10, <3>1
      <4> QED  BY <1>5, <4>1
    <3>3. j = 1
      <4> SUFFICES ASSUME j # 1 PROVE FALSE
        OBVIOUS
      <4>1. j \in 1..L /\ queue[j].n[r] > 0
        BY <3>2, ResultsFacts DEF SampledAhead, FreshAt
      <4>2. Len(queue') = L - 1 /\ \A i \in 1..Len(queue') : queue'[i] = queue[i + 1]
        BY UpdateNext
      <4>3. j - 1 \in 1..Len(queue') /\ (j - 1) + 1 = j  BY <1>7, <4>1, <4>2
      <4>4. queue'[j - 1] = queue[j]  BY <4>2, <4>3
      <4> QED  BY <2>3, <4>1, <4>3, <4>4 DEF TokensGiven, NoneInFlight
    <3>4. a.spec.after = t + Len(o)  BY <3>2, <3>3 DEF SampledAhead, OldestOutput
    <3>5. z.status = a.status /\ z.output = a.output \o o /\ z.inFlight = z.stale
      BY <1>5, <2>3 DEF TokensGiven, LiveState
    <3>6. TokensOf(z, r) = t + Len(o)
      <4>1. a.output \in Seq(TokenOver(Int)) /\ o \in Seq(TokenOver(Int)) /\ PromptLen[r] \in Nat
        BY OldestSample, RequestFacts, EngineFacts DEF TypedOver, Numbers, Books
      <4>2. /\ Len(z.output) = Len(a.output) + Len(o)
            /\ Len(a.output) \in Nat /\ Len(o) \in Nat
        BY <3>5, <4>1
      <4>3. PromptLen[r] + (Len(a.output) + Len(o)) = PromptLen[r] + Len(a.output) + Len(o)
        BY <4>1, <4>2
      <4> QED  BY <4>2, <4>3 DEF TokensOf
    <3> QED  BY <1>3, <1>5, <3>4, <3>5, <3>6
  <2> QED  BY <2>1, <2>2, <2>3
<1> QED  BY <1>12, <1>13, <1>14

LEMMA UpdateOfLast ==
  ASSUME TypedOver(Int), Shape, DraftsOfLast, UpdateFromOutput
  PROVE  DraftsOfLast'
<1> DEFINE e == Len(results')
<1>1. /\ Len(results') = Len(results) - 1 /\ Len(results) \in Nat
      /\ \A j \in 1..Len(queue') : queue'[j] = queue[j + 1]
      /\ \A j \in 1..Len(results') : results'[j] = results[j + 1] /\ j \in 1..Len(queue')
      /\ UNCHANGED <<drafts, batchReqs>>
  BY UpdateNext, UpdateFromOutputShape, ResultsFacts
<1>2. CASE e > 0
  <2>1. e \in 1..Len(results') /\ e + 1 = Len(results) /\ Len(results) > 0
    BY <1>1, <1>2
  <2>2. queue'[e] = queue[Len(results)] /\ results'[e] = results[Len(results)]
    BY <1>1, <2>1
  <2> QED  BY <1>1, <2>1, <2>2 DEF DraftsOfLast
<1>3. CASE ~(e > 0)  BY <1>3 DEF DraftsOfLast
<1> QED  BY <1>2, <1>3

LEMMA UpdateWanted ==
  ASSUME TypedOver(Int), Shape, Books, DraftsWanted, UpdateFromOutput
  PROVE  DraftsWanted'
<1> SUFFICES ASSUME takeDrafts
             PROVE  /\ Len(queue') >= 1
                    /\ \A r \in Requests :
                         Live(r)' /\ queue'[Len(queue')].n[r] > 0
                           => FreshAt(queue', req'[r], r, Len(queue'))
  BY UpdateFromOutputShape DEF DraftsWanted
<1> DEFINE L == Len(queue)  l == Len(queue')
<1>1. /\ queue \in Seq(BatchOver(Int)) /\ queue' \in Seq(BatchOver(Int)) /\ L \in Nat
      /\ l = L - 1 /\ \A j \in 1..l : queue'[j] = queue[j + 1]
  BY UpdateNext, QueueFacts
<1>2. pc = "collect" /\ L >= 2  BY UpdateFromOutputShape DEF DraftsWanted
<1>3. l >= 1 /\ l \in 1..l /\ l + 1 = L  BY <1>1, <1>2
<1>4. ASSUME NEW r \in Requests, Live(r)', queue'[l].n[r] > 0
      PROVE  FreshAt(queue', req'[r], r, l)
  <2>1. LiveState(req[r]) /\ Live(r)
    BY <1>4, UpdateFromOutputShape DEF Updated, Live, LiveState
  <2>2. queue'[l] = queue[L]  BY <1>1, <1>3
  <2>3. FreshAt(queue, req[r], r, L)  BY <1>4, <2>1, <2>2 DEF DraftsWanted
  <2>4. /\ req[r].stale \in Int /\ req'[r].stale \in Int
        /\ req'[r].stale = req[r].stale - queue[1].n[r] \/ req'[r].stale = 0
    BY <2>1, StaleShare DEF Oldest
  <2> DEFINE a == req[r]  z == req'[r]
  <2>5. FreshAt(queue, a, r, l + 1) /\ a.stale \in Int /\ z.stale \in Int
        /\ (z.stale = a.stale - queue[1].n[r] \/ z.stale = 0)
    BY <1>3, <2>3, <2>4
  <2> HIDE DEF a, z
  <2>6. FreshAt(queue', z, r, l)  BY <1>1, <1>3, <2>5, StaysFresh
  <2> QED  BY <2>6 DEF z
<1> QED  BY <1>3, <1>4

LEMMA UpdateDrafting ==
  ASSUME TypedOver(Int), Shape, Books, Progress, Drafting, UpdateFromOutput
  PROVE  Drafting'
<1>1. DraftsKnown' /\ DraftsOfLast' /\ DraftsWanted'
  BY UpdateDrafts, UpdateOfLast, UpdateWanted DEF Drafting
<1>2. PlanFollows'
  <2>1. plan' = EmptyPlan  BY UpdateFromOutputShape
  <2>2. \A r \in Requests : plan'.spec[r].after = 0  BY <2>1 DEF EmptyPlan, NoDraft
  <2> QED  BY <2>2 DEF PlanFollows, FollowsOn
<1>3. DraftsFollowHistory'
  <2> SUFFICES ASSUME NEW i \in 1..Len(queue'), NEW r \in Requests,
                      queue'[i].spec[r].after # 0
               PROVE  queue'[i].spec[r].after = Base(queue'[i], r)
    BY DEF DraftsFollowHistory
  <2>1. queue'[i] = queue[i + 1]  BY UpdateNext
  <2>2. i + 1 \in 1..Len(queue)  BY UpdateNext, QueueFacts
  <2> QED  BY <2>1, <2>2 DEF Drafting, DraftsFollowHistory
<1> QED  BY <1>1, <1>2, <1>3 DEF Drafting

---------------------------------------------------------------------------
(* Drafts when they are fetched *)

\* What the last rank proposed in its last batch follows that batch's sample.
LEMMA ProposedAhead ==
  ASSUME TypedOver(Int), Shape, Books, Progress, Drafting, NEW r \in Requests,
         takeDrafts, pc = "post", DraftsReady, r \in batchReqs[LastRank], Live(r),
         drafts[r] # NoDraft
  PROVE  /\ req[r].status = "running" /\ Len(results) \in 1..Len(results)
         /\ FreshAt(queue, req[r], r, Len(results)) /\ results[Len(results)][r] # <<>>
         /\ drafts[r].after = TokensOf(req[r], r) + Len(results[Len(results)][r])
<1> DEFINE a == req[r]  L == Len(queue)  b == queue[L]  o == results[L][r]  t == TokensOf(a, r)
           c == b.computed[r]  n == b.n[r]
<1>1. /\ queue \in Seq(BatchOver(Int)) /\ L \in Nat /\ Numbers(Int) /\ SchedulerOver(Int)
  BY QueueFacts DEF TypedOver
<1>2. Len(results) = L /\ L >= 1
  BY EngineFacts DEF Shape, Order, DraftsReady, Drafting, DraftsWanted
<1>3. L \in 1..L /\ L \in 0..L /\ L > 0 /\ b \in BatchOver(Int)  BY <1>1, <1>2
<1>4. /\ batchReqs[LastRank] = Scheduled(b)
      /\ drafts[r] \in ProposedDrafts(b, r, o)
  BY <1>2, <1>3 DEF Drafting, DraftsOfLast
<1>5. n > 0  BY <1>4 DEF Scheduled
<1>6. o # <<>> /\ drafts[r].after = Base(b, r) + Len(o)  BY <1>4 DEF ProposedDrafts
<1>7. FreshAt(queue, a, r, L) /\ LiveState(a)
  BY <1>5 DEF Drafting, DraftsWanted, Live, LiveState
<1>8. a.status = "running"
  <2>1. Flight(queue, r, L) > a.stale /\ a.status # "finished"
    BY <1>7 DEF FreshAt, LiveState
  <2>2. a.status # "running" => a.stale = Flight(queue, r, L)
    BY <2>1 DEF Books, Accounted, CountersAgree
  <2>3. Flight(queue, r, L) \in Nat  BY <1>1, <1>3, FlightFacts
  <2> QED  BY <2>1, <2>2, <2>3
<1>9. LinkAt(queue, a, r, L)  BY <1>3, <1>5, <1>7 DEF Progress, Chained, ChainOf
<1>10. ReachesAt(queue, r, L)
  <2>1. KnownAt(queue, results, a, r, Len(history[LastRank][r]), L)
    BY <1>2, <1>3, <1>5, <1>7 DEF Progress, KnownByLast, KnownOf
  <2> QED  BY <1>6, <2>1 DEF KnownAt
<1>11. t = PromptLen[r] + b.numOutput[r]  BY <1>9 DEF LinkAt, TokensOf
<1>12. Fits(c, n, b.spec[r], t)
  <2>1. BatchFits(b, r)  BY <1>3 DEF Progress, BatchesFit
  <2> QED  BY <1>5, <1>11, <2>1 DEF BatchFits
<1>13. Base(b, r) = t  BY <1>10, <1>11, <1>12 DEF Fits, Base, ReachesAt
<1> QED  BY <1>2, <1>3, <1>6, <1>7, <1>8, <1>13

LEMMA PostDrafting ==
  ASSUME TypedOver(Int), Shape, Books, Progress, Drafting, PostStep
  PROVE  Drafting'
<1>1. /\ pc = "post" /\ takeDrafts' = FALSE /\ (takeDrafts => DraftsReady)
      /\ UNCHANGED <<plan, queue, ranks>>
      /\ \A r \in Requests :
           /\ req'[r].status = req[r].status /\ req'[r].output = req[r].output
           /\ req'[r].computed = req[r].computed /\ req'[r].inFlight = req[r].inFlight
           /\ req'[r].stale = req[r].stale
           /\ req'[r].spec = IF Fetched(r) THEN FetchedDrafts(r) ELSE req[r].spec
           /\ ~Fetched(r) => req'[r] = req[r]
  BY PostStepFacts DEF TypedOver, Numbers
<1>2. queue' = queue /\ results' = results /\ batchReqs' = batchReqs /\ drafts' = drafts
      /\ plan' = plan
  BY <1>1 DEF ranks
<1>3. DraftsOfLast' /\ PlanFollows' /\ DraftsFollowHistory' /\ DraftsWanted'
  BY <1>1, <1>2 DEF Drafting, DraftsOfLast, PlanFollows, DraftsFollowHistory, DraftsWanted
<1>4. ASSUME NEW r \in Requests
      PROVE  DraftFollows(queue, results, req'[r], r, plan.n[r])
  <2> DEFINE a == req[r]  z == req'[r]  e == Len(results)
  <2>1. CASE ~Fetched(r)  BY <1>1, <2>1 DEF Drafting, DraftsKnown
  <2>2. CASE Fetched(r) /\ z.spec = NoDraft  BY <2>2, NoDraftFollows
  <2>3. CASE Fetched(r) /\ z.spec # NoDraft
    <3>1. /\ takeDrafts /\ DraftsReady /\ r \in batchReqs[LastRank] /\ Live(r)
          /\ z.spec = drafts[r] /\ drafts[r] # NoDraft
      BY <1>1, <2>3 DEF Fetched, FetchedDrafts
    <3>2. /\ a.status = "running" /\ e \in 1..Len(results)
          /\ FreshAt(queue, a, r, e) /\ results[e][r] # <<>>
          /\ drafts[r].after = TokensOf(a, r) + Len(results[e][r])
      BY <1>1, <3>1, ProposedAhead
    <3>3. plan.n[r] = 0
      <4>1. plan = EmptyPlan  BY PostStepShape
      <4> QED  BY <4>1, EmptyPlanFacts
    <3>4. SampledAhead(queue, results, z, r, e)
      BY <1>1, <3>1, <3>2 DEF SampledAhead, FreshAt, TokensOf
    <3> QED  BY <1>1, <3>2, <3>3, <3>4 DEF DraftFollows
  <2> QED  BY <2>1, <2>2, <2>3
<1>5. DraftsKnown'  BY <1>2, <1>4 DEF DraftsKnown
<1> QED  BY <1>3, <1>5 DEF Drafting

---------------------------------------------------------------------------
(* Drafts in every step *)

\* Nothing happens to a live request but an abort while drafts are wanted.
LEMMA WantedUndisturbed ==
  ASSUME TypedOver(Int), Shape, [Next]_vars, takeDrafts', ~IssueBatch, ~UpdateFromOutput,
         ~PostStep, takeDrafts => pc \in {"collect", "post"}
  PROVE  /\ takeDrafts /\ pc' = pc /\ queue' = queue
         /\ \A r \in Requests : req'[r] = req[r] \/ req'[r].status = "finished"
<1> DEFINE Goal == /\ takeDrafts /\ pc' = pc /\ queue' = queue
                   /\ \A r \in Requests : req'[r] = req[r] \/ req'[r].status = "finished"
<1> SUFFICES Goal
  OBVIOUS
<1>1. ASSUME NEW r \in Requests, AddRequest(r) PROVE Goal
  BY <1>1 DEF AddRequest, engine
<1>2. ASSUME NEW r \in Requests, Abort(r) PROVE Goal
  <2>1. UNCHANGED engine  BY <1>2 DEF Abort
  <2>2. \A q \in Requests : req'[q] = req[q] \/ req'[q].status = "finished"
    BY <1>2, AbortShape
  <2> QED  BY <2>1, <2>2 DEF engine
<1>3. CASE ResetRunning  BY <1>3 DEF ResetRunning, engine
<1>4. CASE BeginSchedule  BY <1>4 DEF BeginSchedule
<1>5. CASE ScheduleStep
  <2>1. pc = "schedule" /\ takeDrafts' = takeDrafts
    BY <1>5 DEF ScheduleStep, PassRunning, ScheduleRunning, PassWaiting, AdmitWaiting,
                RefuseWaiting
  <2> QED  BY <2>1
<1>6. CASE DrainQueue  BY <1>6 DEF DrainQueue
<1>7. ASSUME NEW k \in Ranks, ExecuteBatch(k) PROVE Goal
  BY <1>7 DEF ExecuteBatch, scheduler, engine
<1>8. CASE SampleBatch  BY <1>8 DEF SampleBatch, scheduler, engine
<1>9. CASE Idle \/ UNCHANGED vars  BY <1>9 DEF Idle, vars
<1> HIDE DEF Goal
<1> QED  BY <1>1, <1>2, <1>3, <1>4, <1>5, <1>6, <1>7, <1>8, <1>9 DEF Next, EngineStep

LEMMA WantedKept ==
  ASSUME TypedOver(Int), Shape, DraftsWanted, [Next]_vars, ~IssueBatch, ~UpdateFromOutput,
         ~PostStep
  PROVE  DraftsWanted'
<1> SUFFICES ASSUME takeDrafts' PROVE DraftsWanted'
  BY DEF DraftsWanted
<1>1. /\ takeDrafts /\ pc' = pc /\ queue' = queue
      /\ \A r \in Requests : req'[r] = req[r] \/ req'[r].status = "finished"
  BY WantedUndisturbed DEF DraftsWanted
<1>2. /\ pc \in {"collect", "post"}
      /\ Len(queue) >= (IF pc = "collect" THEN 2 ELSE 1)
  BY <1>1 DEF DraftsWanted
<1>3. ASSUME NEW r \in Requests, Live(r)', queue[Len(queue)].n[r] > 0
      PROVE  FreshAt(queue, req'[r], r, Len(queue))
  <2>1. req'[r] = req[r]  BY <1>1, <1>3 DEF Live
  <2> QED  BY <1>1, <1>3, <2>1 DEF DraftsWanted, Live
<1> QED  BY <1>1, <1>2, <1>3 DEF DraftsWanted

LEMMA DraftingStep ==
  ASSUME TypedOver(Int), Shape, Books, Progress, Drafting, [Next]_vars
  PROVE  Drafting'
<1>1. CASE IssueBatch
  BY <1>1, IssueDrafts, IssueFollows, IssueOfLast, IssueWanted DEF Drafting, Books
<1>2. CASE SampleBatch  BY <1>2, SampleDrafts
<1>3. CASE UpdateFromOutput  BY <1>3, UpdateDrafting
<1>4. CASE PostStep  BY <1>4, PostDrafting
<1>5. CASE /\ Still /\ \A r \in Requests : QuietStep(r)
           /\ ~IssueBatch /\ ~UpdateFromOutput /\ ~PostStep
  <2>1. Shape'  BY Steps
  <2>2. DraftsKnown'  BY <1>5, QuietDrafts DEF Drafting, DraftsKnown
  <2>3. PlanFollows'  BY <1>5, <2>1, QuietPlanFollows DEF Drafting, PlanFollows
  <2>4. DraftsOfLast' /\ DraftsFollowHistory'
    BY <1>5 DEF Drafting, DraftsOfLast, DraftsFollowHistory, Still
  <2>5. DraftsWanted'  BY <1>5, WantedKept DEF Drafting
  <2> QED  BY <2>2, <2>3, <2>4, <2>5 DEF Drafting
<1> QED  BY <1>1, <1>2, <1>3, <1>4, <1>5, Steps

LEMMA DraftingInit ==
  ASSUME Init
  PROVE  Drafting
<1>1. /\ queue = <<>> /\ results = <<>> /\ ~takeDrafts /\ plan = EmptyPlan
      /\ \A r \in Requests : req[r].spec = NoDraft
  BY DEF Init, NewRequest
<1>2. DraftsKnown  BY <1>1, NoDraftFollows DEF DraftsKnown
<1>3. PlanFollows  BY <1>1 DEF PlanFollows, FollowsOn, EmptyPlan, NoDraft
<1> QED  BY <1>1, <1>2, <1>3 DEF Drafting, DraftsOfLast, DraftsWanted, DraftsFollowHistory

---------------------------------------------------------------------------
(* What the ranks are sent *)

LEMMA SentAsBefore ==
  ASSUME NEW r, req'[r] = req[r], plan'.new = plan.new
  PROVE  SameSent(r)
BY DEF SameSent, Unfinished, Met

LEMMA EvictedSent ==
  ASSUME NEW r, req[r].status = "running", req'[r].status = "preempted",
         req'[r].sent = req[r].sent, plan'.new = plan.new
  PROVE  SameSent(r)
BY DEF SameSent, Unfinished, Met

LEMMA ScheduleRunningSent ==
  ASSUME TypedOver(Int), Shape, ScheduleRunning, NEW r \in Requests
  PROVE  SameSent(r)
<1>1. SchedulerOver(Int) /\ Numbers(Int) /\ Queued /\ Planned /\ req[r] \in RequestOver(Int)
  BY DEF TypedOver, SchedulerOver, Numbers, Shape
<1>2. \A q \in Victim : q \in Requests /\ req[q].status = "running"
  BY ScheduleRunningShape
<1>3. /\ \A q \in Victim : req'[q] = Preempted(req[q], FALSE)
      /\ \A q \in Requests : q \notin Victim /\ q # Current => req'[q] = req[q]
      /\ Current \in Victim => plan' = StoppedPlan
      /\ Current \notin Victim =>
           /\ req'[Current] = Placed(req[Current], NeededBlocks)
           /\ plan' = PlacedPlan
  BY <1>1, ScheduleRunningFacts
<1>4. plan \in PlanOver(Int)  BY <1>1, PlanFacts
<1>5. plan'.new = plan.new
  BY <1>3, <1>4 DEF StoppedPlan, PlacedPlan, PlanWith, PlanOver
<1>6. CASE r \in Victim
  <2>1. /\ Preempted(req[r], FALSE).status = "preempted"
        /\ Preempted(req[r], FALSE).sent = req[r].sent
    BY <1>1, PreemptedFacts
  <2>2. req'[r] = Preempted(req[r], FALSE)  BY <1>3, <1>6
  <2> QED  BY <1>2, <1>5, <1>6, <2>1, <2>2, EvictedSent
<1>7. CASE r \notin Victim /\ r # Current  BY <1>3, <1>5, <1>7, SentAsBefore
<1>8. CASE r \notin Victim /\ r = Current
  <2>1. req'[r].status = req[r].status /\ req'[r].sent = req[r].sent
    BY <1>1, <1>3, <1>8 DEF Placed, RequestOver
  <2> QED  BY <1>5, <2>1 DEF SameSent, Unfinished, Met
<1> QED  BY <1>6, <1>7, <1>8

LEMMA AdmitWaitingSent ==
  ASSUME TypedOver(Int), Shape, AdmitWaiting, NEW r \in Requests
  PROVE  SameSent(r)
<1>1. SchedulerOver(Int) /\ Numbers(Int) /\ Planned /\ req[r] \in RequestOver(Int)
  BY DEF TypedOver, SchedulerOver, Numbers, Shape
<1>2. req[Candidate].status \in {"waiting", "preempted"} /\ plan.n[Candidate] = 0
  BY AdmitWaitingShape
<1>3. /\ Candidate \in Requests
      /\ req'[Candidate] = Admitted(req[Candidate], OfferedBlocks)
      /\ \A q \in Requests : q # Candidate => req'[q] = req[q]
      /\ plan' = AdmittedPlan
  BY <1>1, AdmitWaitingFacts
<1>4. plan \in PlanOver(Int)  BY <1>1, PlanFacts
<1>5. plan'.new = IF req[Candidate].status = "waiting" THEN plan.new \union {Candidate}
                                                       ELSE plan.new
  BY <1>3, <1>4 DEF AdmittedPlan, AdmittingPlan, PlanOver
<1>6. CASE r # Candidate
  <2>1. r \in plan'.new <=> r \in plan.new  BY <1>5, <1>6
  <2> QED  BY <1>3, <1>6, <2>1 DEF SameSent, Unfinished, Met
<1>7. CASE r = Candidate
  <2>1. req'[r].status = "running" /\ req'[r].sent = req[r].sent
    BY <1>1, <1>3, <1>7 DEF Admitted, RequestOver
  <2>2. Met(r)' => Met(r)  BY <1>2, <1>5, <1>7 DEF Met
  <2> QED  BY <1>2, <1>7, <2>1, <2>2 DEF SameSent, Unfinished
<1> QED  BY <1>6, <1>7

LEMMA UpdateSent ==
  ASSUME TypedOver(Int), Shape, UpdateFromOutput, NEW r \in Requests
  PROVE  SameSent(r)
<1>1. plan' = plan /\ req[r] \in RequestOver(Int)
  BY UpdateFromOutputShape DEF TypedOver, SchedulerOver
<1>2. Updated(r) => Processed(req'[r], Oldest, r, OldestOutput(r))
  BY UpdateFromOutputShape
<1>3. ~Updated(r) => req'[r] = req[r]  BY UpdateFromOutputShape
<1>4. CASE ~Updated(r)  BY <1>1, <1>3, <1>4, SentAsBefore
<1>5. CASE Updated(r)
  <2> DEFINE b == Head(queue)  o == Head(results)[r]
  <2>1. \/ req'[r] = AfterOutput(b, r, o)
        \/ req'[r] = req[r]
    BY DEF UpdateFromOutput
  <2>2. AfterOutput(b, r, o).status # "finished" => AfterOutput(b, r, o).sent = req[r].sent
    <3> DEFINE n == req[r].inFlight - b.n[r]  s == StaleLeft(b, r)
               c == IF RollsBack(r) THEN req[r].computed - Rejected(b, r, o)
                                    ELSE req[r].computed
               w == req[r].output \o Kept(r, o)
               ret == [req[r] EXCEPT !.inFlight = n, !.stale = s, !.computed = c]
               del == [ret EXCEPT !.output = w]
    <3>1. AfterOutput(b, r, o) \in {ret, Freed(del), del}
      <4>1. ret = [req[r] EXCEPT !.inFlight = @ - b.n[r], !.stale = StaleLeft(b, r),
                     !.computed = IF RollsBack(r) THEN @ - Rejected(b, r, o) ELSE @]
        BY <1>1 DEF RequestOver
      <4>2. del = [ret EXCEPT !.output = @ \o Kept(r, o)]  BY <1>1 DEF RequestOver
      <4> HIDE DEF ret, del, b, o
      <4> QED  BY <4>1, <4>2 DEF AfterOutput
    <3> HIDE DEF n, s, c, w, b, o
    <3>2. ret.sent = req[r].sent /\ del.sent = req[r].sent  BY <1>1 DEF RequestOver
    <3>3. Freed(del).status = "finished"  BY <1>1 DEF Freed, RequestOver
    <3> QED  BY <3>1, <3>2, <3>3
  <2>3. req'[r].status # "finished" => req'[r].sent = req[r].sent  BY <2>1, <2>2
  <2>4. req'[r].status = "finished" \/ req'[r].status = req[r].status
    BY <1>2, <1>5 DEF Processed
  <2>5. req[r].status # "finished"  BY <1>5 DEF Updated, Live
  <2> QED  BY <1>1, <2>3, <2>4, <2>5 DEF SameSent, Unfinished, Met
<1> QED  BY <1>4, <1>5

LEMMA PostStepSent ==
  ASSUME TypedOver(Int), Shape, PostStep, NEW r \in Requests
  PROVE  SameSent(r)
<1>1. Numbers(Int) /\ req[r] \in RequestOver(Int)
  BY DEF TypedOver, SchedulerOver, Numbers
<1>2. /\ plan' = plan
      /\ Fetched(r) => req'[r] = Drafted(req[r], FetchedDrafts(r))
      /\ ~Fetched(r) => req'[r] = req[r]
  BY <1>1, PostStepFacts
<1>3. req'[r].sent = req[r].sent /\ req'[r].status = req[r].status
  BY <1>1, <1>2 DEF Drafted, RequestOver
<1> QED  BY <1>2, <1>3 DEF SameSent, Unfinished, Met

\* Only IssueBatch sends.
LEMMA SentSteps ==
  ASSUME TypedOver(Int), Shape, [Next]_vars, ~IssueBatch, NEW r \in Requests
  PROVE  SameSent(r)
<1>1. Numbers(Int) /\ SchedulerOver(Int) /\ Queued /\ req[r] \in RequestOver(Int)
  BY DEF Numbers, TypedOver, SchedulerOver, Shape
<1>2. ASSUME NEW q \in Requests, AddRequest(q) PROVE SameSent(r)
  <2>1. /\ req[q] = NewRequest /\ req'[q] = [NewRequest EXCEPT !.status = "waiting"]
        /\ \A p \in Requests : p # q => req'[p] = req[p]
    BY <1>2, AddRequestShape
  <2>2. plan' = plan  BY <1>2 DEF AddRequest, engine
  <2>3. CASE r = q  BY <2>1, <2>2, <2>3 DEF SameSent, Unfinished, Met, NewRequest
  <2> QED  BY <2>1, <2>2, <2>3, SentAsBefore
<1>3. ASSUME NEW q \in Requests, Abort(q) PROVE SameSent(r)
  <2>1. /\ req'[q].status = "finished" /\ \A p \in Requests : p # q => req'[p] = req[p]
    BY <1>3, AbortShape
  <2>2. plan' = plan  BY <1>3 DEF Abort, engine
  <2>3. CASE r = q  BY <2>1, <2>2, <2>3 DEF SameSent, Unfinished, Met
  <2> QED  BY <2>1, <2>2, <2>3, SentAsBefore
<1>4. ASSUME ResetRunning PROVE SameSent(r)
  <2>1. /\ In(r, running) => req'[r] = Preempted(req[r], TRUE)
        /\ ~In(r, running) => req'[r] = req[r]
    BY <1>4, ResetRunningShape
  <2>2. plan' = plan  BY <1>4 DEF ResetRunning, engine
  <2>3. CASE In(r, running)
    <3>1. /\ Preempted(req[r], TRUE).status = "preempted"
          /\ Preempted(req[r], TRUE).sent = req[r].sent
      BY <1>1, PreemptedFacts
    <3>2. req[r].status = "running"  BY <1>1, <2>3 DEF Queued, Only
    <3> QED  BY <2>1, <2>2, <2>3, <3>1, <3>2, EvictedSent
  <2> QED  BY <2>1, <2>2, <2>3, SentAsBefore
<1>5. CASE PassRunning  BY <1>5, PassRunningShape, SentAsBefore
<1>6. CASE RefuseWaiting  BY <1>6, RefuseWaitingShape, SentAsBefore
<1>7. CASE PassWaiting
  <2>1. plan' = [plan EXCEPT !.passed = Append(plan.passed, Candidate)] /\ plan \in PlanOver(Int)
    BY <1>1, <1>7, PassWaitingFacts, PlanFacts
  <2>2. plan'.new = plan.new /\ req' = req  BY <1>7, <2>1 DEF PlanOver, PassWaiting
  <2> QED  BY <2>2, SentAsBefore
<1>8. CASE BeginSchedule  BY <1>8, BeginScheduleShape, SentAsBefore
<1>9. CASE DrainQueue  BY <1>9, DrainQueueShape, SentAsBefore
<1>10. CASE \/ \E k \in Ranks : ExecuteBatch(k)
            \/ SampleBatch \/ Idle \/ UNCHANGED vars
  <2>1. req' = req /\ plan' = plan
    BY <1>10 DEF ExecuteBatch, SampleBatch, Idle, scheduler, engine, vars
  <2> QED  BY <2>1, SentAsBefore
<1>11. CASE ScheduleRunning  BY <1>11, ScheduleRunningSent
<1>12. CASE AdmitWaiting  BY <1>12, AdmitWaitingSent
<1>13. CASE UpdateFromOutput  BY <1>13, UpdateSent
<1>14. CASE PostStep  BY <1>14, PostStepSent
<1> QED  BY <1>2, <1>3, <1>4, <1>5, <1>6, <1>7, <1>8, <1>9, <1>10, <1>11, <1>12, <1>13, <1>14
            DEF Next, EngineStep, ScheduleStep

LEMMA LiveInFlight ==
  ASSUME TypedOver(Int), Shape, NEW r \in Requests, Unfinished(r),
         NEW j \in 1..Len(queue), queue[j].n[r] > 0
  PROVE  LiveState(req[r])
<1>1. req[r].status # "new"
  <2>1. req[r].status = "new" => queue[j].n[r] = 0  BY DEF Shape, AtRest
  <2> QED  BY <2>1
<1>2. req[r] \in RequestOver(Int)  BY DEF TypedOver, SchedulerOver
<1> QED  BY <1>1, <1>2 DEF LiveState, RequestOver, Unfinished

---------------------------------------------------------------------------
(* A batch is issued *)

LEMMA SpanFacts ==
  ASSUME NEW b \in BatchOver(Int), NEW r \in Requests
  PROVE  /\ Needs(b, r) \in Int /\ Starts(b, r) \in Int /\ Len(b.newTokens[r]) \in Nat
         /\ Needs(b, r) = Starts(b, r) + Len(b.newTokens[r])
         /\ b.newTokens[r] \in Seq(TokenOver(Int)) /\ b.numOutput[r] \in Nat /\ b.n[r] \in Nat
         /\ PromptLen[r] \in Nat /\ Base(b, r) = PromptLen[r] + Needs(b, r)
<1>1. /\ Base(b, r) \in Int /\ b.newTokens[r] \in Seq(TokenOver(Int)) /\ b.numOutput[r] \in Nat
      /\ b.n[r] \in Nat
  BY BatchFacts DEF Numbers
<1>2. PromptLen[r] \in Nat /\ Len(b.newTokens[r]) \in Nat  BY <1>1, EngineFacts
<1>3. Needs(b, r) = Base(b, r) - PromptLen[r]  BY DEF Needs
<1>4. Starts(b, r) = Needs(b, r) - Len(b.newTokens[r])  BY DEF Starts
<1> QED  BY <1>1, <1>2, <1>3, <1>4

LEMMA IssueCarries ==
  ASSUME TypedOver(Int), Shape, PlanFits, IssueBatch, NEW r \in Requests, plan.n[r] > 0
  PROVE  Carries(Batch, r)
<1> DEFINE b == Batch  o == req[r].output  P == PromptLen[r]  L == Len(o)
<1>1. Numbers(Int) /\ SchedulerOver(Int) /\ Planned  BY DEF Numbers, TypedOver, Shape
<1>2. /\ b \in BatchOver(Int) /\ b.n = plan.n /\ b.spec = plan.spec /\ b.new = plan.new
      /\ b.computed[r] = req[r].computed /\ b.finished = finishedIds
      /\ b.newTokens[r] = IF r \in Known THEN NewTokens(r) ELSE <<>>
  BY <1>1, BatchInType DEF Batch
<1>3. /\ o \in Seq(TokenOver(Int)) /\ L \in Nat /\ P \in Nat /\ req[r].sent \in Nat
      /\ NumTokens(r) = P + L
  BY <1>1, RequestFacts, EngineFacts
<1>4. Base(b, r) = SentEnd(r) /\ SentEnd(r) \in Int
  <2>1. Base(b, r) = SentEnd(r)  BY <1>2 DEF Base, SentEnd
  <2> QED  BY <1>1, <1>2, <2>1, BatchFacts
<1>5. SentEnd(r) <= P + L
  <2>1. Fits(req[r].computed, plan.n[r], plan.spec[r], NumTokens(r))  BY DEF PlanFits
  <2>2. /\ b.computed[r] \in Int /\ b.n[r] \in Nat /\ b.spec[r].len \in Nat
    BY <1>1, <1>2, BatchFacts
  <2> DEFINE c == req[r].computed  n == plan.n[r]  d == plan.spec[r].len
  <2>3. c \in Int /\ n \in Nat /\ d \in Nat /\ SentEnd(r) = c + n - d
    BY <1>2, <2>2 DEF SentEnd
  <2>4. (c + n < P + L => d = 0) /\ (c + n >= P + L => c + n - d = P + L)
    BY <1>3, <2>1 DEF Fits
  <2> HIDE DEF c, n, d, P, L
  <2> QED  BY <1>3, <2>3, <2>4
<1>6. /\ SentFrom(r) \in Nat /\ SentFrom(r) >= P
      /\ SentFrom(r) = IF req[r].sent >= P THEN req[r].sent ELSE P
  BY <1>3, Max2 DEF SentFrom
<1>7. Min({SentEnd(r), NumTokens(r)}) = SentEnd(r)  BY <1>3, <1>4, <1>5, Min2
<1> DEFINE f == SentFrom(r) - P  e == SentEnd(r) - P
<1>8. f \in Nat /\ e \in Int /\ e <= L /\ Needs(b, r) = e
  <2>1. f \in Nat  BY <1>3, <1>6
  <2>2. e \in Int /\ e <= L  BY <1>3, <1>4, <1>5
  <2> QED  BY <1>4, <2>1, <2>2 DEF Needs
<1>9. NewTokens(r) = SubSeq(o, f + 1, e)  BY <1>7 DEF NewTokens
<1> DEFINE w == SubSeq(o, f + 1, e)
<1> HIDE DEF b, f, e
<1>10. /\ w \in Seq(TokenOver(Int)) /\ Len(w) = IF f + 1 <= e THEN e - (f + 1) + 1 ELSE 0
       /\ \A i \in 1..(e - (f + 1) + 1) : w[i] = o[(f + 1) + i - 1]
  <2>1. f + 1 \in Nat /\ f + 1 >= 1 /\ e \in Int /\ e <= Len(o)  BY <1>8
  <2> HIDE DEF o
  <2> QED  BY <1>3, <2>1, SubSeqFacts
<1> HIDE DEF w, o, L
<1>11. Starts(b, r) = e - Len(b.newTokens[r])  BY <1>8 DEF Starts
<1>12. r \in Known <=> r \notin b.new  BY <1>2 DEF Known, Scheduled
<1>13. req' = [q \in Requests |-> UpdatedAfterSchedule(q)] /\ req[r] \in RequestOver(Int)
  BY <1>1 DEF IssueBatch, SchedulerOver
<1>14. req'[r].sent = IF r \in Known THEN Max({SentFrom(r), SentEnd(r)}) ELSE req[r].sent
  <2> DEFINE s == IF r \in Known THEN Max({SentFrom(r), SentEnd(r)}) ELSE req[r].sent
             c == req[r].computed + plan.n[r]  m == req[r].inFlight + plan.n[r]
             k == req[r].computed + plan.n[r] < NumTokens(r)
  <2>1. plan.n[r] # 0  BY <1>1, PlanFacts
  <2>2. req'[r] = UpdatedAfterSchedule(r)  BY <1>13
  <2>3. UpdatedAfterSchedule(r) =
          [req[r] EXCEPT !.computed = c, !.inFlight = m, !.chunk = k, !.sent = s]
    BY <1>13, <2>1 DEF UpdatedAfterSchedule, RequestOver
  <2> HIDE DEF s, c, m, k
  <2>4. req'[r].sent = s  BY <1>13, <2>2, <2>3 DEF RequestOver
  <2> QED  BY <2>4 DEF s
<1>15. CASE r \in b.new
  <2>1. o = <<>> /\ b.newTokens[r] = <<>>  BY <1>1, <1>2, <1>12, <1>15 DEF Planned, o
  <2>2. Len(b.newTokens[r]) = 0  BY <2>1
  <2>3. \A i \in 1..0 : FALSE  OBVIOUS
  <2> QED  BY <1>8, <1>12, <1>14, <1>15, <2>1, <2>2, <2>3 DEF Carries, b, o, L
<1>16. CASE r \notin b.new
  <2>1. b.newTokens[r] = w  BY <1>2, <1>9, <1>12, <1>16 DEF w
  <2>2. SentFrom(r)' = SentFrom(r) \/ SentFrom(r)' - PromptLen[r] = Needs(b, r)
    <3>1. req'[r].sent = IF SentFrom(r) >= SentEnd(r) THEN SentFrom(r) ELSE SentEnd(r)
      BY <1>4, <1>6, <1>12, <1>14, <1>16, Max2
    <3>2. req'[r].sent \in Int /\ req'[r].sent >= P  BY <1>3, <1>4, <1>6, <3>1
    <3>3. SentFrom(r)' = req'[r].sent
      <4>1. SentFrom(r)' = Max({req'[r].sent, P})  BY DEF SentFrom
      <4>2. P \in Int  BY <1>3
      <4> HIDE DEF P
      <4> QED  BY <3>2, <4>1, <4>2, Max2
    <3> QED  BY <1>4, <1>8, <3>1, <3>3 DEF e
  <2>3. CASE f + 1 <= e
    <3>1. Len(w) = e - f /\ Starts(b, r) = f  BY <1>8, <1>10, <1>11, <2>1, <2>3
    <3>2. ASSUME NEW i \in 1..Len(w)
          PROVE  Starts(b, r) + i \in 1..L /\ w[i] = o[Starts(b, r) + i]
      <4>1. i \in 1..(e - f)  BY <3>1
      <4>2. i \in 1..(e - (f + 1) + 1) /\ (f + 1) + i - 1 = f + i /\ f + i \in 1..L
        BY <1>3, <1>8, <4>1
      <4> QED  BY <1>10, <3>1, <4>2
    <3> QED  BY <1>8, <1>16, <2>1, <2>2, <3>1, <3>2 DEF Carries, b, o, L, f
  <2>4. CASE ~(f + 1 <= e)
    <3>1. Len(w) = 0 /\ Starts(b, r) = e /\ e <= f  BY <1>8, <1>10, <1>11, <2>1, <2>4
    <3>2. \A i \in 1..0 : FALSE  OBVIOUS
    <3> QED  BY <1>8, <1>16, <2>1, <2>2, <3>1, <3>2 DEF Carries, b, o, L, f
  <2> QED  BY <2>3, <2>4
<1> QED  BY <1>15, <1>16

LEMMA HearsGrows ==
  ASSUME NEW q, NEW p, NEW c, NEW e \in Nat, NEW r, NEW j \in Nat, NEW m \in Nat,
         Len(q) \in Nat, Continued(q, p), Hears(q, c, e, r, j), j <= Len(q), j <= m
  PROVE  Hears(p, c, e, r, m)
<1>1. CASE r \in c  BY <1>1 DEF Hears
<1>2. CASE r \notin c
  <2>1. PICK i \in (e + 1)..j : r \in q[i].new  BY <1>2 DEF Hears
  <2>2. i \in (e + 1)..m /\ i \in 1..Len(q)  BY <2>1
  <2> QED  BY <2>1, <2>2 DEF Hears, Continued
<1> QED  BY <1>1, <1>2

LEMMA GetsGrows ==
  ASSUME NEW q, NEW p, NEW h, NEW e \in Nat, NEW r, NEW x, NEW j \in Nat, NEW m \in Nat,
         Len(q) \in Nat, Continued(q, p), Gets(q, h, e, r, x, j), j <= Len(q) + 1, j <= m
  PROVE  Gets(p, h, e, r, x, m)
<1>1. CASE x <= Len(h)  BY <1>1 DEF Gets
<1>2. CASE ~(x <= Len(h))
  <2>1. PICK i \in (e + 1)..(j - 1) : q[i].n[r] > 0 /\ x <= Needs(q[i], r)
    BY <1>2 DEF Gets
  <2>2. i \in (e + 1)..(m - 1) /\ i \in 1..Len(q)  BY <2>1
  <2> QED  BY <2>1, <2>2 DEF Gets, Continued
<1> QED  BY <1>1, <1>2

LEMMA IssueLeaves ==
  ASSUME TypedOver(Int), Shape, IssueBatch
  PROVE  Issued(Batch)
<1>1. Numbers(Int) /\ SchedulerOver(Int) /\ Planned  BY DEF Numbers, TypedOver, Shape
<1>2. /\ queue' = Append(queue, Batch) /\ Batch \in BatchOver(Int)
      /\ \A r \in Requests :
           /\ plan.n[r] = 0 => req'[r] = req[r]
           /\ plan.n[r] \in Nat /\ req'[r].status = req[r].status
           /\ req'[r].output = req[r].output
           /\ req'[r].stale = req[r].stale /\ req'[r].dropStale = req[r].dropStale
  BY <1>1, IssueBatchFacts
<1>3. queue \in Seq(BatchOver(Int)) /\ Len(queue) \in Nat  BY QueueFacts
<1>4. /\ queue' \in Seq(BatchOver(Int)) /\ Len(queue') = Len(queue) + 1
      /\ queue'[Len(queue) + 1] = Batch /\ \A j \in 1..Len(queue) : queue'[j] = queue[j]
  BY <1>2, <1>3, AppendFacts
<1>5. Continued(queue, queue')  BY <1>3, <1>4 DEF Continued
<1>6. /\ Batch.n = plan.n /\ Batch.new = plan.new /\ Batch.finished = finishedIds
      /\ \A r \in Requests : Batch.numOutput[r] = Len(req[r].output)
  BY DEF Batch
<1>7. plan'.new = {} /\ UNCHANGED <<results, drafts, executed, cached, batchReqs, history, row>>
  BY IssueBatchShape, EmptyPlanFacts DEF IssueBatch, ranks
<1>8. \A r \in Requests : plan.n[r] > 0 => req[r].status = "running"  BY PlannedRun
<1>9. \A r \in Requests : plan.n[r] = 0 => r \notin plan.new  BY <1>1 DEF Planned
<1> QED  BY <1>2, <1>4, <1>5, <1>6, <1>7, <1>8, <1>9 DEF Issued

LEMMA IssueTold ==
  ASSUME TypedOver(Int), Shape, Progress, Copied, IssueBatch, NEW r \in Requests
  PROVE  ToldOnce(queue', r) /\ (Unfinished(r)' => SentOf(queue', req'[r], r))
<1> DEFINE L == Len(queue)  b == Batch
<1>1. /\ Issued(b) /\ queue \in Seq(BatchOver(Int)) /\ L \in Nat
  BY IssueLeaves, QueueFacts
<1>2. ToldOnce(queue, r) /\ (Unfinished(r) => SentOf(queue, req[r], r))
  BY DEF Copied, TokensSent, RankCopies, LastCopies
<1>3. plan.n[r] > 0 => Carries(b, r)  BY IssueCarries DEF Progress
<1> HIDE DEF b
<1>4. /\ Len(queue') = L + 1 /\ queue'[L + 1] = b /\ \A j \in 1..L : queue'[j] = queue[j]
      /\ b \in BatchOver(Int)
      /\ b.n[r] = plan.n[r] /\ b.numOutput[r] = Len(req[r].output) /\ b.new = plan.new
      /\ b.finished = finishedIds /\ plan.n[r] \in Nat
      /\ plan.n[r] > 0 => req[r].status = "running"
      /\ plan.n[r] = 0 => r \notin plan.new
      /\ req'[r].status = req[r].status /\ req'[r].output = req[r].output
  BY <1>1 DEF Issued, Continued
<1>5. \A j \in 1..(L + 1) : j \in 1..L \/ j = L + 1  BY <1>1
<1>6. Tells(b, r)
  <2>1. CASE plan.n[r] = 0  BY <1>4, <2>1 DEF Tells
  <2>2. CASE plan.n[r] # 0
    <3>1. Carries(b, r) /\ InOrder(r, req[r].output)
      BY <1>3, <1>4, <2>2 DEF Progress, OutputInOrder
    <3>2. SentInOrder(b, r)
      <4> SUFFICES ASSUME NEW i \in 1..Len(b.newTokens[r])
                   PROVE  b.newTokens[r][i][1] = PromptLen[r] + Starts(b, r) + i
        BY DEF SentInOrder
      <4> DEFINE m == Starts(b, r) + i
      <4>1. m \in 1..Len(req[r].output) /\ b.newTokens[r][i] = req[r].output[m]
        BY <3>1 DEF Carries
      <4>2. req[r].output[m][1] = PromptLen[r] + m  BY <3>1, <4>1 DEF InOrder
      <4>3. PromptLen[r] + m = PromptLen[r] + Starts(b, r) + i  BY <1>4, SpanFacts
      <4> QED  BY <4>1, <4>2, <4>3
    <3>3. r \in b.new => b.numOutput[r] = 0 /\ b.newTokens[r] = <<>>
      BY <1>4, <3>1, EmptyFacts DEF Carries
    <3> QED  BY <3>2, <3>3 DEF Tells
  <2> QED  BY <2>1, <2>2
<1>7. \A j \in 1..(L + 1) : Tells(queue'[j], r)  BY <1>2, <1>4, <1>5, <1>6 DEF ToldOnce
<1>8. ASSUME NEW i \in 1..(L + 1), NEW j \in 1..(L + 1), r \in queue'[i].finished, i <= j
      PROVE  queue'[j].n[r] = 0
  <2>1. CASE j \in 1..L
    <3>1. i \in 1..L  BY <1>1, <1>8, <2>1
    <3> QED  BY <1>2, <1>4, <1>8, <2>1, <3>1 DEF ToldOnce
  <2>2. CASE j = L + 1
    <3>1. r \in finishedIds \/ \E m \in 1..L : r \in queue[m].finished
      BY <1>4, <1>5, <1>8
    <3>2. req[r].status = "finished"  BY <3>1 DEF Shape, Announced
    <3> QED  BY <1>4, <2>2, <3>2
  <2> QED  BY <1>5, <2>1, <2>2
<1>9. ASSUME NEW i \in 1..L, queue[i].n[r] > 0, plan.n[r] > 0
      PROVE  queue[i].numOutput[r] = b.numOutput[r]
  <2>1. LiveState(req[r])  BY <1>4, <1>9 DEF LiveState
  <2>2. LinkAt(queue, req[r], r, i)  BY <1>9, <2>1 DEF Progress, Chained, ChainOf
  <2> QED  BY <1>4, <2>2 DEF LinkAt
<1>10. ASSUME NEW i \in 1..(L + 1), NEW j \in 1..(L + 1), queue'[i].n[r] > 0, queue'[j].n[r] > 0
       PROVE  queue'[i].numOutput[r] = queue'[j].numOutput[r]
  <2>1. CASE i \in 1..L /\ j \in 1..L  BY <1>2, <1>4, <1>10, <2>1 DEF ToldOnce
  <2>2. CASE i = L + 1 /\ j \in 1..L  BY <1>4, <1>9, <1>10, <2>2
  <2>3. CASE i \in 1..L /\ j = L + 1  BY <1>4, <1>9, <1>10, <2>3
  <2>4. CASE i = L + 1 /\ j = L + 1  BY <2>4
  <2> QED  BY <1>5, <2>1, <2>2, <2>3, <2>4
<1>11. ToldOnce(queue', r)  BY <1>4, <1>7, <1>8, <1>10 DEF ToldOnce
<1>12. ASSUME Unfinished(r)', NEW j \in 1..(L + 1), queue'[j].n[r] > 0,
              NEW i \in 1..Len(queue'[j].newTokens[r])
       PROVE  /\ Starts(queue'[j], r) + i \in 1..Len(req[r].output)
              /\ queue'[j].newTokens[r][i] = req[r].output[Starts(queue'[j], r) + i]
  <2>1. CASE j \in 1..L
    <3>1. Unfinished(r)  BY <1>4, <1>12 DEF Unfinished
    <3> QED  BY <1>2, <1>4, <1>12, <2>1, <3>1 DEF SentOf
  <2>2. CASE j = L + 1  BY <1>3, <1>4, <1>12, <2>2 DEF Carries
  <2> QED  BY <1>5, <2>1, <2>2
<1>13. Unfinished(r)' => SentOf(queue', req'[r], r)  BY <1>4, <1>12 DEF SentOf
<1> QED  BY <1>11, <1>13

LEMMA IssueInformed ==
  ASSUME TypedOver(Int), Shape, Progress, Copied, IssueBatch, NEW k \in Ranks, NEW r \in Requests
  PROVE  /\ Informed(queue', cached[k], executed[k], Met(r)', r)
         /\ k # LastRank => NoGap(queue', history[k][r], executed[k], Unfinished(r)',
                                  SentFrom(r)', r)
<1> DEFINE L == Len(queue)  b == Batch  c == cached[k]  e == executed[k]  h == history[k][r]
           f == SentFrom(r)  g == SentFrom(r)'
<1>1. /\ Issued(b) /\ queue \in Seq(BatchOver(Int)) /\ L \in Nat /\ e \in Nat /\ e <= L
  BY IssueLeaves, QueueFacts, RanksFacts DEF TypedOver, Shape, Order
<1>2. /\ Informed(queue, c, e, Met(r), r)
      /\ k # LastRank => NoGap(queue, h, e, Unfinished(r), f, r)
  BY DEF Copied, TokensSent, RankCopies, LastCopies
<1>3. plan.n[r] > 0 => Carries(b, r)  BY IssueCarries DEF Progress
<1>4. f \in Int /\ PromptLen[r] \in Nat /\ (g = f \/ plan.n[r] > 0)
  <2>1. plan.n[r] = 0 => req'[r] = req[r]  BY <1>1 DEF Issued
  <2>2. plan.n[r] \in Nat  BY <1>1 DEF Issued
  <2>3. req[r].sent \in Nat /\ PromptLen[r] \in Nat
    BY RequestFacts, EngineFacts DEF TypedOver, Numbers
  <2>4. f \in Int  BY <2>3, Max2 DEF SentFrom
  <2>5. req'[r] = req[r] => g = f  BY DEF SentFrom
  <2> HIDE DEF f, g
  <2> QED  BY <2>1, <2>2, <2>3, <2>4, <2>5
<1> HIDE DEF b, g
<1>5. /\ Len(queue') = L + 1 /\ queue'[L + 1] = b /\ \A j \in 1..L : queue'[j] = queue[j]
      /\ Continued(queue, queue') /\ b \in BatchOver(Int)
      /\ b.n[r] = plan.n[r] /\ b.new = plan.new /\ plan'.new = {}
      /\ plan.n[r] \in Nat
      /\ plan.n[r] > 0 => req[r].status = "running"
      /\ plan.n[r] = 0 => r \notin plan.new
      /\ req'[r].status = req[r].status /\ req'[r].output = req[r].output
  BY <1>1 DEF Issued, Continued
<1>6. ASSUME NEW j \in (e + 1)..(L + 1) PROVE (j \in (e + 1)..L /\ j \in 1..L) \/ j = L + 1
  BY <1>1
<1>7. L + 1 \in (e + 1)..(L + 1) /\ L + 1 \in Nat /\ L + 2 \in Nat /\ L <= L + 1
  BY <1>1
<1>8. ASSUME Met(r) \/ r \in b.new PROVE Hears(queue', c, e, r, L + 1)
  <2>1. CASE r \in b.new  BY <1>5, <1>7, <2>1 DEF Hears
  <2>2. CASE Met(r)
    <3>1. Hears(queue, c, e, r, L)  BY <1>2, <2>2 DEF Informed
    <3> HIDE DEF e, c
    <3> QED  BY <1>1, <1>5, <1>7, <3>1, HearsGrows
  <2> QED  BY <1>8, <2>1, <2>2
<1>9. ASSUME NEW j \in (e + 1)..(L + 1), queue'[j].n[r] > 0 PROVE Hears(queue', c, e, r, j)
  <2>1. CASE j \in (e + 1)..L /\ j \in 1..L
    <3>1. Hears(queue, c, e, r, j) /\ j \in Nat /\ j <= L /\ j <= j
      BY <1>2, <1>5, <1>9, <2>1 DEF Informed
    <3> HIDE DEF e, c
    <3> QED  BY <1>1, <1>5, <3>1, HearsGrows
  <2>2. CASE j = L + 1  BY <1>5, <1>8, <1>9, <2>2 DEF Met
  <2> QED  BY <1>6, <2>1, <2>2
<1>10. Met(r)' => Hears(queue', c, e, r, L + 1)
  <2>1. Met(r)' => Met(r) \/ r \in b.new  BY <1>5 DEF Met
  <2> QED  BY <1>8, <2>1
<1>11. Informed(queue', c, e, Met(r)', r)  BY <1>5, <1>9, <1>10 DEF Informed
<1>12. ASSUME k # LastRank PROVE NoGap(queue', h, e, Unfinished(r)', g, r)
  <2>1. NoGap(queue, h, e, Unfinished(r), f, r) /\ (Unfinished(r)' => Unfinished(r))
    BY <1>2, <1>5, <1>12 DEF Unfinished
  <2>2. ASSUME Unfinished(r)
        PROVE  /\ Gets(queue', h, e, r, f - PromptLen[r], L + 1)
               /\ Gets(queue', h, e, r, f - PromptLen[r], L + 2)
    <3>1. Gets(queue, h, e, r, f - PromptLen[r], L + 1)  BY <2>1, <2>2 DEF NoGap
    <3> HIDE DEF e, h, f
    <3>2. L + 1 <= L + 1 /\ L + 1 <= L + 2  BY <1>1
    <3> QED  BY <1>1, <1>5, <1>7, <3>1, <3>2, GetsGrows
  <2>3. ASSUME NEW j \in (e + 1)..(L + 1), queue'[j].n[r] > 0
        PROVE  Gets(queue', h, e, r, Starts(queue'[j], r), j)
    <3>1. CASE j \in (e + 1)..L /\ j \in 1..L
      <4>1. /\ Gets(queue, h, e, r, Starts(queue[j], r), j) /\ queue'[j] = queue[j]
            /\ j \in Nat /\ j <= L + 1 /\ j <= j
        BY <1>1, <1>5, <2>1, <2>3, <3>1 DEF NoGap
      <4> HIDE DEF e, h
      <4> QED  BY <1>1, <1>5, <4>1, GetsGrows
    <3>2. CASE j = L + 1
      <4>1. Unfinished(r) /\ Carries(b, r) /\ b.n[r] > 0
        BY <1>3, <1>5, <2>3, <3>2 DEF Unfinished
      <4>2. Starts(b, r) \in Int /\ Needs(b, r) \in Int /\ PromptLen[r] \in Nat
        BY <1>5, SpanFacts
      <4>3. CASE r \in b.new
        <5>1. Starts(b, r) <= 0
          <6>1. Needs(b, r) <= 0 /\ Len(b.newTokens[r]) = 0
            BY <4>1, <4>3, EmptyFacts DEF Carries
          <6> QED  BY <4>2, <6>1 DEF Starts
        <5>2. Len(h) \in Nat  BY RanksFacts DEF TypedOver, Numbers
        <5>3. Starts(b, r) <= Len(h)  BY <4>2, <5>1, <5>2
        <5> QED  BY <1>5, <3>2, <5>3 DEF Gets
      <4>4. CASE r \notin b.new
        <5>1. Starts(b, r) <= f - PromptLen[r]  BY <4>1, <4>4 DEF Carries
        <5>2. Gets(queue', h, e, r, f - PromptLen[r], L + 1)  BY <2>2, <4>1
        <5>3. \A x \in Int : f - PromptLen[r] <= x => Starts(b, r) <= x
          BY <1>4, <4>2, <5>1
        <5>4. Len(h) \in Int /\ \A i \in 1..(L + 1) : Needs(queue'[i], r) \in Int
          <6>1. \A i \in 1..(L + 1) : queue'[i] \in BatchOver(Int)
            BY <1>1, <1>5 DEF Issued
          <6>2. Len(h) \in Int  BY RanksFacts DEF TypedOver, Numbers
          <6> QED  BY <6>1, <6>2, SpanFacts
        <5>5. \A i \in (e + 1)..(L + 1 - 1) : i \in 1..(L + 1)  BY <1>1
        <5> HIDE DEF e, h, f
        <5>6. Gets(queue', h, e, r, Starts(b, r), L + 1)
          BY <5>2, <5>3, <5>4, <5>5 DEF Gets
        <5> QED  BY <1>5, <3>2, <5>6
      <4> QED  BY <4>3, <4>4
    <3> QED  BY <1>6, <3>1, <3>2
  <2>4. ASSUME Unfinished(r)' PROVE Gets(queue', h, e, r, g - PromptLen[r], L + 2)
    <3>1. CASE g = f  BY <2>1, <2>2, <2>4, <3>1
    <3>2. CASE g # f
      <4>1. plan.n[r] > 0 /\ Carries(b, r)  BY <1>3, <1>4, <3>2
      <4>2. g - PromptLen[r] = Needs(b, r)
        <5>1. req'[r].sent = req[r].sent => g = f  BY DEF g, SentFrom
        <5> QED  BY <3>2, <4>1, <5>1 DEF Carries, g
      <4>3. Needs(b, r) <= Needs(queue'[L + 1], r) /\ queue'[L + 1].n[r] > 0
        BY <1>5, <4>1, SpanFacts
      <4>4. L + 1 \in (e + 1)..(L + 2 - 1)  BY <1>1
      <4> QED  BY <4>2, <4>3, <4>4 DEF Gets
    <3> QED  BY <3>1, <3>2
  <2>5. L + 2 = Len(queue') + 1  BY <1>1, <1>5
  <2> QED  BY <1>5, <2>3, <2>4, <2>5 DEF NoGap
<1> QED  BY <1>11, <1>12 DEF g

LEMMA IssueCopied ==
  ASSUME TypedOver(Int), Shape, Progress, Copied, IssueBatch
  PROVE  Copied'
<1> DEFINE L == Len(queue)
<1>1. /\ Issued(Batch) /\ queue \in Seq(BatchOver(Int)) /\ L \in Nat
      /\ \A k \in Ranks : executed[k] \in Nat /\ executed[k] <= L
  BY IssueLeaves, QueueFacts, RanksFacts DEF TypedOver, Shape, Order
<1>2. /\ queue' \in Seq(BatchOver(Int)) /\ Len(queue') = L + 1 /\ queue'[L + 1] = Batch
      /\ \A j \in 1..L : queue'[j] = queue[j]
      /\ \A r \in Requests : /\ Batch.n[r] = plan.n[r] /\ Batch.numOutput[r] = Len(req[r].output)
                             /\ req'[r].status = req[r].status /\ req'[r].output = req[r].output
                             /\ req'[r].stale = req[r].stale /\ req'[r].dropStale = req[r].dropStale
                             /\ plan.n[r] > 0 => req[r].status = "running"
      /\ results' = results /\ executed' = executed /\ cached' = cached
      /\ batchReqs' = batchReqs /\ history' = history /\ row' = row
  BY <1>1 DEF Issued, Continued
<1>3. \A r \in Requests : Unfinished(r)' <=> Unfinished(r)  BY <1>2 DEF Unfinished
<1>4. LastRank \in Ranks  BY EngineFacts
<1>5. ASSUME NEW k \in Ranks, NEW r \in Requests
      PROVE  RowRight(queue', executed[k], cached[k], batchReqs[k], history[k][r], row[k][r], r)
  <2>1. RowRight(queue, executed[k], cached[k], batchReqs[k], history[k][r], row[k][r], r)
    BY DEF Copied, TokensSent, RankCopies, LastCopies
  <2>2. executed[k] > 0 => queue'[executed[k]] = queue[executed[k]]  BY <1>1, <1>2
  <2> QED  BY <2>1, <2>2 DEF RowRight
<1>6. ASSUME NEW k \in Ranks \ {LastRank}, NEW r \in Requests, Unfinished(r)'
      PROVE  PrefixOf(history[k][r], req[r].output)
  BY <1>3, <1>6 DEF Copied, TokensSent, RankCopies, LastCopies
<1>7. ASSUME NEW r \in Requests, Unfinished(r)'
      PROVE  PrefixOf(req[r].output, history[LastRank][r])
  BY <1>3, <1>7 DEF Copied, TokensSent, RankCopies, LastCopies
<1>8. ASSUME NEW r \in Requests
      PROVE  Keeps(queue', history[LastRank][r], executed[LastRank], r)
  <2> SUFFICES ASSUME NEW j \in (executed[LastRank] + 1)..(L + 1), queue'[j].n[r] > 0
               PROVE  queue'[j].numOutput[r] <= Len(history[LastRank][r])
    BY <1>2 DEF Keeps
  <2>1. CASE j = L + 1
    <3>1. req[r].status = "running" /\ queue'[j].numOutput[r] = Len(req[r].output)
      BY <1>2, <2>1
    <3>2. Unfinished(r)'  BY <1>3, <3>1 DEF Unfinished
    <3> QED  BY <1>7, <3>1, <3>2 DEF PrefixOf
  <2>2. CASE j # L + 1
    <3>1. j \in (executed[LastRank] + 1)..L /\ j \in 1..L  BY <1>1, <1>4, <2>2
    <3> QED  BY <1>2, <3>1 DEF Copied, LastCopies, Keeps
  <2> QED  BY <2>1, <2>2
<1>9. ASSUME NEW r \in Requests, Unfinished(r)'
      PROVE  SampledAfter(queue', results, req'[r], history[LastRank][r], r)
  <2> SUFFICES ASSUME NEW j \in 1..Len(results), queue'[j].n[r] > 0,
                      DeliveredAt(queue', req'[r], r, j), NEW i \in 1..Len(results[j][r])
               PROVE  history[LastRank][r][Len(req'[r].output) + i] = results[j][r][i]
    BY DEF SampledAfter
  <2>1. j \in 1..L /\ j \in 0..L /\ queue'[j] = queue[j]  BY <1>1, <1>2, ResultsFacts
  <2>2. Flight(queue', r, j) = Flight(queue, r, j)  BY <1>1, <1>2, <2>1, FlightGrows
  <2>3. DeliveredAt(queue, req[r], r, j)  BY <1>2, <2>1, <2>2 DEF DeliveredAt, FreshAt
  <2>4. SampledAfter(queue, results, req[r], history[LastRank][r], r)
    BY <1>3, <1>9 DEF Copied, TokensSent, RankCopies, LastCopies
  <2> QED  BY <1>2, <2>1, <2>3, <2>4 DEF SampledAfter
<1>10. \A r \in Requests : ToldOnce(queue', r) /\ (Unfinished(r)' => SentOf(queue', req'[r], r))
  BY IssueTold
<1>11. \A k \in Ranks, r \in Requests :
         /\ Informed(queue', cached[k], executed[k], Met(r)', r)
         /\ k # LastRank => NoGap(queue', history[k][r], executed[k], Unfinished(r)',
                                  SentFrom(r)', r)
  BY IssueInformed
<1>12. ASSUME NEW r \in Requests PROVE TokensSent(r)' /\ LastCopies(r)'
  <2>1. TokensSent(r)'  BY <1>10 DEF TokensSent
  <2>2. LastCopies(r)'  BY <1>2, <1>7, <1>8, <1>9 DEF LastCopies
  <2> QED  BY <2>1, <2>2
<1>13. ASSUME NEW k \in Ranks, NEW r \in Requests PROVE RankCopies(k, r)'
  BY <1>2, <1>5, <1>6, <1>11 DEF RankCopies
<1> QED  BY <1>12, <1>13 DEF Copied

---------------------------------------------------------------------------
(* Steps that neither issue nor return a batch *)

LEMMA UndisturbedSteps ==
  ASSUME TypedOver(Int), Shape, Books, [Next]_vars, ~IssueBatch, ~UpdateFromOutput,
         NEW r \in Requests
  PROVE  queue' = queue /\ Undisturbed(r)
<1>1. /\ TypedOver(Int)' /\ Shape'
      /\ \/ Still /\ QuietStep(r)
         \/ SampleBatch
         \/ PostStep
  BY Steps
<1>2. SameSent(r)  BY SentSteps
<1>3. Met(r)' => Met(r)  BY <1>2 DEF SameSent
<1>4. Unfinished(r)' => Unfinished(r) /\ SentFrom(r)' = SentFrom(r)
  BY <1>2 DEF SameSent, SentFrom
<1>5. CASE Still /\ QuietStep(r)
  <2>1. queue' = queue  BY <1>5 DEF Still
  <2>2. Unfinished(r)' => req'[r].output = req[r].output
    BY <1>5 DEF QuietStep, Untouched, Added, NewRequest, Aborted, Evicted, GivenTokens, TakenIn,
                SameProgress, Unfinished
  <2>3. ASSUME Unfinished(r)', NEW j \in 1..Len(queue), DeliveredAt(queue, req'[r], r, j)
        PROVE  DeliveredAt(queue, req[r], r, j)
    <3>1. queue[j].n[r] > 0  BY <2>3 DEF DeliveredAt
    <3>2. LiveState(req'[r])
      <4>1. req'[r].status # "new"
        <5>1. req'[r].status = "new" => queue[j].n[r] = 0
          BY <1>1, <2>1 DEF Shape, AtRest
        <5> QED  BY <3>1, <5>1
      <4>2. req'[r] \in RequestOver(Int)  BY <1>1 DEF TypedOver, SchedulerOver
      <4> QED  BY <2>3, <4>1, <4>2 DEF LiveState, RequestOver, Unfinished
    <3>3. ~NoneInFlight(queue, r)  BY <3>1 DEF NoneInFlight
    <3>4. Continues(queue, req[r], req'[r], r)
      BY <1>5, <3>2, <3>3, QuietContinues DEF Books, Accounted
    <3> QED  BY <2>3, <3>4 DEF Continues
  <2> QED  BY <1>3, <1>4, <2>1, <2>2, <2>3 DEF Undisturbed
<1>6. CASE SampleBatch
  <2>1. queue' = queue /\ req' = req  BY <1>6 DEF SampleBatch, scheduler, engine
  <2> QED  BY <1>3, <1>4, <2>1 DEF Undisturbed
<1>7. CASE PostStep
  <2>1. /\ queue' = queue /\ req'[r].output = req[r].output /\ req'[r].stale = req[r].stale
        /\ req'[r].dropStale = req[r].dropStale
    BY <1>7, PostStepFacts, QueueFacts
  <2> QED  BY <1>3, <1>4, <2>1 DEF Undisturbed, DeliveredAt, FreshAt
<1> QED  BY <1>1, <1>5, <1>6, <1>7

LEMMA SentKept ==
  ASSUME NEW r \in Requests, queue' = queue, Undisturbed(r), TokensSent(r)
  PROVE  TokensSent(r)'
BY DEF TokensSent, Undisturbed, SentOf

\* A rank that does nothing.
LEMMA RankKept ==
  ASSUME NEW k \in Ranks, NEW r \in Requests, queue' = queue, Undisturbed(r), RankCopies(k, r),
         executed'[k] = executed[k], cached'[k] = cached[k], batchReqs'[k] = batchReqs[k],
         history'[k] = history[k], row'[k] = row[k]
  PROVE  RankCopies(k, r)'
<1>1. /\ RowRight(queue, executed[k], cached[k], batchReqs[k], history[k][r], row[k][r], r)
      /\ Informed(queue, cached[k], executed[k], Met(r)', r)
  BY DEF RankCopies, Informed, Undisturbed
<1>2. ASSUME k # LastRank
      PROVE  NoGap(queue, history[k][r], executed[k], Unfinished(r)', SentFrom(r)', r)
  BY <1>2 DEF RankCopies, NoGap, Undisturbed
<1>3. ASSUME k # LastRank, Unfinished(r)' PROVE PrefixOf(history[k][r], req'[r].output)
  BY <1>3 DEF RankCopies, Undisturbed
<1> QED  BY <1>1, <1>2, <1>3 DEF RankCopies

LEMMA LastKept ==
  ASSUME TypedOver(Int), Shape, NEW r \in Requests, queue' = queue, Undisturbed(r), LastCopies(r),
         executed'[LastRank] = executed[LastRank], history'[LastRank] = history[LastRank],
         results' = results
  PROVE  LastCopies(r)'
<1>1. Keeps(queue, history[LastRank][r], executed[LastRank], r)'
  BY DEF LastCopies, Keeps
<1>2. ASSUME Unfinished(r)'
      PROVE  /\ PrefixOf(req'[r].output, history[LastRank][r])
             /\ SampledAfter(queue, results, req'[r], history[LastRank][r], r)
  <2>1. /\ PrefixOf(req[r].output, history[LastRank][r])
        /\ SampledAfter(queue, results, req[r], history[LastRank][r], r)
        /\ req'[r].output = req[r].output
    BY <1>2 DEF LastCopies, Undisturbed
  <2>2. \A j \in 1..Len(results) : DeliveredAt(queue, req'[r], r, j) =>
                                     DeliveredAt(queue, req[r], r, j)
    BY <1>2, ResultsFacts DEF Undisturbed
  <2> QED  BY <2>1, <2>2 DEF SampledAfter
<1> QED  BY <1>1, <1>2 DEF LastCopies

---------------------------------------------------------------------------
(* A rank executes a batch *)

\* What rank k has of r when it is sent more of it.
LEMMA Received ==
  ASSUME RanksOver(Int), NEW k \in Ranks, k # LastRank, NEW b \in BatchOver(Int),
         NEW r \in Requests, b.n[r] > 0, r \notin b.new, Starts(b, r) <= Len(history[k][r])
  PROVE  LET h == history[k][r]
             s == UpdatedHistory(k, b, r)
         IN  /\ s \in Seq(TokenOver(Int)) /\ Len(h) <= Len(s) /\ Needs(b, r) <= Len(s)
             /\ \A i \in 1..Len(h) : s[i] = h[i]
             /\ \A i \in 1..Len(s) : \/ i \in 1..Len(h)
                                     \/ /\ i - Starts(b, r) \in 1..Len(b.newTokens[r])
                                        /\ s[i] = b.newTokens[r][i - Starts(b, r)]
             /\ row[k][r] = (IF r \in batchReqs[k] THEN h ELSE <<>>)
                  => UpdatedRow(k, b, r) = s
<1>0. history[k][r] \in Seq(TokenOver(Int)) /\ Len(history[k][r]) \in Nat
  <2>1. history[k][r] \in Seq(TokenOver(Int))  BY RanksFacts
  <2> QED  BY <2>1
<1> DEFINE h == history[k][r]  s == UpdatedHistory(k, b, r)  t == b.newTokens[r]
           n == Len(t)  m == Len(h)  S == Starts(b, r)  P == PromptLen[r]  B == Base(b, r)
           d == m - S  x == P + m - (B - n)
<1>1. /\ h \in Seq(TokenOver(Int)) /\ m \in Nat /\ t \in Seq(TokenOver(Int)) /\ n \in Nat
      /\ S \in Int /\ P \in Nat /\ Needs(b, r) = S + n /\ B = P + Needs(b, r) /\ S <= m
  <2>1. /\ S \in Int /\ P \in Nat /\ Needs(b, r) = S + n /\ B = P + Needs(b, r) /\ n \in Nat
        /\ t \in Seq(TokenOver(Int))
    BY SpanFacts
  <2>2. h \in Seq(TokenOver(Int)) /\ m \in Nat  BY <1>0
  <2>3. S <= m  OBVIOUS
  <2> QED  BY <2>1, <2>2, <2>3
<1>2. s = h \o SubSeq(t, Max({0, x}) + 1, n)  BY Zenon DEF UpdatedHistory, Scheduled
<1> HIDE DEF h, s, t, n, m, S, P, B
<1>3. x = d /\ d \in Nat  BY <1>1
<1> HIDE DEF x, d
<1>4. Max({0, x}) = d  BY <1>3, Max2
<1> DEFINE w == SubSeq(t, d + 1, n)
<1>5. s = h \o w  BY <1>2, <1>4
<1>6. /\ w \in Seq(TokenOver(Int)) /\ Len(w) = IF d + 1 <= n THEN n - (d + 1) + 1 ELSE 0
      /\ \A i \in 1..(n - (d + 1) + 1) : w[i] = t[(d + 1) + i - 1]
  <2> DEFINE e == d + 1
  <2>1. e \in Nat /\ e >= 1 /\ n \in Int /\ n <= Len(t)  BY <1>1, <1>3 DEF n
  <2>2. t \in Seq(TokenOver(Int))  BY <1>1
  <2> HIDE DEF e, w
  <2>3. w = SubSeq(t, e, n)  BY DEF e, w
  <2>4. /\ SubSeq(t, e, n) \in Seq(TokenOver(Int))
        /\ Len(SubSeq(t, e, n)) = IF e <= n THEN n - e + 1 ELSE 0
        /\ \A i \in 1..(n - e + 1) : SubSeq(t, e, n)[i] = t[e + i - 1]
    BY <2>1, <2>2, SubSeqFacts
  <2> QED  BY <2>3, <2>4 DEF e
<1> HIDE DEF w
<1>7. /\ s \in Seq(TokenOver(Int)) /\ Len(s) = m + Len(w)
      /\ \A i \in 1..m : s[i] = h[i]
      /\ \A i \in 1..Len(w) : s[m + i] = w[i]
  BY <1>1, <1>5, <1>6, CatFacts DEF m
<1>8. m <= Len(s) /\ Needs(b, r) <= Len(s) /\ Len(w) \in Nat
  BY <1>1, <1>3, <1>6, <1>7 DEF d
<1>9. ASSUME NEW i \in 1..Len(s), i \notin 1..m
      PROVE  i - S \in 1..n /\ s[i] = t[i - S]
  <2> DEFINE j == i - m
  <2>1. j \in 1..Len(w) /\ i = m + j  BY <1>1, <1>7, <1>8, <1>9
  <2> HIDE DEF j
  <2>2. d + 1 <= n /\ j \in 1..(n - (d + 1) + 1)  BY <1>1, <1>3, <1>6, <2>1
  <2>3. (d + 1) + j - 1 = i - S /\ i - S \in 1..n  BY <1>1, <1>3, <2>1, <2>2 DEF d
  <2>4. s[m + j] = w[j] /\ w[j] = t[(d + 1) + j - 1]  BY <1>6, <1>7, <2>1, <2>2
  <2> QED  BY <2>1, <2>3, <2>4
<1>10. ASSUME row[k][r] = (IF r \in batchReqs[k] THEN h ELSE <<>>)
       PROVE  UpdatedRow(k, b, r) = s
  <2>1. r \in Scheduled(b)  BY DEF Scheduled
  <2>2. CASE r \in b.new \union b.resumed \/ r \notin batchReqs[k]
    BY <2>1, <2>2 DEF UpdatedRow, s
  <2>3. CASE ~(r \in b.new \union b.resumed \/ r \notin batchReqs[k])
    <3>1. row[k][r] = h  BY <1>10, <2>3
    <3>2. UpdatedRow(k, b, r) = h \o SubSeq(s, m + 1, Len(s))
      BY <2>1, <2>3, <3>1, Zenon DEF UpdatedRow, s, h, m
    <3>3. h \o SubSeq(s, m + 1, Len(s)) = s  BY <1>1, <1>7, <1>8, CutAndPaste DEF m
    <3> QED  BY <3>2, <3>3
  <2> QED  BY <2>2, <2>3
<1>11. \A i \in 1..Len(s) : i \in 1..m \/ (i - S \in 1..n /\ s[i] = t[i - S])  BY <1>9
<1> QED  BY <1>7, <1>8, <1>10, <1>11 DEF h, s, t, n, m, S

LEMMA TakesFacts ==
  ASSUME RanksOver(Int), NEW k \in Ranks, executed[k] < Len(queue),
         UpdateStates(k, NextBatch(k)), NEW h, NEW w,
         history' = [history EXCEPT ![k] = h], row' = [row EXCEPT ![k] = w]
  PROVE  Takes(k, NextBatch(k)) /\ history'[k] = h /\ row'[k] = w
<1> DEFINE b == NextBatch(k)
<1>1. /\ executed \in [Ranks -> Nat] /\ cached \in [Ranks -> SUBSET Requests]
      /\ batchReqs \in [Ranks -> SUBSET Requests]
      /\ history \in [Ranks -> [Requests -> Seq(TokenOver(Int))]]
      /\ row \in [Ranks -> [Requests -> Seq(TokenOver(Int))]]
  BY DEF RanksOver
<1>2. b \in BatchOver(Int) /\ executed[k] + 1 \in 1..Len(queue)  BY NextBatchType
<1> HIDE DEF b
<1>3. /\ executed'[k] = executed[k] + 1 /\ batchReqs'[k] = Scheduled(b)
      /\ cached'[k] = (cached[k] \ b.finished) \union b.new
  BY <1>1 DEF UpdateStates, b
<1>4. \A l \in Ranks : l # k => executed'[l] = executed[l] /\ cached'[l] = cached[l]
                                /\ batchReqs'[l] = batchReqs[l]
  BY <1>1 DEF UpdateStates
<1>5. /\ history'[k] = h /\ row'[k] = w
      /\ \A l \in Ranks : l # k => history'[l] = history[l] /\ row'[l] = row[l]
  BY <1>1
<1> QED  BY <1>1, <1>2, <1>3, <1>4, <1>5 DEF Takes, b

\* Of a request announced as finished nothing more is in the batches.
LEMMA OverWhenFinished ==
  ASSUME TypedOver(Int), Shape, NEW k \in Ranks, NEW b, Takes(k, b), NEW r \in Requests,
         TokensSent(r), r \in b.finished
  PROVE  /\ \A j \in (executed[k] + 1)..Len(queue) : ~(queue[j].n[r] > 0)
         /\ b.n[r] = 0 /\ ~Unfinished(r) /\ ~Met(r)
<1>1. /\ b = queue[executed[k] + 1] /\ executed[k] + 1 \in 1..Len(queue)
      /\ Len(queue) \in Nat /\ executed[k] \in Nat
  BY QueueFacts DEF Takes, NextBatch
<1>2. \A i, j \in 1..Len(queue) : r \in queue[i].finished /\ i <= j => queue[j].n[r] = 0
  BY DEF TokensSent, ToldOnce
<1>3. \A j \in (executed[k] + 1)..Len(queue) : j \in 1..Len(queue) /\ executed[k] + 1 <= j
  BY <1>1
<1>4. executed[k] + 1 <= executed[k] + 1  BY <1>1
<1>5. req[r].status = "finished"  BY <1>1 DEF Shape, Announced
<1> QED  BY <1>1, <1>2, <1>3, <1>4, <1>5 DEF Unfinished, Met

LEMMA StillHears ==
  ASSUME TypedOver(Int), NEW k \in Ranks, NEW b, Takes(k, b), NEW r \in Requests,
         r \notin b.finished, NEW j \in Nat, Hears(queue, cached[k], executed[k], r, j)
  PROVE  Hears(queue, cached'[k], executed'[k], r, j)
<1>1. /\ b = queue[executed[k] + 1] /\ executed[k] \in Nat
      /\ executed'[k] = executed[k] + 1
      /\ cached'[k] = (cached[k] \ b.finished) \union b.new
  BY DEF Takes, NextBatch
<1>2. CASE r \in cached[k] \/ r \in b.new  BY <1>1, <1>2 DEF Hears
<1>3. CASE ~(r \in cached[k] \/ r \in b.new)
  <2>1. PICK i \in (executed[k] + 1)..j : r \in queue[i].new  BY <1>3 DEF Hears
  <2>2. i # executed[k] + 1  BY <1>1, <1>3, <2>1
  <2>3. i \in (executed'[k] + 1)..j  BY <1>1, <2>1, <2>2
  <2> QED  BY <2>1, <2>3 DEF Hears
<1> QED  BY <1>2, <1>3

LEMMA TakesInformed ==
  ASSUME TypedOver(Int), Shape, NEW k \in Ranks, NEW b, Takes(k, b), NEW r \in Requests,
         TokensSent(r), Informed(queue, cached[k], executed[k], Met(r), r), Met(r)' => Met(r)
  PROVE  /\ Informed(queue, cached'[k], executed'[k], Met(r)', r)
         /\ b.n[r] > 0 => r \in cached'[k]
<1> DEFINE e == executed[k]  L == Len(queue)
<1>1. /\ b = queue[e + 1] /\ e \in Nat /\ L \in Nat /\ executed'[k] = e + 1 /\ e + 1 \in 1..L
      /\ cached'[k] = (cached[k] \ b.finished) \union b.new
  BY QueueFacts DEF Takes, NextBatch
<1>2. CASE r \in b.finished
  <2>1. /\ \A j \in (e + 1)..L : ~(queue[j].n[r] > 0)
        /\ b.n[r] = 0 /\ ~Met(r)
    BY <1>2, OverWhenFinished
  <2>2. \A j \in (e + 1 + 1)..L : j \in (e + 1)..L  BY <1>1
  <2> QED  BY <1>1, <2>1, <2>2 DEF Informed
<1>3. CASE r \notin b.finished
  <2>1. \A j \in (e + 1)..L : j \in Nat  BY <1>1
  <2>2. ASSUME NEW j \in (e + 1)..L, queue[j].n[r] > 0
        PROVE  Hears(queue, cached'[k], executed'[k], r, j)
    BY <1>3, <2>1, <2>2, StillHears DEF Informed
  <2>3. Met(r)' => Hears(queue, cached'[k], executed'[k], r, L)
    BY <1>1, <1>3, StillHears DEF Informed
  <2>4. \A j \in (e + 1 + 1)..L : j \in (e + 1)..L  BY <1>1
  <2>5. ASSUME b.n[r] > 0 PROVE r \in cached'[k]
    <3>1. e + 1 \in (e + 1)..L  BY <1>1
    <3>2. Hears(queue, cached'[k], e + 1, r, e + 1)  BY <1>1, <2>2, <2>5, <3>1
    <3>3. \A i \in (e + 1 + 1)..(e + 1) : FALSE  BY <1>1
    <3> QED  BY <3>2, <3>3 DEF Hears
  <2> QED  BY <1>1, <2>2, <2>3, <2>4, <2>5 DEF Informed
<1> QED  BY <1>2, <1>3

LEMMA TakesRow ==
  ASSUME TypedOver(Int), NEW k \in Ranks, NEW b, Takes(k, b), NEW r \in Requests,
         b.n[r] > 0 => r \in cached'[k] /\ Needs(b, r) <= Len(history'[k][r]),
         InOrder(r, history'[k][r]),
         row'[k][r] = IF b.n[r] > 0 THEN history'[k][r] ELSE <<>>
  PROVE  RowRight(queue, executed'[k], cached'[k], batchReqs'[k], history'[k][r], row'[k][r], r)
<1>1. /\ b = queue[executed'[k]] /\ batchReqs'[k] = Scheduled(b)
  BY DEF Takes, NextBatch
<1>2. r \in Scheduled(b) <=> b.n[r] > 0  BY DEF Scheduled
<1> QED  BY <1>1, <1>2 DEF RowRight

LEMMA StillGets ==
  ASSUME TypedOver(Int), NEW k \in Ranks, NEW b, Takes(k, b), NEW r \in Requests,
         Len(history[k][r]) <= Len(history'[k][r]), history'[k][r] \in Seq(TokenOver(Int)),
         b.n[r] > 0 => Needs(b, r) <= Len(history'[k][r]), NEW x \in Int, NEW j \in Nat,
         Gets(queue, history[k][r], executed[k], r, x, j)
  PROVE  Gets(queue, history'[k][r], executed'[k], r, x, j)
<1> DEFINE m == Len(history[k][r])  n == Len(history'[k][r])
<1>1. /\ b = queue[executed[k] + 1] /\ executed[k] \in Nat /\ b \in BatchOver(Int)
      /\ executed'[k] = executed[k] + 1
  BY DEF Takes, NextBatch
<1>2. Needs(b, r) \in Int /\ m \in Nat /\ n \in Nat /\ m <= n
  <2>1. m \in Nat  BY RanksFacts DEF TypedOver
  <2>2. Needs(b, r) \in Int  BY <1>1, SpanFacts
  <2> QED  BY <2>1, <2>2
<1>3. CASE x <= m
  <2>1. x <= n  BY <1>2, <1>3
  <2> QED  BY <2>1 DEF Gets
<1>4. CASE ~(x <= m)
  <2>1. PICK i \in (executed[k] + 1)..(j - 1) : queue[i].n[r] > 0 /\ x <= Needs(queue[i], r)
    BY <1>4 DEF Gets
  <2>2. CASE i = executed[k] + 1
    <3>1. x <= n  BY <1>1, <1>2, <2>1, <2>2
    <3> QED  BY <3>1 DEF Gets
  <2>3. CASE i # executed[k] + 1
    <3>1. i \in (executed'[k] + 1)..(j - 1)  BY <1>1, <2>1, <2>3
    <3> QED  BY <2>1, <3>1 DEF Gets
  <2> QED  BY <2>2, <2>3
<1> QED  BY <1>3, <1>4

LEMMA LinkInFlight ==
  ASSUME TypedOver(Int), Shape, Progress, NEW r \in Requests, Unfinished(r),
         NEW j \in 1..Len(queue), queue[j].n[r] > 0
  PROVE  LinkAt(queue, req[r], r, j)
<1>1. LiveState(req[r])  BY LiveInFlight
<1> QED  BY <1>1 DEF Progress, Chained, ChainOf

LEMMA NeedsKnown ==
  ASSUME NEW b \in BatchOver(Int), NEW r \in Requests, BatchFits(b, r), b.n[r] > 0
  PROVE  Needs(b, r) <= b.numOutput[r] /\ Starts(b, r) <= Needs(b, r)
<1> DEFINE c == b.computed[r]  n == b.n[r]  d == b.spec[r].len  P == PromptLen[r]
           m == b.numOutput[r]
<1>1. /\ c \in Int /\ n \in Nat /\ d \in Nat /\ P \in Nat /\ m \in Nat
      /\ Base(b, r) = c + n - d
  BY BatchFacts, EngineFacts DEF Numbers
<1>2. c + n <= P + m + d  BY DEF BatchFits, Fits
<1>3. Needs(b, r) = c + n - d - P  BY <1>1 DEF Needs
<1>4. Needs(b, r) = Starts(b, r) + Len(b.newTokens[r]) /\ Len(b.newTokens[r]) \in Nat
      /\ Starts(b, r) \in Int
  BY SpanFacts
<1> HIDE DEF c, n, d, P, m
<1>5. Needs(b, r) <= m  BY <1>1, <1>2, <1>3
<1>6. Starts(b, r) <= Needs(b, r)  BY <1>4
<1> QED  BY <1>5, <1>6 DEF m

LEMMA StillNoGap ==
  ASSUME TypedOver(Int), NEW k \in Ranks, NEW b, Takes(k, b), NEW r \in Requests,
         Len(history[k][r]) <= Len(history'[k][r]), history'[k][r] \in Seq(TokenOver(Int)),
         b.n[r] > 0 => Needs(b, r) <= Len(history'[k][r]),
         NoGap(queue, history[k][r], executed[k], Unfinished(r), SentFrom(r), r)
  PROVE  NoGap(queue, history'[k][r], executed'[k], Unfinished(r), SentFrom(r), r)
<1> DEFINE e == executed[k]  L == Len(queue)
<1>1. /\ e \in Nat /\ L \in Nat /\ executed'[k] = e + 1 /\ queue \in Seq(BatchOver(Int))
  BY QueueFacts DEF Takes
<1>2. \A j \in (e + 1 + 1)..L : j \in (e + 1)..L /\ j \in Nat /\ j \in 1..L  BY <1>1
<1>3. \A j \in 1..L : Starts(queue[j], r) \in Int  BY <1>1, SpanFacts
<1>4. SentFrom(r) - PromptLen[r] \in Int /\ L + 1 \in Nat
  <2>1. req[r].sent \in Nat /\ PromptLen[r] \in Nat
    BY RequestFacts, EngineFacts DEF TypedOver, Numbers
  <2> QED  BY <1>1, <2>1, Max2 DEF SentFrom
<1>5. ASSUME NEW j \in (e + 1 + 1)..L, queue[j].n[r] > 0
      PROVE  Gets(queue, history'[k][r], executed'[k], r, Starts(queue[j], r), j)
  BY <1>2, <1>3, <1>5, StillGets DEF NoGap
<1>6. ASSUME Unfinished(r)
      PROVE  Gets(queue, history'[k][r], executed'[k], r, SentFrom(r) - PromptLen[r], L + 1)
  BY <1>4, <1>6, StillGets DEF NoGap
<1> QED  BY <1>1, <1>5, <1>6 DEF NoGap

\* A request that is not in the batch, announced as finished or not.
LEMMA ExecutesWithout ==
  ASSUME TypedOver(Int), Shape, Progress, NEW k \in Ranks, k # LastRank, NEW b, Takes(k, b),
         NEW r \in Requests, TokensSent(r), RankCopies(k, r), ~(b.n[r] > 0), BatchFits(b, r),
         history'[k][r] = IF r \in b.finished THEN <<>> ELSE UpdatedHistory(k, b, r),
         row'[k][r] = UpdatedRow(k, b, r)
  PROVE  Copies(k, b, r)
<1>1. r \notin b.new /\ r \notin Scheduled(b)  BY DEF BatchFits, Scheduled
<1>2. row'[k][r] = <<>> /\ UpdatedHistory(k, b, r) = history[k][r]
  BY <1>1 DEF UpdatedRow, UpdatedHistory
<1>3. history[k][r] \in Seq(TokenOver(Int))  BY RanksFacts DEF TypedOver
<1>4. CASE r \in b.finished
  <2>1. history'[k][r] = <<>>  BY <1>4
  <2>2. /\ \A j \in (executed[k] + 1)..Len(queue) : ~(queue[j].n[r] > 0)
        /\ ~Unfinished(r)
    BY <1>4, OverWhenFinished
  <2>3. \A j \in (executed'[k] + 1)..Len(queue) : j \in (executed[k] + 1)..Len(queue)
    BY QueueFacts DEF Takes
  <2>4. NoGap(queue, history'[k][r], executed'[k], Unfinished(r), SentFrom(r), r)
    BY <2>2, <2>3 DEF NoGap
  <2>5. history'[k][r] \in Seq(TokenOver(Int)) /\ InOrder(r, history'[k][r])
    <3>1. /\ <<>> \in Seq(TokenOver(Int)) /\ Len(<<>>) = 0
          /\ \A i \in 1..0 : FALSE
      BY EmptyFacts
    <3> QED  BY <2>1, <3>1 DEF InOrder
  <2> QED  BY <1>2, <2>2, <2>4, <2>5 DEF Copies
<1>5. CASE r \notin b.finished
  <2>1. history'[k][r] = history[k][r]  BY <1>2, <1>5
  <2>2. /\ InOrder(r, history[k][r]) /\ (Unfinished(r) => PrefixOf(history[k][r], req[r].output))
        /\ NoGap(queue, history[k][r], executed[k], Unfinished(r), SentFrom(r), r)
    BY DEF RankCopies, RowRight
  <2>3. Len(history[k][r]) <= Len(history'[k][r])  BY <1>3, <2>1
  <2>4. NoGap(queue, history'[k][r], executed'[k], Unfinished(r), SentFrom(r), r)
    BY <1>3, <2>1, <2>2, <2>3, StillNoGap
  <2> QED  BY <1>2, <1>3, <2>1, <2>2, <2>4 DEF Copies
<1> QED  BY <1>4, <1>5

LEMMA ExecutesNew ==
  ASSUME TypedOver(Int), Shape, Progress, NEW k \in Ranks, k # LastRank, NEW b, Takes(k, b),
         NEW r \in Requests, TokensSent(r), RankCopies(k, r), b.n[r] > 0, r \in b.new,
         history'[k][r] = UpdatedHistory(k, b, r), row'[k][r] = UpdatedRow(k, b, r)
  PROVE  Copies(k, b, r)
<1> DEFINE e == executed[k]  L == Len(queue)
<1>1. /\ b = queue[e + 1] /\ e \in Nat /\ e + 1 \in 1..L /\ b \in BatchOver(Int)
      /\ executed'[k] = e + 1 /\ L \in Nat /\ queue \in Seq(BatchOver(Int))
  BY QueueFacts DEF Takes, NextBatch
<1>2. history'[k][r] = <<>> /\ row'[k][r] = <<>>
  BY DEF UpdatedHistory, UpdatedRow, Scheduled
<1>3. history'[k][r] \in Seq(TokenOver(Int)) /\ Len(history'[k][r]) = 0
      /\ InOrder(r, history'[k][r])
  BY <1>2, EmptyFacts DEF InOrder
<1>4. b.numOutput[r] = 0  BY <1>1 DEF TokensSent, ToldOnce, Tells
<1>5. ASSUME NEW j \in 1..L, queue[j].n[r] > 0
      PROVE  /\ Needs(queue[j], r) \in Int /\ Starts(queue[j], r) \in Int
             /\ Needs(queue[j], r) <= 0 /\ Starts(queue[j], r) <= 0
  <2>1. queue[j].numOutput[r] = 0  BY <1>1, <1>4, <1>5 DEF TokensSent, ToldOnce
  <2>2. queue[j] \in BatchOver(Int) /\ BatchFits(queue[j], r)
    BY <1>1 DEF Progress, BatchesFit
  <2>3. Needs(queue[j], r) \in Int /\ Starts(queue[j], r) \in Int  BY <2>2, SpanFacts
  <2> QED  BY <1>5, <2>1, <2>2, <2>3, NeedsKnown
<1>6. \A i \in (e + 1)..L : i \in 1..L  BY <1>1
<1>7. ASSUME Unfinished(r) PROVE SentFrom(r) - PromptLen[r] <= 0 /\ Len(req[r].output) = 0
  <2>1. LinkAt(queue, req[r], r, e + 1)  BY <1>1, <1>7, LinkInFlight
  <2>2. req[r].output = <<>>  BY <1>1, <2>1 DEF LinkAt
  <2>3. Len(req[r].output) = 0  BY <2>2
  <2>4. /\ PrefixOf(history[k][r], req[r].output)
        /\ Gets(queue, history[k][r], e, r, SentFrom(r) - PromptLen[r], L + 1)
    BY <1>7 DEF RankCopies, NoGap
  <2>5. history[k][r] \in Seq(TokenOver(Int)) /\ Len(history[k][r]) <= 0
    BY <2>3, <2>4, RanksFacts DEF PrefixOf, TypedOver
  <2>6. SentFrom(r) - PromptLen[r] \in Int
    <3>1. req[r].sent \in Nat /\ PromptLen[r] \in Nat
      BY RequestFacts, EngineFacts DEF TypedOver, Numbers
    <3> QED  BY <3>1, Max2 DEF SentFrom
  <2> DEFINE x == SentFrom(r) - PromptLen[r]
  <2>7. x <= Len(history[k][r]) => x <= 0
    <3> HIDE DEF x
    <3> QED  BY <2>5, <2>6 DEF x
  <2>8. \A i \in (e + 1)..(L + 1 - 1) : i \in 1..L  BY <1>1
  <2>9. ASSUME NEW i \in (e + 1)..(L + 1 - 1), queue[i].n[r] > 0, x <= Needs(queue[i], r)
        PROVE  x <= 0
    <3>1. Needs(queue[i], r) \in Int /\ Needs(queue[i], r) <= 0  BY <1>5, <2>8, <2>9
    <3> HIDE DEF x
    <3> QED  BY <2>6, <2>9, <3>1 DEF x
  <2>10. x <= 0  BY <2>4, <2>7, <2>9 DEF Gets
  <2> QED  BY <2>3, <2>10
<1>8. NoGap(queue, history'[k][r], executed'[k], Unfinished(r), SentFrom(r), r)
  <2>1. \A j \in (e + 1 + 1)..L : j \in 1..L  BY <1>1
  <2> QED  BY <1>1, <1>3, <1>5, <1>7, <2>1 DEF NoGap, Gets
<1>9. ASSUME Unfinished(r) PROVE PrefixOf(history'[k][r], req[r].output)
  <2>1. \A i \in 1..0 : FALSE  OBVIOUS
  <2> QED  BY <1>3, <1>7, <1>9, <2>1 DEF PrefixOf
<1>10. Needs(b, r) <= Len(history'[k][r])  BY <1>1, <1>3, <1>5
<1> QED  BY <1>2, <1>3, <1>8, <1>9, <1>10 DEF Copies

LEMMA ExecutesKnown ==
  ASSUME TypedOver(Int), Shape, Progress, NEW k \in Ranks, k # LastRank, NEW b, Takes(k, b),
         NEW r \in Requests, TokensSent(r), RankCopies(k, r), b.n[r] > 0, r \notin b.new,
         history'[k][r] = UpdatedHistory(k, b, r), row'[k][r] = UpdatedRow(k, b, r)
  PROVE  Copies(k, b, r)
<1>0. history[k][r] \in Seq(TokenOver(Int)) /\ Len(history[k][r]) \in Nat
  <2>1. history[k][r] \in Seq(TokenOver(Int))  BY RanksFacts DEF TypedOver
  <2> QED  BY <2>1
<1> DEFINE e == executed[k]  L == Len(queue)  h == history[k][r]  s == history'[k][r]
           S == Starts(b, r)  t == b.newTokens[r]
<1>1. /\ b = queue[e + 1] /\ e \in Nat /\ e + 1 \in 1..L /\ b \in BatchOver(Int)
      /\ executed'[k] = e + 1 /\ L \in Nat /\ queue \in Seq(BatchOver(Int)) /\ RanksOver(Int)
  BY QueueFacts DEF Takes, NextBatch, TypedOver
<1>2. h \in Seq(TokenOver(Int)) /\ Len(h) \in Nat  BY <1>0
<1>3. /\ RowRight(queue, e, cached[k], batchReqs[k], h, row[k][r], r)
      /\ NoGap(queue, h, e, Unfinished(r), SentFrom(r), r)
      /\ Unfinished(r) => PrefixOf(h, req[r].output)
  BY DEF RankCopies
<1>4. S <= Len(h)
  <2>1. Gets(queue, h, e, r, S, e + 1)
    <3>1. e + 1 \in (e + 1)..L  BY <1>1
    <3> QED  BY <1>1, <1>3, <3>1 DEF NoGap
  <2> DEFINE m == e + 1
  <2>2. Gets(queue, h, e, r, S, m) /\ ~(\E i \in (e + 1)..(m - 1) : TRUE)  BY <1>1, <2>1
  <2> HIDE DEF e, h, S, m
  <2> QED  BY <2>2 DEF Gets
<1>5. /\ s \in Seq(TokenOver(Int)) /\ Len(h) <= Len(s) /\ Needs(b, r) <= Len(s)
      /\ \A i \in 1..Len(h) : s[i] = h[i]
      /\ \A i \in 1..Len(s) : i \in 1..Len(h) \/ (i - S \in 1..Len(t) /\ s[i] = t[i - S])
      /\ row[k][r] = (IF r \in batchReqs[k] THEN h ELSE <<>>) => UpdatedRow(k, b, r) = s
  BY <1>1, <1>4, Received
<1>6. /\ S \in Int /\ Len(t) \in Nat /\ PromptLen[r] \in Nat
  BY <1>1, SpanFacts
<1>7. row'[k][r] = s  BY <1>3, <1>5 DEF RowRight
<1>8. InOrder(r, s)
  <2> SUFFICES ASSUME NEW i \in 1..Len(s) PROVE s[i][1] = PromptLen[r] + i
    BY DEF InOrder
  <2>1. CASE i \in 1..Len(h)  BY <1>3, <1>5, <2>1 DEF RowRight, InOrder
  <2>2. CASE i \notin 1..Len(h)
    <3> DEFINE j == i - S
    <3>1. j \in 1..Len(t) /\ s[i] = t[j]  BY <1>5, <2>2
    <3>2. t[j][1] = PromptLen[r] + S + j
      <4>1. SentInOrder(b, r)  BY <1>1 DEF TokensSent, ToldOnce, Tells
      <4> HIDE DEF j
      <4> QED  BY <3>1, <4>1 DEF SentInOrder
    <3>3. PromptLen[r] + S + j = PromptLen[r] + i
      <4>1. i \in Int  BY <1>5
      <4> HIDE DEF S
      <4> QED  BY <1>6, <4>1
    <3> QED  BY <3>1, <3>2, <3>3
  <2> QED  BY <2>1, <2>2
<1>9. NoGap(queue, s, executed'[k], Unfinished(r), SentFrom(r), r)
  BY <1>3, <1>5, StillNoGap
<1>10. ASSUME Unfinished(r) PROVE PrefixOf(s, req[r].output)
  <2> DEFINE o == req[r].output
  <2>1. PrefixOf(h, o) /\ SentOf(queue, req[r], r)  BY <1>3, <1>10 DEF TokensSent
  <2>2. o \in Seq(TokenOver(Int)) /\ Len(o) \in Nat
    BY RequestFacts DEF TypedOver, Numbers
  <2>3. ASSUME NEW i \in 1..Len(s) PROVE i \in 1..Len(o) /\ s[i] = o[i]
    <3>1. CASE i \in 1..Len(h)
      <4>1. i <= Len(o)  BY <1>2, <2>1, <2>2, <3>1 DEF PrefixOf
      <4>2. i \in 1..Len(o)  BY <1>2, <2>2, <3>1, <4>1
      <4> QED  BY <1>5, <2>1, <3>1, <4>2 DEF PrefixOf
    <3>2. CASE i \notin 1..Len(h)
      <4> DEFINE j == i - S
      <4>1. j \in 1..Len(t) /\ s[i] = t[j]  BY <1>5, <3>2
      <4>2. S + j = i
        <5>1. i \in Int  BY <1>5
        <5> HIDE DEF S
        <5> QED  BY <1>6, <5>1
      <4> HIDE DEF j
      <4>3. S + j \in 1..Len(o) /\ t[j] = o[S + j]  BY <1>1, <2>1, <4>1 DEF SentOf
      <4> QED  BY <4>1, <4>2, <4>3
    <3> QED  BY <3>1, <3>2
  <2>4. Len(s) <= Len(o)
    <3>1. Len(s) \in Nat  BY <1>5
    <3>2. CASE Len(s) = 0  BY <2>2, <3>2
    <3>3. CASE Len(s) # 0
      <4>1. Len(s) \in 1..Len(s)  BY <3>1, <3>3
      <4>2. Len(s) \in 1..Len(o)  BY <2>3, <4>1
      <4> QED  BY <2>2, <4>2
    <3> QED  BY <3>2, <3>3
  <2> QED  BY <2>3, <2>4 DEF PrefixOf
<1> QED  BY <1>5, <1>7, <1>8, <1>9, <1>10 DEF Copies

LEMMA ExecuteCopied ==
  ASSUME TypedOver(Int), Shape, Books, Progress, Copied, NEW k \in Ranks, ExecuteBatch(k)
  PROVE  Copied'
<1> DEFINE b == NextBatch(k)
           h == [r \in Requests |-> IF r \in b.finished THEN <<>> ELSE UpdatedHistory(k, b, r)]
           w == [r \in Requests |-> UpdatedRow(k, b, r)]
<1>1. /\ RanksOver(Int) /\ k # LastRank /\ executed[k] < Len(queue)
      /\ UNCHANGED <<scheduler, engine, results, drafts>>
  BY DEF TypedOver, ExecuteBatch
<1>2. UpdateStates(k, b) /\ history' = [history EXCEPT ![k] = h] /\ row' = [row EXCEPT ![k] = w]
  BY DEF ExecuteBatch, NextBatch
<1>3. Takes(k, b) /\ history'[k] = h /\ row'[k] = w
  <2> HIDE DEF h, w
  <2> QED  BY <1>1, <1>2, TakesFacts
<1>4. \A r \in Requests : /\ history'[k][r] = IF r \in b.finished THEN <<>>
                                              ELSE UpdatedHistory(k, b, r)
                          /\ row'[k][r] = UpdatedRow(k, b, r)
  BY <1>3
<1> HIDE DEF b, h, w
<1>5. ~IssueBatch /\ ~UpdateFromOutput
  <2>1. IssueBatch => pc' # pc  BY DEF IssueBatch
  <2>2. UpdateFromOutput => pc' # pc  BY DEF UpdateFromOutput
  <2> QED  BY <1>1, <2>1, <2>2 DEF engine
<1>6. \A r \in Requests : queue' = queue /\ Undisturbed(r)
  BY <1>5, UndisturbedSteps DEF Next
<1>7. queue' = queue /\ req' = req /\ plan' = plan /\ results' = results
  BY <1>1 DEF engine, scheduler
<1>8. /\ b = queue[executed[k] + 1] /\ executed[k] + 1 \in 1..Len(queue)
      /\ b \in BatchOver(Int)
      /\ \A l \in Ranks : l # k => /\ executed'[l] = executed[l] /\ cached'[l] = cached[l]
                                   /\ batchReqs'[l] = batchReqs[l] /\ history'[l] = history[l]
                                   /\ row'[l] = row[l]
  BY <1>3 DEF Takes, NextBatch
<1>9. ASSUME NEW r \in Requests PROVE RankCopies(k, r)'
  <2>1. TokensSent(r) /\ RankCopies(k, r) /\ BatchFits(b, r)
    BY <1>8 DEF Copied, Progress, BatchesFit
  <2>2. Copies(k, b, r)
    <3>1. CASE ~(b.n[r] > 0)  BY <1>1, <1>3, <1>4, <2>1, <3>1, ExecutesWithout
    <3>2. CASE b.n[r] > 0
      <4>1. r \notin b.finished
        <5>1. r \in b.finished => b.n[r] = 0  BY <1>3, <2>1, OverWhenFinished
        <5> QED  BY <3>2, <5>1
      <4>2. history'[k][r] = UpdatedHistory(k, b, r) /\ row'[k][r] = UpdatedRow(k, b, r)
        BY <1>4, <4>1
      <4>3. CASE r \in b.new  BY <1>1, <1>3, <2>1, <3>2, <4>2, <4>3, ExecutesNew
      <4>4. CASE r \notin b.new  BY <1>1, <1>3, <2>1, <3>2, <4>2, <4>4, ExecutesKnown
      <4> QED  BY <4>3, <4>4
    <3> QED  BY <3>1, <3>2
  <2>3. /\ (Met(r)' <=> Met(r)) /\ (Unfinished(r)' <=> Unfinished(r))
        /\ SentFrom(r)' = SentFrom(r)
    BY <1>7 DEF Met, Unfinished, SentFrom
  <2>4. /\ Informed(queue, cached'[k], executed'[k], Met(r)', r)
        /\ b.n[r] > 0 => r \in cached'[k]
    BY <1>3, <2>1, <2>3, TakesInformed DEF RankCopies
  <2>5. RowRight(queue, executed'[k], cached'[k], batchReqs'[k], history'[k][r], row'[k][r], r)
    BY <1>3, <2>2, <2>4, TakesRow DEF Copies
  <2>6. NoGap(queue, history'[k][r], executed'[k], Unfinished(r)', SentFrom(r)', r)
    BY <2>2, <2>3 DEF Copies, NoGap
  <2>7. Unfinished(r)' => PrefixOf(history'[k][r], req'[r].output)
    BY <1>7, <2>2, <2>3 DEF Copies
  <2> QED  BY <1>7, <2>4, <2>5, <2>6, <2>7 DEF RankCopies
<1>10. ASSUME NEW l \in Ranks, NEW r \in Requests PROVE RankCopies(l, r)'
  <2>1. CASE l = k  BY <1>9, <2>1
  <2>2. CASE l # k  BY <1>6, <1>8, <2>2, RankKept DEF Copied
  <2> QED  BY <2>1, <2>2
<1>11. ASSUME NEW r \in Requests PROVE TokensSent(r)' /\ LastCopies(r)'
  <2>1. TokensSent(r)'  BY <1>6, SentKept DEF Copied
  <2>2. LastRank \in Ranks  BY EngineFacts
  <2> QED  BY <1>1, <1>6, <1>7, <1>8, <2>1, <2>2, LastKept DEF Copied
<1> QED  BY <1>10, <1>11 DEF Copied

LEMMA RanksUnchanged ==
  ASSUME [Next]_vars, ~IssueBatch, ~UpdateFromOutput, ~SampleBatch,
         \A k \in Ranks : ~ExecuteBatch(k)
  PROVE  UNCHANGED ranks
<1>1. CASE UNCHANGED vars \/ Idle  BY <1>1 DEF Idle, vars, ranks
<1>2. ASSUME NEW r \in Requests, AddRequest(r) \/ Abort(r) PROVE UNCHANGED ranks
  BY <1>2 DEF AddRequest, Abort
<1>3. CASE ResetRunning \/ BeginSchedule \/ PassRunning \/ ScheduleRunning
  BY <1>3 DEF ResetRunning, BeginSchedule, PassRunning, ScheduleRunning
<1>4. CASE PassWaiting \/ AdmitWaiting \/ RefuseWaiting \/ DrainQueue \/ PostStep
  BY <1>4 DEF PassWaiting, AdmitWaiting, RefuseWaiting, DrainQueue, PostStep
<1> QED  BY <1>1, <1>2, <1>3, <1>4 DEF Next, EngineStep, ScheduleStep

LEMMA QuietCopied ==
  ASSUME TypedOver(Int), Shape, Books, Copied, [Next]_vars, ~IssueBatch, ~UpdateFromOutput,
         ~SampleBatch, \A k \in Ranks : ~ExecuteBatch(k)
  PROVE  Copied'
<1>1. /\ executed' = executed /\ cached' = cached /\ batchReqs' = batchReqs
      /\ history' = history /\ row' = row /\ results' = results
  BY RanksUnchanged DEF ranks
<1>2. \A r \in Requests : queue' = queue /\ Undisturbed(r)  BY UndisturbedSteps
<1>3. ASSUME NEW r \in Requests PROVE TokensSent(r)' /\ LastCopies(r)'
  BY <1>1, <1>2, SentKept, LastKept DEF Copied
<1>4. ASSUME NEW k \in Ranks, NEW r \in Requests PROVE RankCopies(k, r)'
  BY <1>1, <1>2, RankKept DEF Copied
<1> QED  BY <1>3, <1>4 DEF Copied

---------------------------------------------------------------------------
(* The last rank samples *)

LEMMA SampleTakes ==
  ASSUME TypedOver(Int), Shape, SampleBatch
  PROVE  Takes(LastRank, NextBatch(LastRank))
<1> DEFINE b == NextBatch(LastRank)
<1>1. RanksOver(Int) /\ LastRank \in Ranks /\ executed[LastRank] < Len(queue)
  <2>1. Len(results) + 1 <= Len(queue) /\ executed[LastRank] = Len(results)
    BY SampleBatchShape
  <2>2. Len(results) \in Nat /\ Len(queue) \in Nat  BY ResultsFacts, QueueFacts
  <2> QED  BY <2>1, <2>2, EngineFacts DEF TypedOver
<1>2. PICK out : \E d : /\ UpdateStates(LastRank, b)
                        /\ history' = [history EXCEPT ![LastRank] = [r \in Requests |->
                             IF r \in b.finished THEN <<>>
                             ELSE UpdatedHistory(LastRank, b, r) \o out[r]]]
                        /\ row' = [row EXCEPT ![LastRank] = [r \in Requests |->
                             UpdatedRow(LastRank, b, r) \o out[r]]]
  BY Zenon DEF SampleBatch, NextBatch
<1> DEFINE h == [r \in Requests |-> IF r \in b.finished THEN <<>>
                                    ELSE UpdatedHistory(LastRank, b, r) \o out[r]]
           w == [r \in Requests |-> UpdatedRow(LastRank, b, r) \o out[r]]
<1>3. /\ UpdateStates(LastRank, NextBatch(LastRank))
      /\ history' = [history EXCEPT ![LastRank] = h] /\ row' = [row EXCEPT ![LastRank] = w]
  BY <1>2
<1> HIDE DEF h, w
<1> QED  BY <1>1, <1>3, TakesFacts

\* The last rank keeps what the batch was planned from, and reads it from its row.
LEMMA Keeping ==
  ASSUME RanksOver(Int), NEW b \in BatchOver(Int), NEW r \in Requests, b.n[r] > 0,
         b.numOutput[r] <= Len(history[LastRank][r]), r \in b.new => b.numOutput[r] = 0,
         row[LastRank][r] = IF r \in batchReqs[LastRank] THEN history[LastRank][r] ELSE <<>>
  PROVE  /\ UpdatedHistory(LastRank, b, r) \in Seq(TokenOver(Int))
         /\ Len(UpdatedHistory(LastRank, b, r)) = b.numOutput[r]
         /\ \A i \in 1..b.numOutput[r] :
              UpdatedHistory(LastRank, b, r)[i] = history[LastRank][r][i]
         /\ UpdatedRow(LastRank, b, r) = UpdatedHistory(LastRank, b, r)
<1>0. history[LastRank][r] \in Seq(TokenOver(Int)) /\ b.numOutput[r] \in Nat
  <2>1. LastRank \in Ranks /\ b.numOutput[r] \in Nat  BY EngineFacts, SpanFacts
  <2> QED  BY <2>1, RanksFacts
<1>1. r \in Scheduled(b)  BY DEF Scheduled
<1> DEFINE h == history[LastRank][r]  n == b.numOutput[r]  U == UpdatedHistory(LastRank, b, r)
<1>2. CASE r \in b.new
  <2>1. U = <<>> /\ n = 0  BY <1>2 DEF UpdatedHistory
  <2>2. UpdatedRow(LastRank, b, r) = U  BY <1>1, <1>2 DEF UpdatedRow
  <2>3. <<>> \in Seq(TokenOver(Int)) /\ Len(<<>>) = 0 /\ \A i \in 1..0 : FALSE
    BY EmptyFacts
  <2> QED  BY <2>1, <2>2, <2>3
<1>3. CASE r \notin b.new
  <2>1. U = SubSeq(h, 1, Min({Len(h), n}))  BY <1>1, <1>3, Zenon DEF UpdatedHistory
  <2>2. n <= Len(h) /\ Len(h) \in Nat /\ h \in Seq(TokenOver(Int)) /\ n \in Nat  BY <1>0
  <2> HIDE DEF h, n, U
  <2>3. Min({Len(h), n}) = n  BY <2>2, Min2
  <2>4. /\ U \in Seq(TokenOver(Int)) /\ Len(U) = n
        /\ \A i \in 1..n : U[i] = h[i]
    <3>1. U = SubSeq(h, 1, n)  BY <2>1, <2>3
    <3>2. /\ SubSeq(h, 1, n) \in Seq(TokenOver(Int))
          /\ Len(SubSeq(h, 1, n)) = IF 1 <= n THEN n - 1 + 1 ELSE 0
          /\ \A i \in 1..(n - 1 + 1) : SubSeq(h, 1, n)[i] = h[1 + i - 1]
      BY <2>2, SubSeqFacts
    <3> QED  BY <2>2, <3>1, <3>2
  <2>5. UpdatedRow(LastRank, b, r) = U
    <3>1. UpdatedRow(LastRank, b, r) = U \/ (Len(U) >= Len(h) /\ r \in batchReqs[LastRank]
                                             /\ UpdatedRow(LastRank, b, r) = row[LastRank][r])
      <4>1. Len(U) < Len(h) \/ Len(U) >= Len(h)  BY <2>2, <2>4
      <4> QED  BY <1>1, <4>1, Zenon DEF UpdatedRow, U, h
    <3>2. CASE /\ Len(U) >= Len(h) /\ r \in batchReqs[LastRank]
               /\ UpdatedRow(LastRank, b, r) = row[LastRank][r]
      <4>1. UpdatedRow(LastRank, b, r) = h  BY <3>2 DEF h
      <4>2. Len(U) = Len(h) /\ \A i \in 1..Len(U) : U[i] = h[i]  BY <2>2, <2>4, <3>2
      <4>3. U = h  BY <2>2, <2>4, <4>2, SameSeq
      <4> QED  BY <4>1, <4>3
    <3> QED  BY <3>1, <3>2
  <2> QED  BY <2>4, <2>5 DEF h, n, U
<1> QED  BY <1>2, <1>3

LEMMA SamplesWithout ==
  ASSUME TypedOver(Int), Shape, NEW b, Takes(LastRank, b), NEW r \in Requests,
         TokensSent(r), RankCopies(LastRank, r), LastCopies(r), BatchFits(b, r), ~(b.n[r] > 0),
         NEW out, NextResult(b, out)
  PROVE  SampleLeaves(b, r)
<1> DEFINE h == history[LastRank][r]  g == history'[LastRank][r]
<1>1. /\ LastRank \in Ranks /\ b.n[r] = 0 /\ b = queue[Len(results) + 1]
      /\ Len(queue) \in Nat /\ Len(results) \in Nat
      /\ executed'[LastRank] = Len(results) + 1 /\ executed[LastRank] = Len(results)
  <2>1. b \in BatchOver(Int) /\ LastRank \in Ranks  BY EngineFacts DEF Takes
  <2>2. b.n[r] \in Nat  BY <2>1, SpanFacts
  <2> QED  BY <2>1, <2>2, QueueFacts DEF Takes, NextBatch, NextResult
<1>2. r \notin b.new /\ r \notin Scheduled(b) /\ out[r] = <<>>
  BY <1>1 DEF BatchFits, Scheduled, NextResult, SampleOf
<1>3. UpdatedRow(LastRank, b, r) = <<>> /\ UpdatedHistory(LastRank, b, r) = h
  BY <1>2 DEF UpdatedRow, UpdatedHistory
<1>4. h \in Seq(TokenOver(Int))  BY <1>1, RanksFacts DEF TypedOver
<1>5. h \o <<>> = h /\ <<>> \o <<>> = <<>>
  <2> HIDE DEF h
  <2> QED  BY <1>4
<1>6. row'[LastRank][r] = <<>> /\ g = IF r \in b.finished THEN <<>> ELSE h
  BY <1>2, <1>3, <1>5 DEF NextResult, Sampled
<1>7. \A j \in (Len(results) + 1 + 1)..Len(queue) : j \in (Len(results) + 1)..Len(queue)
  BY <1>1
<1>8. CASE r \in b.finished
  <2>1. /\ \A j \in (Len(results) + 1)..Len(queue) : ~(queue[j].n[r] > 0)
        /\ ~Unfinished(r)
    BY <1>1, <1>8, OverWhenFinished
  <2>2. InOrder(r, g)
    <3>1. Len(<<>>) = 0 /\ \A i \in 1..0 : FALSE  BY EmptyFacts
    <3> QED  BY <1>6, <1>8, <3>1 DEF InOrder
  <2> QED  BY <1>1, <1>6, <1>7, <2>1, <2>2 DEF SampleLeaves, Keeps
<1>9. CASE r \notin b.finished
  <2>1. g = h  BY <1>6, <1>9
  <2>2. /\ InOrder(r, h) /\ Keeps(queue, h, Len(results), r)
        /\ Unfinished(r) => /\ PrefixOf(req[r].output, h)
                            /\ SampledAfter(queue, results, req[r], h, r)
    BY <1>1 DEF RankCopies, RowRight, LastCopies
  <2>3. Keeps(queue, h, Len(results) + 1, r)  BY <1>7, <2>2 DEF Keeps
  <2>4. ASSUME Unfinished(r) PROVE SampledAfter(queue, results', req[r], h, r)
    <3> SUFFICES ASSUME NEW j \in 1..(Len(results) + 1), queue[j].n[r] > 0,
                        DeliveredAt(queue, req[r], r, j), NEW i \in 1..Len(results'[j][r])
                 PROVE  h[Len(req[r].output) + i] = results'[j][r][i]
      BY DEF SampledAfter, NextResult
    <3>1. j # Len(results) + 1  BY <1>1
    <3>2. j \in 1..Len(results) /\ results'[j] = results[j]
      BY <1>1, <3>1 DEF NextResult
    <3> QED  BY <2>2, <2>4, <3>2 DEF SampledAfter
  <2> QED  BY <1>1, <1>6, <2>1, <2>2, <2>3, <2>4 DEF SampleLeaves
<1> QED  BY <1>8, <1>9

LEMMA SamplesIn ==
  ASSUME TypedOver(Int), Shape, Progress, NEW b, Takes(LastRank, b), NEW r \in Requests,
         TokensSent(r), RankCopies(LastRank, r), LastCopies(r), BatchFits(b, r), b.n[r] > 0,
         NEW out, NextResult(b, out)
  PROVE  SampleLeaves(b, r)
<1>0. /\ LastRank \in Ranks /\ b \in BatchOver(Int) /\ RanksOver(Int)
      /\ history[LastRank][r] \in Seq(TokenOver(Int)) /\ out[r] \in Seq(TokenOver(Int))
  <2>1. LastRank \in Ranks /\ RanksOver(Int)  BY EngineFacts DEF TypedOver
  <2>2. history[LastRank][r] \in Seq(TokenOver(Int))  BY <2>1, RanksFacts
  <2> QED  BY <2>1, <2>2 DEF Takes, NextResult
<1> DEFINE h == history[LastRank][r]  g == history'[LastRank][r]  o == out[r]
           U == UpdatedHistory(LastRank, b, r)  m == Len(results) + 1  L == Len(queue)
           n == b.numOutput[r]  a == req[r]
<1>1. /\ b = queue[m] /\ L \in Nat /\ m \in 1..L /\ Len(results) \in Nat
      /\ executed'[LastRank] = m /\ executed[LastRank] = Len(results)
      /\ queue \in Seq(BatchOver(Int)) /\ b.n[r] \in Nat
  BY <1>0, QueueFacts, SpanFacts DEF Takes, NextBatch, NextResult
<1>2. r \notin b.finished
  <2>1. r \in b.finished => b.n[r] = 0  BY <1>0, OverWhenFinished
  <2> QED  BY <2>1
<1>3. n \in Nat /\ n <= Len(h) /\ (r \in b.new => n = 0)
  <2>1. n \in Nat  BY <1>0, SpanFacts
  <2>2. n <= Len(h)
    <3>1. m \in (Len(results) + 1)..L  BY <1>1
    <3> QED  BY <1>1, <3>1 DEF LastCopies, Keeps
  <2>3. r \in b.new => n = 0  BY <1>1 DEF TokensSent, ToldOnce, Tells
  <2> QED  BY <2>1, <2>2, <2>3
<1>4. /\ U \in Seq(TokenOver(Int)) /\ Len(U) = n /\ \A i \in 1..n : U[i] = h[i]
      /\ UpdatedRow(LastRank, b, r) = U
  <2>1. row[LastRank][r] = IF r \in batchReqs[LastRank] THEN h ELSE <<>>
    BY DEF RankCopies, RowRight
  <2> QED  BY <1>0, <1>3, <2>1, Keeping
<1>5. g = U \o o /\ row'[LastRank][r] = g  BY <1>2, <1>4 DEF NextResult, Sampled
<1>6. InOrder(r, h) /\ (Unfinished(r) => PrefixOf(a.output, h))
  BY DEF RankCopies, RowRight, LastCopies
<1>7. \A i \in 1..Len(o) : o[i][1] = PromptLen[r] + n + i
  <2>1. \A i \in 1..Len(o) : o[i][1] = Base(b, r) + i  BY DEF NextResult, SampleOf
  <2>2. o # <<>> => Base(b, r) = PromptLen[r] + n
    <3> SUFFICES ASSUME o # <<>> PROVE Base(b, r) = PromptLen[r] + n
      OBVIOUS
    <3>1. o \in SampledTokens(b, r)  BY DEF NextResult, Sampled
    <3>2. Base(b, r) \in Int /\ Base(b, r) = b.computed[r] + b.n[r] - b.spec[r].len
      BY <1>0, BatchFacts DEF Numbers
    <3>3. Samples(b, r)  BY <3>1, <3>2, SampledTokensType DEF Numbers
    <3>4. b.computed[r] + b.n[r] >= PromptLen[r] + n  BY <1>4, <3>3 DEF Samples
    <3>5. b.computed[r] + b.n[r] >= PromptLen[r] + n =>
            b.computed[r] + b.n[r] - b.spec[r].len = PromptLen[r] + n
      BY DEF BatchFits, Fits
    <3> QED  BY <3>2, <3>4, <3>5
  <2>3. o = <<>> => Len(o) = 0  BY EmptyFacts
  <2>4. \A i \in 1..0 : FALSE  OBVIOUS
  <2> QED  BY <2>1, <2>2, <2>3, <2>4
<1> HIDE DEF U, o, h, n
<1>8. /\ g \in Seq(TokenOver(Int)) /\ Len(g) = n + Len(o) /\ Len(o) \in Nat
      /\ \A i \in 1..n : g[i] = h[i]
      /\ \A i \in 1..Len(o) : g[n + i] = o[i]
  <2>1. U \in Seq(TokenOver(Int)) /\ o \in Seq(TokenOver(Int))  BY <1>0, <1>4 DEF o
  <2>2. /\ U \o o \in Seq(TokenOver(Int)) /\ Len(U \o o) = Len(U) + Len(o)
        /\ \A i \in 1..Len(U) : (U \o o)[i] = U[i]
        /\ \A i \in 1..Len(o) : (U \o o)[Len(U) + i] = o[i]
    BY <2>1, CatFacts
  <2>3. Len(o) \in Nat  BY <2>1
  <2> HIDE DEF g
  <2> QED  BY <1>4, <1>5, <2>2, <2>3
<1>9. InOrder(r, g)
  <2>1. InOrder(r, U)  BY <1>0, <1>3, <1>4, <1>6 DEF InOrder, h
  <2>2. o \in Seq(TokenOver(Int)) /\ U \in Seq(TokenOver(Int)) /\ Len(U) = n
    BY <1>0, <1>4 DEF o
  <2> QED  BY <1>5, <1>7, <2>1, <2>2, InOrderCat
<1>10. Needs(b, r) <= Len(g)
  <2>1. Needs(b, r) <= n /\ Needs(b, r) \in Int  BY <1>0, NeedsKnown, SpanFacts DEF n
  <2> QED  BY <1>3, <1>8, <2>1
<1>11. Keeps(queue, g, m, r)
  <2> SUFFICES ASSUME NEW j \in (m + 1)..L, queue[j].n[r] > 0
               PROVE  queue[j].numOutput[r] <= Len(g)
    BY DEF Keeps
  <2>1. j \in 1..L  BY <1>1
  <2>2. queue[j].numOutput[r] = n  BY <1>1, <2>1 DEF TokensSent, ToldOnce, n
  <2> QED  BY <1>3, <1>8, <2>2
<1>12. ASSUME Unfinished(r) PROVE n = Len(a.output) /\ LiveState(a)
  BY <1>1, <1>12, LinkInFlight, LiveInFlight DEF LinkAt, n
<1>13. ASSUME Unfinished(r) PROVE PrefixOf(a.output, g)
  <2>1. /\ n = Len(a.output) /\ n <= Len(g)
    BY <1>3, <1>8, <1>12, <1>13
  <2>2. \A i \in 1..n : a.output[i] = h[i]  BY <1>6, <1>13, <2>1 DEF PrefixOf
  <2> QED  BY <1>8, <2>1, <2>2 DEF PrefixOf
<1>14. ASSUME Unfinished(r), NEW j \in 1..m, queue[j].n[r] > 0, DeliveredAt(queue, a, r, j),
              NEW i \in 1..Len(results'[j][r])
       PROVE  g[Len(a.output) + i] = results'[j][r][i]
  <2>1. CASE j = m
    <3>1. results'[j][r] = o  BY <2>1 DEF NextResult, o
    <3>2. n = Len(a.output)  BY <1>12, <1>14
    <3> QED  BY <1>8, <1>14, <3>1, <3>2
  <2>2. CASE j # m
    <3>1. /\ j \in 1..Len(results) /\ j \in 1..L /\ j \in 0..L /\ m - 1 \in 0..L /\ j <= m - 1
          /\ L \in 0..L /\ m \in 0..L /\ m <= L /\ m \in 1..L
      BY <1>1, <2>2
    <3>2. results'[j] = results[j]  BY <3>1 DEF NextResult
    <3>3. KnownAt(queue, results, a, r, Len(history[LastRank][r]), j) /\ LinkAt(queue, a, r, j)
      BY <1>12, <1>14, <3>1, LinkInFlight DEF Progress, KnownByLast, KnownOf
    <3>4. Flight(queue, r, j) # Flight(queue, r, L)
      <4> HIDE DEF m, L
      <4>1. /\ Flight(queue, r, m) = Flight(queue, r, m - 1) + b.n[r]
            /\ Flight(queue, r, j) <= Flight(queue, r, m - 1)
            /\ Flight(queue, r, m) <= Flight(queue, r, L)
            /\ Flight(queue, r, j) \in Nat /\ Flight(queue, r, m - 1) \in Nat
            /\ Flight(queue, r, L) \in Nat
        BY <1>1, <3>1, FlightFacts DEF L
      <4> QED  BY <1>1, <4>1
    <3>5. results[j][r] = <<>>  BY <1>14, <3>3, <3>4 DEF KnownAt, LinkAt
    <3>6. Len(results'[j][r]) = 0  BY <3>2, <3>5, EmptyFacts
    <3> QED  BY <1>14, <3>6
  <2> QED  BY <2>1, <2>2
<1>15. Unfinished(r) => SampledAfter(queue, results', a, g, r)
  <2>1. Len(results') = m  BY DEF NextResult
  <2> QED  BY <1>14, <2>1 DEF SampledAfter
<1> QED  BY <1>1, <1>5, <1>9, <1>10, <1>11, <1>13, <1>15 DEF SampleLeaves

LEMMA SampleCopied ==
  ASSUME TypedOver(Int), Shape, Books, Progress, Copied, SampleBatch
  PROVE  Copied'
<1> DEFINE b == NextBatch(LastRank)
<1>1. /\ UNCHANGED <<scheduler, engine>> /\ executed[LastRank] = Len(results)
      /\ b = queue[Len(results) + 1] /\ Len(results) \in Nat
  BY SampleBatchShape, ResultsFacts
<1>2. Takes(LastRank, b)  BY SampleTakes
<1> HIDE DEF b
<1>3. PICK out : NextResult(b, out)
  <2>1. \E out \in [Requests -> Seq(TokenOver(Int))] :
           /\ Sampled(queue[Len(results) + 1], out)
           /\ Len(results') = Len(results) + 1 /\ results'[Len(results) + 1] = out
           /\ \A j \in 1..Len(results) : results'[j] = results[j]
           /\ \A r \in Requests : SampleOf(queue[Len(results) + 1], r, out[r])
    BY SampledIs
  <2> QED  BY <1>1, <2>1 DEF NextResult
<1>4. queue' = queue /\ req' = req /\ plan' = plan /\ pc' = pc
  BY <1>1 DEF engine, scheduler
<1>5. ~IssueBatch /\ ~UpdateFromOutput
  <2>1. IssueBatch => pc' # pc  BY DEF IssueBatch
  <2>2. UpdateFromOutput => pc' # pc  BY DEF UpdateFromOutput
  <2> QED  BY <1>4, <2>1, <2>2
<1>6. \A r \in Requests : Undisturbed(r)  BY <1>5, UndisturbedSteps DEF Next
<1>7. LastRank \in Ranks  BY EngineFacts
<1>8. \A l \in Ranks : l # LastRank =>
        /\ executed'[l] = executed[l] /\ cached'[l] = cached[l]
        /\ batchReqs'[l] = batchReqs[l] /\ history'[l] = history[l] /\ row'[l] = row[l]
  BY <1>2 DEF Takes
<1>9. ASSUME NEW r \in Requests
      PROVE  TokensSent(r)' /\ LastCopies(r)' /\ RankCopies(LastRank, r)'
  <2>1. /\ TokensSent(r) /\ RankCopies(LastRank, r) /\ LastCopies(r) /\ BatchFits(b, r)
    <3>1. b \in BatchOver(Int) /\ Len(results) + 1 \in 1..Len(queue)
      BY <1>1, <1>2 DEF Takes
    <3> QED  BY <1>1, <1>7, <3>1 DEF Copied, Progress, BatchesFit
  <2>2. SampleLeaves(b, r)
    <3>1. CASE b.n[r] > 0  BY <1>2, <1>3, <2>1, <3>1, SamplesIn
    <3>2. CASE ~(b.n[r] > 0)  BY <1>2, <1>3, <2>1, <3>2, SamplesWithout
    <3> QED  BY <3>1, <3>2
  <2>3. (Met(r)' <=> Met(r)) /\ (Unfinished(r)' <=> Unfinished(r))
    BY <1>4 DEF Met, Unfinished
  <2>4. /\ Informed(queue, cached'[LastRank], executed'[LastRank], Met(r)', r)
        /\ b.n[r] > 0 => r \in cached'[LastRank]
    BY <1>2, <1>7, <2>1, <2>3, TakesInformed DEF RankCopies
  <2>5. RowRight(queue, executed'[LastRank], cached'[LastRank], batchReqs'[LastRank],
                 history'[LastRank][r], row'[LastRank][r], r)
    BY <1>2, <1>7, <2>2, <2>4, TakesRow DEF SampleLeaves
  <2>6. RankCopies(LastRank, r)'  BY <1>4, <2>4, <2>5 DEF RankCopies
  <2>7. LastCopies(r)'  BY <1>4, <2>2, <2>3 DEF LastCopies, SampleLeaves
  <2>8. TokensSent(r)'  BY <1>4, <1>6, <2>1, SentKept
  <2> QED  BY <2>6, <2>7, <2>8
<1>10. ASSUME NEW l \in Ranks, NEW r \in Requests PROVE RankCopies(l, r)'
  <2>1. CASE l = LastRank  BY <1>9, <2>1
  <2>2. CASE l # LastRank  BY <1>4, <1>6, <1>8, <2>2, RankKept DEF Copied
  <2> QED  BY <2>1, <2>2
<1> QED  BY <1>9, <1>10 DEF Copied

---------------------------------------------------------------------------
(* An output is taken: the batches in flight move up by one *)

LEMMA HeardBehind ==
  ASSUME NEW p, NEW q, Behind(p, q), NEW c, NEW r, NEW d \in Nat, NEW j \in 0..Len(p),
         Hears(q, c, d + 1, r, j + 1)
  PROVE  Hears(p, c, d, r, j)
<1>1. CASE r \in c  BY <1>1 DEF Hears
<1>2. CASE r \notin c
  <2>1. PICK i \in (d + 1 + 1)..(j + 1) : r \in q[i].new  BY <1>2 DEF Hears
  <2>2. i - 1 \in (d + 1)..j /\ i - 1 \in 1..Len(p) /\ (i - 1) + 1 = i  BY DEF Behind
  <2>3. p[i - 1] = q[i]  BY <2>2 DEF Behind
  <2> QED  BY <2>1, <2>2, <2>3 DEF Hears
<1> QED  BY <1>1, <1>2

LEMMA GotBehind ==
  ASSUME NEW p, NEW q, Behind(p, q), NEW h, NEW r, NEW x, NEW d \in Nat,
         NEW j \in 0..(Len(p) + 1), Gets(q, h, d + 1, r, x, j + 1)
  PROVE  Gets(p, h, d, r, x, j)
<1>1. CASE x <= Len(h)  BY <1>1 DEF Gets
<1>2. CASE ~(x <= Len(h))
  <2>1. PICK i \in (d + 1 + 1)..(j + 1 - 1) : q[i].n[r] > 0 /\ x <= Needs(q[i], r)
    BY <1>2 DEF Gets
  <2>2. i - 1 \in (d + 1)..(j - 1) /\ i - 1 \in 1..Len(p) /\ (i - 1) + 1 = i
    BY DEF Behind
  <2>3. p[i - 1] = q[i]  BY <2>2 DEF Behind
  <2> QED  BY <2>1, <2>2, <2>3 DEF Gets
<1> QED  BY <1>1, <1>2

LEMMA ToldBehind ==
  ASSUME NEW p, NEW q, Behind(p, q), NEW r, ToldOnce(q, r)
  PROVE  ToldOnce(p, r)
<1>1. \A j \in 1..Len(p) : j + 1 \in 1..Len(q) /\ p[j] = q[j + 1]  BY DEF Behind
<1>2. \A i, j \in 1..Len(p) : i <= j => i + 1 <= j + 1  BY DEF Behind
<1>3. \A j \in 1..Len(p) : Tells(p[j], r)  BY <1>1 DEF ToldOnce
<1>4. \A i, j \in 1..Len(p) : r \in p[i].finished /\ i <= j => p[j].n[r] = 0
  BY <1>1, <1>2 DEF ToldOnce
<1>5. \A i, j \in 1..Len(p) : p[i].n[r] > 0 /\ p[j].n[r] > 0 => p[i].numOutput[r] = p[j].numOutput[r]
  BY <1>1 DEF ToldOnce
<1> QED  BY <1>3, <1>4, <1>5 DEF ToldOnce

LEMMA UpdateMoves ==
  ASSUME TypedOver(Int), Shape, UpdateFromOutput
  PROVE  /\ Behind(queue', queue) /\ queue \in Seq(BatchOver(Int)) /\ queue' \in Seq(BatchOver(Int))
         /\ \A k \in Ranks : /\ executed'[k] \in Nat /\ executed'[k] <= Len(queue')
                             /\ executed[k] = executed'[k] + 1
         /\ UNCHANGED <<cached, batchReqs, history, row>>
<1>1. /\ queue' \in Seq(BatchOver(Int)) /\ Len(queue') \in Nat /\ Len(queue') = Len(queue) - 1
      /\ \A j \in 1..Len(queue') : queue'[j] = queue[j + 1]
      /\ queue \in Seq(BatchOver(Int)) /\ Len(queue) \in Nat
  BY UpdateNext, QueueFacts
<1>2. /\ executed' = [k \in Ranks |-> executed[k] - 1]
      /\ UNCHANGED <<cached, batchReqs, history, row>>
  BY DEF UpdateFromOutput
<1>3. TypedOver(Int)' /\ Shape' /\ \A k \in Ranks : executed[k] \in Nat
  BY UpdateFromOutputShape, RanksFacts DEF TypedOver
<1>4. \A k \in Ranks : executed'[k] \in Nat  BY <1>3 DEF TypedOver, RanksOver
<1>5. \A k \in Ranks : executed'[k] <= Len(queue')  BY <1>3 DEF Shape, Order
<1> QED  BY <1>1, <1>2, <1>3, <1>4, <1>5 DEF Behind

LEMMA UpdateGives ==
  ASSUME TypedOver(Int), Shape, Books, Progress, UpdateFromOutput, NEW r \in Requests,
         Unfinished(r)'
  PROVE  GoesWithout(r) \/ Gains(r)
<1> DEFINE a == req[r]  z == req'[r]  o == OldestOutput(r)
<1>1. /\ Updated(r) => Processed(z, Oldest, r, o)
      /\ ~Updated(r) => z = a
  BY UpdateFromOutputShape
<1>2. Updated(r) => NothingGiven(r) \/ TokensGiven(r, o)  BY UpdatedCases DEF Progress
<1>3. CASE Updated(r) => NothingGiven(r)
  <2>1. z.output = a.output  BY <1>1, <1>3 DEF NothingGiven
  <2> QED  BY <1>3, <2>1, UpdateShifts DEF GoesWithout
<1>4. CASE Updated(r) /\ TokensGiven(r, o)
  <2>1. /\ z.status # "finished" /\ Oldest.n[r] > 0
    BY <1>4 DEF Unfinished, Updated
  <2>2. /\ o # <<>> /\ NoneInFlight(queue', r) /\ z.output = a.output \o Kept(r, o)
        /\ Kept(r, o) = o /\ Len(history[LastRank][r]) >= Len(a.output) + Len(o)
    BY <1>4, <2>1 DEF TokensGiven
  <2>3. /\ a.output \in Seq(TokenOver(Int)) /\ o \in Seq(TokenOver(Int)) /\ a.stale \in Int
        /\ history[LastRank][r] \in Seq(TokenOver(Int))
    BY OldestFacts, RequestFacts, RanksFacts, EngineFacts DEF TypedOver, Numbers
  <2>4. ~Discards(r)
    <3>1. Discards(r) => z.output = a.output  BY <1>1, <1>4 DEF Processed
    <3>2. Len(a.output \o o) = Len(a.output) + Len(o) /\ Len(o) > 0 /\ Len(a.output) \in Nat
      BY <2>2, <2>3
    <3> QED  BY <2>2, <3>1, <3>2
  <2>5. DeliveredAt(queue, a, r, 1)
    <3>1. Flight(queue, r, 1) = Oldest.n[r] /\ Oldest.n[r] \in Nat /\ Oldest = queue[1]
      BY OldestFacts DEF Oldest
    <3>2. ~(a.stale > 0) => FreshAt(queue, a, r, 1)  BY <2>1, <2>3, <3>1 DEF FreshAt
    <3>3. a.stale > 0 => ~a.dropStale  BY <2>4 DEF Discards
    <3> QED  BY <2>1, <3>1, <3>2, <3>3 DEF DeliveredAt
  <2>6. Len(a.output) + Len(o) <= Len(history[LastRank][r])  BY <2>2, <2>3
  <2> QED  BY <2>2, <2>5, <2>6 DEF Gains
<1> QED  BY <1>2, <1>3, <1>4

---------------------------------------------------------------------------
(* What the ranks know when an output is taken *)

\* The output only grows, by what the history of the last rank has.
LEMMA UpdateGrows ==
  ASSUME TypedOver(Int), Shape, UpdateFromOutput, NEW r \in Requests, GoesWithout(r) \/ Gains(r)
  PROVE  \E o \in Seq(TokenOver(Int)) : req'[r].output = req[r].output \o o
<1>1. req[r].output \in Seq(TokenOver(Int)) /\ OldestOutput(r) \in Seq(TokenOver(Int))
  BY OldestFacts, RequestFacts DEF TypedOver, Numbers
<1>2. <<>> \in Seq(TokenOver(Int)) /\ req[r].output \o <<>> = req[r].output  BY <1>1
<1>3. CASE GoesWithout(r)  BY <1>2, <1>3 DEF GoesWithout
<1>4. CASE Gains(r)  BY <1>1, <1>4 DEF Gains
<1> QED  BY <1>3, <1>4

LEMMA UpdateTold ==
  ASSUME TypedOver(Int), Shape, Books, Progress, UpdateFromOutput, NEW r \in Requests,
         TokensSent(r)
  PROVE  TokensSent(r)'
<1>1. Behind(queue', queue) /\ queue \in Seq(BatchOver(Int))  BY UpdateMoves
<1>2. ToldOnce(queue', r)  BY <1>1, ToldBehind DEF TokensSent
<1>3. ASSUME Unfinished(r)' PROVE SentOf(queue', req'[r], r)
  <2>1. Unfinished(r)  BY <1>3, UpdateSent DEF SameSent
  <2>2. PICK o \in Seq(TokenOver(Int)) : req'[r].output = req[r].output \o o
    BY <1>3, UpdateGives, UpdateGrows
  <2> DEFINE s == req[r].output  t == req'[r].output
  <2>3. s \in Seq(TokenOver(Int))  BY RequestFacts DEF TypedOver, Numbers
  <2>4. /\ Len(s) \in Nat /\ Len(t) \in Nat /\ Len(s) <= Len(t)
        /\ \A i \in 1..Len(s) : t[i] = s[i] /\ i \in 1..Len(t)
    BY <2>2, <2>3
  <2>5. SentOf(queue, req[r], r)  BY <2>1 DEF TokensSent
  <2> SUFFICES ASSUME NEW j \in 1..Len(queue'), queue'[j].n[r] > 0,
                      NEW i \in 1..Len(queue'[j].newTokens[r])
               PROVE  /\ Starts(queue'[j], r) + i \in 1..Len(t)
                      /\ queue'[j].newTokens[r][i] = t[Starts(queue'[j], r) + i]
    BY DEF SentOf
  <2>6. queue'[j] = queue[j + 1] /\ j + 1 \in 1..Len(queue)  BY <1>1 DEF Behind
  <2>7. /\ Starts(queue'[j], r) + i \in 1..Len(s)
        /\ queue'[j].newTokens[r][i] = s[Starts(queue'[j], r) + i]
    BY <2>5, <2>6 DEF SentOf
  <2> HIDE DEF s, t
  <2> QED  BY <2>4, <2>7
<1> QED  BY <1>2, <1>3 DEF TokensSent

LEMMA UpdateRank ==
  ASSUME TypedOver(Int), Shape, Books, Progress, UpdateFromOutput, NEW k \in Ranks,
         NEW r \in Requests, RankCopies(k, r)
  PROVE  RankCopies(k, r)'
<1> DEFINE d == executed'[k]  p == queue'  q == queue  h == history[k][r]
<1>1. /\ Behind(p, q) /\ d \in Nat /\ d <= Len(p) /\ executed[k] = d + 1
      /\ cached' = cached /\ batchReqs' = batchReqs /\ history' = history /\ row' = row
  BY UpdateMoves
<1>2. SameSent(r)  BY UpdateSent
<1>3. h \in Seq(TokenOver(Int))  BY RanksFacts DEF TypedOver
<1> HIDE DEF d, p, q, h
<1>4. RowRight(p, d, cached[k], batchReqs[k], h, row[k][r], r)
  <2>1. RowRight(q, d + 1, cached[k], batchReqs[k], h, row[k][r], r)
    BY <1>1 DEF RankCopies, q, h
  <2>2. d > 0 => p[d] = q[d + 1] /\ d + 1 > 0  BY <1>1 DEF Behind
  <2> QED  BY <2>1, <2>2 DEF RowRight
<1>5. Informed(p, cached[k], d, Met(r)', r)
  <2>1. Informed(q, cached[k], d + 1, Met(r), r)  BY <1>1 DEF RankCopies, q
  <2>2. ASSUME NEW j \in (d + 1)..Len(p), p[j].n[r] > 0 PROVE Hears(p, cached[k], d, r, j)
    <3>1. j \in 1..Len(p) /\ j \in 0..Len(p) /\ j + 1 \in (d + 1 + 1)..Len(q)
      BY <1>1 DEF Behind
    <3>2. q[j + 1].n[r] > 0  BY <1>1, <2>2, <3>1 DEF Behind
    <3>3. Hears(q, cached[k], d + 1, r, j + 1)  BY <2>1, <3>1, <3>2 DEF Informed
    <3> QED  BY <1>1, <3>1, <3>3, HeardBehind
  <2>3. Met(r)' => Hears(p, cached[k], d, r, Len(p))
    <3>1. Met(r)' => Hears(q, cached[k], d + 1, r, Len(p) + 1)
      BY <1>1, <1>2, <2>1 DEF Informed, SameSent, Behind
    <3>2. Len(p) \in 0..Len(p)  BY <1>1 DEF Behind
    <3> QED  BY <1>1, <3>1, <3>2, HeardBehind
  <2> QED  BY <2>2, <2>3 DEF Informed
<1>6. ASSUME k # LastRank
      PROVE  /\ NoGap(p, h, d, Unfinished(r)', SentFrom(r)', r)
             /\ Unfinished(r)' => PrefixOf(h, req'[r].output)
  <2>1. /\ NoGap(q, h, d + 1, Unfinished(r), SentFrom(r), r)
        /\ Unfinished(r) => PrefixOf(h, req[r].output)
    BY <1>1, <1>6 DEF RankCopies, q, h
  <2>2. ASSUME NEW j \in (d + 1)..Len(p), p[j].n[r] > 0 PROVE Gets(p, h, d, r, Starts(p[j], r), j)
    <3>1. j \in 1..Len(p) /\ j \in 0..(Len(p) + 1) /\ j + 1 \in (d + 1 + 1)..Len(q)
      BY <1>1 DEF Behind
    <3>2. p[j] = q[j + 1]  BY <1>1, <3>1 DEF Behind
    <3>3. Gets(q, h, d + 1, r, Starts(p[j], r), j + 1)
      BY <2>1, <2>2, <3>1, <3>2 DEF NoGap
    <3> QED  BY <1>1, <3>1, <3>3, GotBehind
  <2>3. Unfinished(r)' => Unfinished(r) /\ SentFrom(r)' = SentFrom(r)
    BY <1>2 DEF SameSent, SentFrom
  <2>4. ASSUME Unfinished(r)' PROVE Gets(p, h, d, r, SentFrom(r)' - PromptLen[r], Len(p) + 1)
    <3>1. Gets(q, h, d + 1, r, SentFrom(r)' - PromptLen[r], Len(q) + 1)
      BY <2>1, <2>3, <2>4 DEF NoGap
    <3>2. Len(p) + 1 \in 0..(Len(p) + 1) /\ Len(q) + 1 = Len(p) + 1 + 1
      BY <1>1 DEF Behind
    <3> HIDE DEF SentFrom
    <3> QED  BY <1>1, <3>1, <3>2, GotBehind
  <2>5. ASSUME Unfinished(r)' PROVE PrefixOf(h, req'[r].output)
    <3>1. PICK o \in Seq(TokenOver(Int)) : req'[r].output = req[r].output \o o
      BY <2>5, UpdateGives, UpdateGrows
    <3>2. PrefixOf(h, req[r].output) /\ req[r].output \in Seq(TokenOver(Int))
      BY <2>1, <2>3, <2>5, RequestFacts DEF TypedOver, Numbers
    <3> QED  BY <1>3, <3>1, <3>2, PrefixGrows
  <2> QED  BY <2>2, <2>4, <2>5 DEF NoGap
<1> QED  BY <1>1, <1>4, <1>5, <1>6 DEF RankCopies, d, p, h

LEMMA UpdateLast ==
  ASSUME TypedOver(Int), Shape, Books, Progress, UpdateFromOutput, NEW r \in Requests,
         LastCopies(r)
  PROVE  LastCopies(r)'
<1> DEFINE d == executed'[LastRank]  p == queue'  q == queue  h == history[LastRank][r]
           a == req[r]  z == req'[r]  o == OldestOutput(r)
<1>0. LastRank \in Ranks  BY EngineFacts
<1>1. /\ Behind(p, q) /\ q \in Seq(BatchOver(Int)) /\ p \in Seq(BatchOver(Int))
      /\ d \in Nat /\ d <= Len(p) /\ executed[LastRank] = d + 1 /\ history' = history
  BY <1>0, UpdateMoves
<1>2. /\ h \in Seq(TokenOver(Int)) /\ a.output \in Seq(TokenOver(Int))
      /\ o \in Seq(TokenOver(Int)) /\ 1 \in 1..Len(results)
  BY <1>0, RanksFacts, RequestFacts, OldestFacts DEF TypedOver, Numbers
<1>3. Keeps(p, h, d, r)
  <2>1. Keeps(q, h, d + 1, r)  BY <1>1 DEF LastCopies
  <2>2. \A j \in (d + 1)..Len(p) : j + 1 \in (d + 1 + 1)..Len(q) /\ p[j] = q[j + 1]
    BY <1>1 DEF Behind
  <2> HIDE DEF d, p, q, h
  <2> QED  BY <2>1, <2>2 DEF Keeps
<1>4. ASSUME Unfinished(r)'
      PROVE  PrefixOf(z.output, h) /\ SampledAfter(p, results', z, h, r)
  <2>1. Unfinished(r)  BY <1>4, UpdateSent DEF SameSent
  <2>2. PrefixOf(a.output, h) /\ SampledAfter(q, results, a, h, r)
    BY <2>1 DEF LastCopies
  <2>3. \A j \in 1..Len(results') : /\ results'[j] = results[j + 1]
                                    /\ j \in 1..Len(p) /\ j + 1 \in 1..Len(results)
    BY UpdateNext
  <2>4. CASE GoesWithout(r)
    <3>1. z.output = a.output  BY <2>4 DEF GoesWithout
    <3>2. ASSUME NEW j \in 1..Len(results'), p[j].n[r] > 0, DeliveredAt(p, z, r, j),
                 NEW i \in 1..Len(results'[j][r])
          PROVE  h[Len(z.output) + i] = results'[j][r][i]
      <4>1. j \in 1..Len(p) /\ j + 1 \in 1..Len(q) /\ p[j] = q[j + 1]
        BY <1>1, <2>3 DEF Behind
      <4>2. LiveState(a)  BY <2>1, <3>2, <4>1, LiveInFlight
      <4>3. Shifted(a, z, q[1].n[r])  BY <2>4, <4>2 DEF GoesWithout
      <4>4. Len(p) = Len(q) - 1 /\ \A m \in 1..Len(p) : p[m] = q[m + 1]
        BY <1>1 DEF Behind
      <4>5. DeliveredAt(q, a, r, j + 1)
        <5> HIDE DEF p, q, a, z
        <5> QED  BY <1>1, <3>2, <4>1, <4>3, <4>4, ShiftFacts
      <4>6. q[j + 1].n[r] > 0 /\ j + 1 \in 1..Len(results) /\ results'[j] = results[j + 1]
        BY <2>3, <3>2, <4>1
      <4> HIDE DEF p, q, a, z, h
      <4> QED  BY <2>2, <3>1, <3>2, <4>5, <4>6 DEF SampledAfter
    <3> HIDE DEF p, a, z, h
    <3> QED  BY <2>2, <3>1, <3>2 DEF SampledAfter
  <2>5. CASE Gains(r)
    <3>1. /\ DeliveredAt(q, a, r, 1) /\ NoneInFlight(p, r) /\ z.output = a.output \o o
          /\ Len(a.output) + Len(o) <= Len(h)
      BY <2>5 DEF Gains
    <3>2. SampledAfter(p, results', z, h, r)
      <4>1. \A j \in 1..Len(results') : ~(p[j].n[r] > 0)  BY <2>3, <3>1 DEF NoneInFlight
      <4> HIDE DEF p, z, h
      <4> QED  BY <4>1 DEF SampledAfter
    <3>3. \A i \in 1..Len(o) : h[Len(a.output) + i] = o[i]
      <4>1. q[1].n[r] > 0 /\ o = results[1][r]  BY <3>1 DEF DeliveredAt, OldestOutput
      <4> HIDE DEF q, a, h, o
      <4> QED  BY <1>2, <2>2, <3>1, <4>1 DEF SampledAfter
    <3>4. PrefixOf(z.output, h)
      <4> HIDE DEF a, z, h, o, p, q
      <4> DEFINE s == a.output  t == z.output
      <4>1. /\ t = s \o o /\ s \in Seq(TokenOver(Int)) /\ o \in Seq(TokenOver(Int))
            /\ Len(s) + Len(o) <= Len(h)
        BY <1>2, <3>1
      <4>2. \A i \in 1..Len(s) : h[i] = s[i]  BY <2>2 DEF PrefixOf
      <4>3. \A i \in 1..Len(o) : h[Len(s) + i] = o[i]  BY <3>3
      <4> HIDE DEF s, t
      <4>4. /\ Len(t) = Len(s) + Len(o) /\ Len(s) \in Nat /\ Len(o) \in Nat
            /\ \A i \in 1..Len(s) : t[i] = s[i]
            /\ \A i \in 1..Len(o) : t[Len(s) + i] = o[i]
        BY <4>1
      <4>5. ASSUME NEW i \in 1..Len(t) PROVE t[i] = h[i]
        <5>1. CASE i <= Len(s)
          <6>1. i \in 1..Len(s)  BY <4>4, <5>1
          <6> QED  BY <4>2, <4>4, <6>1
        <5>2. CASE i > Len(s)
          <6>1. i - Len(s) \in 1..Len(o) /\ Len(s) + (i - Len(s)) = i  BY <4>4, <5>2
          <6> QED  BY <4>3, <4>4, <6>1
        <5> QED  BY <4>4, <5>1, <5>2
      <4> QED  BY <4>1, <4>4, <4>5 DEF PrefixOf, t
    <3> QED  BY <3>2, <3>4
  <2> QED  BY <1>4, <2>4, <2>5, UpdateGives
<1> QED  BY <1>1, <1>3, <1>4 DEF LastCopies

LEMMA UpdateCopied ==
  ASSUME TypedOver(Int), Shape, Books, Progress, Copied, UpdateFromOutput
  PROVE  Copied'
BY UpdateTold, UpdateRank, UpdateLast DEF Copied

LEMMA CopiedStep ==
  ASSUME TypedOver(Int), Shape, Books, Progress, Copied, [Next]_vars
  PROVE  Copied'
<1>1. CASE IssueBatch  BY <1>1, IssueCopied
<1>2. CASE UpdateFromOutput  BY <1>2, UpdateCopied
<1>3. CASE SampleBatch  BY <1>3, SampleCopied
<1>4. ASSUME NEW k \in Ranks, ExecuteBatch(k) PROVE Copied'  BY <1>4, ExecuteCopied
<1>5. CASE ~IssueBatch /\ ~UpdateFromOutput /\ ~SampleBatch /\ \A k \in Ranks : ~ExecuteBatch(k)
  BY <1>5, QuietCopied
<1> QED  BY <1>1, <1>2, <1>3, <1>4, <1>5

LEMMA CopiedInit ==
  ASSUME Init
  PROVE  Copied
<1>1. /\ queue = <<>> /\ results = <<>> /\ LastRank \in Ranks
      /\ \A r \in Requests : ~Met(r) /\ req[r].output = <<>> /\ req[r].sent = 0
      /\ \A k \in Ranks, r \in Requests : /\ executed[k] = 0 /\ batchReqs[k] = {}
                                          /\ history[k][r] = <<>> /\ row[k][r] = <<>>
  BY EngineFacts DEF Init, NewRequest, Met
<1>2. /\ Len(<<>>) = 0 /\ \A j \in 1..0 : FALSE
      /\ \A j \in (0 + 1)..0 : FALSE
  OBVIOUS
<1>3. ASSUME NEW r \in Requests PROVE TokensSent(r) /\ LastCopies(r)
  <2>1. ToldOnce(queue, r) /\ SentOf(queue, req[r], r)
    BY <1>1, <1>2 DEF ToldOnce, SentOf
  <2>2. /\ Keeps(queue, history[LastRank][r], executed[LastRank], r)
        /\ SampledAfter(queue, results, req[r], history[LastRank][r], r)
    BY <1>1, <1>2 DEF Keeps, SampledAfter
  <2>3. PrefixOf(req[r].output, history[LastRank][r])  BY <1>1, <1>2 DEF PrefixOf
  <2> QED  BY <2>1, <2>2, <2>3 DEF TokensSent, LastCopies
<1>4. ASSUME NEW k \in Ranks, NEW r \in Requests PROVE RankCopies(k, r)
  <2>1. RowRight(queue, 0, cached[k], {}, <<>>, <<>>, r)  BY <1>2 DEF RowRight, InOrder
  <2>2. Informed(queue, cached[k], 0, Met(r), r)  BY <1>1, <1>2 DEF Informed
  <2>3. PrefixOf(history[k][r], req[r].output)  BY <1>1, <1>2 DEF PrefixOf
  <2>4. SentFrom(r) - PromptLen[r] <= 0
    <3>1. PromptLen[r] \in Nat /\ req[r].sent = 0  BY <1>1, EngineFacts
    <3>2. SentFrom(r) = PromptLen[r]
      <4>1. SentFrom(r) = IF req[r].sent >= PromptLen[r] THEN req[r].sent ELSE PromptLen[r]
        BY <3>1, Max2 DEF SentFrom
      <4> QED  BY <3>1, <4>1
    <3> QED  BY <3>1, <3>2
  <2>5. NoGap(queue, <<>>, 0, Unfinished(r), SentFrom(r), r)
    <3> HIDE DEF SentFrom
    <3> QED  BY <1>1, <1>2, <2>4 DEF NoGap, Gets
  <2> QED  BY <1>1, <2>1, <2>2, <2>3, <2>5 DEF RankCopies
<1> QED  BY <1>3, <1>4 DEF Copied

\* What rank k reads for r in the batch it executed last.
LEMMA ReadsRight ==
  ASSUME TypedOver(Int), Shape, Progress, Copied, NEW k \in Ranks, executed[k] > 0,
         NEW r \in Requests, queue[executed[k]].n[r] > 0
  PROVE  LET m == Base(queue[executed[k]], r) - PromptLen[r]
         IN /\ r \in cached[k]
            /\ m <= Len(row[k][r])
            /\ Live(r) /\ m > 0 =>
                 /\ m <= Len(req[r].output)
                 /\ SubSeq(row[k][r], 1, m) = SubSeq(req[r].output, 1, m)
<1> DEFINE e == executed[k]  b == queue[e]  h == history[k][r]  s == req[r].output
           m == Needs(b, r)
<1>1. e \in 1..Len(queue) /\ b \in BatchOver(Int) /\ m \in Int
  <2>1. e \in Nat /\ e <= Len(queue) /\ queue \in Seq(BatchOver(Int)) /\ Len(queue) \in Nat
    BY QueueFacts, RanksFacts DEF TypedOver, Shape, Order
  <2>2. e \in 1..Len(queue) /\ b \in BatchOver(Int)  BY <2>1
  <2> QED  BY <2>2, SpanFacts
<1>2. h \in Seq(TokenOver(Int)) /\ s \in Seq(TokenOver(Int))
  BY RanksFacts, RequestFacts DEF TypedOver, Numbers
<1>3. RankCopies(k, r) /\ LastCopies(r) /\ BatchFits(b, r)
  BY <1>1 DEF Copied, Progress, BatchesFit
<1>4. r \in cached[k] /\ m <= Len(h) /\ row[k][r] = h  BY <1>3 DEF RankCopies, RowRight
<1>5. ASSUME Live(r), m > 0 PROVE m <= Len(s) /\ SubSeq(h, 1, m) = SubSeq(s, 1, m)
  <2>1. Unfinished(r)  BY <1>5 DEF Live, Unfinished
  <2>2. b.numOutput[r] = Len(s)  BY <1>1, <2>1, LinkInFlight DEF LinkAt
  <2>3. m <= b.numOutput[r]  BY <1>1, <1>3, NeedsKnown
  <2>4. PrefixOf(h, s) \/ PrefixOf(s, h)  BY <1>3, <2>1 DEF RankCopies, LastCopies
  <2>5. m \in Nat  BY <1>1, <1>5
  <2>6. m <= Len(s)  BY <2>2, <2>3
  <2> HIDE DEF h, s, m
  <2> QED  BY <1>2, <1>4, <2>4, <2>5, <2>6, SamePrefix
<1> QED  BY <1>4, <1>5 DEF Needs

---------------------------------------------------------------------------
(* The theorems *)

(***************************************************************************)
(* The discipline of the queues: batches are executed in order by every    *)
(* rank and their results are those of the oldest ones, no more of them    *)
(* are in flight than the batch queue holds, a request is in the one queue *)
(* its status tells, the plan gives tokens to running requests only, and   *)
(* nothing is announced as finished that is not (core.py,                  *)
(* step_with_batch_queue; scheduler.py, schedule).                         *)
(***************************************************************************)
THEOREM QueuesInStep == Spec => [](TypedOver(Int) /\ Shape)
<1>1. Init => TypedOver(Int) /\ Shape  BY InitTyped, InitShape DEF Numbers
<1>2. TypedOver(Int) /\ Shape /\ [Next]_vars => TypedOver(Int)' /\ Shape'  BY Steps
<1> QED  BY <1>1, <1>2, PTL DEF Spec

(***************************************************************************)
(* The counters of a request agree with the batches in flight, a sampled   *)
(* result lies at the positions of its batch, and the pool backs what is   *)
(* computed or planned: the invariant the next two theorems read off       *)
(* (scheduler.py, schedule and update_from_output).                        *)
(***************************************************************************)
THEOREM BooksKept == Spec => [](TypedOver(Int) /\ Shape /\ Books)
<1>1. Init => Books  BY BooksInit
<1>2. TypedOver(Int) /\ Shape /\ Books /\ [Next]_vars => Books'  BY BooksStep
<1> QED  BY <1>1, <1>2, QueuesInStep, PTL DEF Spec

(***************************************************************************)
(* The counters of every live request agree with the batches in flight,    *)
(* whatever was preempted, reset, aborted or returned in between           *)
(* (scheduler.py, _preempt_request and update_from_output).                *)
(***************************************************************************)
THEOREM CountersRight == Spec => []InFlightAccounted
<1>1. TypedOver(Int) /\ Shape /\ Books => InFlightAccounted
  <2> SUFFICES ASSUME TypedOver(Int), Books, NEW r \in Requests, Live(r)
               PROVE  /\ req[r].inFlight = InFlight(r, Len(queue))
                      /\ \E i \in 0..Len(queue) : req[r].stale = InFlight(r, i)
    BY DEF InFlightAccounted
  <2>1. CountersAgree(queue, req[r], r)  BY DEF Books, Accounted
  <2>2. req[r].status # "finished"  BY LiveFacts DEF TypedOver
  <2>3. \A i : InFlight(r, i) = Flight(queue, r, i)  BY InFlightNow
  <2> QED  BY <2>1, <2>2, <2>3 DEF CountersAgree
<1> QED  BY <1>1, BooksKept, PTL

(***************************************************************************)
(* The KV pool is never overcommitted, only running requests hold blocks,  *)
(* and theirs cover the tokens computed or in flight (scheduler.py,        *)
(* schedule, with the victims it preempts and the requests it admits).     *)
(***************************************************************************)
THEOREM PoolBacked == Spec => []KVBacked
<1>1. TypedOver(Int) /\ Shape /\ Books => KVBacked
  <2> SUFFICES ASSUME TypedOver(Int), Books PROVE KVBacked
    OBVIOUS
  <2>1. FreeBlocks >= 0
    <3>1. \A r \in Requests : req[r].blocks \in Nat
      BY RequestFacts DEF TypedOver, Numbers
    <3>2. PoolUse(req) \in Nat /\ NumBlocks \in Nat /\ PoolUse(req) <= NumBlocks
      BY <3>1, PoolUseFacts, EngineFacts DEF Books
    <3> QED  BY <3>2, FreeBlocksNow
  <2>2. \A r \in Requests : IF req[r].status = "running"
                              THEN req[r].blocks * BlockSize >= req[r].computed + plan.n[r]
                              ELSE req[r].blocks = 0
    BY DEF Books, Backed, Covered
  <2> QED  BY <2>1, <2>2 DEF KVBacked
<1> QED  BY <1>1, BooksKept, PTL

(***************************************************************************)
(* The batches in flight compute consecutive tokens of a request, the last *)
(* rank knows the tokens it will need, and the scheduler is never more     *)
(* than the drafts ahead: the invariant the next theorems read off         *)
(* (scheduler.py, _update_after_schedule and update_from_output).          *)
(***************************************************************************)
THEOREM ProgressKept == Spec => [](TypedOver(Int) /\ Shape /\ Books /\ Progress)
<1>1. Init => Progress  BY ProgressInit
<1>2. TypedOver(Int) /\ Shape /\ Books /\ Progress /\ [Next]_vars => Progress'
  BY ProgressStep
<1> QED  BY <1>1, <1>2, BooksKept, PTL DEF Spec

(***************************************************************************)
(* What a request is given is a sequence of tokens for consecutive         *)
(* positions, whatever was preempted, rejected or in flight (scheduler.py, *)
(* update_from_output).                                                    *)
(***************************************************************************)
THEOREM NothingLostOrTwice == Spec => []OutputInOrder
BY ProgressKept, PTL DEF Progress

(***************************************************************************)
(* At most one batch in flight samples for a request's next position       *)
(* (scheduler.py, the guard of the running loop and the stale check of the *)
(* waiting loop).                                                          *)
(***************************************************************************)
THEOREM NeverSampledTwice == Spec => []OneSampleInFlight
<1>1. TypedOver(Int) /\ Shape /\ Progress => OneSampleInFlight
  <2> SUFFICES ASSUME TypedOver(Int), Shape, Progress, NEW r \in Requests, Live(r)
               PROVE  Cardinality(FreshSamples(r)) <= 1
    BY DEF OneSampleInFlight
  <2> DEFINE L == Len(queue)  a == req[r]
  <2>1. queue \in Seq(BatchOver(Int)) /\ L \in Nat /\ LiveState(a)
    BY QueueFacts DEF Live, LiveState
  <2>2. ASSUME NEW i \in FreshSamples(r)
        PROVE  i \in 1..L /\ queue[i].n[r] > 0 /\ Flight(queue, r, i) = Flight(queue, r, L)
    <3>1. /\ i \in 1..L /\ queue[i].n[r] > 0 /\ Flight(queue, r, i) > a.stale
          /\ ReachesAt(queue, r, i)
      BY <2>2, InFlightNow DEF FreshSamples, ReachesAt
    <3>2. LinkAt(queue, a, r, i)  BY <2>1, <3>1 DEF Progress, Chained, ChainOf
    <3> QED  BY <3>1, <3>2 DEF LinkAt, DeliveredAt, FreshAt
  <2>3. ASSUME NEW i \in FreshSamples(r), NEW j \in FreshSamples(r), i < j
        PROVE  FALSE
    <3>1. /\ i \in 1..L /\ j \in 1..L /\ queue[j].n[r] > 0
          /\ Flight(queue, r, i) = Flight(queue, r, L)
          /\ Flight(queue, r, j) = Flight(queue, r, L)
      BY <2>2
    <3>2. i \in 0..L /\ j \in 0..L /\ j - 1 \in 0..L /\ i <= j - 1  BY <2>1, <2>3, <3>1
    <3>3. /\ Flight(queue, r, j) = Flight(queue, r, j - 1) + queue[j].n[r]
          /\ Flight(queue, r, i) <= Flight(queue, r, j - 1) /\ queue[j].n[r] \in Nat
          /\ Flight(queue, r, i) \in Nat /\ Flight(queue, r, j - 1) \in Nat
      BY <2>1, <3>1, <3>2, FlightFacts
    <3> QED  BY <3>1, <3>3
  <2>4. ASSUME NEW i \in FreshSamples(r), NEW j \in FreshSamples(r)
        PROVE  i = j
    <3>1. i \in Nat /\ j \in Nat  BY <2>1, <2>2
    <3>2. ~(i < j) /\ ~(j < i)  BY <2>3
    <3> QED  BY <3>1, <3>2
  <2>5. CASE FreshSamples(r) = {}
    <3>1. Cardinality(FreshSamples(r)) = 0  BY <2>5, FS_EmptySet
    <3> QED  BY <3>1
  <2>6. CASE FreshSamples(r) # {}
    <3>1. PICK i : i \in FreshSamples(r)  BY <2>6
    <3>2. FreshSamples(r) = {i}  BY <2>4, <3>1
    <3>3. Cardinality({i}) = 1  BY FS_Singleton
    <3> QED  BY <3>2, <3>3
  <2> QED  BY <2>5, <2>6
<1> QED  BY <1>1, ProgressKept, PTL

(***************************************************************************)
(* A running request past its prompt that has all its outputs has exactly  *)
(* one token left to compute: every rejected draft was rolled back once    *)
(* (scheduler.py, update_from_output).                                     *)
(***************************************************************************)
THEOREM RolledBackOnce == Spec => []OneTokenToCompute
<1>1. Progress => OneTokenToCompute
  BY DEF Progress, InPace, Paced, OneTokenToCompute, TokensOf, NumTokens
<1> QED  BY <1>1, ProgressKept, PTL

(***************************************************************************)
(* Every variable has its type: no counter of tokens in flight, stale or   *)
(* computed goes below zero, whatever is preempted or rejected, the batch  *)
(* queue never holds more than it may, no request holds more blocks than   *)
(* the pool has (scheduler.py, update_from_output; core.py,                *)
(* step_with_batch_queue).                                                 *)
(***************************************************************************)
THEOREM EngineTyped == Spec => []TypeOK
<1>1. Init => TypedOver(Nat)  BY InitTyped DEF Numbers
<1>2. TypedOver(Int) /\ Shape /\ Books /\ Progress /\ TypedOver(Nat) /\ [Next]_vars
        => TypedOver(Nat)'
  BY NatStep
<1>3. TypedOver(Nat) /\ Shape /\ Books => TypeOK  BY TypesAsStated
<1> QED  BY <1>1, <1>2, <1>3, ProgressKept, PTL DEF Spec

(***************************************************************************)
(* Drafts are only ever verified after the token they were proposed for,   *)
(* whatever happened between the batch that proposed them, the call that   *)
(* fetched them and the batch that carries them (core.py, post_step;       *)
(* scheduler.py, update_draft_token_ids and schedule).                     *)
(***************************************************************************)
THEOREM DraftsVerifiedInPlace == Spec => []DraftsFollowHistory
<1>1. Init => Drafting  BY DraftingInit
<1>2. TypedOver(Int) /\ Shape /\ Books /\ Progress /\ Drafting /\ [Next]_vars => Drafting'
  BY DraftingStep
<1>3. Drafting => DraftsFollowHistory  BY DEF Drafting
<1> QED  BY <1>1, <1>2, <1>3, ProgressKept, PTL DEF Spec

(***************************************************************************)
(* What every rank knows of every request, and what it is still to be sent *)
(* with the batches in flight, adds up to what the next batches read: the  *)
(* invariant the last two theorems read off (scheduler.py,                 *)
(* _make_cached_request_data; gpu_model_runner.py, _update_states).        *)
(***************************************************************************)
THEOREM CopiesKept == Spec => [](TypedOver(Int) /\ Shape /\ Books /\ Progress /\ Copied)
<1>1. Init => Copied  BY CopiedInit
<1>2. TypedOver(Int) /\ Shape /\ Books /\ Progress /\ Copied /\ [Next]_vars => Copied'
  BY CopiedStep
<1> QED  BY <1>1, <1>2, ProgressKept, PTL DEF Spec

(***************************************************************************)
(* A rank that executes a batch knows its requests and reads from its own  *)
(* copy of their tokens those the scheduler has, whatever was preempted,   *)
(* resumed, aborted or rejected since it was issued (gpu_model_runner.py,  *)
(* _update_states; scheduler.py, _make_cached_request_data).               *)
(***************************************************************************)
THEOREM InputsAreKnown == Spec => []InputsKnown
<1>1. TypedOver(Int) /\ Shape /\ Progress /\ Copied => InputsKnown
  <2> SUFFICES ASSUME TypedOver(Int), Shape, Progress, Copied PROVE InputsKnown
    OBVIOUS
  <2>1. \A k \in Ranks, r \in Requests :
          r \in Scheduled(queue[executed[k]]) => queue[executed[k]].n[r] > 0
    BY DEF Scheduled
  <2>2. \A b : Scheduled(b) \subseteq Requests  BY DEF Scheduled
  <2> QED  BY <2>1, <2>2, ReadsRight DEF InputsKnown
<1> QED  BY <1>1, CopiesKept, PTL

(***************************************************************************)
(* Every token in a row of a rank's persistent batch lies at the position  *)
(* it was sampled for, on the ranks that receive tokens as on the last,    *)
(* which samples them (gpu_model_runner.py, _update_states).               *)
(***************************************************************************)
THEOREM RowsStayInOrder == Spec => []RowsInOrder
<1>1. Copied => RowsInOrder
  <2> SUFFICES ASSUME Copied, NEW k \in Ranks, NEW r \in Requests PROVE InOrder(r, row[k][r])
    BY DEF RowsInOrder
  <2>1. /\ row[k][r] = history[k][r] \/ row[k][r] = <<>>
        /\ InOrder(r, history[k][r])
    BY DEF Copied, RankCopies, RowRight
  <2>2. InOrder(r, <<>>)  BY DEF InOrder
  <2> QED  BY <2>1, <2>2
<1> QED  BY <1>1, CopiesKept, PTL
============================================================================
