----------------------------- MODULE HostCalls -----------------------------
(***************************************************************************)
(* Host functions of a forward pass and the staging they share: the rows   *)
(* of an Engram table (engram_ssd.py) and the experts on the CPU           *)
(* (cpu_moe.py).  Python runs ahead of the device: it enqueues a copy into *)
(* pinned memory, a host function with a pointer to a work record, and a   *)
(* copy back, and these records and buffers are kept by size and shared by *)
(* every forward and every captured graph.                                 *)
(*                                                                         *)
(* A lookup is one step here: RowStorePool shows that it may be.           *)
(***************************************************************************)
EXTENDS CpuMoe

CONSTANTS
  Heads,       \* rows a token looks up
  BatchSizes,  \* token counts of the forwards
  Routings,    \* ways in which the tokens of a batch may be routed to experts
  MaxLaunches, \* bound: forwards launched
  MaxAhead     \* bound: forwards enqueued and not done

ASSUME HostCallsAssumption ==
  /\ Heads \in Nat \ {0}
  /\ BatchSizes \subseteq 1..MaxTokens
  /\ Routings \subseteq [1..MaxTokens -> [1..TopK -> Experts]]
  /\ MaxLaunches \in Nat /\ MaxAhead \in Nat

VARIABLES
  stream,    \* operations of the current stream, oldest first
  launched,  \* forwards launched so far
  staged,    \* per user: the capacities with staging
  works,     \* per user: the work records, by key
  captured,  \* batch sizes with a graph
  refused,   \* a capture met a capacity without staging
  ids, rows, deviceRows, \* Engram staging by capacity: ids and w on the host, dw
  out, dout  \* staged_rows of the layer; the experts' output on the device

hostVars == <<stream, launched, staged, works, captured, refused, ids, rows,
              deviceRows, out, dout>>
vars == <<forwardVars, hostVars>>

Users == {"rows", "experts"}
Count(user, m) == IF user = "rows" THEN m * Heads ELSE m

\* What warmup counts in: c = 1, then c *= 2.
PowerOfTwo[j \in Nat] == IF j = 0 THEN 1 ELSE 2 * PowerOfTwo[j - 1]

\* Mutation: the capacity of a count that is no power of two is the one below.
CapacityBelow(n) == Max({PowerOfTwo[j] : j \in {j \in 0..n : PowerOfTwo[j] <= n}})

\* 1 << (n - 1).bit_length()
Capacity(n) == Min({PowerOfTwo[j] : j \in {j \in 0..n : PowerOfTwo[j] >= n}})

PowersUpTo(n) == {PowerOfTwo[j] : j \in {j \in 0..n : PowerOfTwo[j] <= n}}

\* Mutation: the powers of two up to the largest count, and not the one above it.
WarmedShort(user) == PowersUpTo(Count(user, MaxTokens))

\* warmup: powers of two up to twice the largest count.
Warmed(user) == PowersUpTo(2 * Count(user, MaxTokens))

\* Mutation: work records are kept by capacity, as the staging is.
WorkKeyCapacity(n) == Capacity(n)

\* _works is keyed by the exact count.
WorkKey(n) == n

Init ==
  /\ InitForward
  /\ hx = [c \in Warmed("experts") |-> [t \in 1..c |-> Garbage]]
  /\ hids = [c \in Warmed("experts") |-> [t \in 1..c |-> [k \in 1..TopK |-> NotActive]]]
  /\ hout = [c \in Warmed("experts") |-> [t \in 1..c |-> Garbage]]
  /\ stream = <<>> /\ launched = 0
  /\ staged = [u \in Users |-> Warmed(u)]
  /\ works = [u \in Users |-> <<>>]
  /\ captured = {} /\ refused = FALSE
  /\ ids = [c \in Warmed("rows") |-> [p \in 1..c |-> Garbage]]
  /\ rows = [c \in Warmed("rows") |-> [p \in 1..c |-> Garbage]]
  /\ deviceRows = [c \in Warmed("rows") |-> [p \in 1..c |-> Garbage]]
  /\ out = [p \in 1..Count("rows", MaxTokens) |-> Garbage]
  /\ dout = [c \in Warmed("experts") |-> [t \in 1..c |-> Garbage]]

---------------------------------------------------------------------------
(* Python *)

\* The work record of a call: made at the first call of its key, then reused.
Work(user, m) ==
  LET n == Count(user, m)
  IN  IF WorkKey(n) \in DOMAIN works[user] THEN works[user][WorkKey(n)]
      ELSE [m |-> n, cap |-> Capacity(n)]

\* What a forward of m tokens enqueues; batch is what its rows are.
Ops(m, batch) ==
  LET of(user) ==
        <<[op |-> "copyIn", user |-> user, m |-> m, batch |-> batch],
          [op |-> "host", user |-> user, m |-> m, work |-> Work(user, m)],
          [op |-> "copyOut", user |-> user, m |-> m]>>
  IN  of("rows") \o of("experts") \o <<[op |-> "use", m |-> m, batch |-> batch]>>

\* New entries replace those of a buffer, or of the records, and leave the others as they were.
Written(buffer, new) ==
  [p \in DOMAIN buffer \union DOMAIN new |-> IF p \in DOMAIN new THEN new[p] ELSE buffer[p]]

WithWorks(m) ==
  [u \in Users |-> Written(works[u], [n \in {WorkKey(Count(u, m))} |-> Work(u, m)])]

Pending == Cardinality({i \in DOMAIN stream : stream[i].op = "use"})

\* The rows of a batch, padding after the first actual ones.
Batches(actual) ==
  {[n |-> launched + 1, route |-> [t \in 1..actual |-> r[t]]] : r \in Routings}

(***************************************************************************)
(* A graph is captured for m tokens before anything is served: pinned      *)
(* memory cannot be allocated then, so the staging has to be there.        *)
(***************************************************************************)
Capture(m) ==
  /\ launched = 0 /\ m \notin captured
  /\ IF \A u \in Users : Capacity(Count(u, m)) \in staged[u]
       THEN /\ captured' = captured \union {m}
            /\ works' = WithWorks(m)
            /\ UNCHANGED refused
       ELSE refused' = TRUE /\ UNCHANGED <<captured, works>>
  /\ UNCHANGED <<forwardVars, stream, launched, staged, ids, rows, deviceRows, out, dout>>

\* A forward, run op by op or replayed from the graph of m tokens.
Launch(m) ==
  /\ launched < MaxLaunches /\ Pending < MaxAhead
  /\ \E actual \in 1..m :
       /\ actual = m \/ m \in captured
       /\ \E batch \in Batches(actual) : stream' = stream \o Ops(m, batch)
  /\ works' = WithWorks(m)
  /\ staged' = [u \in Users |-> staged[u] \union {Capacity(Count(u, m))}]
  /\ launched' = launched + 1
  /\ UNCHANGED <<forwardVars, captured, refused, ids, rows, deviceRows, out, dout>>

---------------------------------------------------------------------------
(* The device *)

First(op, user) == stream # <<>> /\ Head(stream).op = op /\ Head(stream).user = user

\* ids[:count].copy_
CopyIds ==
  /\ First("copyIn", "rows")
  /\ LET o == Head(stream)
         n == Count("rows", o.m)
     IN  ids' = [ids EXCEPT ![Capacity(n)] =
                   Written(@, [p \in 1..n |-> <<o.batch.n, p>>])]
  /\ stream' = Tail(stream)
  /\ UNCHANGED <<forwardVars, launched, staged, works, captured, refused, rows,
                 deviceRows, out, dout>>

\* row_store_lookup, as RowLookup: the rows of the ids the record points to.
LookupRows ==
  /\ First("host", "rows")
  /\ LET w == Head(stream).work
     IN  rows' = [rows EXCEPT ![w.cap] = Written(@, SubSeq(ids[w.cap], 1, w.m))]
  /\ stream' = Tail(stream)
  /\ UNCHANGED <<forwardVars, launched, staged, works, captured, refused, ids,
                 deviceRows, out, dout>>

\* dw[:count].copy_, then dequantised into the layer's staged rows.
CopyRows ==
  /\ First("copyOut", "rows")
  /\ LET n == Count("rows", Head(stream).m)
         c == Capacity(n)
     IN  /\ deviceRows' = [deviceRows EXCEPT ![c] = Written(@, SubSeq(rows[c], 1, n))]
         /\ out' = Written(out, SubSeq(rows[c], 1, n))
  /\ stream' = Tail(stream)
  /\ UNCHANGED <<forwardVars, launched, staged, works, captured, refused, ids, rows, dout>>

\* Rows of padding are masked, so that they reach no expert.
CopyTokens ==
  /\ First("copyIn", "experts")
  /\ LET o == Head(stream)
         c == Capacity(o.m)
         actual == Len(o.batch.route)
     IN  /\ hx' = [hx EXCEPT ![c] = Written(@, [t \in 1..o.m |-> <<o.batch.n, t>>])]
         /\ hids' = [hids EXCEPT ![c] = Written(@, [t \in 1..o.m |->
              IF t <= actual THEN o.batch.route[t] ELSE [k \in 1..TopK |-> NotActive]])]
  /\ stream' = Tail(stream)
  /\ UNCHANGED <<call, hout, scratch, team, launched, staged, works, captured, refused,
                 ids, rows, deviceRows, out, dout>>

\* cudaLaunchHostFunc: the stream stands still until the team has joined.
EnterExperts ==
  /\ First("host", "experts")
  /\ Fork(Head(stream).work)
  /\ UNCHANGED hostVars

LeaveExperts ==
  /\ Join
  /\ stream' = Tail(stream)
  /\ UNCHANGED <<launched, staged, works, captured, refused, ids, rows, deviceRows, out, dout>>

TeamStep(th) == ThreadStep(th) /\ UNCHANGED hostVars

\* dout[:M].copy_
CopyOutput ==
  /\ First("copyOut", "experts")
  /\ LET m == Head(stream).m
         c == Capacity(m)
     IN  dout' = [dout EXCEPT ![c] = Written(@, SubSeq(hout[c], 1, m))]
  /\ stream' = Tail(stream)
  /\ UNCHANGED <<forwardVars, launched, staged, works, captured, refused, ids, rows,
                 deviceRows, out>>

\* The layers read what the lookup and the experts returned.
Use ==
  /\ stream # <<>> /\ Head(stream).op = "use"
  /\ stream' = Tail(stream)
  /\ UNCHANGED <<forwardVars, launched, staged, works, captured, refused, ids, rows,
                 deviceRows, out, dout>>

StreamStep ==
  CopyIds \/ LookupRows \/ CopyRows \/ CopyTokens \/ EnterExperts \/ LeaveExperts
    \/ CopyOutput \/ Use

\* The only rest: everything enqueued is done.  TLC reports any other as a deadlock.
Idle == launched = MaxLaunches /\ stream = <<>> /\ UNCHANGED vars

Next ==
  \/ \E m \in BatchSizes : Capture(m) \/ Launch(m)
  \/ StreamStep
  \/ \E th \in Threads : TeamStep(th)
  \/ Idle

Spec == Init /\ [][Next]_vars
---------------------------------------------------------------------------
(* Properties *)

Expected(batch, t) ==
  [k \in 1..TopK |-> LET e == batch.route[t][k] IN <<e, <<e, <<batch.n, t>>>>>>]

(***************************************************************************)
(* Whatever shared the staging, the work records and the scratch before,   *)
(* and however far Python has run ahead, a forward uses the rows of its    *)
(* own ids and, for every token that is no padding, the outputs of all its *)
(* experts computed from its own hidden state.                             *)
(***************************************************************************)
ResultsExact ==
  stream # <<>> /\ Head(stream).op = "use" =>
    LET o == Head(stream)
    IN  /\ \A p \in 1..Count("rows", o.m) : out[p] = <<o.batch.n, p>>
        /\ \A t \in DOMAIN o.batch.route : dout[Capacity(o.m)][t] = Expected(o.batch, t)

\* Every capacity a graph may need is warmed up before any capture.
CaptureNeverRefused == ~refused
===========================================================================
