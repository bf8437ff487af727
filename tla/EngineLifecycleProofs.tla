----------------------- MODULE EngineLifecycleProofs -----------------------
(***************************************************************************)
(* Requests and pauses of an engine process, for any clients and any       *)
(* bounds: each request has one final output, aborted requests stay away,  *)
(* and, if clients wait for a pause before they resume, a pause holds.     *)
(*                                                                         *)
(* An action adds a message, takes the first one, or leaves the input      *)
(* queue alone; the lemmas are about these three.                          *)
(***************************************************************************)
EXTENDS EngineLifecycle, TLAPS

States == {"new", "sent", "waiting", "running", "gone"}
Alive == {"waiting", "running"}
Resumes == {"resume", "wake", "wakePart"}

RequestMessages == [type : {"add", "abort"}, r : Requests]
PauseMessages ==
  {m \in [type : {"pause"}, mode : {"abort", "wait", "keep"}, clear : BOOLEAN, sleep : BOOLEAN,
          call : Nat] : m.sleep => m.clear}
Messages == RequestMessages \union PauseMessages \union [type : Resumes \union {"wakeup"}]

Types ==
  /\ inputQueue \in Seq(Messages)
  /\ abortsQueue \subseteq aborted /\ io \subseteq aborted /\ aborted \subseteq Requests
  /\ \A a, b \in io : a = b
  /\ status \in [Requests -> States]
  /\ answers \in [Requests -> Nat]
  /\ batches \in Seq(SUBSET Requests)
  /\ callbacks \in Seq(PauseMessages)
  /\ calls \in Nat
  /\ pauseState \in {"unpaused", "pausedNew", "pausedAll"}
  /\ asleep \in BOOLEAN /\ held \in BOOLEAN

\* The loop waits for a batch only if there is one.
Awaited == pc = "await" => batches # <<>>

IsAdd(i, r) == inputQueue[i].type = "add" /\ inputQueue[i].r = r
IsAbort(i, r) == inputQueue[i].type = "abort" /\ inputQueue[i].r = r

\* An ADD in the queue is the only one of its request, which is not known yet.
AddsSent ==
  \A i \in DOMAIN inputQueue : \A r \in Requests : IsAdd(i, r) =>
    /\ status[r] = "sent"
    /\ \A j \in DOMAIN inputQueue : IsAdd(j, r) => i = j

\* A final output for those that are gone, but perhaps for the aborted.
Answered ==
  \A r \in Requests :
    /\ status[r] # "gone" => answers[r] = 0
    /\ status[r] = "gone" => answers[r] \in {0, 1}
    /\ status[r] = "gone" /\ r \notin aborted => answers[r] = 1

\* An aborted request that is or may become known has an ABORT behind its ADD.
AbortsQueued ==
  /\ \A i \in DOMAIN inputQueue : \A r \in Requests : IsAbort(i, r) => r \in aborted
  /\ \A r \in aborted : status[r] # "new"
  /\ \A r \in aborted \ io :
       status[r] \in Alive \/ (\E i \in DOMAIN inputQueue : IsAdd(i, r)) =>
         \E j \in DOMAIN inputQueue :
           IsAbort(j, r) /\ \A i \in DOMAIN inputQueue : IsAdd(i, r) => i < j

\* A shutdown that aborts leaves nobody; nor does one that drains, but for a pause.
Ended ==
  /\ shutdownState \in {"running", "requested", "shuttingDown"}
  /\ shutdownState = "shuttingDown" /\ ~drain => Known(Requests) = {}
  /\ pc = "exited" /\ (drain => pauseState = "unpaused") => Known(Requests) = {}

Histories == AddsSent /\ Answered /\ AbortsQueued

RequestInv == Types /\ Awaited /\ Histories /\ Ended

\* Pauses in the queue and in callbacks are different calls, and not answered.
PausesPending ==
  /\ \A i \in DOMAIN inputQueue : inputQueue[i].type = "pause" =>
       /\ inputQueue[i] \in pending /\ inputQueue[i].call <= calls
       /\ \A j \in DOMAIN inputQueue :
            inputQueue[j].type = "pause" /\ inputQueue[j].call = inputQueue[i].call => i = j
       /\ \A j \in DOMAIN callbacks : callbacks[j].call # inputQueue[i].call
  /\ \A j \in DOMAIN callbacks : callbacks[j] \in pending /\ callbacks[j].call <= calls

\* No pause is pending when a resume is handled.
ResumesLast ==
  \A i \in DOMAIN inputQueue : inputQueue[i].type \in Resumes =>
    /\ callbacks = <<>>
    /\ \A j \in DOMAIN inputQueue : j < i => inputQueue[j].type # "pause"
    /\ inputQueue[i].type = "resume" => ~asleep

NothingRuns == \A r \in Requests : status[r] # "running"

\* While paused and idle nothing can be scheduled.
PausedIdle ==
  /\ held \/ asleep =>
       /\ pauseState # "unpaused"
       /\ \A i \in DOMAIN batches : batches[i] = {}
       /\ pauseState = "pausedNew" => NothingRuns
  /\ asleep => NothingRuns
  /\ callbacks # <<>> => pauseState # "unpaused"

PauseInv == Types /\ Awaited /\ PausesPending /\ ResumesLast /\ PausedIdle

---------------------------------------------------------------------------
(* Sequences *)

LEMMA AppendFacts ==
  ASSUME NEW S, NEW q \in Seq(S), NEW m \in S
  PROVE  /\ Append(q, m) \in Seq(S)
         /\ Len(Append(q, m)) = Len(q) + 1
         /\ DOMAIN Append(q, m) = 1..(Len(q) + 1) /\ DOMAIN q = 1..Len(q) /\ Len(q) \in Nat
         /\ Append(q, m)[Len(q) + 1] = m
         /\ \A i \in DOMAIN q : Append(q, m)[i] = q[i]
OBVIOUS

LEMMA EmptyFact ==
  ASSUME NEW S, NEW q \in Seq(S), \A i \in DOMAIN q : FALSE
  PROVE  q = <<>>
<1>1. Len(q) \in Nat /\ DOMAIN q = 1..Len(q)
  OBVIOUS
<1>2. Len(q) = 0
  BY <1>1
<1> QED  BY <1>2

LEMMA TailFacts ==
  ASSUME NEW S, NEW q \in Seq(S), q # <<>>
  PROVE  /\ Tail(q) \in Seq(S)
         /\ Len(q) \in Nat \ {0} /\ DOMAIN q = 1..Len(q) /\ DOMAIN Tail(q) = 1..(Len(q) - 1)
         /\ Head(q) = q[1] /\ Head(q) \in S
         /\ \A i \in DOMAIN Tail(q) : i + 1 \in DOMAIN q /\ Tail(q)[i] = q[i + 1]
OBVIOUS

---------------------------------------------------------------------------
(* Requests: the histories under the three ways to treat the input queue *)

\* What may become of a request besides ADD: known ones change or go.
Progress ==
  \A r \in Requests :
    \/ status'[r] = status[r] /\ answers'[r] = answers[r]
    \/ status[r] \in Alive /\ status'[r] \in Alive /\ answers'[r] = answers[r]
    \/ /\ status[r] \in Alive /\ status'[r] = "gone"
       /\ answers'[r] = answers[r] + 1 \/ (r \in aborted /\ answers'[r] = answers[r])

LEMMA AnsweredProgress ==
  ASSUME Types, Answered, Progress, aborted' = aborted
  PROVE  Answered'
BY DEF Types, Answered, Progress, Alive, States

LEMMA StayHistories ==
  ASSUME Types, Histories, Progress, UNCHANGED <<inputQueue, io, aborted>>
  PROVE  Histories'
<1>1. Answered'
  BY AnsweredProgress DEF Histories
<1>2. AddsSent'
  BY DEF Histories, AddsSent, Progress, Alive, IsAdd
<1>3. AbortsQueued'
  <2>1. \A r \in aborted : status'[r] # "new"
    BY DEF Histories, AbortsQueued, Progress, Alive, Types
  <2>2. ASSUME NEW r \in aborted \ io,
               status'[r] \in Alive \/ (\E i \in DOMAIN inputQueue : IsAdd(i, r))
        PROVE  \E j \in DOMAIN inputQueue :
                 IsAbort(j, r) /\ \A i \in DOMAIN inputQueue : IsAdd(i, r) => i < j
    <3>1. status[r] \in Alive \/ (\E i \in DOMAIN inputQueue : IsAdd(i, r))
      BY <2>2 DEF Progress, Alive, Types
    <3> QED  BY <3>1 DEF Histories, AbortsQueued
  <2> QED  BY <2>1, <2>2 DEF Histories, AbortsQueued, IsAdd, IsAbort
<1> QED  BY <1>1, <1>2, <1>3 DEF Histories

LEMMA TakeHistories ==
  ASSUME Types, Histories, Progress, UNCHANGED <<io, aborted>>,
         inputQueue # <<>>, inputQueue' = Tail(inputQueue),
         Head(inputQueue).type # "add",
         \A r \in Requests : Head(inputQueue).type = "abort" /\ Head(inputQueue).r = r
                               => status'[r] \notin Alive
  PROVE  Histories'
<1> DEFINE q == inputQueue
<1>1. /\ Len(q) \in Nat \ {0} /\ DOMAIN q = 1..Len(q) /\ DOMAIN q' = 1..(Len(q) - 1)
      /\ Head(q) = q[1]
      /\ \A i \in DOMAIN q' : i + 1 \in DOMAIN q /\ q'[i] = q[i + 1]
  BY TailFacts DEF Types
<1>2. Answered'
  BY AnsweredProgress DEF Histories
<1>3. \A r \in Requests : \A i \in DOMAIN q' :
        (IsAdd(i, r)' <=> IsAdd(i + 1, r)) /\ (IsAbort(i, r)' <=> IsAbort(i + 1, r))
  BY <1>1 DEF IsAdd, IsAbort
<1>4. AddsSent'
  <2> SUFFICES ASSUME NEW i \in DOMAIN q', NEW r \in Requests, IsAdd(i, r)'
               PROVE  status'[r] = "sent" /\ \A j \in DOMAIN q' : IsAdd(j, r)' => i = j
    BY DEF AddsSent
  <2>1. i + 1 \in DOMAIN q /\ IsAdd(i + 1, r)
    BY <1>1, <1>3
  <2>2. status[r] = "sent" /\ \A j \in DOMAIN q : IsAdd(j, r) => i + 1 = j
    BY <2>1 DEF Histories, AddsSent
  <2>3. \A j \in DOMAIN q' : IsAdd(j, r)' => i + 1 = j + 1
    BY <1>1, <1>3, <2>2
  <2> QED  BY <1>1, <2>2, <2>3 DEF Progress, Alive
<1>5. AbortsQueued'
  <2>1. \A r \in aborted : status'[r] # "new"
    BY DEF Histories, AbortsQueued, Progress, Alive, Types
  <2>2. \A i \in DOMAIN q' : \A r \in Requests : IsAbort(i, r)' => r \in aborted
    BY <1>1, <1>3 DEF Histories, AbortsQueued
  <2>3. ASSUME NEW r \in aborted \ io,
               status'[r] \in Alive \/ (\E i \in DOMAIN q' : IsAdd(i, r)')
        PROVE  \E j \in DOMAIN q' : IsAbort(j, r)' /\ \A i \in DOMAIN q' : IsAdd(i, r)' => i < j
    <3>0. r \in Requests
      BY DEF Types
    <3>1. status[r] \in Alive \/ (\E i \in DOMAIN q : IsAdd(i, r))
      BY <1>1, <1>3, <2>3, <3>0 DEF Progress, Alive
    <3>2. PICK j \in DOMAIN q : IsAbort(j, r) /\ \A i \in DOMAIN q : IsAdd(i, r) => i < j
      BY <3>1 DEF Histories, AbortsQueued
    <3>3. j # 1
      <4> SUFFICES ASSUME j = 1 PROVE FALSE  OBVIOUS
      <4>1. status'[r] \notin Alive
        BY <1>1, <3>0, <3>2 DEF IsAbort
      <4>2. PICK i \in DOMAIN q' : IsAdd(i, r)'
        BY <2>3, <4>1
      <4>3. i + 1 < 1
        BY <1>1, <1>3, <3>0, <3>2, <4>2
      <4> QED  BY <1>1, <4>3
    <3>4. j - 1 \in DOMAIN q' /\ (j - 1) + 1 = j
      BY <1>1, <3>3
    <3>5. IsAbort(j - 1, r)'
      BY <1>3, <3>0, <3>2, <3>4
    <3>6. \A i \in DOMAIN q' : IsAdd(i, r)' => i < j - 1
      BY <1>1, <1>3, <3>0, <3>2
    <3> QED  BY <3>4, <3>5, <3>6
  <2> QED  BY <2>1, <2>2, <2>3 DEF AbortsQueued
<1> QED  BY <1>2, <1>4, <1>5 DEF Histories

LEMMA PutHistories ==
  ASSUME Types, Histories, NEW m \in Messages, m.type \notin {"add", "abort"},
         Put(m), UNCHANGED <<status, answers, io, aborted>>
  PROVE  Histories'
<1> DEFINE q == inputQueue
<1>1. /\ Len(q) \in Nat /\ DOMAIN q = 1..Len(q) /\ DOMAIN q' = 1..(Len(q) + 1)
      /\ q'[Len(q) + 1] = m /\ \A i \in DOMAIN q : q'[i] = q[i]
  BY AppendFacts DEF Types, Put
<1>2. \A r \in Requests : \A i \in DOMAIN q' :
        /\ IsAdd(i, r)' <=> i \in DOMAIN q /\ IsAdd(i, r)
        /\ IsAbort(i, r)' <=> i \in DOMAIN q /\ IsAbort(i, r)
  BY <1>1 DEF IsAdd, IsAbort
<1>3. AddsSent'
  BY <1>1, <1>2 DEF Histories, AddsSent
<1>4. AbortsQueued'
  <2>1. ASSUME NEW r \in aborted \ io,
               status[r] \in Alive \/ (\E i \in DOMAIN q' : IsAdd(i, r)')
        PROVE  \E j \in DOMAIN q' : IsAbort(j, r)' /\ \A i \in DOMAIN q' : IsAdd(i, r)' => i < j
    <3>0. r \in Requests
      BY DEF Types
    <3>1. status[r] \in Alive \/ (\E i \in DOMAIN q : IsAdd(i, r))
      BY <1>2, <2>1, <3>0
    <3>2. PICK j \in DOMAIN q : IsAbort(j, r) /\ \A i \in DOMAIN q : IsAdd(i, r) => i < j
      BY <3>1 DEF Histories, AbortsQueued
    <3> QED  BY <1>1, <1>2, <3>0, <3>2
  <2>2. \A i \in DOMAIN q' : \A r \in Requests : IsAbort(i, r)' => r \in aborted
    BY <1>2 DEF Histories, AbortsQueued
  <2> QED  BY <2>1, <2>2 DEF Histories, AbortsQueued
<1> QED  BY <1>3, <1>4 DEF Histories, Answered

LEMMA AddHistories ==
  ASSUME Types, Histories, NEW r \in Requests, Add(r)
  PROVE  Histories'
<1> DEFINE q == inputQueue
<1>1. [type |-> "add", r |-> r] \in Messages
  BY DEF Messages, RequestMessages
<1>2. /\ Len(q) \in Nat /\ DOMAIN q = 1..Len(q) /\ DOMAIN q' = 1..(Len(q) + 1)
      /\ q'[Len(q) + 1] = [type |-> "add", r |-> r] /\ \A i \in DOMAIN q : q'[i] = q[i]
  BY <1>1, AppendFacts DEF Types, Add, Put
<1>3. /\ status[r] = "new" /\ status' = [status EXCEPT ![r] = "sent"]
      /\ UNCHANGED <<answers, io, aborted>>
  BY DEF Add, Client
<1>4. \A o \in Requests : \A i \in DOMAIN q' :
        /\ IsAdd(i, o)' <=> (i \in DOMAIN q /\ IsAdd(i, o)) \/ (i = Len(q) + 1 /\ o = r)
        /\ IsAbort(i, o)' <=> i \in DOMAIN q /\ IsAbort(i, o)
  BY <1>2 DEF IsAdd, IsAbort
<1>5. \A i \in DOMAIN q : ~IsAdd(i, r)
  BY <1>3 DEF Histories, AddsSent
<1>6. r \notin aborted
  BY <1>3 DEF Histories, AbortsQueued
<1>7. \A o \in Requests : status'[o] = IF o = r THEN "sent" ELSE status[o]
  BY <1>3 DEF Types
<1>8. AddsSent'
  BY <1>2, <1>4, <1>5, <1>7 DEF Histories, AddsSent
<1>9. Answered'
  BY <1>3, <1>7 DEF Histories, Answered
<1>10. AbortsQueued'
  <2>1. ASSUME NEW o \in aborted \ io,
               status'[o] \in Alive \/ (\E i \in DOMAIN q' : IsAdd(i, o)')
        PROVE  \E j \in DOMAIN q' : IsAbort(j, o)' /\ \A i \in DOMAIN q' : IsAdd(i, o)' => i < j
    <3>0. o \in Requests /\ o # r
      BY <1>6 DEF Types
    <3>1. status[o] \in Alive \/ (\E i \in DOMAIN q : IsAdd(i, o))
      BY <1>4, <1>7, <2>1, <3>0
    <3>2. PICK j \in DOMAIN q : IsAbort(j, o) /\ \A i \in DOMAIN q : IsAdd(i, o) => i < j
      BY <3>1 DEF Histories, AbortsQueued
    <3> QED  BY <1>2, <1>4, <3>0, <3>2
  <2>2. \A i \in DOMAIN q' : \A o \in Requests : IsAbort(i, o)' => o \in aborted
    BY <1>4 DEF Histories, AbortsQueued
  <2>3. \A o \in aborted : status'[o] # "new"
    BY <1>7 DEF Histories, AbortsQueued, Types
  <2> QED  BY <1>3, <2>1, <2>2, <2>3 DEF AbortsQueued
<1> QED  BY <1>8, <1>9, <1>10 DEF Histories

\* The ABORT is on its way to the input queue.
LEMMA AbortHistories ==
  ASSUME Types, Histories, NEW r \in Requests, Abort(r), io' = {r}
  PROVE  Histories'
<1>1. /\ io = {} /\ status[r] # "new" /\ aborted' = aborted \union {r}
      /\ UNCHANGED <<inputQueue, status, answers>>
  BY DEF Abort, Client
<1>2. AddsSent'
  BY <1>1 DEF Histories, AddsSent, IsAdd
<1>3. Answered'
  BY <1>1 DEF Histories, Answered
<1>4. AbortsQueued'
  BY <1>1 DEF Histories, AbortsQueued, IsAdd, IsAbort
<1> QED  BY <1>2, <1>3, <1>4 DEF Histories

LEMMA QueueAbortHistories ==
  ASSUME Types, Histories, QueueAbort
  PROVE  Histories'
<1> DEFINE q == inputQueue
<1>1. PICK r \in io : Put([type |-> "abort", r |-> r])
  BY DEF QueueAbort
<1>2. r \in Requests /\ r \in aborted /\ [type |-> "abort", r |-> r] \in Messages
  BY DEF Types, Messages, RequestMessages
<1>3. /\ Len(q) \in Nat /\ DOMAIN q = 1..Len(q) /\ DOMAIN q' = 1..(Len(q) + 1)
      /\ q'[Len(q) + 1] = [type |-> "abort", r |-> r] /\ \A i \in DOMAIN q : q'[i] = q[i]
  BY <1>1, <1>2, AppendFacts DEF Types, Put
<1>4. io' = {} /\ UNCHANGED <<status, answers, aborted>>
  BY DEF QueueAbort, requestVars
<1>5. \A o \in Requests : \A i \in DOMAIN q' :
        /\ IsAdd(i, o)' <=> i \in DOMAIN q /\ IsAdd(i, o)
        /\ IsAbort(i, o)' <=> (i \in DOMAIN q /\ IsAbort(i, o)) \/ (i = Len(q) + 1 /\ o = r)
  BY <1>3 DEF IsAdd, IsAbort
<1>6. AddsSent'
  BY <1>3, <1>4, <1>5 DEF Histories, AddsSent
<1>7. Answered'
  BY <1>4 DEF Histories, Answered
<1>8. AbortsQueued'
  <2>1. ASSUME NEW o \in aborted,
               status[o] \in Alive \/ (\E i \in DOMAIN q' : IsAdd(i, o)')
        PROVE  \E j \in DOMAIN q' : IsAbort(j, o)' /\ \A i \in DOMAIN q' : IsAdd(i, o)' => i < j
    <3>0. o \in Requests
      BY DEF Types
    <3>1. CASE o = r
      <4>1. PICK n \in Nat : n = Len(q) + 1
        BY <1>3
      <4>2. n \in DOMAIN q' /\ IsAbort(n, o)'
        BY <1>3, <1>5, <3>0, <3>1, <4>1
      <4>3. \A i \in DOMAIN q' : IsAdd(i, o)' => i < n
        BY <1>3, <1>5, <3>0, <4>1
      <4> QED  BY <4>2, <4>3
    <3>2. CASE o # r
      <4>1. o \in aborted \ io
        BY <3>2 DEF Types
      <4>2. status[o] \in Alive \/ (\E i \in DOMAIN q : IsAdd(i, o))
        BY <1>5, <2>1, <3>0
      <4>3. PICK j \in DOMAIN q : IsAbort(j, o) /\ \A i \in DOMAIN q : IsAdd(i, o) => i < j
        BY <4>1, <4>2 DEF Histories, AbortsQueued
      <4> QED  BY <1>3, <1>5, <3>0, <4>3
    <3> QED  BY <3>1, <3>2
  <2> QED  BY <1>2, <1>4, <1>5, <2>1 DEF Histories, AbortsQueued
<1> QED  BY <1>6, <1>7, <1>8 DEF Histories

LEMMA HandleAddHistories ==
  ASSUME Types, Histories, UNCHANGED <<io, aborted>>,
         inputQueue # <<>>, inputQueue' = Tail(inputQueue), HandleAdd(Head(inputQueue))
  PROVE  Histories'
<1> DEFINE q == inputQueue
           r == Head(q).r
<1>1. /\ Len(q) \in Nat \ {0} /\ DOMAIN q = 1..Len(q) /\ DOMAIN q' = 1..(Len(q) - 1)
      /\ Head(q) = q[1] /\ Head(q) \in Messages
      /\ \A i \in DOMAIN q' : i + 1 \in DOMAIN q /\ q'[i] = q[i + 1]
  BY TailFacts DEF Types
<1>2. r \in Requests /\ IsAdd(1, r)
  BY <1>1 DEF HandleAdd, IsAdd, Messages, RequestMessages, PauseMessages, Resumes
<1>3. status[r] = "sent" /\ \A j \in DOMAIN q : IsAdd(j, r) => j = 1
  BY <1>1, <1>2 DEF Histories, AddsSent
<1>4. \A o \in Requests : \A i \in DOMAIN q' :
        (IsAdd(i, o)' <=> IsAdd(i + 1, o)) /\ (IsAbort(i, o)' <=> IsAbort(i + 1, o))
  BY <1>1 DEF IsAdd, IsAbort
<1>5. /\ \A o \in Requests \ {r} : status'[o] = status[o] /\ answers'[o] = answers[o]
      /\ \/ status'[r] = "gone" /\ answers'[r] = answers[r] + 1
         \/ status'[r] = "waiting" /\ answers'[r] = answers[r]
  BY <1>2 DEF HandleAdd, Answer, Types
<1>6. AddsSent'
  <2> SUFFICES ASSUME NEW i \in DOMAIN q', NEW o \in Requests, IsAdd(i, o)'
               PROVE  status'[o] = "sent" /\ \A j \in DOMAIN q' : IsAdd(j, o)' => i = j
    BY DEF AddsSent
  <2>1. i + 1 \in DOMAIN q /\ IsAdd(i + 1, o) /\ i + 1 # 1
    BY <1>1, <1>4
  <2>2. o # r
    BY <1>3, <2>1
  <2>3. status[o] = "sent" /\ \A j \in DOMAIN q : IsAdd(j, o) => i + 1 = j
    BY <2>1 DEF Histories, AddsSent
  <2>4. \A j \in DOMAIN q' : IsAdd(j, o)' => i + 1 = j + 1
    BY <1>1, <1>4, <2>3
  <2> QED  BY <1>1, <1>5, <2>2, <2>3, <2>4
<1>7. Answered'
  BY <1>2, <1>3, <1>5 DEF Histories, Answered, Types
<1>8. AbortsQueued'
  <2>1. \A o \in aborted : status'[o] # "new"
    BY <1>5 DEF Histories, AbortsQueued, Types
  <2>2. \A i \in DOMAIN q' : \A o \in Requests : IsAbort(i, o)' => o \in aborted
    BY <1>1, <1>4 DEF Histories, AbortsQueued
  <2>3. ASSUME NEW o \in aborted \ io,
               status'[o] \in Alive \/ (\E i \in DOMAIN q' : IsAdd(i, o)')
        PROVE  \E j \in DOMAIN q' : IsAbort(j, o)' /\ \A i \in DOMAIN q' : IsAdd(i, o)' => i < j
    <3>0. o \in Requests
      BY DEF Types
    <3>1. status[o] \in Alive \/ (\E i \in DOMAIN q : IsAdd(i, o))
      BY <1>1, <1>2, <1>4, <1>5, <2>3, <3>0
    <3>2. PICK j \in DOMAIN q : IsAbort(j, o) /\ \A i \in DOMAIN q : IsAdd(i, o) => i < j
      BY <3>1 DEF Histories, AbortsQueued
    <3>3. j # 1
      BY <1>1, <3>2 DEF HandleAdd, IsAbort
    <3>4. j - 1 \in DOMAIN q' /\ (j - 1) + 1 = j
      BY <1>1, <3>3
    <3>5. IsAbort(j - 1, o)'
      BY <1>4, <3>0, <3>2, <3>4
    <3>6. \A i \in DOMAIN q' : IsAdd(i, o)' => i < j - 1
      BY <1>1, <1>4, <3>0, <3>2
    <3> QED  BY <3>4, <3>5, <3>6
  <2> QED  BY <2>1, <2>2, <2>3 DEF AbortsQueued
<1> QED  BY <1>6, <1>7, <1>8 DEF Histories

---------------------------------------------------------------------------
(* Requests: every action *)

LEMMA PutMessages ==
  ASSUME LifecycleAssumption, Types
  PROVE  /\ \A kind \in Resumes : [type |-> kind] \in Messages
         /\ [type |-> "wakeup"] \in Messages
         /\ \A p \in Pauses : \A n \in Nat :
              [type |-> "pause", mode |-> p.mode, clear |-> p.clear, sleep |-> p.sleep, call |-> n]
                \in PauseMessages \intersect Messages
BY DEF LifecycleAssumption, Types, Messages, PauseMessages, Resumes

LEMMA HandleTypes ==
  ASSUME Types, Handle
  PROVE  Types'
<1>1. /\ inputQueue' \in Seq(Messages) /\ Head(inputQueue) \in Messages
      /\ UNCHANGED <<abortsQueue, io, batches, aborted, calls>>
  BY TailFacts DEF Handle, Types, clientVars
<1> DEFINE m == Head(inputQueue)
<1>2. \A r \in Requests : answers[r] + 1 \in Nat
  BY DEF Types
<1>3. CASE HandleAdd(m)
  <2>1. m.r \in Requests
    BY <1>1, <1>3 DEF HandleAdd, Messages, RequestMessages, PauseMessages, Resumes
  <2> QED  BY <1>1, <1>2, <1>3, <2>1 DEF HandleAdd, Answer, Types, States
<1>4. CASE HandleAbort(m)
  BY <1>1, <1>4 DEF HandleAbort, Types, Without, States
<1>5. CASE HandlePause(m)
  <2>1. m \in PauseMessages
    BY <1>1, <1>5 DEF HandlePause, Messages, RequestMessages, Resumes
  <2>2. status' \in [Requests -> States]
    BY <1>5 DEF HandlePause, Types, Without, Cleared, States
  <2>3. answers' \in [Requests -> Nat]
    BY <1>2, <1>5 DEF HandlePause, Types, Answer
  <2>4. callbacks' \in Seq(PauseMessages)
    <3>1. Append(callbacks, m) \in Seq(PauseMessages)
      BY <2>1, AppendFacts DEF Types
    <3>2. callbacks' = Append(callbacks, m) \/ callbacks' = callbacks
      BY <1>5, Zenon DEF HandlePause
    <3> QED  BY <3>1, <3>2 DEF Types
  <2>5. asleep' \in BOOLEAN /\ held' \in BOOLEAN
    BY <1>5, <2>1, Zenon DEF HandlePause, Types, PauseMessages
  <2>6. pauseState' \in {"unpaused", "pausedNew", "pausedAll"}
    BY <1>5 DEF HandlePause
  <2> QED  BY <1>1, <2>2, <2>3, <2>4, <2>5, <2>6 DEF Types
<1>6. CASE HandleResume(m)
  <2>1. asleep' \in BOOLEAN /\ held' \in BOOLEAN
    BY <1>6, Zenon DEF HandleResume, Types
  <2> QED  BY <1>1, <1>6, <2>1 DEF HandleResume, Types
<1>7. CASE HandleRejected(m) \/ HandleWakeup(m)
  BY <1>1, <1>7 DEF HandleRejected, HandleWakeup, Types
<1> QED  BY <1>3, <1>4, <1>5, <1>6, <1>7 DEF Handle

LEMMA NextAwaited ==
  ASSUME Types, Awaited, Next
  PROVE  Awaited'
<1>1. CASE Schedule
  <2>1. PICK P \in SUBSET Running : \E B \in SUBSET Schedulable(P) : batches' = Append(batches, B)
    BY <1>1 DEF Schedule
  <2>2. PICK B \in SUBSET Requests : batches' = Append(batches, B)
    BY <2>1 DEF Schedulable
  <2> QED  BY <2>2, AppendFacts DEF Types, Awaited
<1>2. CASE NoSchedule
  BY <1>2 DEF NoSchedule, Awaited
<1>3. CASE HandleShutdown \/ ProcessOldest
  BY <1>3 DEF HandleShutdown, ProcessOldest, Awaited
<1>4. CASE Wait \/ StopWaiting
  BY <1>4 DEF Wait, StopWaiting, Awaited
<1>5. CASE HandleWaiting \/ HandleMore
  BY <1>5 DEF HandleWaiting, HandleMore, Handle, Awaited
<1>6. ASSUME UNCHANGED <<pc, batches>> PROVE Awaited'
  BY <1>6 DEF Awaited
<1>7. ASSUME NEW r \in Requests, Add(r) \/ Abort(r) PROVE Awaited'
  BY <1>6, <1>7 DEF Add, Abort, Client, loopVars
<1>8. ASSUME NEW p \in Pauses, CallPause(p) PROVE Awaited'
  BY <1>6, <1>8 DEF CallPause, Client, loopVars
<1>9. ASSUME NEW kind \in Resumes, CallResume(kind) PROVE Awaited'
  BY <1>6, <1>9 DEF CallResume, Client, loopVars
<1>10. CASE QueueAbort \/ Signal \/ Wakeup \/ Idle
  BY <1>6, <1>10 DEF QueueAbort, Signal, Wakeup, Idle, vars, loopVars
<1> QED  BY <1>1, <1>2, <1>3, <1>4, <1>5, <1>7, <1>8, <1>9, <1>10 DEF Next, EngineStep, Resumes

LEMMA NextTypes ==
  ASSUME LifecycleAssumption, Types, Awaited, Next
  PROVE  Types'
<1>1. ASSUME NEW r \in Requests, Add(r) PROVE Types'
  BY <1>1, AppendFacts DEF Add, Client, Put, Types, States, Messages, RequestMessages, loopVars
<1>2. ASSUME NEW r \in Requests, Abort(r) PROVE Types'
  BY <1>2 DEF Abort, Client, QueuedTo, Types, loopVars
<1>3. CASE QueueAbort
  <2>1. PICK r \in io : Put([type |-> "abort", r |-> r])
    BY <1>3 DEF QueueAbort
  <2>2. inputQueue' \in Seq(Messages)
    BY <2>1, AppendFacts DEF Put, Types, Messages, RequestMessages
  <2> QED  BY <1>3, <2>2 DEF QueueAbort, Types, clientVars, requestVars, loopVars
<1>4. ASSUME NEW p \in Pauses, CallPause(p) PROVE Types'
  <2>1. inputQueue' \in Seq(Messages) /\ calls' \in Nat
    <3>1. calls' \in Nat
      BY <1>4 DEF CallPause, Types
    <3>2. [type |-> "pause", mode |-> p.mode, clear |-> p.clear, sleep |-> p.sleep, call |-> calls']
            \in Messages
      BY <3>1, PutMessages
    <3> QED  BY <1>4, <3>1, <3>2, AppendFacts DEF CallPause, Put, Types
  <2> QED  BY <1>4, <2>1 DEF CallPause, Client, Types, loopVars
<1>5. ASSUME NEW kind \in Resumes, CallResume(kind) PROVE Types'
  <2>1. inputQueue' \in Seq(Messages)
    BY <1>5, PutMessages, AppendFacts DEF CallResume, Put, Types
  <2> QED  BY <1>5, <2>1 DEF CallResume, Client, Types, loopVars
<1>6. CASE Signal
  BY <1>6 DEF Signal, Types, requestVars
<1>7. CASE Wakeup
  <2>1. inputQueue' \in Seq(Messages)
    BY <1>7, PutMessages, AppendFacts DEF Wakeup, Put, Types
  <2> QED  BY <1>7, <2>1 DEF Wakeup, Types, clientVars, requestVars, loopVars
<1>8. CASE HandleShutdown
  BY <1>8 DEF HandleShutdown, Types, Without, Answer, States, clientVars
<1>9. CASE Wait
  <2>1. asleep' \in BOOLEAN /\ held' \in BOOLEAN
    BY <1>9, Zenon DEF Wait, Types
  <2>2. status' \in [Requests -> States]
    BY <1>9 DEF Wait, Cleared, Types, States
  <2>3. callbacks' = <<>> /\ (abortsQueue' = {} \/ abortsQueue' = abortsQueue)
    BY <1>9 DEF Wait
  <2>4. <<>> \in Seq(PauseMessages)
    OBVIOUS
  <2>5. UNCHANGED <<inputQueue, io, answers, batches, calls, aborted, pauseState>>
    BY <1>9 DEF Wait, clientVars
  <2> QED  BY <2>1, <2>2, <2>3, <2>4, <2>5 DEF Types
<1>10. CASE HandleWaiting \/ HandleMore
  BY <1>10, HandleTypes DEF HandleWaiting, HandleMore
<1>11. CASE StopWaiting \/ NoSchedule
  BY <1>11 DEF StopWaiting, NoSchedule, Types, clientVars, requestVars
<1>12. CASE Schedule
  <2>1. PICK P \in SUBSET Running : \E B \in SUBSET Schedulable(P) :
          /\ status' = [r \in Requests |-> IF r \in B THEN "running"
                                            ELSE IF r \in P THEN "waiting" ELSE status[r]]
          /\ batches' = Append(batches, B)
    BY <1>12 DEF Schedule
  <2>2. PICK B \in SUBSET Requests :
          /\ status' = [r \in Requests |-> IF r \in B THEN "running"
                                            ELSE IF r \in P THEN "waiting" ELSE status[r]]
          /\ batches' = Append(batches, B)
    BY <2>1 DEF Schedulable
  <2>3. batches' \in Seq(SUBSET Requests)
    BY <2>2, AppendFacts DEF Types
  <2>4. status' \in [Requests -> States]
    BY <2>2 DEF Types, States
  <2> QED  BY <1>12, <2>3, <2>4 DEF Schedule, Types, clientVars
<1>13. CASE ProcessOldest
  <2>1. batches' \in Seq(SUBSET Requests)
    BY <1>13, TailFacts DEF ProcessOldest, Awaited, Types
  <2>2. status' \in [Requests -> States]
    BY <1>13 DEF ProcessOldest, Without, Types, States
  <2>3. answers' \in [Requests -> Nat]
    BY <1>13 DEF ProcessOldest, Answer, Types
  <2> QED  BY <1>13, <2>1, <2>2, <2>3 DEF ProcessOldest, Types, clientVars
<1>14. CASE Idle
  BY <1>14 DEF Idle, vars, Types, clientVars, requestVars, loopVars
<1> QED  BY <1>1, <1>2, <1>3, <1>4, <1>5, <1>6, <1>7, <1>8, <1>9, <1>10, <1>11, <1>12, <1>13, <1>14
         DEF Next, EngineStep, Resumes

LEMMA HandleHistories ==
  ASSUME Types, Histories, Handle
  PROVE  Histories'
<1> DEFINE m == Head(inputQueue)
<1>1. /\ inputQueue # <<>> /\ inputQueue' = Tail(inputQueue)
      /\ UNCHANGED <<io, aborted>>
  BY DEF Handle
<1>2. m \in Messages /\ m = inputQueue[1] /\ 1 \in DOMAIN inputQueue
  BY <1>1, TailFacts DEF Types
<1>3. ASSUME Progress, m.type \notin {"add", "abort"} PROVE Histories'
  BY <1>1, <1>3, TakeHistories
<1>4. ASSUME UNCHANGED <<status, answers>> PROVE Progress
  BY <1>4 DEF Progress
<1>5. CASE HandleAdd(m)
  BY <1>1, <1>5, HandleAddHistories
<1>6. CASE HandleAbort(m)
  <2>1. m.r \in aborted /\ m.r \in Requests
    BY <1>2, <1>6 DEF HandleAbort, Histories, AbortsQueued, IsAbort, Types, Messages,
                      RequestMessages, PauseMessages, Resumes
  <2>2. Progress
    BY <1>6, <2>1 DEF HandleAbort, Without, Known, Progress, Alive, Types
  <2>3. status'[m.r] \notin Alive
    BY <1>6, <2>1 DEF HandleAbort, Without, Known, Alive, Types
  <2>4. m.type = "abort"
    BY <1>6 DEF HandleAbort
  <2> QED  BY <1>1, <2>2, <2>3, <2>4, TakeHistories
<1>7. CASE HandlePause(m)
  <2>1. PICK S \in {Known(Requests), {}} :
          Answer(S) /\ (status' = Without(S) \/ status' = Cleared(Without(S), m.clear))
    BY <1>7 DEF HandlePause
  <2>2. Progress
    BY <2>1 DEF Answer, Without, Known, Cleared, Progress, Alive, Types
  <2> QED  BY <1>3, <1>7, <2>2 DEF HandlePause
<1>8. CASE HandleResume(m)
  BY <1>3, <1>4, <1>8 DEF HandleResume
<1>9. CASE HandleRejected(m)
  BY <1>3, <1>4, <1>9 DEF HandleRejected
<1>10. CASE HandleWakeup(m)
  BY <1>3, <1>4, <1>10 DEF HandleWakeup
<1> QED  BY <1>5, <1>6, <1>7, <1>8, <1>9, <1>10 DEF Handle

\* A step of the loop other than a message.
LEMMA LoopProgress ==
  ASSUME Types, HandleShutdown \/ Wait \/ StopWaiting \/ Schedule \/ NoSchedule \/ ProcessOldest
  PROVE  Progress /\ UNCHANGED <<inputQueue, io, aborted>>
<1>1. CASE HandleShutdown
  <2>1. PICK S \in {Known(Requests), {}} : Answer(S) /\ status' = Without(S)
    BY <1>1 DEF HandleShutdown
  <2> QED  BY <1>1, <2>1 DEF HandleShutdown, Answer, Without, Known, Progress, Alive, Types
<1>2. CASE Wait
  BY <1>2 DEF Wait, Cleared, Progress, Alive, Types
<1>3. CASE StopWaiting \/ NoSchedule
  BY <1>3 DEF StopWaiting, NoSchedule, requestVars, Progress
<1>4. CASE Schedule
  <2>1. PICK P \in SUBSET Running : \E B \in SUBSET Schedulable(P) :
          status' = [r \in Requests |-> IF r \in B THEN "running"
                                         ELSE IF r \in P THEN "waiting" ELSE status[r]]
    BY <1>4 DEF Schedule
  <2>2. PICK B \in SUBSET Schedulable(P) :
          status' = [r \in Requests |-> IF r \in B THEN "running"
                                         ELSE IF r \in P THEN "waiting" ELSE status[r]]
    BY <2>1
  <2>3. \A r \in Requests : r \in B \/ r \in P => status[r] \in Alive
    BY <2>1, <2>2 DEF Schedulable, Running, Alive
  <2>4. \A r \in Requests :
          status'[r] = IF r \in B THEN "running" ELSE IF r \in P THEN "waiting" ELSE status[r]
    BY <2>2
  <2> QED  BY <1>4, <2>3, <2>4 DEF Schedule, Progress, Alive
<1>5. CASE ProcessOldest
  <2>1. PICK stopped \in {{r \in {r \in Head(batches) : Without(abortsQueue)[r] \in Alive} :
                             togo[r] = 1}} :
          status' = Without(abortsQueue \union stopped) /\ Answer(stopped)
    BY <1>5 DEF ProcessOldest, Alive
  <2>2. \A r \in Requests : r \in stopped => status[r] \in Alive /\ r \notin abortsQueue
    BY <2>1 DEF Without, Known, Alive
  <2>3. \A r \in Requests :
          /\ status'[r] = IF status[r] \in Alive /\ r \in abortsQueue \union stopped
                            THEN "gone" ELSE status[r]
          /\ answers'[r] = IF r \in stopped THEN answers[r] + 1 ELSE answers[r]
    BY <2>1 DEF Without, Known, Answer, Alive
  <2>4. Progress
    BY <2>2, <2>3 DEF Progress, Types
  <2> QED  BY <1>5, <2>4 DEF ProcessOldest
<1> QED  BY <1>1, <1>2, <1>3, <1>4, <1>5

LEMMA NextHistories ==
  ASSUME LifecycleAssumption, Types, Histories, Next
  PROVE  Histories'
<1>1. ASSUME NEW r \in Requests, Add(r) PROVE Histories'
  BY <1>1, AddHistories
<1>2. ASSUME NEW r \in Requests, Abort(r) PROVE Histories'
  BY <1>2, AbortHistories DEF Abort, QueuedTo
<1>3. CASE QueueAbort
  BY <1>3, QueueAbortHistories
<1>4. ASSUME NEW p \in Pauses, CallPause(p) PROVE Histories'
  <2>1. calls + 1 \in Nat
    BY DEF Types
  <2>2. PICK m \in Messages : m.type = "pause" /\ Put(m)
    BY <1>4, <2>1, PutMessages DEF CallPause
  <2> QED  BY <1>4, <2>2, PutHistories DEF CallPause, Client
<1>5. ASSUME NEW kind \in Resumes, CallResume(kind) PROVE Histories'
  <2>1. PICK m \in Messages : m.type = kind /\ Put(m)
    BY <1>5, PutMessages DEF CallResume
  <2> QED  BY <1>5, <2>1, PutHistories DEF CallResume, Client, Resumes
<1>6. CASE Wakeup
  <2>1. PICK m \in Messages : m.type = "wakeup" /\ Put(m)
    BY <1>6, PutMessages DEF Wakeup
  <2> QED  BY <1>6, <2>1, PutHistories DEF Wakeup, requestVars
<1>7. CASE Signal \/ Idle
  <2>1. Progress /\ UNCHANGED <<inputQueue, io, aborted>>
    BY <1>7 DEF Signal, Idle, vars, requestVars, Progress
  <2> QED  BY <2>1, StayHistories
<1>8. CASE HandleWaiting \/ HandleMore
  BY <1>8, HandleHistories DEF HandleWaiting, HandleMore
<1>9. CASE HandleShutdown \/ Wait \/ StopWaiting \/ Schedule \/ NoSchedule \/ ProcessOldest
  BY <1>9, LoopProgress, StayHistories
<1> QED  BY <1>1, <1>2, <1>3, <1>4, <1>5, <1>6, <1>7, <1>8, <1>9
         DEF Next, EngineStep, Resumes

\* A shutdown that aborts takes no request.
LEMMA HandleKnown ==
  ASSUME Types, Handle, ~IsRunning
  PROVE  Known(Requests)' \subseteq Known(Requests)
<1> DEFINE m == Head(inputQueue)
<1>1. CASE HandleAdd(m)
  BY <1>1 DEF HandleAdd, RejectsAdd, Known, Types
<1>2. CASE HandleAbort(m)
  BY <1>2 DEF HandleAbort, Without, Known
<1>3. CASE HandlePause(m)
  BY <1>3 DEF HandlePause, RejectsUtility
<1>4. CASE HandleResume(m) \/ HandleRejected(m) \/ HandleWakeup(m)
  BY <1>4 DEF HandleResume, HandleRejected, HandleWakeup, Known
<1> QED  BY <1>1, <1>2, <1>3, <1>4 DEF Handle

LEMMA ShutdownEnded ==
  ASSUME LifecycleAssumption, Types, Ended, HandleShutdown
  PROVE  Ended'
<1>1. Known(Requests)' \subseteq Known(Requests)
  BY LoopProgress DEF Progress, Known, Alive
<1>2. shutdownState' \in {"running", "requested", "shuttingDown"}
  BY DEF HandleShutdown
<1>3. ASSUME shutdownState' = "shuttingDown", ~drain' PROVE Known(Requests)' = {}
  <2>1. ~IsRunning
    BY <1>3 DEF HandleShutdown
  <2>2. CASE shutdownState = "requested"
    <3>1. status' = Without(Known(Requests))
      BY <1>3, <2>2 DEF HandleShutdown
    <3> QED  BY <3>1 DEF Without, Known
  <2>3. CASE shutdownState = "shuttingDown"
    <3>1. ~drain
      BY <1>3, <2>3 DEF HandleShutdown
    <3> QED  BY <1>1, <2>3, <3>1 DEF Ended
  <2> QED  BY <2>1, <2>2, <2>3 DEF Ended, IsRunning
<1>4. ASSUME pc' = "exited", drain' => pauseState' = "unpaused" PROVE Known(Requests)' = {}
  <2>1. ~IsRunning /\ ~Work(status', finishedIds', pauseState) /\ shutdownState' = "shuttingDown"
    BY <1>4 DEF HandleShutdown
  <2>2. CASE pauseState = "unpaused"
    BY <2>1, <2>2 DEF Work, Requested, Counted, Known
  <2>3. CASE pauseState # "unpaused"
    <3>1. pauseState' # "unpaused"
      BY <2>3 DEF HandleShutdown
    <3>2. ~drain'
      BY <1>4, <3>1
    <3> QED  BY <1>3, <2>1, <3>2
  <2> QED  BY <2>2, <2>3
<1> QED  BY <1>2, <1>3, <1>4 DEF Ended

LEMMA NextEnded ==
  ASSUME LifecycleAssumption, Types, Ended, Next
  PROVE  Ended'
<1>1. ASSUME Known(Requests)' \subseteq Known(Requests), UNCHANGED <<shutdownState, drain>>,
             UNCHANGED <<pc, pauseState>> \/ pc' # "exited"
      PROVE  Ended'
  BY <1>1 DEF Ended
<1>2. ASSUME UNCHANGED <<status, shutdownState, drain>>,
             UNCHANGED <<pc, pauseState>> \/ pc' # "exited"
      PROVE  Ended'
  BY <1>1, <1>2 DEF Known
<1>3. ASSUME NEW r \in Requests, Add(r) PROVE Ended'
  <2>1. status' = [status EXCEPT ![r] = "sent"]
    BY <1>3 DEF Add
  <2>2. Known(Requests)' \subseteq Known(Requests)
    BY <2>1 DEF Known, Types
  <2> QED  BY <1>1, <1>3, <2>2 DEF Add, Client, loopVars
<1>4. ASSUME NEW r \in Requests, Abort(r) PROVE Ended'
  BY <1>2, <1>4 DEF Abort, Client, loopVars
<1>5. ASSUME NEW p \in Pauses, CallPause(p) PROVE Ended'
  BY <1>2, <1>5 DEF CallPause, Client, loopVars
<1>6. ASSUME NEW kind \in Resumes, CallResume(kind) PROVE Ended'
  BY <1>2, <1>6 DEF CallResume, Client, loopVars
<1>7. CASE QueueAbort \/ Wakeup \/ Idle
  BY <1>2, <1>7 DEF QueueAbort, Wakeup, Idle, vars, loopVars, requestVars
<1>8. CASE Signal
  BY <1>8 DEF Signal, Ended
<1>9. CASE HandleShutdown
  BY <1>9, ShutdownEnded
<1>10. CASE Wait \/ StopWaiting \/ Schedule \/ NoSchedule \/ ProcessOldest
  <2>1. Known(Requests)' \subseteq Known(Requests)
    BY <1>10, LoopProgress DEF Progress, Known, Alive
  <2>2. UNCHANGED <<shutdownState, drain>> /\ pc' # "exited"
    BY <1>10 DEF Wait, StopWaiting, Schedule, NoSchedule, ProcessOldest
  <2> QED  BY <1>1, <2>1, <2>2
<1>11. CASE HandleWaiting \/ HandleMore
  <2>1. Handle /\ UNCHANGED <<shutdownState, drain>> /\ pc' # "exited"
    BY <1>11 DEF HandleWaiting, HandleMore, Handle
  <2>2. CASE IsRunning
    BY <2>1, <2>2 DEF Ended, IsRunning
  <2>3. CASE ~IsRunning
    BY <1>1, <2>1, <2>3, HandleKnown
  <2> QED  BY <2>2, <2>3
<1> QED  BY <1>3, <1>4, <1>5, <1>6, <1>7, <1>8, <1>9, <1>10, <1>11
         DEF Next, EngineStep, Resumes

LEMMA InitRequestInv ==
  ASSUME Init
  PROVE  RequestInv
<1>1. Types
  <2>1. <<>> \in Seq(Messages) /\ <<>> \in Seq(SUBSET Requests) /\ <<>> \in Seq(PauseMessages)
    OBVIOUS
  <2>2. status \in [Requests -> States] /\ answers \in [Requests -> Nat]
    BY DEF Init, States
  <2> QED  BY <2>1, <2>2 DEF Init, Types
<1>2. Awaited /\ Histories
  BY DEF Init, Awaited, Histories, AddsSent, Answered, AbortsQueued
<1>3. Ended
  BY DEF Init, Ended
<1> QED  BY <1>1, <1>2, <1>3 DEF RequestInv

LEMMA NextRequestInv ==
  ASSUME LifecycleAssumption, RequestInv, [Next]_vars
  PROVE  RequestInv'
<1>1. CASE Next
  BY <1>1, NextTypes, NextAwaited, NextHistories, NextEnded DEF RequestInv
<1>2. CASE UNCHANGED vars
  <2>1. Types' /\ Awaited'
    BY <1>2 DEF RequestInv, Types, Awaited, vars, clientVars, requestVars, loopVars
  <2>2. Histories'
    BY <1>2, StayHistories DEF RequestInv, Progress, vars, requestVars
  <2>3. Ended'
    BY <1>2 DEF RequestInv, Ended, Known, vars, requestVars, loopVars
  <2> QED  BY <2>1, <2>2, <2>3 DEF RequestInv
<1> QED  BY <1>1, <1>2

(***************************************************************************)
(* Whatever clients, signals and batches do, the input queue keeps the     *)
(* order of an ADD and the ABORT behind it (process_input_sockets), a      *)
(* request is forgotten only with its final output, and a shutdown that    *)
(* aborts takes nobody more (_handle_shutdown, _handle_client_request).    *)
(***************************************************************************)
THEOREM RequestsInvariant == Spec => []RequestInv
<1>1. Init => RequestInv
  BY InitRequestInv
<1>2. RequestInv /\ [Next]_vars => RequestInv'
  BY LifecycleAssumption, NextRequestInv
<1> QED  BY <1>1, <1>2, PTL DEF Spec

(***************************************************************************)
(* process_input_sockets: a request whose ABORT is handled, with neither   *)
(* ADD nor ABORT of it in the input queue, is not in the scheduler, though *)
(* its abort may have been seen in aborts_queue before the ADD was.        *)
(***************************************************************************)
THEOREM AbortsStick == Spec => []AbortSticks
<1>1. RequestInv => AbortSticks
  <2> SUFFICES ASSUME RequestInv, NEW r \in aborted \ io,
                      \A i \in DOMAIN inputQueue :
                        inputQueue[i].type \in {"add", "abort"} => inputQueue[i].r # r
               PROVE  Known({r}) = {}
    BY DEF AbortSticks
  <2>1. \A j \in DOMAIN inputQueue : ~IsAbort(j, r)
    BY DEF IsAbort
  <2>2. status[r] \notin Alive
    BY <2>1 DEF RequestInv, Histories, AbortsQueued
  <2> QED  BY <2>2 DEF Known, Alive
<1> QED  BY <1>1, RequestsInvariant, PTL

(***************************************************************************)
(* No request gets two final outputs, none is forgotten without one unless *)
(* its client aborted it, and the busy loop ends only when nobody is left, *)
(* but for those a pause holds back from a shutdown that drains.           *)
(***************************************************************************)
THEOREM EachAnsweredOnce == Spec => []AnsweredOnce
<1>1. RequestInv => AnsweredOnce
  BY DEF RequestInv, Histories, Answered, Ended, AnsweredOnce
<1> QED  BY <1>1, RequestsInvariant, PTL

---------------------------------------------------------------------------
(* Pauses: which are pending, under the three ways to treat the input queue *)

LEMMA PutPauses ==
  ASSUME Types, PausesPending, ResumesLast, NEW m \in Messages, Put(m),
         m.type = "pause" => m \in pending' /\ m.call = calls + 1,
         m.type \in Resumes => pending = {} /\ (m.type = "resume" => ~asleep),
         pending \subseteq pending',
         calls' \in {calls, calls + 1}, m.type = "pause" => calls' = calls + 1,
         UNCHANGED <<callbacks, asleep>>
  PROVE  PausesPending' /\ ResumesLast'
<1> DEFINE q == inputQueue
<1>1. /\ Len(q) \in Nat /\ DOMAIN q = 1..Len(q) /\ DOMAIN q' = 1..(Len(q) + 1)
      /\ q'[Len(q) + 1] = m /\ \A i \in DOMAIN q : q'[i] = q[i]
  BY AppendFacts DEF Types, Put
<1>2. /\ \A i \in DOMAIN q : q[i].type = "pause" => q[i].call \in Nat
      /\ \A j \in DOMAIN callbacks : callbacks[j].call \in Nat
      /\ calls \in Nat
  <2>1. \A i \in DOMAIN q : q[i] \in Messages
    BY DEF Types
  <2>2. \A j \in DOMAIN callbacks : callbacks[j] \in PauseMessages
    BY DEF Types
  <2> QED  BY <2>1, <2>2 DEF Types, Messages, RequestMessages, PauseMessages, Resumes
<1>3. PausesPending'
  <2> SUFFICES ASSUME NEW i \in DOMAIN q', q'[i].type = "pause"
               PROVE  /\ q'[i] \in pending' /\ q'[i].call <= calls'
                      /\ \A j \in DOMAIN q' :
                           q'[j].type = "pause" /\ q'[j].call = q'[i].call => i = j
                      /\ \A j \in DOMAIN callbacks : callbacks[j].call # q'[i].call
    BY <1>2 DEF PausesPending
  <2>1. CASE i \in DOMAIN q
    BY <1>1, <1>2, <2>1 DEF PausesPending
  <2>2. CASE i = Len(q) + 1
    BY <1>1, <1>2, <2>2 DEF PausesPending
  <2> QED  BY <1>1, <2>1, <2>2
<1>4. ResumesLast'
  <2> SUFFICES ASSUME NEW i \in DOMAIN q', q'[i].type \in Resumes
               PROVE  /\ callbacks = <<>>
                      /\ \A j \in DOMAIN q' : j < i => q'[j].type # "pause"
                      /\ q'[i].type = "resume" => ~asleep
    BY DEF ResumesLast
  <2>1. CASE i \in DOMAIN q
    BY <1>1, <2>1 DEF ResumesLast
  <2>2. CASE i = Len(q) + 1
    <3>1. pending = {} /\ (m.type = "resume" => ~asleep)
      BY <1>1, <2>2
    <3>2. \A j \in DOMAIN q : q[j].type # "pause"
      BY <3>1 DEF PausesPending
    <3>3. callbacks = <<>>
      BY <3>1, EmptyFact DEF PausesPending, Types
    <3> QED  BY <1>1, <2>2, <3>1, <3>2, <3>3
  <2> QED  BY <1>1, <2>1, <2>2
<1> QED  BY <1>3, <1>4

\* A message is taken; if it is a pause, it is answered or becomes a callback.
LEMMA TakePauses ==
  ASSUME Types, PausesPending, ResumesLast, inputQueue # <<>>, inputQueue' = Tail(inputQueue),
         UNCHANGED calls,
         \/ UNCHANGED callbacks /\ pending \ {Head(inputQueue)} \subseteq pending'
         \/ /\ Head(inputQueue).type = "pause"
            /\ callbacks' = Append(callbacks, Head(inputQueue)) /\ UNCHANGED pending,
         asleep' => asleep \/ Head(inputQueue).type = "pause"
  PROVE  PausesPending' /\ ResumesLast'
<1> DEFINE q == inputQueue
<1>1. /\ Len(q) \in Nat \ {0} /\ DOMAIN q = 1..Len(q) /\ DOMAIN q' = 1..(Len(q) - 1)
      /\ Head(q) = q[1] /\ Head(q) \in Messages
      /\ \A i \in DOMAIN q' : i + 1 \in DOMAIN q /\ q'[i] = q[i + 1]
  BY TailFacts DEF Types
<1>2. \A j \in DOMAIN callbacks : callbacks[j] \in PauseMessages
  BY DEF Types
<1>3. ASSUME Head(q).type = "pause" PROVE Head(q) \in PauseMessages
  BY <1>1, <1>3 DEF Messages, RequestMessages, Resumes
<1>4. \A j \in DOMAIN callbacks' :
        \/ j \in DOMAIN callbacks /\ callbacks'[j] = callbacks[j]
        \/ callbacks'[j] = Head(q) /\ Head(q).type = "pause" /\ UNCHANGED pending
  <2>1. CASE UNCHANGED callbacks
    BY <2>1
  <2>2. CASE Head(q).type = "pause" /\ callbacks' = Append(callbacks, Head(q)) /\ UNCHANGED pending
    <3>1. /\ DOMAIN callbacks' = 1..(Len(callbacks) + 1) /\ DOMAIN callbacks = 1..Len(callbacks)
          /\ Len(callbacks) \in Nat
          /\ callbacks'[Len(callbacks) + 1] = Head(q)
          /\ \A i \in DOMAIN callbacks : callbacks'[i] = callbacks[i]
      BY <1>3, <2>2, AppendFacts DEF Types
    <3>2. ASSUME NEW j \in DOMAIN callbacks'
          PROVE  \/ j \in DOMAIN callbacks /\ callbacks'[j] = callbacks[j]
                 \/ callbacks'[j] = Head(q)
      BY <3>1, <3>2
    <3> QED  BY <2>2, <3>2
  <2> QED  BY <2>1, <2>2
<1>5. PausesPending'
  <2>1. ASSUME NEW i \in DOMAIN q', q'[i].type = "pause"
        PROVE  /\ q'[i] \in pending' /\ q'[i].call <= calls
               /\ \A j \in DOMAIN q' : q'[j].type = "pause" /\ q'[j].call = q'[i].call => i = j
               /\ \A j \in DOMAIN callbacks' : callbacks'[j].call # q'[i].call
    <3>1. i + 1 \in DOMAIN q /\ i + 1 # 1 /\ q'[i] = q[i + 1] /\ 1 \in DOMAIN q
      BY <1>1
    <3>2. /\ q[i + 1] \in pending /\ q[i + 1].call <= calls
          /\ \A j \in DOMAIN q : q[j].type = "pause" /\ q[j].call = q[i + 1].call => i + 1 = j
          /\ \A j \in DOMAIN callbacks : callbacks[j].call # q[i + 1].call
      BY <2>1, <3>1 DEF PausesPending
    <3>3. q[i + 1] # Head(q) /\ (Head(q).type = "pause" => Head(q).call # q[i + 1].call)
      BY <1>1, <2>1, <3>1, <3>2
    <3>4. \A j \in DOMAIN q' : q'[j].type = "pause" /\ q'[j].call = q'[i].call => i + 1 = j + 1
      BY <1>1, <3>1, <3>2
    <3> QED  BY <1>1, <1>4, <3>1, <3>2, <3>3, <3>4
  <2>2. ASSUME NEW j \in DOMAIN callbacks'
        PROVE  callbacks'[j] \in pending' /\ callbacks'[j].call <= calls
    <3>1. CASE j \in DOMAIN callbacks /\ callbacks'[j] = callbacks[j]
      <4>1. callbacks[j] # Head(q)
        BY <1>1, <1>2, <3>1 DEF PausesPending, PauseMessages
      <4> QED  BY <3>1, <4>1 DEF PausesPending
    <3>2. CASE callbacks'[j] = Head(q) /\ Head(q).type = "pause" /\ UNCHANGED pending
      BY <1>1, <3>2 DEF PausesPending
    <3> QED  BY <1>4, <3>1, <3>2
  <2> QED  BY <2>1, <2>2 DEF PausesPending
<1>6. ResumesLast'
  <2> SUFFICES ASSUME NEW i \in DOMAIN q', q'[i].type \in Resumes
               PROVE  /\ callbacks' = <<>>
                      /\ \A j \in DOMAIN q' : j < i => q'[j].type # "pause"
                      /\ q'[i].type = "resume" => ~asleep'
    BY DEF ResumesLast
  <2>1. i + 1 \in DOMAIN q /\ q'[i] = q[i + 1] /\ 1 \in DOMAIN q /\ 1 < i + 1
    BY <1>1
  <2>2. /\ callbacks = <<>>
        /\ \A j \in DOMAIN q : j < i + 1 => q[j].type # "pause"
        /\ q[i + 1].type = "resume" => ~asleep
    BY <2>1 DEF ResumesLast
  <2>3. Head(q).type # "pause"
    BY <1>1, <2>1, <2>2
  <2>4. \A j \in DOMAIN q' : j < i => q'[j].type # "pause"
    BY <1>1, <2>2
  <2> QED  BY <2>1, <2>2, <2>3, <2>4
<1> QED  BY <1>5, <1>6

LEMMA StayPauses ==
  ASSUME PausesPending, ResumesLast, UNCHANGED <<inputQueue, calls, callbacks, pending, asleep>>
  PROVE  PausesPending' /\ ResumesLast'
BY DEF PausesPending, ResumesLast

\* The callbacks are called and answered.
LEMMA WaitPauses ==
  ASSUME Types, PausesPending, ResumesLast, Wait
  PROVE  PausesPending' /\ ResumesLast'
<1>1. /\ UNCHANGED <<inputQueue, calls>> /\ callbacks' = <<>>
      /\ pending' = pending \ ToSet(callbacks)
      /\ asleep' = (asleep \/ \E i \in DOMAIN callbacks : callbacks[i].sleep)
  BY DEF Wait, clientVars
<1>2. \A i \in DOMAIN inputQueue :
        inputQueue[i].type = "pause" => inputQueue[i] \notin ToSet(callbacks)
  BY DEF PausesPending, ToSet
<1>3. PausesPending'
  BY <1>1, <1>2 DEF PausesPending
<1>4. ResumesLast'
  <2>1. DOMAIN <<>> = {}
    OBVIOUS
  <2>2. callbacks = <<>> => (asleep' => asleep)
    BY <1>1, <2>1
  <2> QED  BY <1>1, <2>2 DEF ResumesLast
<1> QED  BY <1>3, <1>4

LEMMA HandlePauses ==
  ASSUME Types, PausesPending, ResumesLast, Handle
  PROVE  PausesPending' /\ ResumesLast'
<1> DEFINE m == Head(inputQueue)
<1>1. inputQueue # <<>> /\ inputQueue' = Tail(inputQueue) /\ UNCHANGED calls
  BY DEF Handle, clientVars
<1>2. ASSUME UNCHANGED callbacks, pending \ {m} \subseteq pending',
             asleep' => asleep \/ m.type = "pause"
      PROVE  PausesPending' /\ ResumesLast'
  BY <1>1, <1>2, TakePauses
<1>3. CASE HandleAdd(m) \/ HandleAbort(m) \/ HandleWakeup(m)
  <2>1. UNCHANGED <<callbacks, pending, asleep>>
    BY <1>3 DEF HandleAdd, HandleAbort, HandleWakeup
  <2> QED  BY <1>2, <2>1
<1>4. CASE HandlePause(m)
  <2>1. m.type = "pause"
    BY <1>4 DEF HandlePause
  <2>2. \/ UNCHANGED callbacks /\ pending' = pending \ {m}
        \/ callbacks' = Append(callbacks, m) /\ UNCHANGED pending
    BY <1>4 DEF HandlePause
  <2> QED  BY <1>1, <2>1, <2>2, TakePauses
<1>5. CASE HandleResume(m)
  <2>1. UNCHANGED <<callbacks, pending>> /\ (asleep' => asleep)
    BY <1>5 DEF HandleResume
  <2> QED  BY <1>2, <2>1
<1>6. CASE HandleRejected(m)
  <2>1. UNCHANGED <<callbacks, asleep>> /\ pending' = pending \ {m}
    BY <1>6 DEF HandleRejected
  <2> QED  BY <1>2, <2>1
<1> QED  BY <1>3, <1>4, <1>5, <1>6 DEF Handle

LEMMA NextPauses ==
  ASSUME LifecycleAssumption, Patient, Types, PausesPending, ResumesLast, Next
  PROVE  PausesPending' /\ ResumesLast'
<1>1. ASSUME NEW m \in Messages, m.type \notin Resumes \union {"pause"}, Put(m),
             UNCHANGED <<calls, callbacks, pending, asleep>>
      PROVE  PausesPending' /\ ResumesLast'
  BY <1>1, PutPauses
<1>2. ASSUME NEW r \in Requests, Add(r) PROVE PausesPending' /\ ResumesLast'
  <2>1. PICK m \in Messages : m = [type |-> "add", r |-> r]
    BY DEF Messages, RequestMessages
  <2> QED  BY <1>1, <1>2, <2>1 DEF Add, Client, loopVars, Resumes
<1>3. ASSUME NEW r \in Requests, Abort(r) PROVE PausesPending' /\ ResumesLast'
  BY <1>3, StayPauses DEF Abort, Client, loopVars
<1>4. CASE QueueAbort
  <2>1. PICK r \in io : Put([type |-> "abort", r |-> r])
    BY <1>4 DEF QueueAbort
  <2>2. PICK m \in Messages : m = [type |-> "abort", r |-> r]
    BY DEF Messages, RequestMessages, Types
  <2> QED  BY <1>1, <1>4, <2>1, <2>2 DEF QueueAbort, clientVars, loopVars, Resumes
<1>5. ASSUME NEW p \in Pauses, CallPause(p) PROVE PausesPending' /\ ResumesLast'
  <2>1. calls + 1 \in Nat
    BY DEF Types
  <2>2. PICK m \in Messages :
          m = [type |-> "pause", mode |-> p.mode, clear |-> p.clear, sleep |-> p.sleep,
               call |-> calls + 1]
    BY <2>1, PutMessages
  <2>3. /\ Put(m) /\ pending' = pending \union {m} /\ calls' = calls + 1
        /\ UNCHANGED <<callbacks, asleep>>
    BY <1>5, <2>2 DEF CallPause, Client, loopVars
  <2>4. m.type = "pause" /\ m.call = calls + 1
    BY <2>2
  <2> QED  BY <2>3, <2>4, PutPauses DEF Resumes
<1>6. ASSUME NEW kind \in Resumes, CallResume(kind) PROVE PausesPending' /\ ResumesLast'
  <2>1. PICK m \in Messages : m = [type |-> kind]
    BY PutMessages
  <2>2. /\ Put(m) /\ pending = {} /\ (m.type = "resume" => ~asleep) /\ calls' = calls + 1
        /\ UNCHANGED <<callbacks, asleep, pending>>
    BY <1>6, <2>1 DEF CallResume, Client, loopVars
  <2>3. m.type # "pause"
    BY <2>1 DEF Resumes
  <2> QED  BY <2>2, <2>3, PutPauses
<1>7. CASE Wakeup
  <2>1. PICK m \in Messages : m = [type |-> "wakeup"]
    BY PutMessages
  <2> QED  BY <1>1, <1>7, <2>1 DEF Wakeup, clientVars, loopVars, Resumes
<1>8. CASE Signal \/ StopWaiting \/ NoSchedule \/ Idle
  BY <1>8, StayPauses DEF Signal, StopWaiting, NoSchedule, Idle, vars, clientVars, loopVars
<1>9. CASE HandleShutdown \/ Schedule \/ ProcessOldest
  BY <1>9, StayPauses DEF HandleShutdown, Schedule, ProcessOldest, clientVars
<1>10. CASE Wait
  BY <1>10, WaitPauses
<1>11. CASE HandleWaiting \/ HandleMore
  BY <1>11, HandlePauses DEF HandleWaiting, HandleMore
<1> QED  BY <1>2, <1>3, <1>4, <1>5, <1>6, <1>7, <1>8, <1>9, <1>10, <1>11
         DEF Next, EngineStep, Resumes

---------------------------------------------------------------------------
(* Pauses: an engine that is paused and idle stays so until it is resumed *)

\* Nobody starts to run, no batch comes, no pause state is left.
LEMMA StayIdle ==
  ASSUME PausedIdle, UNCHANGED <<pauseState, callbacks>>,
         held' => held, asleep' => asleep,
         \A r \in Requests : status'[r] = "running" => status[r] = "running",
         \A i \in DOMAIN batches' : \E j \in DOMAIN batches : batches'[i] = batches[j]
  PROVE  PausedIdle'
BY DEF PausedIdle, NothingRuns

LEMMA HandleIdle ==
  ASSUME Types, ResumesLast, PausedIdle, Handle
  PROVE  PausedIdle'
<1> DEFINE m == Head(inputQueue)
<1>1. m \in Messages /\ m = inputQueue[1] /\ 1 \in DOMAIN inputQueue /\ UNCHANGED batches
  BY TailFacts DEF Types, Handle
<1>2. CASE HandleAdd(m)
  <2>1. \A r \in Requests : status'[r] = "running" => status[r] = "running"
    BY <1>2 DEF HandleAdd, Types
  <2> QED  BY <1>1, <1>2, <2>1, StayIdle DEF HandleAdd
<1>3. CASE HandleAbort(m)
  <2>1. \A r \in Requests : status'[r] = "running" => status[r] = "running"
    BY <1>3 DEF HandleAbort, Without
  <2> QED  BY <1>1, <1>3, <2>1, StayIdle DEF HandleAbort
<1>4. CASE HandlePause(m)
  <2>1. PICK S \in {Known(Requests), {}}, finished \in BOOLEAN,
             paused \in {"pausedAll", "pausedNew"} :
          /\ pauseState' = paused
          /\ \/ /\ status' = Without(S) /\ held' = FALSE /\ UNCHANGED asleep
                /\ callbacks' = Append(callbacks, m)
             \/ /\ ~Work(Without(S), finished, paused)
                /\ status' = Cleared(Without(S), m.clear) /\ UNCHANGED callbacks
                /\ asleep' = (asleep \/ m.sleep)
    <3>1. PICK finished \in BOOLEAN :
            finished = (finishedIds \/ (IF m.mode = "abort" THEN Known(Requests) ELSE {}) # {})
      OBVIOUS
    <3> QED  BY <1>4, <3>1 DEF HandlePause
  <2>2. \A r \in Requests : status'[r] = "running" => status[r] = "running"
    BY <2>1 DEF Without, Cleared
  <2>3. CASE held' = FALSE /\ UNCHANGED asleep
    BY <1>1, <2>1, <2>2, <2>3 DEF PausedIdle, NothingRuns
  <2>4. CASE /\ ~Work(Without(S), finished, paused)
             /\ status' = Cleared(Without(S), m.clear)
             /\ asleep' = (asleep \/ m.sleep)
    <3>1. batches = <<>> /\ ~Requested(Without(S), finished, paused)
      BY <2>4 DEF Work
    <3>2. paused = "pausedNew" => NothingRuns'
      BY <2>1, <2>4, <3>1 DEF Requested, Counted, Cleared, NothingRuns
    <3>3. asleep' => NothingRuns'
      <4>1. CASE asleep
        BY <2>2, <4>1 DEF PausedIdle, NothingRuns
      <4>2. CASE m.sleep
        <5>1. m.clear
          BY <1>1, <1>4, <4>2 DEF HandlePause, Messages, RequestMessages, PauseMessages, Resumes
        <5> QED  BY <2>4, <5>1 DEF Cleared, NothingRuns
      <4> QED  BY <2>4, <4>1, <4>2
    <3>4. \A i \in DOMAIN batches : FALSE
      BY <3>1
    <3> QED  BY <1>1, <2>1, <3>2, <3>3, <3>4 DEF PausedIdle
  <2> QED  BY <2>1, <2>3, <2>4
<1>5. CASE HandleResume(m)
  <2>1. callbacks = <<>> /\ (m.type = "resume" => ~asleep)
    BY <1>1, <1>5 DEF HandleResume, ResumesLast, Resumes
  <2>2. UNCHANGED <<status, callbacks>>
    BY <1>5 DEF HandleResume
  <2>3. CASE ~held' /\ ~asleep'
    BY <2>1, <2>2, <2>3 DEF PausedIdle
  <2>4. CASE UNCHANGED <<held, pauseState>> /\ (asleep' => asleep)
    BY <1>1, <2>2, <2>4, StayIdle
  <2>5. asleep' = (asleep /\ m.type # "wake")
    BY <1>5 DEF HandleResume
  <2>6. CASE m.type = "resume" \/ ~asleep'
    BY <1>5, <2>1, <2>3, <2>5, <2>6 DEF HandleResume
  <2>7. CASE ~(m.type = "resume" \/ ~asleep')
    BY <1>5, <2>4, <2>5, <2>7 DEF HandleResume
  <2> QED  BY <2>6, <2>7
<1>6. CASE HandleRejected(m) \/ HandleWakeup(m)
  BY <1>1, <1>6, StayIdle DEF HandleRejected, HandleWakeup
<1> QED  BY <1>2, <1>3, <1>4, <1>5, <1>6 DEF Handle

\* Only empty batches can be issued while it is paused and idle.
LEMMA ScheduleIdle ==
  ASSUME Types, PausedIdle, Schedule
  PROVE  PausedIdle'
<1>1. PICK P \in SUBSET Running : \E B \in SUBSET Schedulable(P) :
        /\ status' = [r \in Requests |-> IF r \in B THEN "running"
                                          ELSE IF r \in P THEN "waiting" ELSE status[r]]
        /\ batches' = Append(batches, B)
  BY DEF Schedule
<1>2. PICK B \in SUBSET Schedulable(P) :
        /\ status' = [r \in Requests |-> IF r \in B THEN "running"
                                          ELSE IF r \in P THEN "waiting" ELSE status[r]]
        /\ batches' = Append(batches, B)
  BY <1>1
<1>3. UNCHANGED <<pauseState, callbacks, held, asleep>>
  BY DEF Schedule
<1>4. CASE held \/ asleep
  <2>1. B = {}
    <3>1. pauseState # "unpaused" /\ (pauseState = "pausedNew" \/ asleep => NothingRuns)
      BY <1>4 DEF PausedIdle
    <3>2. ASSUME NEW r \in B PROVE FALSE
      <4>1. r \in Requests /\ status[r] = "running" /\ pauseState # "pausedAll"
        BY <3>1 DEF Schedulable
      <4> QED  BY <3>1, <4>1 DEF NothingRuns, Types
    <3> QED  BY <3>2
  <2>2. \A r \in Requests : status'[r] = "running" => status[r] = "running"
    BY <1>2, <2>1
  <2>3. \A i \in DOMAIN batches' : batches'[i] = {}
    <3>1. B \in SUBSET Requests
      BY <2>1
    <3>2. /\ DOMAIN batches' = 1..(Len(batches) + 1) /\ DOMAIN batches = 1..Len(batches)
          /\ Len(batches) \in Nat /\ batches'[Len(batches) + 1] = {}
          /\ \A i \in DOMAIN batches : batches'[i] = batches[i]
      BY <1>2, <2>1, <3>1, AppendFacts DEF Types
    <3>3. \A i \in DOMAIN batches : batches[i] = {}
      BY <1>4 DEF PausedIdle
    <3> QED  BY <3>2, <3>3
  <2> QED  BY <1>3, <2>2, <2>3 DEF PausedIdle, NothingRuns
<1>5. CASE ~(held \/ asleep)
  BY <1>3, <1>5 DEF PausedIdle
<1> QED  BY <1>4, <1>5

LEMMA WaitIdle ==
  ASSUME Types, PausedIdle, Wait
  PROVE  PausedIdle'
<1>1. batches = <<>> /\ ~HasRequests /\ UNCHANGED <<pauseState, batches>> /\ callbacks' = <<>>
  BY DEF Wait, Waits, HasWork, Work, HasRequests
<1>2. \A i \in DOMAIN batches : FALSE
  BY <1>1
<1>3. /\ status' = Cleared(status, \E i \in DOMAIN callbacks : callbacks[i].clear)
      /\ asleep' = (asleep \/ \E i \in DOMAIN callbacks : callbacks[i].sleep)
      /\ held' = (held \/ callbacks # <<>>)
  BY DEF Wait
<1>4. \A r \in Requests : status'[r] = "running" => status[r] = "running"
  BY <1>3 DEF Cleared
<1>5. held' \/ asleep' => pauseState # "unpaused"
  <2>1. \A i \in DOMAIN <<>> : FALSE
    OBVIOUS
  <2> QED  BY <1>3, <2>1 DEF PausedIdle
<1>6. pauseState = "pausedNew" => NothingRuns'
  BY <1>1, <1>4 DEF HasRequests, Requested, Counted, NothingRuns
<1>7. asleep' => NothingRuns'
  <2>1. CASE asleep
    BY <1>4, <2>1 DEF PausedIdle, NothingRuns
  <2>2. ASSUME NEW i \in DOMAIN callbacks, callbacks[i].sleep PROVE NothingRuns'
    <3>1. callbacks[i] \in PauseMessages
      BY <2>2 DEF Types
    <3>2. callbacks[i].clear
      BY <2>2, <3>1 DEF PauseMessages
    <3> QED  BY <1>3, <3>2 DEF Cleared, NothingRuns
  <2> QED  BY <1>3, <2>1, <2>2
<1> QED  BY <1>1, <1>2, <1>5, <1>6, <1>7 DEF PausedIdle

LEMMA NextIdle ==
  ASSUME LifecycleAssumption, Types, Awaited, ResumesLast, PausedIdle, Next
  PROVE  PausedIdle'
<1>1. ASSUME UNCHANGED <<pauseState, callbacks, held, asleep, batches>>,
             \A r \in Requests : status'[r] = "running" => status[r] = "running"
      PROVE  PausedIdle'
  BY <1>1, StayIdle
<1>2. ASSUME UNCHANGED <<pauseState, callbacks, held, asleep, batches, status>>
      PROVE  PausedIdle'
  BY <1>1, <1>2
<1>3. ASSUME NEW r \in Requests, Add(r) PROVE PausedIdle'
  <2>1. \A o \in Requests : status'[o] = "running" => status[o] = "running"
    BY <1>3 DEF Add, Types
  <2> QED  BY <1>1, <1>3, <2>1 DEF Add, Client, loopVars
<1>4. ASSUME NEW r \in Requests, Abort(r) PROVE PausedIdle'
  BY <1>2, <1>4 DEF Abort, Client, loopVars
<1>5. ASSUME NEW p \in Pauses, CallPause(p) PROVE PausedIdle'
  BY <1>2, <1>5 DEF CallPause, Client, loopVars
<1>6. ASSUME NEW kind \in Resumes, CallResume(kind) PROVE PausedIdle'
  BY <1>2, <1>6 DEF CallResume, Client, loopVars
<1>7. CASE QueueAbort \/ Signal \/ Wakeup \/ StopWaiting \/ NoSchedule \/ Idle
  BY <1>2, <1>7 DEF QueueAbort, Signal, Wakeup, StopWaiting, NoSchedule, Idle,
                    vars, requestVars, loopVars
<1>8. CASE HandleShutdown
  <2>1. \A r \in Requests : status'[r] = "running" => status[r] = "running"
    BY <1>8 DEF HandleShutdown, Without
  <2> QED  BY <1>1, <1>8, <2>1 DEF HandleShutdown
<1>9. CASE ProcessOldest
  <2>1. \A r \in Requests : status'[r] = "running" => status[r] = "running"
    BY <1>9 DEF ProcessOldest, Without
  <2>2. \A i \in DOMAIN batches' : \E j \in DOMAIN batches : batches'[i] = batches[j]
    <3>1. batches # <<>> /\ batches' = Tail(batches)
      BY <1>9 DEF ProcessOldest, Awaited
    <3> QED  BY <3>1, TailFacts DEF Types
  <2>3. UNCHANGED <<pauseState, callbacks, held, asleep>>
    BY <1>9 DEF ProcessOldest
  <2> QED  BY <2>1, <2>2, <2>3, StayIdle
<1>10. CASE Schedule
  BY <1>10, ScheduleIdle
<1>11. CASE Wait
  BY <1>11, WaitIdle
<1>12. CASE HandleWaiting \/ HandleMore
  BY <1>12, HandleIdle DEF HandleWaiting, HandleMore
<1> QED  BY <1>3, <1>4, <1>5, <1>6, <1>7, <1>8, <1>9, <1>10, <1>11, <1>12
         DEF Next, EngineStep, Resumes

(***************************************************************************)
(* _finish_pause promises an idle device, whether the pause is complete at *)
(* once or by a callback: no batch with tokens is in flight or issued from *)
(* the answer until a resume, nor while the executor sleeps.  Clients must *)
(* wait for the answer: a callback is called even after a resume.          *)
(***************************************************************************)
THEOREM PausesHold ==
  ASSUME Patient
  PROVE  Spec => []PauseHolds
<1>1. Init => PauseInv
  <2> SUFFICES ASSUME Init PROVE PauseInv
    OBVIOUS
  <2>1. \A i \in DOMAIN <<>> : FALSE
    OBVIOUS
  <2>2. PausesPending /\ ResumesLast /\ PausedIdle
    BY <2>1 DEF Init, PausesPending, ResumesLast, PausedIdle
  <2> QED  BY <2>2, InitRequestInv DEF RequestInv, PauseInv
<1>2. PauseInv /\ [Next]_vars => PauseInv'
  <2> SUFFICES ASSUME PauseInv, [Next]_vars PROVE PauseInv'
    OBVIOUS
  <2>1. CASE Next
    BY <2>1, LifecycleAssumption, NextTypes, NextAwaited, NextPauses, NextIdle DEF PauseInv
  <2>2. CASE UNCHANGED vars
    <3>1. Types' /\ Awaited'
      BY <2>2 DEF PauseInv, Types, Awaited, vars, clientVars, requestVars, loopVars
    <3>2. PausesPending' /\ ResumesLast'
      BY <2>2, StayPauses DEF PauseInv, vars, clientVars, loopVars
    <3>3. PausedIdle'
      BY <2>2 DEF PauseInv, PausedIdle, NothingRuns, vars, requestVars, loopVars
    <3> QED  BY <3>1, <3>2, <3>3 DEF PauseInv
  <2> QED  BY <2>1, <2>2
<1>3. PauseInv => PauseHolds
  BY DEF PauseInv, PausedIdle, PauseHolds
<1> QED  BY <1>1, <1>2, <1>3, PTL DEF Spec
=============================================================================
