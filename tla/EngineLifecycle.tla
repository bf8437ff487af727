-------------------------- MODULE EngineLifecycle --------------------------
(***************************************************************************)
(* The life of an engine process (EngineCoreProc of v1/engine/core.py):    *)
(* its busy loop with the input queue, aborts, pause and resume, sleep and *)
(* wake-up, and shutdown by a signal, while batches are in flight.         *)
(*                                                                         *)
(* PipelineEngine has what a batch does to a request.  Here a request is   *)
(* waiting or running, has a number of outputs to go and is in one batch   *)
(* at a time; which requests a batch takes is left open.                   *)
(***************************************************************************)
EXTENDS Integers, FiniteSets, Sequences, SequencesExt

CONSTANTS
  Requests,
  Tokens,          \* outputs of a request
  QueueSize,       \* batch_queue_size
  DrainModes,      \* whether shutdown_timeout # 0: the values to check
  Patient,         \* clients let a pause be answered before they resume
  Pauses,          \* calls of pause_scheduler and sleep: mode, clear, sleep
  MaxQueued,       \* bound: messages in the input queue when a client sends one
  MaxCalls,        \* bound: utility calls
  MaxAborts,       \* bound: requests aborted by their client
  MaxPreemptions,  \* bound: preemptions
  MaxSignals       \* bound: termination signals

ASSUME LifecycleAssumption ==
  /\ IsFiniteSet(Requests)
  /\ {Tokens, QueueSize} \subseteq Nat \ {0}
  /\ DrainModes \subseteq BOOLEAN /\ Patient \in BOOLEAN
  /\ Pauses \subseteq [mode : {"abort", "wait", "keep"}, clear : BOOLEAN, sleep : BOOLEAN]
  /\ \A p \in Pauses : p.sleep => p.clear
  /\ {MaxQueued, MaxCalls, MaxAborts, MaxPreemptions, MaxSignals} \subseteq Nat

VARIABLES
  inputQueue,     \* input_queue
  abortsQueue,    \* aborts_queue
  io,             \* the requests of an abort that is in the one queue and not yet in the other
  status,         \* per request: "new", "sent", "waiting", "running", "gone"
  togo,           \* per request: outputs to go
  finishedIds,    \* finished_req_ids is not empty
  preemptions,
  pauseState,     \* scheduler.pause_state
  callbacks,      \* _idle_state_callbacks: pauses to complete
  asleep,         \* executor.is_sleeping
  batches,        \* batch_queue: the requests of each batch, oldest first
  pc,             \* the busy loop is at "top", "input", "get", "drain", "await", or has "exited"
  shutdownState,
  drain,          \* shutdown_timeout is not 0: read, and so chosen, when a shutdown starts
  signals, wakeups, \* signals so far, WAKEUPs still to be put
  calls, pending, \* utility calls so far, pauses not answered yet
  answers,        \* per request: final outputs sent
  aborted,        \* requests that were aborted by their client
  held            \* the last pause is answered and nobody has resumed

clientVars == <<calls, signals>>
requestVars == <<status, togo, preemptions, answers>>
loopVars == <<callbacks, pc, shutdownState, drain>>
vars == <<inputQueue, abortsQueue, io, finishedIds, pauseState, asleep, batches, wakeups,
          pending, aborted, held, clientVars, requestVars, loopVars>>

Init ==
  /\ inputQueue = <<>> /\ abortsQueue = {} /\ io = {}
  /\ status = [r \in Requests |-> "new"]
  /\ togo = [r \in Requests |-> Tokens]
  /\ finishedIds = FALSE /\ preemptions = 0
  /\ pauseState = "unpaused" /\ callbacks = <<>> /\ asleep = FALSE
  /\ batches = <<>>
  /\ pc = "top" /\ shutdownState = "running" /\ drain = FALSE
  /\ signals = 0 /\ wakeups = 0 /\ calls = 0 /\ pending = {}
  /\ answers = [r \in Requests |-> 0]
  /\ aborted = {} /\ held = FALSE

---------------------------------------------------------------------------
(* The scheduler, as far as the loop depends on it *)

\* Mutation: the pause state makes no difference to what is counted.
CountedAll(paused) == {"waiting", "running"}

\* get_num_unfinished_requests counts what the pause state lets the engine run.
Counted(paused) ==
  CASE paused = "unpaused" -> {"waiting", "running"}
    [] paused = "pausedNew" -> {"running"}
    [] paused = "pausedAll" -> {}

\* has_requests, for requests in these states.
Requested(states, finished, paused) ==
  finished \/ \E r \in Requests : states[r] \in Counted(paused)

\* Mutation: batches in flight are no work.
WorkQueued(states, finished, paused) == Requested(states, finished, paused)

\* has_work
Work(states, finished, paused) == Requested(states, finished, paused) \/ batches # <<>>

HasRequests == Requested(status, finishedIds, pauseState)
HasWork == Work(status, finishedIds, pauseState)

Known(S) == {r \in S : status[r] \in {"waiting", "running"}}
Running == {r \in Requests : status[r] = "running"}
InFlight == UNION {batches[i] : i \in DOMAIN batches}

\* finish_requests: those of S that the scheduler knows are forgotten.
Without(S) == [r \in Requests |-> IF r \in Known(S) THEN "gone" ELSE status[r]]

\* is_running: no shutdown has been requested.
IsRunning == shutdownState = "running"

\* Final outputs for the requests S.
Answer(S) == answers' = [r \in Requests |-> IF r \in S THEN answers[r] + 1 ELSE answers[r]]

---------------------------------------------------------------------------
(* Clients, the input thread, signals *)

Put(message) == inputQueue' = Append(inputQueue, message)

\* Mutation: an abort is only put where it is seen at once.
QueuedToNone(S) == {}

QueuedTo(S) == S

Client ==
  /\ io = {} /\ pc # "exited" /\ Len(inputQueue) < MaxQueued
  /\ UNCHANGED <<finishedIds, pauseState, asleep, batches, wakeups, held, togo,
                 preemptions, answers, loopVars, signals>>

Add(r) ==
  /\ Client
  /\ status[r] = "new"
  /\ status' = [status EXCEPT ![r] = "sent"]
  /\ Put([type |-> "add", r |-> r])
  /\ UNCHANGED <<abortsQueue, io, calls, pending, aborted>>

\* process_input_sockets: first the queue that is looked at between two steps.
Abort(r) ==
  /\ Client
  /\ status[r] # "new" /\ r \notin aborted
  /\ Cardinality(aborted) < MaxAborts
  /\ aborted' = aborted \union {r}
  /\ abortsQueue' = abortsQueue \union {r}
  /\ io' = QueuedTo({r})
  /\ UNCHANGED <<inputQueue, status, calls, pending>>

\* Then the input queue, which keeps the order with the ADD.
QueueAbort ==
  /\ \E r \in io : Put([type |-> "abort", r |-> r])
  /\ io' = {}
  /\ UNCHANGED <<abortsQueue, finishedIds, pauseState, asleep, batches, wakeups, pending, aborted,
                 held, clientVars, requestVars, loopVars>>

\* pause_scheduler, or sleep when the executor is to follow.
CallPause(p) ==
  /\ Client
  /\ calls < MaxCalls /\ calls' = calls + 1
  /\ LET m == [type |-> "pause", mode |-> p.mode, clear |-> p.clear, sleep |-> p.sleep, call |-> calls']
     IN  pending' = pending \union {m} /\ Put(m)
  /\ UNCHANGED <<abortsQueue, io, status, aborted>>

\* resume_scheduler, or, for an engine put to sleep, wake_up of everything or of a part.
CallResume(kind) ==
  /\ Client
  /\ calls < MaxCalls /\ calls' = calls + 1
  /\ Patient => pending = {}
  /\ kind = "resume" => ~asleep /\ \A m \in pending : ~m.sleep
  /\ Put([type |-> kind])
  /\ UNCHANGED <<abortsQueue, io, status, pending, aborted>>

Signal ==
  /\ pc # "exited"
  /\ signals < MaxSignals /\ signals' = signals + 1
  /\ shutdownState' = "requested"
  /\ wakeups' = wakeups + 1
  /\ UNCHANGED <<inputQueue, abortsQueue, io, finishedIds, pauseState, asleep, batches, pending,
                 aborted, held, calls, requestVars, callbacks, pc, drain>>

\* The signal handler's thread wakes an idle engine.
Wakeup ==
  /\ wakeups > 0 /\ wakeups' = wakeups - 1
  /\ Put([type |-> "wakeup"])
  /\ UNCHANGED <<abortsQueue, io, finishedIds, pauseState, asleep, batches, pending, aborted, held,
                 clientVars, requestVars, loopVars>>

---------------------------------------------------------------------------
(* _handle_client_request *)

\* Mutation: requests that come during a shutdown are taken.
RejectsAddNever == FALSE

\* _reject_add_in_shutdown
RejectsAdd == ~IsRunning

\* _reject_utility_in_shutdown
RejectsUtility == ~IsRunning

HandleAdd(m) ==
  /\ m.type = "add"
  /\ status' = [status EXCEPT ![m.r] = IF RejectsAdd THEN "gone" ELSE "waiting"]
  /\ Answer(IF RejectsAdd THEN {m.r} ELSE {})
  /\ UNCHANGED <<finishedIds, pauseState, callbacks, asleep, pending, held>>

HandleAbort(m) ==
  /\ m.type = "abort"
  /\ status' = Without({m.r})
  /\ finishedIds' = (finishedIds \/ Known({m.r}) # {})
  /\ UNCHANGED <<answers, pauseState, callbacks, asleep, pending, held>>

\* _finish_pause: a reset of the caches preempts whatever is running.
Cleared(states, clear) ==
  [r \in Requests |-> IF clear /\ states[r] = "running" THEN "waiting" ELSE states[r]]

(***************************************************************************)
(* pause_scheduler, by pause or by sleep.  It is complete at once if that  *)
(* leaves no work; otherwise a callback completes it when there is none.   *)
(***************************************************************************)
HandlePause(m) ==
  LET S == IF m.mode = "abort" THEN Known(Requests) ELSE {}
      finished == finishedIds \/ S # {}
      paused == IF m.mode = "keep" THEN "pausedAll" ELSE "pausedNew"
  IN
  /\ m.type = "pause" /\ ~RejectsUtility
  /\ Answer(S)
  /\ finishedIds' = finished
  /\ pauseState' = paused
  /\ IF Work(Without(S), finished, paused)
       THEN /\ status' = Without(S)
            /\ callbacks' = Append(callbacks, m)
            /\ held' = FALSE
            /\ UNCHANGED <<asleep, pending>>
       ELSE /\ status' = Cleared(Without(S), m.clear)
            /\ asleep' = (asleep \/ m.sleep)
            /\ pending' = pending \ {m}
            /\ held' = TRUE
            /\ UNCHANGED callbacks

\* resume_scheduler; wake_up, which resumes when all of the executor's memory is back.
HandleResume(m) ==
  /\ m.type \in {"resume", "wake", "wakePart"} /\ ~RejectsUtility
  /\ asleep' = (asleep /\ m.type # "wake")
  /\ IF m.type = "resume" \/ ~asleep'
       THEN pauseState' = "unpaused" /\ held' = FALSE
       ELSE UNCHANGED <<pauseState, held>>
  /\ UNCHANGED <<status, answers, finishedIds, callbacks, pending>>

HandleRejected(m) ==
  /\ m.type \in {"pause", "resume", "wake", "wakePart"} /\ RejectsUtility
  /\ pending' = pending \ {m}
  /\ UNCHANGED <<status, answers, finishedIds, pauseState, callbacks, asleep, held>>

HandleWakeup(m) ==
  /\ m.type = "wakeup"
  /\ UNCHANGED <<status, answers, finishedIds, pauseState, callbacks, asleep, pending, held>>

Handle ==
  /\ inputQueue # <<>> /\ inputQueue' = Tail(inputQueue)
  /\ LET m == Head(inputQueue)
     IN  HandleAdd(m) \/ HandleAbort(m) \/ HandlePause(m) \/ HandleResume(m)
           \/ HandleRejected(m) \/ HandleWakeup(m)
  /\ UNCHANGED <<abortsQueue, io, togo, preemptions, batches, shutdownState, drain, wakeups,
                 aborted, clientVars>>

---------------------------------------------------------------------------
(* The busy loop *)

\* _handle_shutdown
HandleShutdown ==
  /\ pc = "top"
  /\ IF shutdownState = "requested" THEN drain' \in DrainModes ELSE UNCHANGED drain
  /\ LET S == IF shutdownState = "requested" /\ ~drain' THEN Known(Requests) ELSE {}
     IN  /\ Answer(S)
         /\ status' = Without(S)
         /\ finishedIds' = (finishedIds \/ S # {})
  /\ shutdownState' = IF IsRunning THEN "running" ELSE "shuttingDown"
  /\ pc' = IF ~IsRunning /\ ~Work(status', finishedIds', pauseState) THEN "exited" ELSE "input"
  /\ UNCHANGED <<inputQueue, abortsQueue, io, togo, preemptions, pauseState, callbacks, asleep,
                 batches, wakeups, pending, aborted, held, clientVars>>

\* The loop waits for messages while there is no work and no shutdown.
Waits == pc = "input" /\ ~HasWork /\ IsRunning

(***************************************************************************)
(* An idle engine completes the pauses (_notify_idle_state_callbacks), and *)
(* clears aborts_queue before it blocks: those aborts come by the input    *)
(* queue as well.                                                          *)
(***************************************************************************)
Wait ==
  /\ Waits
  /\ status' = Cleared(status, \E i \in DOMAIN callbacks : callbacks[i].clear)
  /\ asleep' = (asleep \/ \E i \in DOMAIN callbacks : callbacks[i].sleep)
  /\ pending' = pending \ ToSet(callbacks)
  /\ callbacks' = <<>>
  /\ held' = (held \/ callbacks # <<>>)
  /\ abortsQueue' = IF inputQueue = <<>> THEN {} ELSE abortsQueue
  /\ pc' = "get"
  /\ UNCHANGED <<inputQueue, io, togo, preemptions, answers, finishedIds, pauseState, batches,
                 shutdownState, drain, wakeups, aborted, clientVars>>

\* Blocked on the input queue until a message comes, whatever happens meanwhile.
HandleWaiting == pc = "get" /\ Handle /\ pc' = "input"

StopWaiting ==
  /\ pc = "input" /\ ~Waits
  /\ pc' = "drain"
  /\ UNCHANGED <<inputQueue, abortsQueue, io, finishedIds, pauseState, asleep, batches, wakeups,
                 pending, aborted, held, clientVars, requestVars, callbacks, shutdownState, drain>>

\* Whatever has come is handled before the step.
HandleMore == pc = "drain" /\ Handle /\ UNCHANGED pc

Steps == pc = "drain" /\ inputQueue = <<>>

\* Who can be in a batch: nothing new once a request was preempted or while paused.
Schedulable(P) ==
  {r \in Requests \ (InFlight \union P) :
     \/ status[r] = "running" /\ pauseState # "pausedAll"
     \/ status[r] = "waiting" /\ pauseState = "unpaused" /\ P = {}}

(***************************************************************************)
(* The first half of step_with_batch_queue: a batch of B, for which P were *)
(* preempted.  It is empty if nothing can run, or if what waits does not   *)
(* fit beside what is running.                                             *)
(***************************************************************************)
Schedule ==
  /\ Steps /\ HasRequests
  /\ \E P \in SUBSET Running : \E B \in SUBSET Schedulable(P) :
       /\ P # {} => /\ Schedulable({}) \intersect Running # {}
                    /\ preemptions + Cardinality(P) <= MaxPreemptions
       /\ B = {} => \/ Schedulable(P) = {}
                    \/ Schedulable(P) \intersect Running = {} /\ Running # {}
       /\ status' = [r \in Requests |-> IF r \in B THEN "running"
                                         ELSE IF r \in P THEN "waiting" ELSE status[r]]
       /\ preemptions' = preemptions + Cardinality(P)
       /\ batches' = Append(batches, B)
       /\ finishedIds' = FALSE
       /\ pc' = IF Len(batches') < QueueSize /\ (B # {} \/ Requested(status', FALSE, pauseState))
                  THEN "top" ELSE "await"
  /\ UNCHANGED <<inputQueue, abortsQueue, io, togo, answers, pauseState, callbacks, asleep,
                 shutdownState, drain, wakeups, pending, aborted, held, clientVars>>

\* Nothing to schedule: the oldest batch is waited for, if there is one.
NoSchedule ==
  /\ Steps /\ ~HasRequests
  /\ pc' = IF batches = <<>> THEN "top" ELSE "await"
  /\ UNCHANGED <<inputQueue, abortsQueue, io, finishedIds, pauseState, asleep, batches, wakeups,
                 pending, aborted, held, clientVars, requestVars, callbacks, shutdownState, drain>>

\* The second half: aborts first, then the output of the oldest batch.
ProcessOldest ==
  LET B == {r \in Head(batches) : Without(abortsQueue)[r] \in {"waiting", "running"}}
      stopped == {r \in B : togo[r] = 1}
  IN
  /\ pc = "await"
  /\ status' = Without(abortsQueue \union stopped)
  /\ finishedIds' = (finishedIds \/ Known(abortsQueue) \union stopped # {})
  /\ togo' = [r \in Requests |-> IF r \in B THEN togo[r] - 1 ELSE togo[r]]
  /\ Answer(stopped)
  /\ abortsQueue' = {}
  /\ batches' = Tail(batches)
  /\ pc' = "top"
  /\ UNCHANGED <<inputQueue, io, preemptions, pauseState, callbacks, asleep, shutdownState, drain,
                 wakeups, pending, aborted, held, clientVars>>

EngineStep ==
  HandleShutdown \/ Wait \/ HandleWaiting \/ StopWaiting \/ HandleMore
    \/ Schedule \/ NoSchedule \/ ProcessOldest

\* The process has ended, or blocks on an empty queue.
Idle ==
  /\ pc = "exited" \/ (pc = "get" /\ inputQueue = <<>>)
  /\ UNCHANGED vars

Next ==
  \/ \E r \in Requests : Add(r) \/ Abort(r)
  \/ \E p \in Pauses : CallPause(p)
  \/ \E kind \in {"resume", "wake", "wakePart"} : CallResume(kind)
  \/ QueueAbort \/ Signal \/ Wakeup
  \/ EngineStep
  \/ Idle

Spec == Init /\ [][Next]_vars

\* The engine's thread, the input thread and the handler's thread run; clients need not call.
Fairness == WF_vars(EngineStep) /\ WF_vars(QueueAbort) /\ WF_vars(Wakeup)

FairSpec == Spec /\ Fairness
---------------------------------------------------------------------------
(* Properties *)

(***************************************************************************)
(* From the answer to a pause until the next resume, and as long as the    *)
(* executor sleeps, no batch with tokens is in flight or issued            *)
(* (core.py, _finish_pause: "A completed pause promises an idle device").  *)
(***************************************************************************)
PauseHolds == held \/ asleep => \A i \in DOMAIN batches : batches[i] = {}

(***************************************************************************)
(* An aborted request does not come to life again: its ADD cannot follow   *)
(* the last of its ABORTs (core.py, process_input_sockets: "ensuring       *)
(* ordering in the input queue to avoid leaking requests").                *)
(***************************************************************************)
AbortSticks ==
  \A r \in aborted \ io :
    (\A i \in DOMAIN inputQueue : inputQueue[i].type \in {"add", "abort"} => inputQueue[i].r # r)
      => Known({r}) = {}

(***************************************************************************)
(* A request gets one final output: none is forgotten without one unless   *)
(* its client aborted it, none gets two, and an engine that exits leaves   *)
(* nobody without, however shutdown, pauses and batches in flight meet.  A *)
(* shutdown that drains does not wait for requests that a pause holds back.*)
(***************************************************************************)
AnsweredOnce ==
  /\ \A r \in Requests :
       /\ answers[r] <= 1
       /\ status[r] = "gone" /\ r \notin aborted => answers[r] = 1
  /\ pc = "exited" /\ (drain => pauseState = "unpaused") => Known(Requests) = {}

\* Every pause is answered, unless the engine is shut down; a shutdown comes to its end.
CallsReturn ==
  /\ \A c \in 1..MaxCalls :
       (\E m \in pending : m.call = c) ~> ((\A m \in pending : m.call # c) \/ shutdownState # "running")
  /\ shutdownState = "requested" ~> pc = "exited"

(***************************************************************************)
(* What wake_up says of itself: "Resume scheduling only once all executor  *)
(* memory is resident again."                                              *)
(***************************************************************************)
ResumedResident == pauseState = "unpaused" => ~asleep
=============================================================================
