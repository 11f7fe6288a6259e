--------------------------- MODULE AsyncRecorder ---------------------------
(***************************************************************************)
(* epi_recorder/async_api.py: AsyncRecorder.                               *)
(*                                                                         *)
(* Callers put steps on an asyncio queue; the writer task takes them off   *)
(* and hands each to a single-thread executor, awaiting its write; stop()  *)
(* puts a sentinel, joins the queue and finalizes the storage.  The event  *)
(* loop runs one piece of code between two awaits at a time: such a piece  *)
(* is an action.  The executor's thread runs beside it.                    *)
(*                                                                         *)
(* asyncio.Queue, its join and its task_done counter, and the executor are *)
(* modelled from how the recorder uses them.                               *)
(***************************************************************************)
EXTENDS Integers, Sequences

CONSTANTS
    LateSteps,   \* whether callers may record once stop() was called
    Cancels,     \* whether the writer task may be cancelled from outside
    MaxSteps,    \* bound: steps recorded
    MaxFaults    \* bound: writes that raise

ASSUME RecorderAssumption ==
    /\ LateSteps \in BOOLEAN /\ Cancels \in BOOLEAN
    /\ MaxSteps \in Nat /\ MaxFaults \in Nat

Sentinel == 0    \* the None that tells the writer to end; steps are 1, 2, ...

VARIABLES
    count,       \* _step_count
    error,       \* _error is set
    queue,       \* _queue: steps and sentinels
    unfinished,  \* _queue's count of items put and not marked done
    writer,      \* _writer_loop: "get", "write", "drain", "drain write", "ended"
    awaited,     \* the step whose write the writer awaits, 0 if none
    result,      \* of the awaited write: "none", "ok" or "raised"
    jobs,        \* steps submitted to the executor and not written yet
    running,     \* whether its thread has started on the first of them
    stored,      \* table steps, in the order of the inserts
    stopper,     \* stop(): "idle", "join", "finalize" or "done"
    exported,    \* steps.jsonl
    cancelled,   \* whether the writer task was cancelled
    late,        \* ghost: whether a step was accepted after stop() was called
    faults       \* writes that raised so far

queueVars  == <<count, queue, unfinished>>
writerVars == <<writer, awaited, result, error>>
execVars   == <<jobs, running, stored>>
stopVars   == <<stopper, exported>>
envVars    == <<cancelled, late, faults>>
vars == <<queueVars, writerVars, execVars, stopVars, envVars>>

Elems(s) == {s[i] : i \in DOMAIN s}

Init ==
    /\ count = 0 /\ error = FALSE /\ queue = <<>> /\ unfinished = 0
    /\ writer = "get" /\ awaited = 0 /\ result = "none"
    /\ jobs = <<>> /\ running = FALSE /\ stored = <<>>
    /\ stopper = "idle" /\ exported = <<>>
    /\ cancelled = FALSE /\ late = FALSE /\ faults = 0

-----------------------------------------------------------------------------
(* Callers.                                                                *)

Put(item) == queue' = Append(queue, item) /\ unfinished' = unfinished + 1

\* record_step raises the writer's error, or counts the step and queues it.
RecordStep ==
    /\ ~error /\ count < MaxSteps
    /\ stopper = "idle" \/ LateSteps
    /\ count' = count + 1
    /\ Put(count + 1)
    /\ late' = (late \/ stopper # "idle")
    /\ UNCHANGED <<writerVars, execVars, stopVars, cancelled, faults>>

-----------------------------------------------------------------------------
(* The executor's thread.                                                  *)

JobStarts ==
    /\ jobs # <<>> /\ ~running
    /\ running' = TRUE
    /\ UNCHANGED <<queueVars, writerVars, jobs, stored, stopVars, envVars>>

\* The first job ends; whoever awaits it learns how.
JobEnds(how) ==
    /\ running
    /\ running' = FALSE
    /\ jobs' = Tail(jobs)
    /\ result' = IF Head(jobs) = awaited THEN how ELSE result
    /\ UNCHANGED <<queueVars, writer, awaited, error, stopVars, cancelled, late>>

\* Mutant: a write without a storage returns as if it had happened.
Written_NoStorage ==
    /\ JobEnds("ok")
    /\ UNCHANGED <<stored, faults>>

\* _write_to_storage inserts the step and commits, or it raises.
Written ==
    /\ JobEnds("ok")
    /\ stored' = Append(stored, Head(jobs))
    /\ UNCHANGED faults

WriteRaises ==
    /\ JobEnds("raised") /\ faults < MaxFaults
    /\ faults' = faults + 1
    /\ UNCHANGED stored

-----------------------------------------------------------------------------
(* _writer_loop.                                                           *)

\* Take an item; the sentinel is done at once, a step's write is awaited.
Take(next) ==
    /\ queue # <<>>
    /\ queue' = Tail(queue)
    /\ IF Head(queue) = Sentinel
       THEN /\ unfinished' = unfinished - 1
            /\ UNCHANGED <<awaited, jobs>>
       ELSE /\ awaited' = Head(queue) /\ jobs' = Append(jobs, Head(queue))
            /\ UNCHANGED unfinished
    /\ writer' = next[Head(queue) = Sentinel]
    /\ UNCHANGED <<count, error, result, running, stored, stopVars, envVars>>

\* The sentinel ends the loop.
Get == writer = "get" /\ Take([b \in BOOLEAN |-> IF b THEN "ended" ELSE "write"])

\* Mutant: an item is marked done when its write is submitted.
Resume_NotDone(place, next) ==
    /\ writer = place /\ result = "ok"
    /\ writer' = next /\ awaited' = 0 /\ result' = "none"
    /\ UNCHANGED <<count, queue, unfinished, error, execVars, stopVars,
                   envVars>>

\* The awaited write is done: task_done, and back to the queue.
Resume(place, next) ==
    /\ writer = place /\ result = "ok"
    /\ writer' = next /\ awaited' = 0 /\ result' = "none"
    /\ unfinished' = unfinished - 1
    /\ UNCHANGED <<count, queue, error, execVars, stopVars, envVars>>

\* Mutant: the loop logs the error and takes the next step.
LoopRaises_GoesOn ==
    /\ writer = "write" /\ result = "raised"
    /\ unfinished' = unfinished - 1
    /\ writer' = "get" /\ awaited' = 0 /\ result' = "none"
    /\ UNCHANGED <<count, queue, error, execVars, stopVars, envVars>>

\* The awaited write raised: _error is set and the loop is left, without
\* task_done.
LoopRaises ==
    /\ writer = "write" /\ result = "raised"
    /\ error' = TRUE
    /\ writer' = "ended" /\ awaited' = 0 /\ result' = "none"
    /\ UNCHANGED <<queueVars, execVars, stopVars, envVars>>

\* The task is cancelled from outside.  A job the thread has not started is
\* cancelled with the future the writer awaits; one that runs goes on.
Cancel ==
    /\ Cancels /\ ~cancelled /\ writer \in {"get", "write"}
    /\ cancelled' = TRUE
    /\ writer' = "drain" /\ awaited' = 0 /\ result' = "none"
    /\ jobs' = IF running THEN jobs ELSE <<>>
    /\ UNCHANGED <<queueVars, error, running, stored, stopVars, late, faults>>

\* The handler writes what is still queued, sentinels aside ...
Drain == /\ writer = "drain"
         /\ Take([b \in BOOLEAN |-> IF b THEN "drain" ELSE "drain write"])

\* ... until the queue is empty, or a write raises out of the handler.
DrainEnds ==
    /\ \/ writer = "drain" /\ queue = <<>>
       \/ writer = "drain write" /\ result = "raised"
    /\ writer' = "ended" /\ awaited' = 0 /\ result' = "none"
    /\ UNCHANGED <<queueVars, error, execVars, stopVars, envVars>>

WriterTask == \/ Get \/ Resume("write", "get") \/ LoopRaises
              \/ Drain \/ Resume("drain write", "drain") \/ DrainEnds

-----------------------------------------------------------------------------
(* stop().                                                                 *)

Stop ==
    /\ stopper = "idle"
    /\ stopper' = "join"
    /\ Put(Sentinel)
    /\ UNCHANGED <<count, writerVars, execVars, exported, envVars>>

\* Mutant: the queue is not joined.
Joined_Now ==
    /\ stopper = "join"
    /\ stopper' = "finalize"
    /\ UNCHANGED <<queueVars, writerVars, execVars, exported, envVars>>

\* join returns and so does the cancelled or ended writer task.
Joined ==
    /\ stopper = "join" /\ unfinished = 0 /\ writer = "ended"
    /\ stopper' = "finalize"
    /\ UNCHANGED <<queueVars, writerVars, execVars, exported, envVars>>

\* EpiStorage.finalize runs in the executor, behind the jobs before it.
Finalize ==
    /\ stopper = "finalize" /\ jobs = <<>>
    /\ stopper' = "done"
    /\ exported' = stored
    /\ UNCHANGED <<queueVars, writerVars, execVars, envVars>>

-----------------------------------------------------------------------------

Executor == JobStarts \/ Written \/ WriteRaises

StopTask == Joined \/ Finalize

Next == RecordStep \/ Executor \/ WriterTask \/ Cancel \/ Stop \/ StopTask

Spec == Init /\ [][Next]_vars

\* The loop runs the tasks that are ready and the executor its jobs.  Nothing
\* obliges a caller to record or to stop, or anything to fail.
Fairness == WF_vars(Executor) /\ WF_vars(WriterTask) /\ WF_vars(StopTask)

FairSpec == Spec /\ Fairness
-----------------------------------------------------------------------------
(* Properties.                                                             *)

Item == 0..MaxSteps

TypeOK ==
    /\ count \in Item /\ error \in BOOLEAN
    /\ queue \in Seq(Item) /\ unfinished \in Nat
    /\ writer \in {"get", "write", "drain", "drain write", "ended"}
    /\ awaited \in Item /\ result \in {"none", "ok", "raised"}
    /\ jobs \in Seq(Item) /\ running \in BOOLEAN /\ stored \in Seq(Item)
    /\ stopper \in {"idle", "join", "finalize", "done"}
    /\ exported \in Seq(Item)
    /\ cancelled \in BOOLEAN /\ late \in BOOLEAN /\ faults \in 0..MaxFaults

\* stop() never exports a recording that misses a step accepted before it was
\* called, or has them in another order: not after a write raised, and not
\* after the task was cancelled.
ExportIsWhole ==
    stopper = "done" /\ ~late => exported = [i \in 1..count |-> i]

Disturbed == faults > 0 \/ cancelled \/ late

\* Every accepted step is stored in the end, unless a write raises or the task
\* is cancelled or a caller records behind stop().
StepsAreStored ==
    \A i \in 1..MaxSteps : count >= i ~> i \in Elems(stored) \/ Disturbed

\* stop() returns unless a write raises or the task is cancelled or a caller
\* records behind it.
StopEndsUndisturbed == stopper = "join" ~> stopper = "done" \/ Disturbed

-----------------------------------------------------------------------------
(* The recorder implements the log of steps.                               *)

Log == INSTANCE StepLog WITH
    accepted <- count,
    stored <- Len(stored),
    asked <- stopper # "idle",
    sealed <- stopper \in {"finalize", "done"}

LogSpec == Log!Spec
=============================================================================
