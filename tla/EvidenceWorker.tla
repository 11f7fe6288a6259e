--------------------------- MODULE EvidenceWorker ---------------------------
(***************************************************************************)
(* The gateway's ingest path: epi_gateway/worker.py (EvidenceWorker) over  *)
(* the batch part of epi_core/case_store.py.                               *)
(*                                                                         *)
(* Two threads run it.  "worker" is the background thread of _run_loop:    *)
(* it moves events from the in-memory queue to a local buffer and persists *)
(* the buffer as a batch.  "server" is the main thread: it replays the     *)
(* spool and closes orphan sessions before it serves, then enqueues what   *)
(* clients post and, for an approval link or a fetched record, persists    *)
(* one event itself (store_items), beside the worker thread.               *)
(*                                                                         *)
(* Both persist a batch with the same steps (_persist_batch, apply_batch,  *)
(* rebuild_case), each a step of this model because the other thread or a  *)
(* crash can come in between: open the spool file, finish it, commit the   *)
(* SQLite transaction, then for each touched case read its events and      *)
(* write the case payload.                                                 *)
(***************************************************************************)
EXTENDS Naturals, Sequences

CONSTANTS
    Run,         \* workflow ids; a run's events project into one case
    Captured,    \* events clients post to /capture
    Direct,      \* events the server thread stores itself (/api/approve)
    BatchId,     \* batch ids: a number stands for the uuid's place in name order
    BatchSize,   \* EvidenceWorker.batch_size
    Crashes,     \* whether the process may crash
    MaxSends,    \* bound: how often a client sends the same event
    MaxBoots,    \* bound: process starts; the last start neither stops nor crashes
    MaxFaults    \* bound: exceptions from the disk, SQLite or the projection

EventOf(kinds, numbers) == [run : Run, kind : kinds, no : numbers]

\* The event _recover_orphan_sessions stores for a run, one per boot.
Recovered == EventOf({"recovered"}, 1..MaxBoots)

Event == Captured \cup Direct \cup Recovered

Terminal == {"end", "recovered"}

ASSUME EventAssumption ==
    /\ Captured \subseteq EventOf({"start", "step", "end"}, Nat)
    /\ Direct \subseteq EventOf({"response"}, Nat)

ASSUME BoundAssumption ==
    /\ BatchId \subseteq Nat \ {0}
    /\ BatchSize \in Nat \ {0}
    /\ Crashes \in BOOLEAN
    /\ MaxSends \in Nat /\ MaxBoots \in Nat /\ MaxFaults \in Nat

Thread == {"worker", "server"}

VARIABLES
    phase,      \* of the process: "down", "replay", "recover", "up", "stopping"
    boot,       \* process starts so far
    pending,    \* spool files this replay has still to look at
    orphans,    \* open sessions this recovery has still to close
    queue,      \* EvidenceWorker._queue
    buffer,     \* local of _run_loop
    loop,       \* where _run_loop is: "poll", "decide" or "exit"
    pc,         \* pc[t]: t's place in _persist_batch
    bid,        \* bid[t]: the batch t persists, 0 if none
    todo,       \* todo[t]: touched cases t has still to rebuild
    cur,        \* cur[t]: the case whose events t has read, {} if none
    snap,       \* snap[t]: the events it read
    items,      \* items[b]: the events of batch b
    disk,       \* disk[b]: b's spool file: "absent", "torn" or "whole"
    corrupt,    \* batches whose file was moved to events/corrupt
    applied,    \* table applied_batches
    table,      \* table events, by event_id
    open,       \* table open_sessions, by workflow_id
    cases,      \* table cases: the events each payload was built from
    unsafe,     \* cases whose payload says "do-not-use"
    sent,       \* sent[e]: how often a client had e accepted
    lost,       \* ghost: accepted events that left memory and never reached disk
    faults      \* exceptions so far

memVars   == <<queue, buffer, loop>>
startVars == <<boot, pending, orphans>>
jobVars   == <<pc, bid, todo, cur, snap>>
spoolVars == <<items, disk, corrupt>>
dbVars    == <<applied, table, open>>
caseVars  == <<cases, unsafe>>
envVars   == <<sent, lost, faults>>
vars == <<phase, startVars, memVars, jobVars, spoolVars, dbVars, caseVars,
          envVars>>

-----------------------------------------------------------------------------

Elems(s) == {s[i] : i \in DOMAIN s}

Written == {b \in BatchId : disk[b] = "whole"}

\* Events some complete spool file holds, wherever the file now is.
Durable == UNION {Elems(items[b]) : b \in Written}

InMemory == Elems(queue) \cup Elems(buffer)

EventsOf(r) == {e \in table : e.run = r}

Idle(t) == pc[t] = "idle"

Init ==
    /\ phase = "down" /\ boot = 0 /\ pending = {} /\ orphans = {}
    /\ queue = <<>> /\ buffer = <<>> /\ loop = "poll"
    /\ pc   = [t \in Thread |-> "idle"]
    /\ bid  = [t \in Thread |-> 0]
    /\ todo = [t \in Thread |-> {}]
    /\ cur  = [t \in Thread |-> {}]
    /\ snap = [t \in Thread |-> {}]
    /\ items = [b \in BatchId |-> <<>>]
    /\ disk  = [b \in BatchId |-> "absent"]
    /\ corrupt = {} /\ applied = {} /\ table = {} /\ open = {}
    /\ cases = [r \in Run |-> {}] /\ unsafe = {}
    /\ sent = [e \in Captured |-> 0]
    /\ lost = {} /\ faults = 0

-----------------------------------------------------------------------------
(* apply_batch: one SQLite transaction.                                    *)

\* Mutant: every place counts, whatever cursor.rowcount says.
NewAt_NoRowcount(s) == DOMAIN s

\* The places of s whose INSERT OR IGNORE adds a row: an event the table
\* does not hold and that no earlier place of the batch holds.
NewAt(s) == {i \in DOMAIN s : /\ s[i] \notin table
                              /\ \A j \in DOMAIN s : j < i => s[j] # s[i]}

NewOfRun(s, r) == {i \in NewAt(s) : s[i].run = r}

\* _track_open_session_event, in the order of the batch, new rows only: the
\* last new event of a run says whether its session row is there afterwards.
OpenAfter(s) ==
    {r \in Run : IF NewOfRun(s, r) = {} THEN r \in open
                 ELSE \E i \in NewOfRun(s, r) :
                         /\ \A j \in NewOfRun(s, r) : j <= i
                         /\ s[i].kind \notin Terminal}

\* Mutant: the applied_batches row is forgotten.
CommitBatch_NoRecord(t, b) ==
    LET s == items[b] IN
    /\ table' = table \cup Elems(s)
    /\ open' = OpenAfter(s)
    /\ todo' = [todo EXCEPT ![t] = {s[i].run : i \in NewAt(s)}]
    /\ pc' = [pc EXCEPT ![t] = "rebuild"]
    /\ UNCHANGED applied

\* Commits batch b and leaves t to rebuild the cases it touched.
CommitBatch(t, b) ==
    LET s == items[b] IN
    /\ applied' = applied \cup {b}
    /\ table' = table \cup Elems(s)
    /\ open' = OpenAfter(s)
    /\ todo' = [todo EXCEPT ![t] = {s[i].run : i \in NewAt(s)}]
    /\ pc' = [pc EXCEPT ![t] = "rebuild"]

-----------------------------------------------------------------------------
(* The process goes down: memory is gone, the disk stays.                  *)

GoDown ==
    /\ phase' = "down" /\ pending' = {} /\ orphans' = {}
    /\ queue' = <<>> /\ buffer' = <<>> /\ loop' = "poll"
    /\ pc'   = [t \in Thread |-> "idle"]
    /\ bid'  = [t \in Thread |-> 0]
    /\ todo' = [t \in Thread |-> {}]
    /\ cur'  = [t \in Thread |-> {}]
    /\ snap' = [t \in Thread |-> {}]
    /\ lost' = lost \cup (InMemory \ Durable)
    /\ UNCHANGED <<boot, sent>>

Crash ==
    /\ Crashes /\ phase # "down" /\ boot < MaxBoots
    /\ GoDown
    /\ UNCHANGED <<spoolVars, dbVars, caseVars, faults>>

-----------------------------------------------------------------------------
(* Persisting a batch, by either thread.                                   *)

\* Where _run_loop goes at the end of an iteration: its while condition.
AfterCheck == IF phase = "up" THEN "poll" ELSE "exit"

\* Build a batch under a fresh uuid and open its spool file for writing.
BeginBatch(t, s) ==
    /\ Idle(t)
    /\ \E b \in BatchId :
          /\ disk[b] = "absent"
          /\ items' = [items EXCEPT ![b] = s]
          /\ disk' = [disk EXCEPT ![b] = "torn"]
          /\ bid' = [bid EXCEPT ![t] = b]
    /\ pc' = [pc EXCEPT ![t] = "write"]
    /\ UNCHANGED <<todo, cur, snap, corrupt, dbVars, caseVars, envVars>>

\* Mutant: the batch is applied before its file is written.
FinishFile_Later(t) ==
    /\ pc[t] = "write"
    /\ pc' = [pc EXCEPT ![t] = "apply"]
    /\ UNCHANGED <<phase, startVars, memVars, bid, todo, cur, snap, spoolVars,
                   dbVars, caseVars, envVars>>

\* json.dump has written the whole payload and the file is closed.
FinishFile(t) ==
    /\ pc[t] = "write"
    /\ disk' = [disk EXCEPT ![bid[t]] = "whole"]
    /\ pc' = [pc EXCEPT ![t] = "apply"]
    /\ UNCHANGED <<phase, startVars, memVars, bid, todo, cur, snap, items,
                   corrupt, dbVars, caseVars, envVars>>

ApplyBatch(t) ==
    /\ pc[t] = "apply"
    /\ CommitBatch(t, bid[t])
    /\ UNCHANGED <<phase, startVars, memVars, bid, cur, snap, spoolVars,
                   caseVars, envVars>>

\* Mutant: the buffer is emptied although the flush raised.
PersistFails_DropsBuffer(t) ==
    /\ pc[t] \in {"write", "apply"} /\ faults < MaxFaults
    /\ faults' = faults + 1
    /\ IF (t = "worker" /\ loop = "exit") \/ phase = "recover"
       THEN GoDown
       ELSE /\ pc' = [pc EXCEPT ![t] = "idle"]
            /\ bid' = [bid EXCEPT ![t] = 0]
            /\ IF t = "worker" THEN buffer' = <<>> /\ loop' = AfterCheck
                               ELSE UNCHANGED <<buffer, loop>>
            /\ UNCHANGED <<phase, startVars, queue, todo, cur, snap, sent, lost>>
    /\ UNCHANGED <<spoolVars, dbVars, caseVars>>

\* Writing the file or applying the batch raises.  The loop logs it and
\* keeps its buffer for a later batch; the final flush is outside the try,
\* so it ends the thread; a request fails; start() re-raises.
PersistFails(t) ==
    /\ pc[t] \in {"write", "apply"} /\ faults < MaxFaults
    /\ faults' = faults + 1
    /\ IF (t = "worker" /\ loop = "exit") \/ phase = "recover"
       THEN GoDown
       ELSE /\ pc' = [pc EXCEPT ![t] = "idle"]
            /\ bid' = [bid EXCEPT ![t] = 0]
            /\ loop' = IF t = "worker" THEN AfterCheck ELSE loop
            /\ UNCHANGED <<phase, startVars, queue, buffer, todo, cur, snap,
                           sent, lost>>
    /\ UNCHANGED <<spoolVars, dbVars, caseVars>>

\* rebuild_case, first half: list_events of one touched case.
RebuildRead(t) ==
    /\ pc[t] = "rebuild"
    /\ \E r \in todo[t] :
          /\ cur' = [cur EXCEPT ![t] = {r}]
          /\ snap' = [snap EXCEPT ![t] = EventsOf(r)]
          /\ todo' = [todo EXCEPT ![t] = @ \ {r}]
    /\ pc' = [pc EXCEPT ![t] = "project"]
    /\ UNCHANGED <<phase, startVars, memVars, bid, spoolVars, dbVars,
                   caseVars, envVars>>

\* The case's payload is replaced by one built from S, marked as told.
WriteCase(t, S, marked) ==
    /\ cases' = [r \in Run |-> IF r \in cur[t] THEN S[r] ELSE cases[r]]
    /\ unsafe' = IF marked THEN unsafe \cup cur[t] ELSE unsafe \ cur[t]
    /\ pc' = [pc EXCEPT ![t] = "rebuild"]
    /\ cur' = [cur EXCEPT ![t] = {}]
    /\ snap' = [snap EXCEPT ![t] = {}]

\* rebuild_case, second half: build the payload and upsert the case.
RebuildWrite(t) ==
    /\ pc[t] = "project"
    /\ WriteCase(t, [r \in Run |-> snap[t]], FALSE)
    /\ UNCHANGED <<phase, startVars, memVars, bid, todo, spoolVars, dbVars,
                   envVars>>

\* Mutant: the failure leaves no mark on the case.
RebuildFails_Unmarked(t) ==
    /\ pc[t] = "project" /\ faults < MaxFaults
    /\ faults' = faults + 1
    /\ WriteCase(t, cases, FALSE)
    /\ UNCHANGED <<phase, startVars, memVars, bid, todo, spoolVars, dbVars,
                   sent, lost>>

\* Building it raises: _record_projection_failure keeps the old steps and
\* marks the case.
RebuildFails(t) ==
    /\ pc[t] = "project" /\ faults < MaxFaults
    /\ faults' = faults + 1
    /\ WriteCase(t, cases, TRUE)
    /\ UNCHANGED <<phase, startVars, memVars, bid, todo, spoolVars, dbVars,
                   sent, lost>>

\* apply_batch returns.  The worker forgets its buffer only now.
FinishBatch(t) ==
    /\ pc[t] = "rebuild" /\ todo[t] = {}
    /\ pc' = [pc EXCEPT ![t] = "idle"]
    /\ bid' = [bid EXCEPT ![t] = 0]
    /\ IF t = "worker" THEN buffer' = <<>> /\ loop' = AfterCheck
                       ELSE UNCHANGED <<buffer, loop>>
    /\ UNCHANGED <<phase, startVars, queue, todo, cur, snap, spoolVars, dbVars,
                   caseVars, envVars>>

Persist(t) == \/ FinishFile(t) \/ ApplyBatch(t)
              \/ RebuildRead(t) \/ RebuildWrite(t) \/ FinishBatch(t)

Fail(t) == PersistFails(t) \/ RebuildFails(t)

-----------------------------------------------------------------------------
(* start(): replay the spool, then close the sessions left open.           *)

\* The process starts; replay_spool lists evidence_*.json.
Boot ==
    /\ phase = "down" /\ boot < MaxBoots
    /\ phase' = "replay" /\ boot' = boot + 1
    /\ pending' = {b \in BatchId : disk[b] # "absent"} \ corrupt
    /\ UNCHANGED <<orphans, memVars, jobVars, spoolVars, dbVars, caseVars,
                   envVars>>

\* The next file, in name order, for an idle server thread.
IsNext(b) == /\ phase = "replay" /\ Idle("server")
             /\ b \in pending /\ \A c \in pending : b <= c

NextFile(b) == IsNext(b) /\ pending' = pending \ {b}

\* Mutant: the first bad file ends the replay.
Quarantine_Stops(b) ==
    /\ IsNext(b) /\ disk[b] = "torn"
    /\ pending' = {}
    /\ corrupt' = corrupt \cup {b}
    /\ UNCHANGED <<phase, boot, orphans, memVars, jobVars, items, disk, dbVars,
                   caseVars, sent, lost, faults>>

\* An unreadable file is set aside, and so is one whose batch will not apply.
Quarantine(b) ==
    /\ NextFile(b)
    /\ \/ disk[b] = "torn" /\ UNCHANGED faults
       \/ /\ disk[b] = "whole" /\ b \notin applied /\ faults < MaxFaults
          /\ faults' = faults + 1
    /\ corrupt' = corrupt \cup {b}
    /\ UNCHANGED <<phase, boot, orphans, memVars, jobVars, items, disk, dbVars,
                   caseVars, sent, lost>>

\* Mutant: batches are skipped without a look at applied_batches.
SkipApplied_Any(b) ==
    /\ NextFile(b) /\ disk[b] = "whole"
    /\ UNCHANGED <<phase, boot, orphans, memVars, jobVars, spoolVars, dbVars,
                   caseVars, envVars>>

SkipApplied(b) ==
    /\ NextFile(b) /\ disk[b] = "whole" /\ b \in applied
    /\ UNCHANGED <<phase, boot, orphans, memVars, jobVars, spoolVars, dbVars,
                   caseVars, envVars>>

ReplayBatch(b) ==
    /\ NextFile(b) /\ disk[b] = "whole" /\ b \notin applied
    /\ CommitBatch("server", b)
    /\ bid' = [bid EXCEPT !["server"] = b]
    /\ UNCHANGED <<phase, boot, orphans, memVars, cur, snap, spoolVars,
                   caseVars, envVars>>

\* Mutant: only sessions whose case was projected are listed.
ReplayDone_ProjectedOnly ==
    /\ phase = "replay" /\ pending = {} /\ Idle("server")
    /\ phase' = "recover" /\ orphans' = {r \in open : cases[r] # {}}
    /\ UNCHANGED <<boot, pending, memVars, jobVars, spoolVars, dbVars,
                   caseVars, envVars>>

\* Nothing is left to replay: list_open_sessions.
ReplayDone ==
    /\ phase = "replay" /\ pending = {} /\ Idle("server")
    /\ phase' = "recover" /\ orphans' = open
    /\ UNCHANGED <<boot, pending, memVars, jobVars, spoolVars, dbVars,
                   caseVars, envVars>>

RecoveredEvent(r) == [run |-> r, kind |-> "recovered", no |-> boot]

\* Store the "agent.run.recovered" event of an orphan session ...
RecoverSession(r) ==
    /\ phase = "recover" /\ r \in orphans /\ RecoveredEvent(r) \notin table
    /\ BeginBatch("server", <<RecoveredEvent(r)>>)
    /\ UNCHANGED <<phase, startVars, memVars>>

\* Mutant: the row is deleted before the event is stored.
CloseSession_First(r) ==
    /\ phase = "recover" /\ r \in orphans
    /\ Idle("server")
    /\ open' = open \ {r}
    /\ orphans' = orphans \ {r}
    /\ UNCHANGED <<phase, boot, pending, memVars, jobVars, spoolVars, applied,
                   table, caseVars, envVars>>

\* Mutant: the session is looked at again and again.
CloseSession_Again(r) ==
    /\ phase = "recover" /\ r \in orphans /\ RecoveredEvent(r) \in table
    /\ Idle("server")
    /\ open' = open \ {r}
    /\ UNCHANGED <<phase, startVars, memVars, jobVars, spoolVars, applied,
                   table, caseVars, envVars>>

\* ... and then delete its row.
CloseSession(r) ==
    /\ phase = "recover" /\ r \in orphans /\ RecoveredEvent(r) \in table
    /\ Idle("server")
    /\ open' = open \ {r}
    /\ orphans' = orphans \ {r}
    /\ UNCHANGED <<phase, boot, pending, memVars, jobVars, spoolVars, applied,
                   table, caseVars, envVars>>

StartupDone ==
    /\ phase = "recover" /\ orphans = {} /\ Idle("server")
    /\ phase' = "up"
    /\ UNCHANGED <<startVars, memVars, jobVars, spoolVars, dbVars, caseVars,
                   envVars>>

Startup == \/ Boot \/ ReplayDone \/ StartupDone
           \/ \E b \in BatchId : Quarantine(b) \/ SkipApplied(b) \/ ReplayBatch(b)
           \/ \E r \in Run : RecoverSession(r) \/ CloseSession(r)

-----------------------------------------------------------------------------
(* Requests, served by the server thread while the process is up.          *)

\* /capture answers 202 as soon as the event is in the queue.
Enqueue(e) ==
    /\ phase = "up" /\ Idle("server") /\ sent[e] < MaxSends
    /\ queue' = Append(queue, e)
    /\ sent' = [sent EXCEPT ![e] = @ + 1]
    /\ UNCHANGED <<phase, startVars, buffer, loop, jobVars, spoolVars, dbVars,
                   caseVars, lost, faults>>

\* /api/approve persists a new event in the request itself.
StoreItems(e) ==
    /\ phase = "up" /\ \A b \in BatchId : e \notin Elems(items[b])
    /\ BeginBatch("server", <<e>>)
    /\ UNCHANGED <<phase, startVars, memVars>>

\* stop(): ready is cleared and the stop event set, between two requests.
Stop ==
    /\ phase = "up" /\ Idle("server") /\ boot < MaxBoots
    /\ phase' = "stopping"
    /\ UNCHANGED <<startVars, memVars, jobVars, spoolVars, dbVars, caseVars,
                   envVars>>

Request == \/ \E e \in Captured : Enqueue(e)
           \/ \E e \in Direct : StoreItems(e)
           \/ Stop

-----------------------------------------------------------------------------
(* _run_loop: the worker thread.                                           *)

Running == phase \in {"up", "stopping"} /\ Idle("worker")

\* queue.get returns an event.
Get ==
    /\ Running /\ loop = "poll" /\ queue # <<>>
    /\ buffer' = Append(buffer, Head(queue))
    /\ queue' = Tail(queue)
    /\ loop' = "decide"
    /\ UNCHANGED <<phase, startVars, jobVars, spoolVars, dbVars, caseVars,
                   envVars>>

\* queue.get times out with nothing to flush yet, and stop() was called.
PollEmpty ==
    /\ Running /\ loop = "poll" /\ queue = <<>> /\ phase = "stopping"
    /\ loop' = "exit"
    /\ UNCHANGED <<phase, startVars, queue, buffer, jobVars, spoolVars, dbVars,
                   caseVars, envVars>>

\* The buffer is short and the batch timeout has not passed.
KeepBuffering ==
    /\ Running /\ loop = "decide" /\ Len(buffer) < BatchSize
    /\ loop' = AfterCheck
    /\ UNCHANGED <<phase, startVars, queue, buffer, jobVars, spoolVars, dbVars,
                   caseVars, envVars>>

\* Mutant: no batch timeout.
Flush_FullOnly ==
    /\ Running /\ buffer # <<>>
    /\ Len(buffer) >= BatchSize \/ loop = "exit"
    /\ BeginBatch("worker", buffer)
    /\ UNCHANGED <<phase, startVars, memVars>>

\* The buffer is full, or the batch timeout has passed (after an event or on
\* an empty queue), or the loop has ended.
Flush ==
    /\ Running /\ buffer # <<>>
    /\ loop \in {"decide", "exit"} \/ queue = <<>>
    /\ BeginBatch("worker", buffer)
    /\ UNCHANGED <<phase, startVars, memVars>>

\* The thread ends, stop() returns and the process exits.
WorkerExit ==
    /\ Running /\ loop = "exit" /\ buffer = <<>>
    /\ GoDown
    /\ UNCHANGED <<spoolVars, dbVars, caseVars, faults>>

Loop == Get \/ PollEmpty \/ KeepBuffering \/ Flush \/ WorkerExit

-----------------------------------------------------------------------------

Next == \/ Startup \/ Request \/ Loop \/ Crash
        \/ \E t \in Thread : Persist(t) \/ Fail(t)

Spec == Init /\ [][Next]_vars

\* Threads that can run do run, and a process that is down is started again.
\* Nothing obliges clients to post, an operator to stop, or anything to fail.
Fairness == /\ WF_vars(Startup) /\ WF_vars(Loop)
            /\ \A t \in Thread : WF_vars(Persist(t))

FairSpec == Spec /\ Fairness
-----------------------------------------------------------------------------
(* Properties.                                                             *)

TypeOK ==
    /\ phase \in {"down", "replay", "recover", "up", "stopping"}
    /\ boot \in 0..MaxBoots
    /\ pending \subseteq BatchId /\ orphans \subseteq Run
    /\ queue \in Seq(Event) /\ buffer \in Seq(Event)
    /\ loop \in {"poll", "decide", "exit"}
    /\ pc \in [Thread -> {"idle", "write", "apply", "rebuild", "project"}]
    /\ bid \in [Thread -> BatchId \cup {0}]
    /\ todo \in [Thread -> SUBSET Run] /\ cur \in [Thread -> SUBSET Run]
    /\ snap \in [Thread -> SUBSET Event]
    /\ items \in [BatchId -> Seq(Event)]
    /\ disk \in [BatchId -> {"absent", "torn", "whole"}]
    /\ corrupt \subseteq BatchId /\ applied \subseteq BatchId
    /\ table \subseteq Event /\ open \subseteq Run
    /\ cases \in [Run -> SUBSET Event] /\ unsafe \subseteq Run
    /\ sent \in [Captured -> 0..MaxSends]
    /\ lost \subseteq Event
    /\ faults \in 0..MaxFaults

\* The case store holds exactly the events of the batches it says it applied,
\* and every one of those batches is complete in the spool: the store can be
\* rebuilt from the spool, whatever crashed in between.
BatchesCommitWhole ==
    /\ applied \subseteq Written
    /\ table = UNION {Elems(items[b]) : b \in applied}

\* An event the gateway answered 202 for is in memory or in a complete spool
\* file, unless the process went down with it in memory: a failed flush, a
\* retry or a quarantine drops nothing.
AcceptedIsKept ==
    \A e \in Captured :
        sent[e] > 0 => e \in InMemory \cup Durable \cup lost

\* A run with stored events and no end among them has its open_sessions row,
\* so that the next start can recover it, whatever crashed during a recovery.
UnfinishedRunStaysOpen ==
    \A r \in Run :
        EventsOf(r) # {} /\ (\A e \in EventsOf(r) : e.kind \notin Terminal)
        => r \in open

\* Sending again, retrying or replaying stored events re-opens no run.
OpensOnlyOnNewEvent ==
    [][\A r \in open' \ open : \E e \in table' \ table : e.run = r]_vars

\* Once the replay is over, every complete file found on disk is applied or
\* was set aside; only the recovery's own batch is still on its way.
ReplayLeavesNoBatch ==
    phase = "recover" => Written \subseteq applied \cup corrupt \cup {bid["server"]}

\* The process starts to serve with every run of an earlier process closed.
StartupClosesOrphans ==
    [][phase = "recover" /\ phase' = "up" => open' = {}]_vars

\* With nothing in flight a case shows the stored events of its run, or it is
\* marked unsafe: for a run whose events only the worker thread stored, in a
\* process that did not have to recover anything.  The worker's own rebuilds,
\* retries and failures leave no stale case.
WorkerProjectsItsEvents ==
    phase = "up" /\ boot = 1 /\ (\A t \in Thread : Idle(t))
    => \A r \in Run : EventsOf(r) \cap Direct = {}
                      => cases[r] = EventsOf(r) \/ r \in unsafe

\* An accepted event is stored in the end, unless the process goes down.
QueuedIsStored ==
    \A e \in Captured : e \in Elems(queue) ~> e \in table \/ phase = "down"

\* Whatever is down or starting comes to serve.
StartupEnds == phase \in {"replay", "recover"} ~> phase = "up"

-----------------------------------------------------------------------------
(* The abstract store: the log is the complete spool files.                *)

Store == INSTANCE EvidenceStore WITH
    log <- [b \in BatchId |-> IF b \in Written THEN Elems(items[b]) ELSE {}],
    committed <- applied,
    stored <- table

StoreSpec == Store!Spec
StoreFairSpec == Store!FairSpec
=============================================================================
