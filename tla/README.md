# A TLA+ model of epi-recorder

epi-recorder records what an AI agent does as a chain of *steps*, seals the
recording into a signed `.epi` artifact, and offers a gateway that collects
events from many agents into reviewable *cases*. Its promise is about evidence:
what was recorded is kept, in order, and a reader can tell when it is not. These
modules model the parts of the program on which that promise rests, check them
with TLC on small instances, and prove the most important facts for every value
of the constants with TLAPS.

## 1. The system

| Component | Code | State it keeps | Operations | Hard behaviour |
|---|---|---|---|---|
| Ingest worker | `epi_gateway/worker.py` | queue, batch buffer, ready and stop flags, spool files | `start`, `enqueue`, `store_items`, `_run_loop`, `_persist_batch`, `_recover_orphan_sessions`, `stop` | two threads persist at once; crash between file, commit, rebuild; retries; stop with a full queue |
| Case store | `epi_core/case_store.py` | tables `events`, `applied_batches`, `open_sessions`, `cases`, reviews, comments, logins | `apply_batch`, `replay_spool`, `rebuild_case`, reviews, comments, status, export | one transaction per batch, projection outside it, read-modify-write of cases |
| Recording context | `epi_recorder/patcher.py` | step index, chain anchor, lock | `add_step`, `finalize` | concurrent loggers, failed writes, finalize without the lock |
| SDK session | `epi_recorder/api.py` | phase, workspace, stdout capture, artifact | `__enter__`, `log_step`, `__exit__`, `__aexit__`, sign | exceptions in every step of `__exit__`, threads that outlive the body |
| Recording storage | `epi_core/storage.py` | temporary SQLite file, `steps.jsonl` | `add_step`, `finalize` | export, close and unlink are three steps |
| Asynchronous recorder | `epi_recorder/async_api.py` | asyncio queue, writer task, executor, error | `record_step`, `_writer_loop`, `stop` | a cancelled task, a write that raises, a step behind the sentinel |
| Approval gate | `epi_recorder/trust/approval.py` | tickets, events | `request`, `resolve`, `wait_for` | a decision against a timeout |
| Share service | `epi_gateway/share.py` | table `shares`, object files, rate limiter | create, read, expire, prune | object and row are two stores with no transaction over both |
| Gateway application | `epi_gateway/main.py`, `approval_notify.py` | announcements on their way | HTTP routes, approval hook and links | hook after the commit, not for a replay; a link can be clicked twice |
| Policy and fault analysis | `epi_core/fault_analyzer.py`, `policy.py` | none | passes over the steps of a run | requests, answers and calls arrive in any order, some of them the agent's own word |
| Container and reviews | `epi_core/container.py`, `epi_core/review.py` | artifact file, chain of review addenda | pack, sign, refresh, append a review | read, build a new file, replace, without a lock |
| Transparency log | `verify_portal/scitt_routes.py`, `epi_recorder/auto_scitt.py`, `epi_core/scitt.py`, `epi_cli/scitt.py` | table of statements, signed heads, receipt in the file | register, prove, embed the receipt | retry of an accepted registration, lost answers, a file that changed meanwhile |
| OpenTelemetry exporter | `epi_recorder/integrations/opentelemetry.py` | span buffer, daemon thread | `export`, `force_flush`, `shutdown`, flush | three kinds of flushers, exceptions nobody hears, `sys.stdout` redirected |
| Guardrails session | `epi_guardrails/session.py`, `state.py`, `instrumentor.py` | session per call, a stack per thread, a list of iterations per context | open or join a session, begin, validate, end a step, finalize | nested, streamed and async calls share threads and copied contexts |
| Redaction, schemas, keys | `epi_core/redactor.py`, `schemas.py`, `trust.py` | key files | pure functions | data only |
| Telemetry | `epi_core/telemetry.py` | queue file | append, flush | the file is read, sent and written back |
| Verification portal | `verify_portal/` | accounts, keys, usage | web routes | usage limits |
| Command line, viewers, plugin | `epi_cli/`, `pytest_epi/` | none | glue | child processes |

How they interact. Clients post events to the gateway, whose main thread puts
them on the worker's queue; the worker thread batches them, writes a spool file
and calls the case store. The main thread calls the same `_persist_batch` itself
for approvals and fetched records. In the SDK, `EpiRecorderSession` owns a
`RecordingContext`, which owns an `EpiStorage`; wrappers, integrations and
captured prints reach `add_step` from any thread. `AsyncRecorder` drives its own
`EpiStorage` through a one-thread executor. The approval gate is awaited by the
agent's coroutine and resolved by a web hook or a dashboard. Approval requests
also go through the gateway as events: the worker's hook announces them by mail
or webhook, a click stores the answer in the case, and the fault analyzer later
reads the whole case and says which calls nobody had approved. The span exporter
opens an `EpiRecorderSession` for each trace. A sealed file is changed afterwards
by separate commands: reviewing, anchoring in the transparency log (the portal's
service, over HTTP), refreshing the viewer.

What makes each one correct, in a sentence: the store equals the union of the
batches it says it applied, each complete in the spool, and accepted events reach
it (ingest); the chain and the indexes of a recording are gapless and a step whose
call returned can be read (recording); accepted steps are stored in order and
sealed only when all are there (asynchronous recorder); an agent's answer, its
ticket and the reviewer's decision agree (gate); a link that is shown works
(shares); a call nobody had approved is reported, whatever the agent says
(approvals); reviews form a chain, and a file that shows a receipt is in the log
(sealed artifact); a span taken is written, kept or known to be lost (exporter);
a validator's result is in the step it belongs to and every call is in an
artifact (guardrails).

## 2. Modules

| Module | Models | Kind |
|---|---|---|
| `EvidenceStore` | what the ingest path promises: written batches, committed once and whole | abstract specification |
| `EvidenceWorker` | worker, spool, case store's batch part | implements `EvidenceStore` |
| `EvidenceWorkerProofs` | types, the store against its spool, the refinement, open sessions, starts, projection | proofs |
| `RecordingContext` | `add_step`, storage and the SDK session | component |
| `RecordingContextProofs` | indexes, hash chain, redactions, what can be read | proofs |
| `StepLog` | what the asynchronous recorder promises | abstract specification |
| `AsyncRecorder` | queue, writer task, executor, `stop` | implements `StepLog` |
| `AsyncRecorderProofs` | types, the export, the refinement | proofs |
| `ApprovalGate` | tickets, agents, waiters, reviewers, timers | component |
| `CaseWorkflow` | a case's tables and row, reviews, comments, changes, rebuilds | component |
| `ShareService` | share links: upload, expiry, pruning, quota, crashes | component |
| `ShareServiceProofs` | a link works until it is marked as deleted; the quota | proofs |
| `ApprovalAnalysis` | passes 6 and 7 of the fault analyzer | operators |
| `ApprovalFlow` | agents, worker, hook, announcements, clicks | composes them with `ApprovalAnalysis` |
| `GatewayProofs` | a case's row, clicks and the analysis, what an agent is told by the gate | proofs |
| `MerkleTree` | the log's hash tree and audit paths | operators |
| `TransparencyLog` | the service's table, receipts and heads | component |
| `SealedArtifact` | a sealed file and the programs that change it | composes them with `TransparencyLog` |
| `SealedArtifactProofs` | the hash tree, the log, the reviews, the transparency check | proofs |
| `SpanExporter` | buffer, daemon, flushes and their sessions | component |
| `SpanExporterProofs` | what happens to a span that was exported, and to the console | proofs |
| `GuardSessions` | calls of guards, contexts, sessions, steps | component |
| `GuardSessionsProofs` | types, where results go, what a session has of the calls in it | proofs |
| `MC...` | the instances TLC checks | model-checking modules |

Definitions whose comment begins with *Mutant* are faulty variants of the
definition below them. No specification uses them: putting one in place of its
original makes a property fail, which shows that the property depends on that
line of the code.

### EvidenceWorker

`phase` is the life of the process (`start` replays, then recovers, then serves);
`loop` and `buffer` are the locals of `_run_loop`; `pc[t]`, `bid[t]`, `todo[t]`,
`cur[t]`, `snap[t]` are thread *t*'s place in `_persist_batch` / `apply_batch` /
`rebuild_case`. `items` and `disk` are the spool, `applied`, `table`, `open`,
`cases` and `unsafe` the SQLite tables. One action is one step between which the
other thread or a crash can come: open the spool file (`BeginBatch`), finish it
(`FinishFile`), the transaction (`ApplyBatch`), read a case's events
(`RebuildRead`), write the case (`RebuildWrite`, `RebuildFails`), return
(`FinishBatch`). `PersistFails` is an exception from the file or the
transaction and does what the caller does: the loop keeps its buffer, the final
flush and the start-up end the process, a request fails. Batch ids are numbers
because only the order of their names matters to replay. A timeout of
`queue.get` or of the batch is an action that is enabled when its guard allows.
An event is `[run, kind, no]`; payloads play no part.

### RecordingContext

`phase` is main's place in `__enter__`, the body or `__exit__`; `pc`, `work` and
`lock` are each thread's place in `add_step`; `index` and `anchor` are the
context's counter and chain anchor; `rows`, `db`, `exported`, `workspace`,
`artifact`, `temporary` are the database, `steps.jsonl`, `temp_dir`, the file at
`output_path` and the signed `.epi.tmp`. A step is a record with its own hash (a
number no other step has), its index and its `prev`. INSERT and commit are two
steps because `finalize` runs on the same connection without the lock, so it sees
a row that is not committed. The anchor moves before the write for a step and
after it for a redaction step, as in the code. `WriteRaises` is an exception in
INSERT or commit, and `AfterRaise` what `__enter__`, `_capture_environment`,
`emit_pending` and `__exit__` each make of it. `Verifies` is `_verify_step_chain`.

### AsyncRecorder

The event loop runs the code between two awaits without interruption, so that
code is one action; the executor's thread interleaves with it. `jobs` is the
executor's FIFO queue and `running` says whether its thread has started on the
first job: a job not started is cancelled together with the task that awaits it.
`unfinished` is the counter behind `Queue.join`. The asyncio and executor
primitives (`JobStarts`, `JobEnds`) are external, modelled from how the recorder
uses them. The 0.5 s timeout of `queue.get` only goes round the loop and is left
out.

### ApprovalGate

A ticket is approved or expires when its time is up (`AutoAfterTimeout`), or is
approved by `EPI_AUTO_APPROVE` (`AutoApprove`). `status` is the ticket's,
`signalled` the set of tickets whose event was set and
popped, `overdue` those whose time is up; `request[k]` and `wait[w]` are the
coroutines' places. A timer that fires (`RequestTimesOut`) only cancels the wait;
the handler (`Expire`) runs in a later turn of the loop. `decided` is a ghost: the
decision `resolve` accepted.

### CaseWorkflow

One case in detail, where `EvidenceWorker` has only the steps it shows. `events`,
`reviews`, `comments` and `logged` are tables that only grow (`logged` is what
the last activities say of status and assignee); `row` is the case's row, a copy
of them together with the workflow state. `pc[t]`, `draft[t]`, `note[t]` and
`goal` are the locals of an operation. Each action is one SQLite connection:
`rebuild_case` reads the events, the latest review and the row (`Build`), looks
at the row again (`Preserve`), lists the comments and writes; `save_review`
inserts, logs, rebuilds and then updates the status; `update_case_workflow` and
`add_comment` read the row, commit and write it back. The server's route
handlers do not await inside these calls, so thread "server" is in at most one
of them; the worker is beside it. Due date and priority are treated like the
assignee; a projection that raises is in `EvidenceWorker`; imported cases, which
bring a row without events, are left out. `stale` and `raced` are ghosts: that
a row was written beside another operation, and that a decision was written
while the worker's draft could no longer take it up (`PastLooking`), or was
logged when a crash came.

### ShareService

`rows` is the table, `objects[s]` the file of a link, which is written in two
steps and may stay half written. One request runs at a time, because the routes
do not await inside the service; `at`, `upload` and `todo` are its locals, and a
crash can come between any two of its steps. Reading a link that is too late
(`ExpireLink`) marks every row that is due and removes one object; a start
(`BeginPrune`, `PruneObject`) removes the objects of all the rows it marks. The
clock only goes forward. Uploads that are refused still cost a hit of the rate
limiter.

### ApprovalAnalysis, ApprovalFlow

`ApprovalAnalysis` has the two passes that ask for approvals as operators on a
set of steps with capture times: `Gap` is pass 6 (the latest request, and the
latest answer to it), `Satisfied` and `PolicyFlags` are pass 7 for a rule with an
approval policy. Names occur in one another (`Within`), because the analyzer
looks for one text in another. `ApprovalFlow` produces the steps: an agent posts
requests, calls and self-reported approvals and waits for nothing; posts arrive in
any order or never; the worker is reduced to file, commit and hook. `Click` stores
a response directly. A crash loses the announcements on their way, and `Boot`
replays without them.

### MerkleTree, TransparencyLog, SealedArtifact

`MerkleTree` has the tree as the code builds it (an odd level pairs its last hash
with itself) without recursion over trees: `Levels` (the levels), `Places` (where a
leaf and what is above it stand in each) and `Hashes` (what a verifier computes on
its way up a path) are recursive functions. A hash is the term that was hashed, so
equal hashes mean equal data.
`TransparencyLog` is the service: a handler is one step because the portal is one
process and awaits nothing after reading the body. In `SealedArtifact` a program
reads the file (`Load`), perhaps registers it (`Send`, `Serve`, `Accept`,
`Retry`, `Fail`; requests and answers may be late or lost), reads or copies the
payload (`Copy`) and replaces the file (`AddReview`, `Embed`, `Refresh`); it may
die anywhere. The file is a record: body of the manifest, the service it names,
the receipt, the reviews as `[id, prev]`. The date of a review decides only
between several ends of the chain, and is arbitrary, since a review may be written
long before it is added.

### SpanExporter

`todo[t]` is the list of traces a flusher made under the lock, `hand[t]` the spans
it has taken out of the buffer, `pc[t]` its place in `_flush_trace` and the
session. `artifact`, `temporary` and `deadletter` are the files; `saved` and
`stdout` are what sessions save of `sys.stdout` and put in its place. `lost[t]`
and `promised` are ghosts: spans whose flush raised, and spans for which
`force_flush` or `shutdown` returned. `again` are the files taken for a second
time, `tangled` says that two sessions overlapped or one was left without its
`__exit__`. The order of steps in a file is that of their time stamps, so a file is
a set.

### GuardSessions

A task is one call of a guard. The state a wrapper finds is `ctx` of the context it
runs in, else the top of its thread's `fallback` stack; the iteration a validator
finds is the last entry of the `list` of its context. A direct call shares its
caller's context; an asyncio task or `to_thread` has a copy, whose `list` is the
same Python list, if there was one when the copy was made. `Execute` is the
wrapper up to the call (open a session, or join the one it found), `BeginStep`,
`Validate`, `EndStep` are the hooks of a plain runner, `BeginStream` and
`EndStream` those of a streaming or async one, `Exit` finalizes and packs, `Leave`
is the return of a call that had joined. `Runs` says whose turn it is: a plain call
holds its thread, async calls of a thread take turns. The pop of the thread's stack
takes whatever is on top, as in the code (`Unstacked`).

## 3. What the runs check

A *pass* run holds; a *violation* run is a place where the code does something
else than its own text says (section 4).

| Run | Instance | Shows |
|---|---|---|
| `ingest_crash` | one run of two events, each sent up to twice, an approval by the server thread, batches of 2, three batch ids, crash anywhere, 1 exception, 2 starts | the store equals its applied batches, accepted events are kept, an unfinished run stays open, events stored before re-open nothing, replay leaves no batch behind, a start serves with all orphans closed, the worker's own rebuilds leave no stale case unmarked; implements `EvidenceStore` |
| `ingest_live` | two runs with an event each, one of which never ends, five ids, crash anywhere, 3 starts, fair threads and restarts | a written batch is committed, a queued event stored, a start ends; a crash during a recovery loses no session |
| `recording_session` | 2 loggers that outlive the body, redaction, signing, crash anywhere, 1 exception anywhere, up to 4 optional steps | indexes 0, 1, 2, ...; until something raises the chain verifies, redaction steps are followed by theirs, what came before `session.end` can be read; leaving a session ends |
| `async_steps` | 6 steps, late callers, 1 failing write, a cancel | `stop` exports all steps or does not return, every step is stored and `stop` returns unless disturbed; implements `StepLog` |
| `gate_decide` | a ticket that expires, one approved by timeout, one by the environment, 1 waiter | agent and ticket agree for good, agents are answered |
| `case_decide` | an event of each kind, 1 review, 2 changes, 1 comment, crashes | after any rebuild that runs alone the row shows its tables; a decision is lost only to a rebuild that had already looked for one |
| `share_links` | 3 links of a client, sizes and lifetimes 1 and 2, a quota of 3, times 0 to 4, 2 starts, 1 failing operation, crash anywhere | a link that is not marked serves its whole object; no 30-day window holds more than the quota |
| `approval_flow` | 2 actions, one name within the other, 4 events in any order, 2 clicks, a crash | a click names a stored request; a call nobody had approved is flagged, a call the last click forbade does not look approved; a stored request is announced |
| `artifact_programs` | any 3 of the five commands on a file with or without a governance section, 2 statements of others, 2 attempts, deaths, lost and late messages | receipts prove what the log holds and stay true of it; a file that shows a receipt is in the log; reviews have their ancestors, a lone review is kept, a file rewritten by one at a time has one chain |
| `otel_spans` | 2 spans of a trace and one of another, daemon, `force_flush` and `shutdown`, strict and best effort, 1 exception | an exported span is somewhere, or its flush raised, or its file was written twice; prints go to the console again |
| `otel_silent` | 1 span, strict, 1 exception | *violation*: a flush the caller believes in has lost a span |
| `guard_calls` | 3 calls of any kind, 2 threads, a step each, 1 pack that raises | a validator's result is in its own step; every plain call that is over is in an artifact |

Properties that begin with `faults = 0 =>` or allow `Disturbed` are promises the
code makes until the first exception; the run that checks them has exceptions in
it, so the same run also shows what is kept afterwards.

**Bounds.** `MaxSends`, `MaxBoots`, `MaxFaults`, `MaxLogs`, `MaxSteps` bound
counters in guards, and `BatchId` the batches. In `ingest_crash` two events, two
sends, two starts and one exception give every pair of an event and a crash, a
retry and a replay; a third batch holds the approval or a retry. `ingest_live`
has three starts, so a crash may come during the recovery from a crash, and two
runs, so that a recovery of one meets the replay of the other; five ids are
more than its events and recoveries can use, so no batch waits for an id. The two
threads of the ingest path are all it has. Two loggers are enough to hold the
lock, to wait for it and to be overtaken by main; four optional steps beside
`session.start`, the snapshot, `session.error`, `session.end` and the tail let a
redaction, a failed write and its successors fit before and behind the export.
The last start neither stops nor crashes (`boot < MaxBoots`): a bound, not a
claim. In `case_decide` one event of each kind gives every order in which a case can
become in need of review, blocked or neither; two changes are needed to assign
and to take back, with a review or a rebuild between them. `share_links` has two
lifetimes so that one link expires while another lives, a quota that two of three
uploads fill, and a horizon behind the end of the first window. Four events are a
request, a self-report, a call and one more before, between or behind them, for
either action; the clicks come on top. Three programs are two that
overlap and one before or behind them; the two statements of others make the log
grow to sizes with an odd level. In `otel_spans` a second span of one trace can
come behind its first flush. Three calls are a caller, a nested call and one beside
both; two threads are one that a call shares and one that it does not.

**Fairness.** Weak fairness of a thread or task that can go on: threads of one
process are scheduled, an event loop runs what is ready, an executor runs its
jobs. `EvidenceWorker` also restarts a process that is down, as a service manager
does; `StartupEnds` would otherwise be empty. Nothing obliges a client to post, a
body to end, an operator to stop, a reviewer to decide, time to pass or anything
to fail. `add_step`'s lock is not fair, but loggers take it a bounded number of
times in the model; against loggers that never pause nothing guarantees
`__exit__` its turn. `ingest_live`'s `StoreFairSpec` assumes that no exception
sets a file aside (`MaxFaults = 0`). `StepLog` has no fairness: what must happen
in the end is stated of `AsyncRecorder` itself. `ApprovalFlow` has weak fairness
of the worker's commit and hook, of each announcing thread (it succeeds or gives up
after its attempts) and of the restart; not of the agent, of posts on their way or
of the reviewer. The other modules have no liveness properties and no fairness.

**Deadlock** is not checked: a session, a recorder or a set of tickets is
finished in the end, the ingest path stops at its last event and start, the
programs on a file and the calls of guards are over. The
liveness properties say that nothing stops half-way.

## 4. Where the code and its text disagree

One is a run that TLC finds violated; `PROJECT.json` quotes the text.

- `otel_silent` (`opentelemetry.py:358`): in strict mode, the default, an exception
  in the daemon's flush ends the daemon. The spans it had taken are gone, `export`
  and `force_flush` go on reporting success.

The models have the following behaviours too. No run is spent on them; each is why
a property is worded as it is.

Ingest path:

- Cases are rebuilt after the commit; replay skips an applied batch, so after a
  crash in between the case never shows it (`case_store.py:1186`).
- Two threads rebuild one case and the older reading is written last
  (`case_store.py:1193`): `WorkerProjectsItsEvents` is about runs only the worker
  stores, in the process that stored them.
- An event behind a run's end re-opens its session (`case_store.py:1401`), which
  the next start records as recovered: `UnfinishedRunStaysOpen` is one-sided.
- A clean stop drops what is still queued (`worker.py:264`): `AcceptedIsKept`
  counts it as lost with the process.

Recording:

- The anchor moves before the write; one failed write breaks the chain of every
  later export (`patcher.py:135`): `ChainIntact` holds until something raises.
- `finalize` takes no lock and may lose a step that was acknowledged
  (`storage.py:183`), as may be a step logged behind `session.end`
  (`api.py:911`): `KeptUpToTheEnd` ends there.
- A last line without a newline is logged after the storage is closed, and lost
  (`api.py:973`).
- Signing unlinks the artifact before it renames the signed copy (`api.py:1688`):
  a crash in between leaves only the temporary file, which `Readable` counts.
- In the asynchronous recorder a write that raises ends the writer without
  `task_done` and `stop` never returns (`async_api.py:98`); a job whose task is
  cancelled before the thread takes it is dropped, and a step behind the sentinel
  stays in the queue (`async_api.py:78`, `119`): `Disturbed`.

Decisions:

- The handler of a timeout overwrites a decision made while the timeout was on its
  way (`approval.py:162`); `wait_for` answers no for a ticket that is still pending
  (`approval.py:240`).
- A rebuild looks at the row twice but writes it later, and a change in between is
  overwritten with the old value although its activity stays
  (`case_store.py:1424`): `DecisionKept` is about decisions that were not `raced`.
- A case that was projected from harmless steps is "resolved" and stays so when an
  error is stored later (`case_store.py:541`). A review saved beside a rebuild may be
  missing from the row until the next rebuild (`case_store.py:1193`):
  `RowShowsTables` is about rows not `stale`.
- A replayed batch announces nothing (`worker.py:292`), so a crash behind the commit
  leaves a request nobody hears of: `RequestIsAnnounced` is about a gateway that
  has not crashed.
- An answer is stored without asking whether there was one
  (`main.py:1406`); a later denial does not take back an approval in pass 7,
  which is why `DeniedIsReported` is about pass 6. Two clicks without a name both
  count as "approval-link", one approver; a self-report does count towards
  `minimum_approvers` beside one click. A call whose name holds none of the decisive
  words is no trigger (`fault_analyzer.py:475`).
- Without an approval policy pass 7 takes any earlier step whose text holds the
  action and "approved" or "approval" for an approval, the request and the call
  itself included (`fault_analyzer.py:524`); `docs/POLICY.md:222` asks for "an
  explicit approval response". `ApprovalAnalysis` has only rules with a policy.

Shares:

- A late link marks all rows that are due and removes one object; pruning lists
  only rows that are not marked, so the other objects stay (`share.py:492`).
- A crash between object and row, or a failing insert, leaves an object that no row
  counts or removes (`share.py:460`): `LinkServesCase` goes one way only.

Sealed artifact:

- A file rewritten by two programs at once loses what one of them wrote, or its
  reviews fork (`review.py:430`); a manifest read before a refresh and written after
  it undoes the refresh (`auto_scitt.py:165`). `LoneReviewIsKept` and
  `SerialChainIsValid` say when that cannot happen.
- A registration whose answer was lost is refused when it is sent again
  (`scitt_routes.py:306`), so the file never gets its receipt.
- Anchoring a file without a governance section raises after it was registered
  (`auto_scitt.py:167`), and the failure is swallowed.
- `epi scitt register --service` embeds the receipt of the local service in a
  manifest that names the remote one (`epi_cli/scitt.py:472`), which its own
  verification then rejects.
- Two programs that embed at once use one temporary file (`auto_scitt.py:202`,
  `epi_cli/scitt.py:487`): not modelled, `Copy` excludes it.

Span exporter:

- A span that comes behind the flush of its trace gets a file of the same name, which
  replaces the first (`opentelemetry.py:382`); two traces whose ids begin with the
  same eight digits share a file (381); two threads that flush one file may leave
  none (`api.py:1688`): `SpansKept` leaves out files written twice.
- An exception aborts the rest of `_flush_all` (365). The final flush does not wait
  for a daemon that is still at work after ten seconds (174). What is exported behind
  `shutdown` is never flushed.
- A step that raises leaves the session without its `__exit__`, and `sys.stdout`
  captured (398); sessions that overlap put it back in the wrong order
  (`api.py:1088`): `ConsoleComesBack` leaves out both.

Guards:

- Calls that share a list of iterations and interleave (two tasks made in a step,
  or a stream consumed later) take each other's ids off, and a validator's result
  goes to another call's step: `Isolated`. The docstring of `emit_validator_result`
  says "Validators can only attach to steps they explicitly belong to".
- A plain guard that runs on a thread where an async guard is suspended joins that
  guard's session through the thread's stack (`state.py:212`), or a finalized one
  when async guards ended in another order than they began; then it leaves no
  record: `SyncOnly`. A copied context that outlives its session does the same on
  another thread.
- Steps emitted once `_finalized` is set are dropped: the orphan steps of `_finalize`
  itself, the end of a call that raised, and the step of a stream that is consumed
  behind the return of its call. `NoCallUnrecorded` is not about streams.

## 5. What is proved

TLAPS checks these for every value of the constants that the named assumptions
allow: any runs, events, batch ids, threads, steps, tickets, actions, cases, links,
clients, programs, commands, statements, spans, traces, guard calls and contexts, and
any bounds.

| Theorem | States |
|---|---|
| `TypeCorrect`, `RecordingTypeCorrect`, `RecorderTypeCorrect`, `CaseTypeCorrect`, `GateTypeCorrect`, `FlowTypeCorrect`, `ExporterTypeCorrect`, `GuardTypeCorrect` | the types of `EvidenceWorker`, `RecordingContext`, `AsyncRecorder`, `CaseWorkflow`, `ApprovalGate`, `ApprovalFlow`, `SpanExporter`, `GuardSessions` |
| `StoreMatchesSpool` | `Spec => []BatchesCommitWhole` |
| `NoAcceptedEventDropped` | `Spec => []AcceptedIsKept` |
| `ImplementsStore` | `Spec => StoreSpec`: `EvidenceWorker` implements `EvidenceStore` |
| `UnfinishedRunIsRecoverable` | `Spec => []UnfinishedRunStaysOpen` |
| `StoredEventsOpenNothing` | `Spec => OpensOnlyOnNewEvent` |
| `ReplayIsComplete` | `Spec => []ReplayLeavesNoBatch` |
| `OrphansAreClosed` | `Spec => StartupClosesOrphans` |
| `WorkerKeepsCasesFresh` | `Spec => []WorkerProjectsItsEvents` |
| `IndexesAreContiguous` | `Spec => []IndexContiguous` |
| `ChainVerifies` | `Spec => []ChainIntact` |
| `RedactionsAreAdjacent` | `Spec => []RedactionAdjacent` |
| `StepsAreKept` | `Spec => []KeptUpToTheEnd` |
| `ExportsAreWhole` | `Spec => []ExportIsWhole` |
| `ImplementsLog` | `Spec => LogSpec`: `AsyncRecorder` implements `StepLog` |
| `RowIsFresh` | `CaseSpec => []RowShowsTables` |
| `DecisionIsKept` | `CaseSpec => []DecisionKept` |
| `AgentsAgreeWithTickets` | `GateSpec => []AgentAgreesWithTicket` |
| `LinksFindRequests` | `Spec => []LinkFindsRequest` |
| `UnapprovedAreFlagged` | `Spec => []UnapprovedIsFlagged` |
| `DeniedAreReported` | `Spec => []DeniedIsReported` |
| `LinksWork` | `Spec => []LinkServesCase` |
| `QuotaIsKept` | `Spec => []QuotaHolds` |
| `PathLeads` | the audit path of a leaf leads to the root, for every tree and leaf |
| `OnlyLeavesLead` | a path that leads to the root of a tree starts at a leaf of it |
| `ReceiptsStay` | `Spec => []ReceiptsHold` |
| `ReceiptsAlwaysProve` | `Spec => []ReceiptsProve` |
| `OnlyTheLoggedIsProved` | what leads to a signed head is an entry of the log, at the place it claims |
| `TransparentStays` | `Spec => []TransparentIsLogged` |
| `AncestorsStay` | `Spec => []ReviewsHaveAncestors` |
| `LoneReviewStays` | `Spec => []LoneReviewIsKept` |
| `SerialChainStays` | `Spec => []SerialChainIsValid` |
| `SpansAreKept` | `Spec => []SpansKept` |
| `ConsoleIsPutBack` | `Spec => []ConsoleComesBack` |
| `ResultsAreHome` | `Spec => []ResultsStayHome` |
| `CallsAreRecorded` | `Spec => []NoCallUnrecorded` |

**Assumptions.** `EventAssumption` (captured events are starts, steps and ends,
direct ones are responses), `BoundAssumption` (ids are positive numbers, a batch
has at least one event, bounds are numbers), `RecordingAssumption` (no logger
is called "main"), `RecorderAssumption` (switches are Boolean, bounds are numbers),
`WorkflowAssumption` (an event type is routine, an alarm or a recovery; changes
have the two fields), `AnalysisAssumption` and `FlowAssumption` (an action's name
occurs in itself; names that answer are labels), `ShareAssumption` (sizes,
lifetimes, spans and limits are numbers, a lifetime is not zero),
`ArtifactAssumption` (no program is called `None`, what is registered is a
statement, there is at least one attempt), `ExporterAssumption` (the daemon is
none of the callers) and `GuardAssumption` (calls, threads and `None` have different
names). `ApprovalGate`'s theorem needs none. Nothing is assumed about
finiteness: what is counted or summed (a quota, the levels of a tree) is proved to
be finite.

**Ingest path.** `TypeOK` is not inductive, because the event that recovers a run
carries the number of the boot: `TInv` adds that a process that is not down has
booted and that a thread inside `_persist_batch` has a batch id. `SInv` then
carries the two store theorems and the refinement together. It needs three facts
about the batch in hand: a file that exists holds at least one event
(`FilesHoldEvents`), the file of a thread that is past `write_text` is complete
(`BatchInHand`), and while the worker thread is in `_persist_batch` its file holds
exactly the buffer (`BufferInHand`). Without the last, the `clear` of the buffer
after a flush could drop an event that no file holds. The refinement maps the
log to the complete files, so `FinishFile` is `Write`, `CommitBatch` is `Commit`
(from the worker, a request or the replay), and every other step stutters.

**Sessions and starts.** `OInv` is `TInv` and the property itself. The step that
matters is a transaction: it opens the session of each new event and closes it at a
terminal one, in the order of the batch, so a run without a terminal event among
those stored must be open after its *last* new event. `Greatest` picks that event
and `FirstPlace` shows that an event not stored before has a first place in its
batch, at which `INSERT OR IGNORE` reports a new row. `CloseSession` needs that
the recovered event is stored already. `StartInv` is about a start: the worker
thread does not run before the process serves (`WorkerWaits`), so the replay looks
at every complete file that is not dealt with (`ReplayInHand`), and the recovery,
which writes files of its own, writes only batches that end a run and closes one
run at a time (`RecoverInHand`): nothing that was open before is left open and
nothing new is opened.

**Projection.** `FreshInv` is about the first start on an empty store. What is
stale of a run that only the worker stores is on the worker's list or in its hand
(`WorkerInHand`), and the reading in its hand has all the run's events, because
nobody else commits any of them; the server thread rebuilds only the cases of what
it stores itself (`ServerInHand`).

**Recording.** `TInv` says that only the holder of the lock is inside
`add_step`. `RowsInv`: while the database is open the indexes below `step_index`
are all there once, and a row at `step_index` is the one being committed and
has the hash built last; a failed commit removes just that row, and after the
close rows are frozen. `ChainInv`: while nothing raised, neighbours are linked
and the anchor is the hash of the last step, which is the pending row, except
when that is a redaction step's, whose hash becomes the anchor only after its
commit. `ChainVerifies` follows as rows without a gap that are linked to
their neighbour verify (`LinkedVerifies`). `AInv` adds that a redaction step that
is the last row was committed by a thread that is still in `add_step`. `KInv` is
what `__exit__` owes to a reader while nothing raised: `session.end` is committed
before main exports (`EndIsLogged`), the export has it and everything below its
index (`EndExported`), the database is closed only then (`DbFollowsPhase`), and the
workspace goes only when the artifact is at its place. A step that another thread
inserts behind the export has a higher index than `session.end`, so
`KeptUpToTheEnd` is not about it.

**Asynchronous recorder.** `ExportIsWhole` speaks of the end only. The types need
the count behind `Queue.join`: it is never less than what is queued or in the
writer's hand (`Debt` is a number). `Orderly` says which steps the queue holds
(`Behind`: in order, with at most one sentinel), that the executor has the step the
writer awaits and no other, and that every step taken is stored unless the count
has one item too many (`Ahead`). A write that raises or a job that is dropped leaves
that debt for good, so `join` does not return and nothing is exported. The
refinement maps accepted steps to the counter and the log to what is stored and
exported.

**Cases.** Both properties speak of quiet states. For `RowShowsTables`, `FreshInv`
says that what an operation that is alone has read so far is what the tables hold.
For `DecisionKept`, `HandInv` says what a draft shows and what there is before the
first row, and `ToldInv` says, until the race the property names, which of the
row, the drafts and the goal of a review already tell what the last activity says,
and which wait for the server to write: a draft that comes to its second look with
a neutral value takes up the row's, one with a value of its own has it from the
activity.

**Approvals.** `GInv` gives the gate's agents their tickets: one that waits has a
pending ticket or one whose event is set, and the event is set only with a
decision. (`ApprovalGate`, `ApprovalFlow` and `CaseWorkflow` share no state; they are
proved about in one module, and `GateSpec` and `CaseSpec` have names of their own for
that.) `FlowInv` says that no two
steps have the same time, that no post claims to come from the gateway, and that
behind every click stands an earlier stored request for the same action. From this
alone the two properties about the analysis follow: before the first click that
approved an action no response satisfies its policy, whatever agents reported
(`UnapprovedAreFlagged`); and the click that said no has a request before the call,
so a call that looks approved has a last answer from the gateway, which is that
very click, since times differ (`DeniedAreReported`; `LastIs` shows that stored steps
have a last one).

**Shares.** `LInv` says that the upload in hand has a new id and, when its row is
inserted, a whole object (`UploadInHand`), and that the objects about to be deleted
belong to rows that are marked already (`MarkedFirst`): both are the order in which
the code touches its two stores, and a crash only empties the hand. `QInv` says
that the room found for an upload is still there when its row is written
(`RoomInHand`), as time only moves rows out of the span. The sum over a set of rows
is the number of elements of a set of bytes, one pair for each (`SumIsBytes`), so
that the facts about cardinalities apply to it; it is shown for finite sets by the
least counterexample.

**Hash tree and log.** `PathLeads` and `OnlyLeavesLead` go up and down the levels of
the tree by `Induction`, which is proved from the well-foundedness of the numbers;
the first steps show that the three recursive functions are what their equations
say, that a level halves, and that the number of levels with more than one hash is
the first level that has one. `LogHolds` adds to `ReceiptsHold` that the table is a
sequence: the first entries of an appended sequence are those it had
(`PrefixOfAppend`), so every root computed from them stays. `ReceiptsProve` then is
`PathLeads` for the leaves of those entries, and `OnlyTheLoggedIsProved` is its
converse, `OnlyLeavesLead`, with the rows numbered from zero: a forged path would
need another preimage of a hash, which the terms exclude. `TransparentIsLogged`
needs to know where receipts come from (`AllVouched`): the file, the payloads and
answers that programs hold and the answers under way have none, a local one, or one
of the log.

**Reviews.** `AllClosed`: the file, and what each program has seen and copied, name
only predecessors that they have themselves. A new review follows one of those seen,
and all of those seen are written with it, so overwriting another program's file
loses whole ends of the chain and never a link in it. `LoneInAll`: a review added
while nobody else was at work is also in every payload that is about to become the
file. `Serial`: while no two programs overlapped, what a program at work has read is
what the file still holds, and `ChainGrows` shows that a chain with one more review
behind its only end is a chain.

**Span exporter.** A flush overwrites whatever is at its path, so `SpansKept` says
nothing by itself of the next step. `KInv` adds that hands are apart (`HandsApart`),
that the spans of a file nobody took are in the buffer (`Untaken`), that while a
file is flushed for the first time its spans are in the buffer or in that hand
(`FirstFlush`) and what of them is on the disk at each place (`FlushWrites`), and
that what a flush of everything owes is on its list (`DueListed`). `OneSession`:
until two overlap there is one session at most, and it has saved the console.

**Guardrails.** `GuardInv` follows what a wrapper or a hook can find. A thread's plain
calls in progress are a stack (`Stacked`); they run in one context and belong to one
session, which this context or the thread's `fallback` names (`Nested`), so the hook of
a plain call finds the call's own session (`Hooked`), and every call but the innermost
is in a step (`Waiting`), unless a stream's consumer made the call inside it. For
`ResultsStayHome`: lists hold ids of the calls that share them (`Owned`); calls that
interleave never get lists of their own back once two share one (`StaysIsolated`), and
until then a list ends with the open steps of its thread's stack, in that order
(`OnTop`), whose last belongs to the innermost call, the only plain one that can run;
and an open record is that of the step its call is in (`Recorded`). For
`NoCallUnrecorded`: a context in which no plain call runs holds no session it should
not (`Resting`), and on a thread that serves plain calls only `fallback` is the
outermost call's session alone (`Alone`), so a joined session outlives the calls in
it; until it is finalized it has their starts and steps (`Written`), and a file is
written at the end only (`Packed`).

**Only model-checked.** Everything under fairness, which the prover's temporal
logic does not reach: `StoreFairSpec`, `QueuedIsStored`, `StartupEnds`,
`SessionEnds`, `StepsAreStored`, `StopEndsUndisturbed`, `RequestEnds`,
`RequestIsAnnounced`. The `TypeOK` of `ShareService` documents the types and is an
invariant of no run: `LInv` carries what its proofs need of it, and that a filtered
deque (`SelectSeq`) is again a sequence of its elements is an induction over data.

## 6. What is not modelled, and the plan

Not modelled, because there is nothing for a model checker in them: formats and
cryptography, redaction patterns, the wording of reports, HTTP parsing, rendering,
key files, the framework adapters that map one callback to one `add_step`, the
command line, and the policy passes that are functions of one recording's texts.
The runtime trust engine and interceptor are called by nothing but their tests.

Not modelled although they keep state:

- Telemetry (`telemetry.py:380`): an opt-in queue file is read, sent and written
  back, so events appended meanwhile are lost. Nothing else depends on it.
- The portal's accounts, billing and usage, and the gateway's login throttle: each is
  a counter in one process.
- The case store's imported cases, exports, logins and connectors.
- The local transparency service's ledger (`local_scitt.py:182`), whose index is read
  before the append, and `EPIContainer.add_review` for artifacts of the old version.
- In the guardrails session: input, output and LLM-call steps, the content and hash
  of steps, summary and completeness report; the default output path that all
  executions share, whose old file is unlinked before the new one is moved there
  (`session.py:1097`); the gap between the check of `_finalized` and the append;
  `AsyncGuard._execute`, which the plain wrapper wraps, so that its session ends
  before the coroutine it returns is awaited (`instrumentor.py:1055`).

Proofs that would add most, in this order: that a batch in the spool is committed at
most once in its life under any number of restarts, stated of `EvidenceStore` alone;
the hash chain after a failed write, as the exact place at which it breaks. Extensions:
imported cases in `CaseWorkflow`, whose rows have no events of their own, and the
telemetry queue.
