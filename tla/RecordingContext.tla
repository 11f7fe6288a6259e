-------------------------- MODULE RecordingContext --------------------------
(***************************************************************************)
(* A recording, from `with record(...)` to the sealed .epi file:           *)
(* RecordingContext.add_step (epi_recorder/patcher.py) over EpiStorage     *)
(* (epi_core/storage.py), driven by EpiRecorderSession (epi_recorder/      *)
(* api.py).                                                                *)
(*                                                                         *)
(* The "main" thread enters the session, logs, leaves it and seals the     *)
(* artifact.  Loggers are other threads that log steps or print while      *)
(* stdout is captured; with LateLoggers they may still do so when main is  *)
(* already leaving.  add_step holds _lock; finalize takes no lock, so main *)
(* can export and close between a logger's INSERT and its commit.          *)
(*                                                                         *)
(* A step's canonical hash is a number no other step has: steps differ at  *)
(* least in their timestamp or their index.                                *)
(***************************************************************************)
EXTENDS Naturals, Sequences, FiniteSets

CONSTANTS
    Logger,       \* threads beside the main one
    LateLoggers,  \* whether loggers may go on once main leaves the session
    Redact,       \* EpiRecorderSession.redact
    AutoSign,     \* EpiRecorderSession.auto_sign
    Crashes,      \* whether the process may crash
    MaxLogs,      \* bound: no optional step is logged once MaxLogs were built
    MaxFaults     \* bound: exceptions from SQLite, the disk or the container

ASSUME RecordingAssumption ==
    /\ "main" \notin Logger
    /\ {LateLoggers, Redact, AutoSign, Crashes} \subseteq BOOLEAN
    /\ MaxLogs \in Nat /\ MaxFaults \in Nat

Thread == {"main"} \cup Logger

ChainStart == 0    \* "CHAIN_START"; hashes are 1, 2, ...

Kind == {"session.start", "log", "tail", "environment",
         "session.error", "session.end", "security.redaction"}

Step == [hash : Nat \ {0}, index : Nat, prev : Nat, kind : Kind, by : Thread]

VARIABLES
    phase,      \* where main is in __enter__, the body or __exit__
    raised,     \* exc_type is not None: the body ended with an exception
    tail,       \* unterminated text in _StdStreamCapture: "none", "buffered", "emitted"
    lock,       \* the thread that holds _lock, as a set
    pc,         \* pc[t]: t's place in add_step: "idle", "insert" or "commit"
    work,       \* work[t]: the kinds t's add_step has still to write
    index,      \* RecordingContext.step_index
    anchor,     \* RecordingContext._last_step_hash
    built,      \* steps built so far; the last one's hash
    rows,       \* table steps, as its connection sees it
    db,         \* the connection: "open" or "closed" (and the file unlinked)
    exported,   \* the steps of steps.jsonl, sorted by their index
    workspace,  \* whether temp_dir is there
    artifact,   \* the file at output_path: "none", "unsigned" or "signed"
    temporary,  \* whether the signed .epi.tmp is there
    returned,   \* ghost: hashes of the steps whose add_step returned
    faults      \* exceptions so far

logVars  == <<lock, pc, work, index, anchor, built, rows, returned>>
sealVars == <<db, exported, workspace, artifact, temporary>>
vars == <<phase, raised, tail, logVars, sealVars, faults>>

-----------------------------------------------------------------------------

Idle(t) == pc[t] = "idle"

HashesOf(S) == {s.hash : s \in S}

Init ==
    /\ phase = "new" /\ raised = FALSE /\ tail = "none"
    /\ lock = {}
    /\ pc = [t \in Thread |-> "idle"]
    /\ work = [t \in Thread |-> <<>>]
    /\ index = 0 /\ anchor = ChainStart /\ built = 0
    /\ rows = {} /\ db = "open" /\ exported = {}
    /\ workspace = TRUE /\ artifact = "none" /\ temporary = FALSE
    /\ returned = {} /\ faults = 0

-----------------------------------------------------------------------------
(* add_step.                                                               *)

\* Mutant: add_step does not take the lock.
AddStep_Unlocked(t, kind) ==
    /\ Idle(t)
    /\ lock' = lock
    /\ pc' = [pc EXCEPT ![t] = "insert"]
    /\ \E w \in {<<kind>>} \cup
                (IF Redact THEN {<<"security.redaction", kind>>} ELSE {}) :
          work' = [work EXCEPT ![t] = w]
    /\ UNCHANGED <<index, anchor, built, rows, returned, faults>>

\* Take the lock and redact: content with secrets is preceded by a step
\* that says so.
AddStep(t, kind) ==
    /\ Idle(t) /\ lock = {}
    /\ lock' = {t}
    /\ pc' = [pc EXCEPT ![t] = "insert"]
    /\ \E w \in {<<kind>>} \cup
                (IF Redact THEN {<<"security.redaction", kind>>} ELSE {}) :
          work' = [work EXCEPT ![t] = w]
    /\ UNCHANGED <<index, anchor, built, rows, returned, faults>>

Redacting(t) == Head(work[t]) = "security.redaction"

NewStep(t) == [hash |-> built + 1, index |-> index, prev |-> anchor,
               kind |-> Head(work[t]), by |-> t]

\* The anchor moves before a step is written, but after a redaction step was.
AnchorBeforeWrite(t) == IF Redacting(t) THEN anchor ELSE built + 1

\* Build the step and INSERT it.
Insert(t) ==
    /\ pc[t] = "insert" /\ phase # "dead" /\ db = "open"
    /\ rows' = rows \cup {NewStep(t)}
    /\ built' = built + 1
    /\ anchor' = AnchorBeforeWrite(t)
    /\ pc' = [pc EXCEPT ![t] = "commit"]
    /\ UNCHANGED <<phase, raised, tail, lock, work, index, returned, sealVars,
                   faults>>

\* Mutant: nobody can take the lock again.
Leave_KeepsLock(t) ==
    /\ pc' = [pc EXCEPT ![t] = "idle"]
    /\ work' = [work EXCEPT ![t] = <<>>]
    /\ UNCHANGED lock

\* Leave add_step, by return or by exception: the lock is released.
Leave(t) ==
    /\ lock' = lock \ {t}
    /\ pc' = [pc EXCEPT ![t] = "idle"]
    /\ work' = [work EXCEPT ![t] = <<>>]

\* Mutant: the step after a redaction step is linked to the one before it.
AnchorAfterCommit_Kept(t) == anchor

AnchorAfterCommit(t) == IF Redacting(t) THEN built ELSE anchor

\* The commit succeeds; only now step_index advances.
Commit(t) ==
    /\ pc[t] = "commit" /\ phase # "dead" /\ db = "open"
    /\ index' = index + 1
    /\ anchor' = AnchorAfterCommit(t)
    /\ IF Redacting(t)
       THEN /\ work' = [work EXCEPT ![t] = Tail(@)]
            /\ pc' = [pc EXCEPT ![t] = "insert"]
            /\ UNCHANGED <<lock, returned>>
       ELSE Leave(t) /\ returned' = returned \cup {built}
    /\ UNCHANGED <<phase, raised, tail, built, rows, sealVars, faults>>

\* What main does when its own add_step raises: __enter__ gives up without
\* cleaning up, the body and emit_pending go on, _capture_environment logs
\* the failure instead, the rest of __exit__ goes to its finally clause.
AfterRaise(t) ==
    IF t # "main" THEN phase
    ELSE CASE phase = "starting" -> "dead"
           [] phase \in {"body", "restore"} -> phase
           [] phase = "environment" -> "no environment"
           [] OTHER -> "restore"

\* The INSERT or the commit raises, always so once the connection is closed:
\* the row is not stored and step_index stays; the anchor is not put back.
\* (SQLite rolls back a commit that fails, unless another connection holds the
\* database, and no other ever opens this one.)
WriteRaises(t) ==
    /\ pc[t] \in {"insert", "commit"} /\ phase # "dead"
    /\ \/ db = "closed" /\ UNCHANGED <<rows, faults>>
       \/ /\ db = "open" /\ faults < MaxFaults
          /\ faults' = faults + 1
          /\ rows' = IF pc[t] = "commit" THEN {s \in rows : s.hash # built} ELSE rows
    /\ IF pc[t] = "insert"
       THEN built' = built + 1 /\ anchor' = AnchorBeforeWrite(t)
       ELSE UNCHANGED <<built, anchor>>
    /\ Leave(t)
    /\ phase' = AfterRaise(t)
    /\ UNCHANGED <<raised, tail, index, returned, sealVars>>

-----------------------------------------------------------------------------
(* The body of the session.                                                *)

\* __enter__ logs session.start, then captures stdout.
Enter ==
    /\ phase = "new" /\ phase' = "starting"
    /\ AddStep("main", "session.start")
    /\ UNCHANGED <<raised, tail, sealVars>>

EnterDone ==
    /\ phase = "starting" /\ Idle("main")
    /\ phase' = "body"
    /\ UNCHANGED <<raised, tail, logVars, sealVars, faults>>

\* log_step by any thread, or a line it prints while stdout is captured, which
\* is logged the same way; what a caller does about an exception is its own.
Log(t) ==
    /\ built < MaxLogs
    /\ IF t = "main" \/ ~LateLoggers THEN phase = "body"
       ELSE phase \notin {"new", "starting", "dead"}
    /\ AddStep(t, "log")
    /\ UNCHANGED <<phase, raised, tail, sealVars>>

\* Main prints text that does not end with a newline.
PrintTail ==
    /\ phase = "body" /\ Idle("main") /\ tail = "none"
    /\ tail' = "buffered"
    /\ UNCHANGED <<phase, raised, logVars, sealVars, faults>>

-----------------------------------------------------------------------------
(* __exit__ (and __aexit__, whose awaits let other tasks log meanwhile).   *)

\* Main moves on to phase p without touching the recording.
Go(p) == phase' = p /\ UNCHANGED <<raised, tail, logVars>>

\* What __exit__ does after p raises, and main goes on to the finally clause.
Raise(p) ==
    /\ phase = p /\ Idle("main") /\ faults < MaxFaults
    /\ faults' = faults + 1
    /\ Go("restore")
    /\ UNCHANGED sealVars

\* The body ends, with an exception or without; loggers that are not late
\* were joined before.  _capture_environment logs the snapshot.
Exit ==
    /\ phase = "body" /\ Idle("main") /\ (LateLoggers \/ lock = {})
    /\ phase' = "environment"
    /\ raised' \in BOOLEAN
    /\ AddStep("main", "environment")
    /\ UNCHANGED <<tail, sealVars>>

\* Taking the snapshot raises.
CaptureFails ==
    /\ phase = "body" /\ Idle("main") /\ (LateLoggers \/ lock = {})
    /\ faults < MaxFaults
    /\ faults' = faults + 1
    /\ phase' = "no environment"
    /\ raised' \in BOOLEAN
    /\ UNCHANGED <<tail, logVars, sealVars>>

\* Taking the snapshot or logging it raised.
LogNoEnvironment ==
    /\ phase = "no environment" /\ Idle("main")
    /\ phase' = "environment logged"
    /\ AddStep("main", "environment")
    /\ UNCHANGED <<raised, tail, sealVars>>

EnvironmentDone == phase \in {"environment", "environment logged"} /\ Idle("main")

LogError ==
    /\ EnvironmentDone /\ raised
    /\ phase' = "error"
    /\ AddStep("main", "session.error")
    /\ UNCHANGED <<raised, tail, sealVars>>

LogEnd ==
    /\ \/ EnvironmentDone /\ ~raised
       \/ phase = "error" /\ Idle("main")
    /\ phase' = "end"
    /\ AddStep("main", "session.end")
    /\ UNCHANGED <<raised, tail, sealVars>>

\* Mutant: the export misses a row, as with a wrong bound in its SELECT.
Export_NotLast ==
    /\ phase = "end" /\ Idle("main")
    /\ exported' = {s \in rows : s.index + 1 < index}
    /\ Go("close")
    /\ UNCHANGED <<db, workspace, artifact, temporary, faults>>

\* EpiStorage.finalize: write steps.jsonl from one SELECT, without the lock ...
Export ==
    /\ phase = "end" /\ Idle("main")
    /\ exported' = rows
    /\ Go("close")
    /\ UNCHANGED <<db, workspace, artifact, temporary, faults>>

\* ... then close the connection and unlink the database.
CloseDb ==
    /\ phase = "close"
    /\ db' = "closed"
    /\ Go("pack")
    /\ UNCHANGED <<exported, workspace, artifact, temporary, faults>>

Pack ==
    /\ phase = "pack"
    /\ artifact' = "unsigned"
    /\ Go(IF AutoSign THEN "sign" ELSE "restore")
    /\ UNCHANGED <<db, exported, workspace, temporary, faults>>

\* _sign_epi_file: pack a signed copy beside the artifact ...
Sign ==
    /\ phase = "sign"
    /\ temporary' = TRUE
    /\ Go("unlink")
    /\ UNCHANGED <<db, exported, workspace, artifact, faults>>

\* ... unlink the artifact ...
Unlink ==
    /\ phase = "unlink"
    /\ artifact' = "none"
    /\ Go("rename")
    /\ UNCHANGED <<db, exported, workspace, temporary, faults>>

\* ... and rename the copy.
Rename ==
    /\ phase = "rename"
    /\ artifact' = "signed" /\ temporary' = FALSE
    /\ Go("restore")
    /\ UNCHANGED <<db, exported, workspace, faults>>

\* _restore_stdio_capture: emit_pending logs what is left in the buffer and
\* swallows the exception.
EmitPending ==
    /\ phase = "restore" /\ Idle("main") /\ tail = "buffered"
    /\ tail' = "emitted"
    /\ AddStep("main", "tail")
    /\ UNCHANGED <<phase, raised, sealVars>>

\* The finally clause: temp_dir is removed, whatever happened before.
Cleanup ==
    /\ phase = "restore" /\ Idle("main") /\ tail # "buffered"
    /\ workspace' = FALSE
    /\ Go("done")
    /\ UNCHANGED <<db, exported, artifact, temporary, faults>>

\* A step of __exit__ raises; signing catches it and keeps what is there.
ExitRaises ==
    \E p \in {"end", "close", "pack", "sign", "unlink", "rename"} : Raise(p)

Crash ==
    /\ Crashes /\ phase \notin {"dead", "done"}
    /\ phase' = "dead"
    /\ UNCHANGED <<raised, tail, logVars, sealVars, faults>>

-----------------------------------------------------------------------------

Write(t) == Insert(t) \/ Commit(t)

Main == \/ Enter \/ EnterDone \/ Exit \/ LogNoEnvironment \/ LogError \/ LogEnd
        \/ Export \/ CloseDb \/ Pack \/ Sign \/ Unlink \/ Rename
        \/ EmitPending \/ Cleanup

Next == \/ Main \/ PrintTail \/ CaptureFails \/ ExitRaises \/ Crash
        \/ \E t \in Thread : Log(t) \/ Write(t) \/ WriteRaises(t)

Spec == Init /\ [][Next]_vars

\* Threads inside add_step and a main thread that can go on do so.  Nothing
\* obliges the body to end, a thread to log or anything to raise.
Fairness == /\ WF_vars(Main /\ phase # "body")
            /\ \A t \in Thread : WF_vars(Write(t) \/ WriteRaises(t))

FairSpec == Spec /\ Fairness
-----------------------------------------------------------------------------
(* Properties.                                                             *)

Phase == {"new", "starting", "body", "environment", "no environment",
          "environment logged", "error", "end", "close", "pack", "sign",
          "unlink", "rename", "restore", "done", "dead"}

TypeOK ==
    /\ phase \in Phase
    /\ raised \in BOOLEAN /\ tail \in {"none", "buffered", "emitted"}
    /\ lock \subseteq Thread
    /\ pc \in [Thread -> {"idle", "insert", "commit"}]
    /\ work \in [Thread -> Seq(Kind)]
    /\ index \in Nat /\ anchor \in Nat /\ built \in Nat
    /\ rows \subseteq Step /\ exported \subseteq Step
    /\ db \in {"open", "closed"} /\ workspace \in BOOLEAN
    /\ artifact \in {"none", "unsigned", "signed"} /\ temporary \in BOOLEAN
    /\ returned \subseteq Nat \ {0}
    /\ faults \in 0..MaxFaults

\* No two of the steps have the same index, and no index is skipped.
Contiguous(S) ==
    /\ \A s, u \in S : s.index = u.index => s = u
    /\ \A s \in S : s.index > 0 => \E u \in S : u.index + 1 = s.index

\* `epi verify` (_verify_step_chain): a step with an anchor names the hash of
\* the step before it in the file.
Verifies(S) ==
    \A s, u \in S :
        /\ s.index < u.index
        /\ \A v \in S : v.index <= s.index \/ u.index <= v.index
        => u.prev \in {ChainStart, s.hash}

\* Whatever threads log, in whatever order, and whatever writes fail, the
\* indexes of the stored and of the exported steps are 0, 1, 2, ... : epi
\* verify's sequence audit has nothing to report.
IndexContiguous == Contiguous(rows) /\ Contiguous(exported)

\* The chain of the recording verifies whenever it is read: in the database by
\* an export at any moment, and in steps.jsonl.
ChainAlwaysIntact == Verifies(rows) /\ Verifies(exported)

\* The same until a write raises: the anchor of a step that was not stored stays.
ChainIntact == faults = 0 => ChainAlwaysIntact

\* A redaction step is followed by the step it is about: no other thread's
\* step comes in between.
RedactionAdjacent ==
    faults = 0 => \A s, u \in rows :
        s.kind = "security.redaction" /\ u.index = s.index + 1 => s.by = u.by

\* Where a step can be read: in the database, in steps.jsonl, in the artifact
\* or in its signed copy.
Readable ==
    (IF workspace /\ db = "open" THEN HashesOf(rows) ELSE {}) \cup
    (IF workspace \/ temporary \/ artifact # "none" THEN HashesOf(exported) ELSE {})

\* Without an exception, a step whose log_step returned is not lost, up to and
\* including session.end, also when the process crashes and while other threads
\* keep logging behind it.
KeptUpToTheEnd ==
    faults = 0 =>
        \A s \in rows :
            /\ s.hash \in returned
            /\ \A u \in rows : u.kind = "session.end" => s.index <= u.index
            => s.hash \in Readable

\* A session that is being left is left: no exception keeps the lock taken.
SessionEnds ==
    phase \in {"environment", "no environment"} ~> phase \in {"done", "dead"}
=============================================================================
