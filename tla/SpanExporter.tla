---------------------------- MODULE SpanExporter ----------------------------
(***************************************************************************)
(* epi_recorder/integrations/opentelemetry.py: EPISpanExporter, with the   *)
(* recording sessions it opens (epi_recorder/api.py).                      *)
(*                                                                         *)
(* export() buffers finished spans under a lock.  A trace is written to    *)
(* its .epi file by whoever flushes it: the daemon thread that looks for   *)
(* quiet traces, a caller of force_flush, or shutdown.  A flush lists the  *)
(* traces under the lock and then takes and writes them one by one, so two *)
(* threads may write, and even write the same file.  Each write is a whole *)
(* EpiRecorderSession: it redirects sys.stdout, packs the artifact, signs  *)
(* it by way of a second file, and puts sys.stdout back.                   *)
(*                                                                         *)
(* The steps of a file are a set: their order is that of their timestamps. *)
(* The traces of a list are taken in any order, as they may have come in   *)
(* any order.  What other threads print meanwhile is not modelled.         *)
(***************************************************************************)
EXTENDS Naturals, Sequences

CONSTANTS
    Span,       \* spans; each ends, and is exported, at most once
    TraceOf,    \* TraceOf[s]: its trace_id
    FileOf,     \* FileOf[k]: the name made of the first 8 digits of trace k
    Caller,     \* threads that call force_flush; "main" also shutdown
    StrictModes,  \* the values of strict_export
    AutoSign,   \* auto_sign
    MaxFaults   \* bound: exceptions inside a flush

Trace == {TraceOf[s] : s \in Span}
File == {FileOf[k] : k \in Trace}

Thread == Caller \cup {"flusher"}

ASSUME ExporterAssumption ==
    /\ "main" \in Caller /\ "flusher" \notin Caller
    /\ StrictModes \subseteq BOOLEAN
    /\ AutoSign \in BOOLEAN /\ MaxFaults \in Nat

VARIABLES
    exported,   \* spans that export() took
    buffer,     \* those in _traces
    shut,       \* the event _shutdown
    exited,     \* whether the process is gone
    pc,         \* pc[t]: place in _flush_loop, force_flush, shutdown,
                \* _flush_trace and the session it opens
    todo,       \* todo[t]: the traces of its list that are left
    hand,       \* hand[t]: the steps of the trace it took, {} between two
    saved,      \* saved[t]: its session's _original_stdout
    stdout,     \* sys.stdout: the sessions whose capture a print goes through
    artifact,   \* artifact[f]: the steps in the file f, {} if there is none
    temporary,  \* temporary[f]: likewise of f with the suffix .epi.tmp
    deadletter, \* deadletter[k]: likewise of trace k's deadletter
    faults,     \* exceptions so far
    lost,       \* ghost: lost[t]: steps whose flush by t raised
    due,        \* ghost: due[t]: the spans that were there when t listed all
    promised,   \* ghost: those due in a flush that returned
    taken,      \* ghost: files for which steps were taken
    again,      \* ghost: files for which steps were taken more than once
    tangled     \* ghost: whether sessions overlapped, or one was abandoned

bufferVars == <<exported, buffer>>
diskVars   == <<artifact, temporary, deadletter>>
ioVars     == <<saved, stdout, tangled>>
listVars   == <<shut, exited, todo>>
dueVars    == <<due, promised>>
takenVars  == <<taken, again>>
failVars   == <<faults, lost>>
vars == <<bufferVars, listVars, pc, hand, ioVars, diskVars, failVars,
          dueVars, takenVars>>

Init ==
    /\ exported = {} /\ buffer = {}
    /\ shut = FALSE /\ exited = FALSE
    /\ pc = [t \in Thread |-> IF t = "flusher" THEN "top" ELSE "idle"]
    /\ todo = [t \in Thread |-> {}]
    /\ hand = [t \in Thread |-> {}]
    /\ saved = [t \in Thread |-> <<>>] /\ stdout = <<>> /\ tangled = FALSE
    /\ artifact = [f \in File |-> {}] /\ temporary = [f \in File |-> {}]
    /\ deadletter = [k \in Trace |-> {}]
    /\ faults = 0 /\ lost = [t \in Thread |-> {}]
    /\ due = [t \in Thread |-> {}] /\ promised = {}
    /\ taken = {} /\ again = {}

Goto(t, place) == pc' = [pc EXCEPT ![t] = place]

Of(k) == {s \in Span : TraceOf[s] = k}

Buffered == {TraceOf[s] : s \in buffer}

\* The trace a thread has in hand, and the path of its artifact.
Key(t) == TraceOf[CHOOSE s \in hand[t] : TRUE]
Path(t) == FileOf[Key(t)]

\* Places inside a session, between __enter__ and the end of __exit__.
InSession == {"log", "sign", "unlink", "rename", "restore"}

-----------------------------------------------------------------------------
(* The spans.                                                              *)

Export(s) ==
    /\ s \notin exported
    /\ exported' = exported \cup {s}
    /\ buffer' = buffer \cup {s}
    /\ UNCHANGED <<listVars, pc, hand, ioVars, diskVars, failVars,
                   dueVars, takenVars>>

-----------------------------------------------------------------------------
(* Who flushes.                                                            *)

\* _flush_loop: ends once _shutdown is set, else waits for it or a timeout ...
Loop ==
    /\ pc["flusher"] = "top"
    /\ Goto("flusher", IF shut THEN "ended" ELSE "wait")
    /\ UNCHANGED <<bufferVars, listVars, hand, ioVars, diskVars,
                   failVars, dueVars, takenVars>>

\* ... and _flush_stale lists the traces whose last span came longer ago
\* than flush_interval: whichever those are.
ListStale ==
    /\ pc["flusher"] = "wait" /\ Goto("flusher", "take")
    /\ \E stale \in SUBSET Buffered :
           todo' = [todo EXCEPT !["flusher"] = stale]
    /\ UNCHANGED <<bufferVars, shut, exited, hand, ioVars, diskVars,
                   failVars, dueVars, takenVars>>

\* _flush_all lists every trace.
ListAll(t) ==
    /\ Goto(t, "take")
    /\ todo' = [todo EXCEPT ![t] = Buffered]
    /\ due' = [due EXCEPT ![t] = exported]
    /\ UNCHANGED <<bufferVars, shut, exited, hand, ioVars, diskVars,
                   failVars, promised, takenVars>>

ForceFlush(c) ==
    /\ pc[c] = "idle" /\ ~(c = "main" /\ shut)
    /\ ListAll(c)

\* shutdown sets the event and waits at most ten seconds for the daemon ...
Shutdown ==
    /\ pc["main"] = "idle" /\ Goto("main", "join") /\ shut' = TRUE
    /\ UNCHANGED <<bufferVars, exited, todo, hand, ioVars, diskVars,
                   failVars, dueVars, takenVars>>

\* ... which has ended, or is still at work when the final flush begins.
FinalFlush == pc["main"] = "join" /\ ListAll("main")

\* The list is done: the loop goes on, force_flush or shutdown returns.
Return(t) ==
    /\ pc[t] = "take" /\ todo[t] = {}
    /\ Goto(t, IF t = "flusher" THEN "top"
               ELSE IF t = "main" /\ shut THEN "done" ELSE "idle")
    /\ promised' = promised \cup due[t]
    /\ due' = [due EXCEPT ![t] = {}]
    /\ UNCHANGED <<bufferVars, listVars, hand, ioVars, diskVars,
                   failVars, takenVars>>

\* The interpreter ends after shutdown, and the daemon with it.
Exit ==
    /\ pc["main"] \in {"done", "raised"}
    /\ \A c \in Caller \ {"main"} : pc[c] = "idle"
    /\ exited' = TRUE
    /\ UNCHANGED <<bufferVars, shut, todo, pc, hand, ioVars, diskVars,
                   failVars, dueVars, takenVars>>

-----------------------------------------------------------------------------
(* _flush_trace and its session.                                           *)

\* Under the lock: whatever the trace holds by now, which may be nothing.
Take(t, k) ==
    /\ pc[t] = "take" /\ k \in todo[t]
    /\ todo' = [todo EXCEPT ![t] = @ \ {k}]
    /\ hand' = [hand EXCEPT ![t] = buffer \cap Of(k)]
    /\ buffer' = buffer \ Of(k)
    /\ IF buffer \cap Of(k) = {}
       THEN UNCHANGED <<pc, takenVars>>
       ELSE /\ Goto(t, "enter")
            /\ taken' = taken \cup {FileOf[k]}
            /\ again' = again \cup (taken \cap {FileOf[k]})
    /\ UNCHANGED <<exported, shut, exited, ioVars, diskVars, failVars,
                   dueVars>>

\* __enter__ ends with the capture of sys.stdout.
Enter(t) ==
    /\ pc[t] = "enter" /\ Goto(t, "log")
    /\ saved' = [saved EXCEPT ![t] = stdout]
    /\ stdout' = Append(stdout, t)
    /\ tangled' = (tangled \/ \E u \in Thread : pc[u] \in InSession)
    /\ UNCHANGED <<bufferVars, listVars, hand, diskVars, failVars,
                   dueVars, takenVars>>

\* The steps are logged, exported and packed over what is at the path.
Pack(t) ==
    /\ pc[t] = "log" /\ Goto(t, IF AutoSign THEN "sign" ELSE "restore")
    /\ artifact' = [artifact EXCEPT ![Path(t)] = hand[t]]
    /\ UNCHANGED <<bufferVars, listVars, hand, ioVars, temporary,
                   deadletter, failVars, dueVars, takenVars>>

\* _sign_epi_file unpacks the artifact at the path and packs it again, with a
\* signature, beside it ...
Sign(t) ==
    /\ pc[t] = "sign" /\ artifact[Path(t)] # {} /\ Goto(t, "unlink")
    /\ temporary' = [temporary EXCEPT ![Path(t)] = artifact[Path(t)]]
    /\ UNCHANGED <<bufferVars, listVars, hand, ioVars, artifact, deadletter,
                   failVars, dueVars, takenVars>>

\* ... removes the artifact ...
Unlink(t) ==
    /\ pc[t] = "unlink" /\ artifact[Path(t)] # {} /\ Goto(t, "rename")
    /\ artifact' = [artifact EXCEPT ![Path(t)] = {}]
    /\ UNCHANGED <<bufferVars, listVars, hand, ioVars, temporary,
                   deadletter, failVars, dueVars, takenVars>>

\* ... and renames the signed one.
Rename(t) ==
    /\ pc[t] = "rename" /\ temporary[Path(t)] # {} /\ Goto(t, "restore")
    /\ artifact' = [artifact EXCEPT ![Path(t)] = temporary[Path(t)]]
    /\ temporary' = [temporary EXCEPT ![Path(t)] = {}]
    /\ UNCHANGED <<bufferVars, listVars, hand, ioVars, deadletter,
                   failVars, dueVars, takenVars>>

\* No key, a file that is gone or torn: a warning, and the session goes on.
StayUnsigned(t) ==
    /\ pc[t] \in {"sign", "unlink", "rename"} /\ Goto(t, "restore")
    /\ UNCHANGED <<bufferVars, listVars, hand, ioVars, diskVars,
                   failVars, dueVars, takenVars>>

\* _restore_stdio_capture, in the finally clause of __exit__.
PutBack(t) ==
    /\ stdout' = saved[t]
    /\ saved' = [saved EXCEPT ![t] = <<>>]

Close(t) ==
    /\ pc[t] = "restore" /\ Goto(t, "take")
    /\ PutBack(t)
    /\ hand' = [hand EXCEPT ![t] = {}]
    /\ UNCHANGED <<bufferVars, listVars, tangled, diskVars, failVars, dueVars,
                   takenVars>>

-----------------------------------------------------------------------------
(* Exceptions.                                                             *)

\* strict_export: the exception ends the daemon, shutdown or force_flush,
\* and the rest of the list is not looked at.
Propagate(t) ==
    /\ Goto(t, IF t = "flusher" THEN "dead"
               ELSE IF t = "main" /\ shut THEN "raised" ELSE "idle")
    /\ todo' = [todo EXCEPT ![t] = {}]
    /\ lost' = [lost EXCEPT ![t] = @ \cup hand[t]]
    /\ due' = [due EXCEPT ![t] = {}]
    /\ UNCHANGED deadletter

\* Mutant: the first exception ends the flush, and nobody hears of it.
Divert_Ends(t) ==
    /\ Goto(t, "take") /\ UNCHANGED due
    /\ todo' = [todo EXCEPT ![t] = {}]
    /\ \/ /\ deadletter' = [deadletter EXCEPT ![Key(t)] = hand[t]]
          /\ UNCHANGED lost
       \/ /\ lost' = [lost EXCEPT ![t] = @ \cup hand[t]]
          /\ UNCHANGED deadletter

\* Otherwise the steps go to a deadletter, if that can be written.
Divert(t) ==
    /\ Goto(t, "take") /\ UNCHANGED <<todo, due>>
    /\ \/ /\ deadletter' = [deadletter EXCEPT ![Key(t)] = hand[t]]
          /\ UNCHANGED lost
       \/ /\ lost' = [lost EXCEPT ![t] = @ \cup hand[t]]
          /\ UNCHANGED deadletter

Fail(t) ==
    /\ faults < MaxFaults /\ faults' = faults + 1
    /\ \E strict \in StrictModes : IF strict THEN Propagate(t) ELSE Divert(t)
    /\ hand' = [hand EXCEPT ![t] = {}]
    /\ UNCHANGED <<bufferVars, shut, exited, temporary, promised, takenVars>>

\* __enter__ raises before it captures sys.stdout.
EnterRaises(t) ==
    /\ pc[t] = "enter" /\ Fail(t) /\ UNCHANGED <<ioVars, artifact>>

\* log_step raises: __exit__ is never called.
LogRaises(t) ==
    /\ pc[t] = "log" /\ Fail(t)
    /\ tangled' = TRUE
    /\ UNCHANGED <<saved, stdout, artifact>>

\* Mutant: sys.stdout is put back only when the artifact was packed.
PackRaises_KeepsStdout(t) ==
    /\ pc[t] = "log" /\ Fail(t)
    /\ UNCHANGED <<artifact, ioVars>>

\* __exit__ raises before or while it packs, which may tear the old file.
PackRaises(t) ==
    /\ pc[t] = "log" /\ Fail(t)
    /\ \/ UNCHANGED artifact
       \/ artifact' = [artifact EXCEPT ![Path(t)] = {}]
    /\ PutBack(t)
    /\ UNCHANGED tangled

-----------------------------------------------------------------------------

Write(t) ==
    \/ Enter(t) \/ Pack(t) \/ Sign(t) \/ Unlink(t)
    \/ Rename(t) \/ StayUnsigned(t) \/ Close(t)

Raise(t) == EnterRaises(t) \/ LogRaises(t) \/ PackRaises(t)

Next ==
    /\ ~exited
    /\ \/ \E s \in Span : Export(s)
       \/ Loop \/ ListStale \/ Shutdown \/ FinalFlush \/ Exit
       \/ \E c \in Caller : ForceFlush(c)
       \/ \E t \in Thread :
              \/ Return(t) \/ Write(t) \/ Raise(t)
              \/ \E k \in Trace : Take(t, k)

Spec == Init /\ [][Next]_vars

-----------------------------------------------------------------------------

TypeOK ==
    /\ exported \subseteq Span /\ buffer \subseteq exported
    /\ shut \in BOOLEAN /\ exited \in BOOLEAN
    /\ pc \in [Thread -> {"top", "wait", "ended", "dead", "idle", "join",
                          "done", "raised", "take", "enter"} \cup InSession]
    /\ todo \in [Thread -> SUBSET Trace]
    /\ hand \in [Thread -> SUBSET exported]
    /\ saved \in [Thread -> Seq(Thread)] /\ stdout \in Seq(Thread)
    /\ artifact \in [File -> SUBSET Span] /\ temporary \in [File -> SUBSET Span]
    /\ deadletter \in [Trace -> SUBSET Span]
    /\ faults \in Nat /\ lost \in [Thread -> SUBSET Span]
    /\ due \in [Thread -> SUBSET exported] /\ promised \subseteq exported
    /\ taken \subseteq File /\ again \subseteq taken
    /\ tangled \in BOOLEAN

\* Where a reader finds a span's step.
Written(s) ==
    LET k == TraceOf[s]
    IN  s \in artifact[FileOf[k]] \cup temporary[FileOf[k]] \cup deadletter[k]

\* Whatever flushes run beside each other, fail or are cut off by the end of
\* the process, a span that export() took is in the buffer, in the hands of a
\* thread, in its trace's file (or the signed copy that is about to replace
\* it) or deadletter, or its flush raised; unless its file was written more
\* than once.  And when force_flush or shutdown has returned, no span from
\* before it is in the buffer.
SpansKept ==
    /\ promised \cap buffer = {}
    /\ \A s \in exported :
           \/ s \in buffer
           \/ \E t \in Thread : s \in hand[t] \cup lost[t]
           \/ Written(s)
           \/ FileOf[TraceOf[s]] \in again

\* Once no session is open prints go to the console again, if sessions never
\* overlapped and none was abandoned between its __enter__ and its __exit__,
\* even if one failed in __exit__.
ConsoleComesBack ==
    (~tangled /\ \A t \in Thread : pc[t] \notin InSession) => stdout = <<>>

\* "Fail-closed: propagate so the caller knows evidence was lost": no flush
\* returns normally when a step it was to write was lost with the daemon.
NoSilentDrop == promised \cap lost["flusher"] = {}
=============================================================================
