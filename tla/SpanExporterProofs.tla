------------------------- MODULE SpanExporterProofs -------------------------
(***************************************************************************)
(* Theorems about SpanExporter, for any spans, traces, file names, callers *)
(* and number of exceptions.                                               *)
(*                                                                         *)
(* SpansKept is not inductive: a flush writes over whatever is at its      *)
(* path.  KInv adds that a file that was taken for once has one flush, to  *)
(* which all its spans belong that are not in the buffer.                  *)
(***************************************************************************)
EXTENDS SpanExporter, TLAPS

FileAt(s) == FileOf[TraceOf[s]]

\* Threads hold spans of one trace each, apart from each other and from the
\* buffer, while they flush it.
HandsApart ==
    \A t \in Thread :
        /\ hand[t] # {} <=> pc[t] \in InSession \cup {"enter"}
        /\ \A s, r \in hand[t] : TraceOf[s] = TraceOf[r]
        /\ hand[t] \cap buffer = {}
        /\ \A u \in Thread : u # t => hand[t] \cap hand[u] = {}

\* The spans of a file that nobody flushed are in the buffer ...
Untaken == \A s \in exported : FileAt(s) \notin taken => s \in buffer

\* ... and while a file is flushed for the first time, in the buffer or in
\* the hands of its thread.
FirstFlush ==
    \A t \in Thread, s \in exported :
        (hand[t] # {} /\ FileAt(s) = Path(t) /\ FileAt(s) \notin again)
            => s \in buffer \cup hand[t]

\* What such a flush has put on the disk so far.
OnDisk(t) ==
    LET f == Path(t)
    IN  /\ pc[t] \in {"sign", "unlink"} => hand[t] \subseteq artifact[f]
        /\ pc[t] \in {"unlink", "rename"} => hand[t] \subseteq temporary[f]
        /\ pc[t] = "restore" => hand[t] \subseteq artifact[f] \cup temporary[f]

FlushWrites ==
    \A t \in Thread : (hand[t] # {} /\ Path(t) \notin again) => OnDisk(t)

\* What a flush of everything has still to do; the daemon owes nothing.
DueListed ==
    /\ \A t \in Thread : \A s \in due[t] \cap buffer : TraceOf[s] \in todo[t]
    /\ due["flusher"] = {}

KInv == TypeOK /\ HandsApart /\ Untaken /\ FirstFlush /\ FlushWrites /\ DueListed
            /\ SpansKept

USE DEF Goto, ioVars, bufferVars, diskVars, listVars, dueVars, takenVars, failVars

-----------------------------------------------------------------------------
(* The trace in hand.                                                      *)

\* A thread that holds steps holds them for a file.
LEMMA HandHasPath ==
    ASSUME TypeOK, NEW t \in Thread, hand[t] # {}
    PROVE  Key(t) \in Trace /\ Path(t) \in File
<1>1. (CHOOSE s \in hand[t] : TRUE) \in hand[t]
  OBVIOUS
<1>2. hand[t] \subseteq Span
  BY DEF TypeOK
<1> QED
  BY <1>1, <1>2 DEF Key, Path, Trace, File

\* All steps in hand belong to that file.
LEMMA HandIsOfPath ==
    ASSUME HandsApart, NEW t \in Thread, NEW s \in hand[t]
    PROVE  Key(t) = TraceOf[s] /\ Path(t) = FileAt(s)
<1>1. (CHOOSE r \in hand[t] : TRUE) \in hand[t]
  OBVIOUS
<1> QED
  BY <1>1 DEF HandsApart, Key, Path, FileAt

\* The path of a thread whose hand does not change does not change.
LEMMA SamePath ==
    ASSUME NEW t, hand'[t] = hand[t]
    PROVE  Path(t)' = Path(t) /\ Key(t)' = Key(t)
BY DEF Path, Key

-----------------------------------------------------------------------------
(* Types.                                                                  *)

LEMMA TypeStep ==
    ASSUME TypeOK, HandsApart, [Next]_vars
    PROVE  TypeOK'
<1> USE DEF TypeOK, InSession
<1>1. ASSUME NEW s \in Span, Export(s) PROVE TypeOK'
  BY <1>1 DEF Export
<1>2. CASE Loop
  BY <1>2 DEF Loop, Thread
<1>3. CASE ListStale
  <2>1. PICK stale \in SUBSET Buffered : todo' = [todo EXCEPT !["flusher"] = stale]
    BY <1>3 DEF ListStale
  <2>2. stale \subseteq Trace
    BY DEF Buffered, Trace
  <2>3. "flusher" \in Thread
    BY DEF Thread
  <2> QED
    BY <1>3, <2>1, <2>2, <2>3 DEF ListStale
<1>4. CASE Shutdown \/ Exit
  BY <1>4 DEF Shutdown, Exit
<1>5. CASE FinalFlush
  BY <1>5 DEF FinalFlush, ListAll, Buffered, Trace
<1>6. ASSUME NEW c \in Caller, ForceFlush(c) PROVE TypeOK'
  BY <1>6 DEF ForceFlush, ListAll, Buffered, Trace
<1>7. ASSUME NEW t \in Thread, Return(t) PROVE TypeOK'
  BY <1>7 DEF Return
<1>8. ASSUME NEW t \in Thread, Enter(t) PROVE TypeOK'
  BY <1>8 DEF Enter
<1>9. ASSUME NEW t \in Thread, Pack(t) PROVE TypeOK'
  BY <1>9 DEF Pack
<1>10. ASSUME NEW t \in Thread, Sign(t) \/ Unlink(t) \/ Rename(t) PROVE TypeOK'
  <2>1. Path(t) \in File
    BY <1>10, HandHasPath DEF Sign, Unlink, Rename, HandsApart
  <2> QED
    BY <1>10, <2>1 DEF Sign, Unlink, Rename
<1>11. ASSUME NEW t \in Thread, StayUnsigned(t) \/ Close(t) PROVE TypeOK'
  <2>1. CASE StayUnsigned(t)
    BY <2>1 DEF StayUnsigned
  <2>2. CASE Close(t)
    BY <2>2 DEF Close, PutBack
  <2> QED
    BY <1>11, <2>1, <2>2
<1>12. ASSUME NEW t \in Thread, Raise(t) PROVE TypeOK'
  <2>1. Key(t) \in Trace /\ hand[t] \in SUBSET exported
    BY <1>12, HandHasPath DEF Raise, EnterRaises, LogRaises, PackRaises, HandsApart
  <2>2. Fail(t)
    BY <1>12 DEF Raise, EnterRaises, LogRaises, PackRaises
  <2>3. Propagate(t) \/ Divert(t)
    BY <2>2 DEF Fail
  <2>4. /\ pc' \in [Thread -> {"top", "wait", "ended", "dead", "idle", "join",
                             "done", "raised", "take", "enter"} \cup InSession]
        /\ todo' \in [Thread -> SUBSET Trace]
        /\ due' \in [Thread -> SUBSET exported]
        /\ lost' \in [Thread -> SUBSET Span]
        /\ deadletter' \in [Trace -> SUBSET Span]
    BY <2>1, <2>3 DEF Propagate, Divert
  <2>5. hand' \in [Thread -> SUBSET exported] /\ faults' \in Nat
    BY <2>2 DEF Fail
  <2>6. UNCHANGED <<bufferVars, shut, exited, temporary, promised, takenVars>>
    BY <2>2 DEF Fail
  <2>7. /\ saved' \in [Thread -> Seq(Thread)] /\ stdout' \in Seq(Thread)
        /\ tangled' \in BOOLEAN
        /\ artifact' \in [File -> SUBSET Span]
    <3>1. CASE EnterRaises(t)
      BY <3>1 DEF EnterRaises
    <3>2. CASE LogRaises(t)
      BY <3>2 DEF LogRaises
    <3>3. CASE PackRaises(t)
      <4>1. saved' \in [Thread -> Seq(Thread)] /\ stdout' \in Seq(Thread)
        BY <3>3 DEF PackRaises, PutBack
      <4>2. artifact' \in [File -> SUBSET Span]
        BY <3>3 DEF PackRaises
      <4> QED
        BY <3>3, <4>1, <4>2 DEF PackRaises
    <3> QED
      BY <1>12, <3>1, <3>2, <3>3 DEF Raise
  <2> QED
    BY <2>4, <2>5, <2>6, <2>7
<1>13. ASSUME NEW t \in Thread, NEW k \in Trace, Take(t, k) PROVE TypeOK'
  BY <1>13 DEF Take, File
<1>14. CASE UNCHANGED vars
  BY <1>14 DEF vars
<1> QED
  BY <1>1, <1>2, <1>3, <1>4, <1>5, <1>6, <1>7, <1>8, <1>9, <1>10, <1>11, <1>12,
     <1>13, <1>14 DEF Next, Write

-----------------------------------------------------------------------------
(* Hands.                                                                  *)

LEMMA HandsStep ==
    ASSUME TypeOK, HandsApart, [Next]_vars
    PROVE  HandsApart'
<1> USE DEF HandsApart, InSession, TypeOK
<1>1. ASSUME NEW s \in Span, Export(s) PROVE HandsApart'
  BY <1>1 DEF Export
<1>2. CASE Loop \/ ListStale
  <2>1. CASE Loop
    BY <2>1 DEF Loop
  <2>2. CASE ListStale
    BY <2>2 DEF ListStale
  <2> QED
    BY <1>2, <2>1, <2>2
<1>3. CASE Shutdown \/ FinalFlush \/ Exit
  BY <1>3 DEF Shutdown, FinalFlush, ListAll, Exit
<1>4. ASSUME NEW c \in Caller, ForceFlush(c) PROVE HandsApart'
  BY <1>4 DEF ForceFlush, ListAll
<1>5. ASSUME NEW t \in Thread, Return(t) \/ Enter(t) \/ Pack(t) PROVE HandsApart'
  BY <1>5 DEF Return, Enter, Pack
<1>6. ASSUME NEW t \in Thread, Sign(t) \/ Unlink(t) \/ Rename(t) \/ StayUnsigned(t)
      PROVE  HandsApart'
  <2>1. UNCHANGED <<hand, buffer>>
    BY <1>6 DEF Sign, Unlink, Rename, StayUnsigned
  <2>2. pc[t] \in {"sign", "unlink", "rename"}
    BY <1>6 DEF Sign, Unlink, Rename, StayUnsigned
  <2>3. \E place \in {"unlink", "rename", "restore"} : pc' = [pc EXCEPT ![t] = place]
    BY <1>6 DEF Sign, Unlink, Rename, StayUnsigned
  <2> QED
    BY <2>1, <2>2, <2>3
<1>7. ASSUME NEW t \in Thread, Close(t) PROVE HandsApart'
  BY <1>7 DEF Close
<1>8. ASSUME NEW t \in Thread, Raise(t) PROVE HandsApart'
  <2>1. Fail(t)
    BY <1>8 DEF Raise, EnterRaises, LogRaises, PackRaises
  <2>2. \E place \in {"dead", "raised", "idle", "take"} : pc' = [pc EXCEPT ![t] = place]
    BY <2>1 DEF Fail, Propagate, Divert
  <2> QED
    BY <2>1, <2>2 DEF Fail
<1>9. ASSUME NEW t \in Thread, NEW k \in Trace, Take(t, k) PROVE HandsApart'
  BY <1>9 DEF Take, Of
<1>10. CASE UNCHANGED vars
  BY <1>10 DEF vars
<1> QED
  BY <1>1, <1>2, <1>3, <1>4, <1>5, <1>6, <1>7, <1>8, <1>9, <1>10 DEF Next, Write

-----------------------------------------------------------------------------
(* Files that are flushed once.                                            *)

\* A step that neither exports nor takes.
LEMMA NoTaking ==
    ASSUME [Next]_vars,
           ~ \E s \in Span : Export(s),
           ~ \E t \in Thread, k \in Trace : Take(t, k)
    PROVE  UNCHANGED <<exported, buffer, taken, again>>
BY DEF Next, vars, Loop, ListStale, Shutdown, FinalFlush, Exit, ForceFlush, ListAll,
       Return, Write, Enter, Pack, Sign, Unlink, Rename, StayUnsigned, Close,
       Raise, EnterRaises, LogRaises, PackRaises, Fail

\* Such a step empties a hand or leaves it alone.
LEMMA HandsOnlyEmpty ==
    ASSUME [Next]_vars, TypeOK, ~ \E t \in Thread, k \in Trace : Take(t, k)
    PROVE  \A u \in Thread : hand'[u] = hand[u] \/ hand'[u] = {}
BY DEF TypeOK, Next, vars, Export, Loop, ListStale, Shutdown, FinalFlush, Exit,
       ForceFlush, ListAll, Return, Write, Enter, Pack, Sign, Unlink, Rename,
       StayUnsigned, Close, Raise, EnterRaises, LogRaises, PackRaises, Fail

LEMMA UntakenStep ==
    ASSUME TypeOK, Untaken, [Next]_vars
    PROVE  Untaken'
<1> USE DEF Untaken, FileAt
<1>1. ASSUME NEW s \in Span, Export(s) PROVE Untaken'
  BY <1>1 DEF Export, takenVars
<1>2. ASSUME NEW t \in Thread, NEW k \in Trace, Take(t, k) PROVE Untaken'
  BY <1>2 DEF Take, Of
<1> QED
  BY <1>1, <1>2, NoTaking

LEMMA FirstFlushStep ==
    ASSUME TypeOK, HandsApart, Untaken, FirstFlush, [Next]_vars
    PROVE  FirstFlush'
<1>1. ASSUME NEW s \in Span, Export(s) PROVE FirstFlush'
  <2>1. \A t \in Thread : Path(t)' = Path(t)
    BY <1>1 DEF Export, Path, Key
  <2> QED
    BY <1>1, <2>1 DEF Export, FirstFlush, FileAt
<1>2. ASSUME NEW t \in Thread, NEW k \in Trace, Take(t, k) PROVE FirstFlush'
  <2> SUFFICES ASSUME NEW u \in Thread, NEW s \in exported,
                      hand'[u] # {}, FileAt(s) = Path(u)', FileAt(s) \notin again'
               PROVE  s \in buffer' \cup hand'[u]
    BY <1>2 DEF FirstFlush, Take, FileAt
  <2>1. CASE u = t
    <3>1. hand'[t] = buffer \cap Of(k) /\ hand'[t] # {}
      BY <1>2, <2>1 DEF Take, TypeOK
    <3>2. (CHOOSE r \in hand'[t] : TRUE) \in Of(k)
      BY <3>1
    <3>3. Path(t)' = FileOf[k]
      BY <3>2 DEF Path, Key, Of
    <3>4. FileAt(s) \notin taken
      BY <1>2, <2>1, <3>1, <3>3 DEF Take
    <3>5. s \in buffer
      BY <3>4 DEF Untaken
    <3> QED
      BY <1>2, <2>1, <3>5 DEF Take, TypeOK
  <2>2. CASE u # t
    <3>1. hand'[u] = hand[u] /\ Path(u)' = Path(u)
      BY <1>2, <2>2, SamePath DEF Take, TypeOK
    <3>2. FileAt(s) \notin again
      BY <1>2 DEF Take
    <3>3. s \in buffer \cup hand[u]
      BY <3>1, <3>2 DEF FirstFlush
    <3>4. CASE s \in Of(k) /\ s \in buffer
      <4>1. FileAt(s) = FileOf[k] /\ FileAt(s) \notin taken
        BY <1>2, <3>4 DEF Take, Of, FileAt
      <4>2. PICK r \in hand[u] : Path(u) = FileAt(r)
        BY <3>1, HandIsOfPath
      <4>3. r \in buffer
        BY <4>1, <4>2, <3>1 DEF Untaken, TypeOK
      <4> QED
        BY <4>2, <4>3 DEF HandsApart
    <3> QED
      BY <1>2, <3>1, <3>3, <3>4 DEF Take
  <2> QED
    BY <2>1, <2>2
<1>3. CASE UNCHANGED <<exported, buffer, taken, again>>
           /\ \A u \in Thread : hand'[u] = hand[u] \/ hand'[u] = {}
  <2>1. \A u \in Thread : hand'[u] # {} => Path(u)' = Path(u)
    BY <1>3, SamePath
  <2> QED
    BY <1>3, <2>1 DEF FirstFlush, FileAt
<1> QED
  BY <1>1, <1>2, <1>3, NoTaking, HandsOnlyEmpty

\* Two threads that hold steps for one file: it was taken for twice.
LEMMA PathsApart ==
    ASSUME TypeOK, HandsApart, FirstFlush,
           NEW t \in Thread, NEW u \in Thread, t # u,
           hand[t] # {}, hand[u] # {}, Path(t) = Path(u)
    PROVE  Path(t) \in again
<1>1. PICK r \in hand[u] : Path(u) = FileAt(r)
  BY HandIsOfPath
<1>2. r \notin buffer \cup hand[t]
  BY DEF HandsApart
<1> QED
  BY <1>1, <1>2 DEF FirstFlush, TypeOK

\* What a thread does to its own file leaves the first flush of another alone.
LEMMA OthersKeepWrites ==
    ASSUME TypeOK, HandsApart, FirstFlush, FlushWrites,
           NEW t \in Thread, hand[t] # {}, NEW u \in Thread, u # t,
           hand'[u] = hand[u], hand[u] # {}, pc'[u] = pc[u],
           Path(u)' \notin again', again' = again,
           \A f \in File : f # Path(t) => /\ artifact'[f] = artifact[f]
                                          /\ temporary'[f] = temporary[f]
    PROVE  OnDisk(u)'
<1>1. Path(u)' = Path(u) /\ Path(u) \in File
  BY SamePath, HandHasPath
<1>2. Path(u) # Path(t)
  BY <1>1, PathsApart
<1> QED
  BY <1>1, <1>2 DEF FlushWrites, OnDisk

LEMMA FlushWritesStep ==
    ASSUME TypeOK, HandsApart, FirstFlush, FlushWrites, [Next]_vars
    PROVE  FlushWrites'
<1> USE DEF TypeOK
\* Steps that write nothing and take no thread into or through a session.
<1>1. ASSUME UNCHANGED <<hand, artifact, temporary, again>>,
             \A t \in Thread : pc'[t] \in {"sign", "unlink", "rename", "restore"}
                                   => pc'[t] = pc[t]
      PROVE  FlushWrites'
  BY <1>1, SamePath DEF FlushWrites, OnDisk
<1>2. ASSUME NEW s \in Span, Export(s) PROVE FlushWrites'
  BY <1>1, <1>2 DEF Export
<1>3. CASE Loop \/ ListStale
  BY <1>1, <1>3 DEF Loop, ListStale
<1>4. CASE Shutdown \/ Exit \/ FinalFlush
  BY <1>1, <1>4 DEF Shutdown, Exit, FinalFlush, ListAll
<1>5. ASSUME NEW c \in Caller, ForceFlush(c) PROVE FlushWrites'
  BY <1>1, <1>5 DEF ForceFlush, ListAll, Thread
<1>6. ASSUME NEW t \in Thread, Return(t) \/ Enter(t) PROVE FlushWrites'
  BY <1>1, <1>6 DEF Return, Enter
<1>7. ASSUME NEW t \in Thread, NEW k \in Trace, Take(t, k) PROVE FlushWrites'
  <2>1. pc'[t] \notin {"sign", "unlink", "rename", "restore"}
    BY <1>7 DEF Take
  <2>2. \A u \in Thread : u # t => hand'[u] = hand[u] /\ pc'[u] = pc[u]
    BY <1>7 DEF Take
  <2>3. UNCHANGED <<artifact, temporary>> /\ again \subseteq again'
    BY <1>7 DEF Take
  <2> QED
    BY <2>1, <2>2, <2>3, SamePath DEF FlushWrites, OnDisk
\* A thread in its session changes its own file only.
<1>8. ASSUME NEW t \in Thread, Pack(t) \/ Sign(t) \/ Unlink(t) \/ Rename(t)
                                  \/ StayUnsigned(t)
      PROVE  FlushWrites'
  <2>1. hand[t] # {} /\ Path(t)' = Path(t) /\ UNCHANGED <<hand, again>>
    BY <1>8, SamePath DEF Pack, Sign, Unlink, Rename, StayUnsigned, HandsApart, InSession
  <2>2. \A u \in Thread : u # t => pc'[u] = pc[u]
    BY <1>8 DEF Pack, Sign, Unlink, Rename, StayUnsigned
  <2>3. \A f \in File : f # Path(t) => /\ artifact'[f] = artifact[f]
                                       /\ temporary'[f] = temporary[f]
    BY <1>8 DEF Pack, Sign, Unlink, Rename, StayUnsigned
  <2>4. Path(t) \in File
    BY <2>1, HandHasPath
  <2>5. ASSUME Path(t) \notin again PROVE OnDisk(t)'
    <3>1. OnDisk(t)
      BY <2>1, <2>5 DEF FlushWrites
    <3>2. CASE Pack(t)
      BY <2>1, <2>4, <3>1, <3>2 DEF Pack, OnDisk
    <3>3. CASE Sign(t)
      BY <2>1, <2>4, <3>1, <3>3 DEF Sign, OnDisk
    <3>4. CASE Unlink(t)
      BY <2>1, <2>4, <3>1, <3>4 DEF Unlink, OnDisk
    <3>5. CASE Rename(t)
      BY <2>1, <2>4, <3>1, <3>5 DEF Rename, OnDisk
    <3>6. CASE StayUnsigned(t)
      BY <2>1, <2>4, <3>1, <3>6 DEF StayUnsigned, OnDisk
    <3> QED
      BY <1>8, <3>2, <3>3, <3>4, <3>5, <3>6
  <2> QED
    BY <2>1, <2>2, <2>3, <2>5, OthersKeepWrites DEF FlushWrites
<1>9. ASSUME NEW t \in Thread, Close(t) \/ Raise(t) PROVE FlushWrites'
  <2>1. hand'[t] = {} /\ hand[t] # {} /\ UNCHANGED again
    BY <1>9 DEF Close, Raise, EnterRaises, LogRaises, PackRaises, Fail, HandsApart,
                InSession
  <2>2. \A u \in Thread : u # t => hand'[u] = hand[u]
    BY <1>9 DEF Close, Raise, EnterRaises, LogRaises, PackRaises, Fail
  <2>3. \A u \in Thread : u # t => pc'[u] = pc[u]
    BY <1>9 DEF Close, Raise, EnterRaises, LogRaises, PackRaises, Fail, Propagate, Divert
  <2>4. \A f \in File : f # Path(t) => /\ artifact'[f] = artifact[f]
                                       /\ temporary'[f] = temporary[f]
    BY <1>9 DEF Close, Raise, EnterRaises, LogRaises, PackRaises, Fail
  <2> QED
    BY <2>1, <2>2, <2>3, <2>4, OthersKeepWrites DEF FlushWrites
<1>10. CASE UNCHANGED vars
  BY <1>1, <1>10 DEF vars
<1> QED
  BY <1>2, <1>3, <1>4, <1>5, <1>6, <1>7, <1>8, <1>9, <1>10 DEF Next, Write

-----------------------------------------------------------------------------
(* What a flush of everything owes.                                        *)

LEMMA DueStep ==
    ASSUME TypeOK, HandsApart, DueListed, [Next]_vars
    PROVE  DueListed'
<1> USE DEF TypeOK, DueListed
<1>1. ASSUME NEW s \in Span, Export(s) PROVE DueListed'
  BY <1>1 DEF Export
<1>2. CASE Loop \/ Shutdown \/ Exit
  BY <1>2 DEF Loop, Shutdown, Exit
<1>3. CASE ListStale
  BY <1>3 DEF ListStale
<1>4. CASE FinalFlush
  BY <1>4, ExporterAssumption DEF FinalFlush, ListAll, Buffered
<1>5. ASSUME NEW c \in Caller, ForceFlush(c) PROVE DueListed'
  BY <1>5, ExporterAssumption DEF ForceFlush, ListAll, Buffered
<1>6. ASSUME NEW t \in Thread, Return(t) PROVE DueListed'
  BY <1>6 DEF Return
<1>7. ASSUME NEW t \in Thread, Write(t) PROVE DueListed'
  BY <1>7 DEF Write, Enter, Pack, Sign, Unlink, Rename, StayUnsigned, Close
<1>8. ASSUME NEW t \in Thread, Raise(t) PROVE DueListed'
  <2>1. Fail(t)
    BY <1>8 DEF Raise, EnterRaises, LogRaises, PackRaises
  <2>2. UNCHANGED buffer /\ (Propagate(t) \/ Divert(t))
    BY <2>1 DEF Fail
  <2>3. CASE Propagate(t)
    BY <2>2, <2>3 DEF Propagate
  <2>4. CASE Divert(t)
    BY <2>2, <2>4 DEF Divert
  <2> QED
    BY <2>2, <2>3, <2>4
<1>9. ASSUME NEW t \in Thread, NEW k \in Trace, Take(t, k) PROVE DueListed'
  BY <1>9 DEF Take, Of
<1>10. CASE UNCHANGED vars
  BY <1>10 DEF vars
<1> QED
  BY <1>1, <1>2, <1>3, <1>4, <1>5, <1>6, <1>7, <1>8, <1>9, <1>10 DEF Next

-----------------------------------------------------------------------------
(* Spans are kept.                                                         *)

\* What a thread does to the file and the deadletter of the trace it has in
\* hand loses no span, as long as it keeps its own.
LEMMA NothingOverwritten ==
    ASSUME TypeOK, HandsApart, FirstFlush, SpansKept,
           NEW t \in Thread, hand[t] # {},
           UNCHANGED <<exported, buffer, promised, again>>,
           \A u \in Thread : (u # t => hand'[u] = hand[u]) /\ lost[u] \subseteq lost'[u],
           \A f \in File : f # Path(t) => /\ artifact'[f] = artifact[f]
                                          /\ temporary'[f] = temporary[f],
           \A k \in Trace : k # Key(t) => deadletter'[k] = deadletter[k],
           Path(t) \in again \/ hand'[t] = hand[t]
               \/ \A s \in hand[t] : Written(s)' \/ s \in lost'[t]
    PROVE  SpansKept'
<1> SUFFICES ASSUME NEW s \in exported, s \notin buffer, FileAt(s) \notin again
             PROVE  (\E u \in Thread : s \in hand'[u] \cup lost'[u]) \/ Written(s)'
  BY DEF SpansKept, FileAt
<1>1. TraceOf[s] \in Trace /\ FileAt(s) \in File
  BY DEF TypeOK, Trace, File, FileAt
<1>2. CASE s \in hand[t]
  BY <1>2, HandIsOfPath
<1>3. CASE s \notin hand[t]
  <2>1. FileAt(s) # Path(t)
    BY <1>3 DEF FirstFlush
  <2>2. TraceOf[s] # Key(t)
    BY <2>1 DEF Path, FileAt
  <2>3. (\E u \in Thread : s \in hand[u] \cup lost[u]) \/ Written(s)
    BY DEF SpansKept, FileAt
  <2>4. CASE Written(s)
    BY <2>4, <2>1, <2>2, <1>1 DEF Written, FileAt
  <2> QED
    BY <2>3, <2>4, <1>3
<1> QED
  BY <1>2, <1>3

LEMMA KeptStep ==
    ASSUME KInv, [Next]_vars
    PROVE  SpansKept'
<1> USE DEF KInv, TypeOK
<1>1. ASSUME UNCHANGED <<exported, buffer, promised, hand, lost, diskVars, again>>
      PROVE  SpansKept'
  BY <1>1 DEF SpansKept, Written
<1>2. ASSUME NEW s \in Span, Export(s) PROVE SpansKept'
  BY <1>2 DEF Export, SpansKept, Written
<1>3. CASE Loop \/ ListStale \/ Shutdown \/ Exit \/ FinalFlush
  BY <1>1, <1>3 DEF Loop, ListStale, Shutdown, Exit, FinalFlush, ListAll
<1>4. ASSUME NEW c \in Caller, ForceFlush(c) PROVE SpansKept'
  BY <1>1, <1>4 DEF ForceFlush, ListAll
<1>5. ASSUME NEW t \in Thread, Enter(t) PROVE SpansKept'
  BY <1>1, <1>5 DEF Enter
<1>6. ASSUME NEW t \in Thread, Return(t) PROVE SpansKept'
  <2>1. due[t] \cap buffer = {}
    BY <1>6 DEF Return, DueListed
  <2> QED
    BY <1>6, <2>1 DEF Return, SpansKept, Written
<1>7. ASSUME NEW t \in Thread, NEW k \in Trace, Take(t, k) PROVE SpansKept'
  <2>1. /\ hand'[t] = buffer \cap Of(k)
        /\ \A u \in Thread : u # t => hand'[u] = hand[u]
        /\ buffer' = buffer \ Of(k)
        /\ UNCHANGED <<exported, promised, lost, diskVars>> /\ again \subseteq again'
    BY <1>7 DEF Take
  <2>2. hand[t] = {}
    BY <1>7 DEF Take, HandsApart, InSession
  <2> QED
    BY <2>1, <2>2 DEF SpansKept, Written
<1>8. ASSUME NEW t \in Thread,
             Pack(t) \/ Sign(t) \/ Unlink(t) \/ Rename(t) \/ StayUnsigned(t)
      PROVE  SpansKept'
  <2>1. /\ hand[t] # {} /\ UNCHANGED <<exported, buffer, promised, hand, lost, again>>
        /\ UNCHANGED deadletter
    BY <1>8 DEF Pack, Sign, Unlink, Rename, StayUnsigned, HandsApart, InSession
  <2>2. \A f \in File : f # Path(t) => /\ artifact'[f] = artifact[f]
                                       /\ temporary'[f] = temporary[f]
    BY <1>8 DEF Pack, Sign, Unlink, Rename, StayUnsigned
  <2> QED
    BY <2>1, <2>2, NothingOverwritten
<1>9. ASSUME NEW t \in Thread, Close(t) PROVE SpansKept'
  <2>1. /\ hand[t] # {} /\ UNCHANGED <<exported, buffer, promised, lost, again, diskVars>>
        /\ \A u \in Thread : u # t => hand'[u] = hand[u]
    BY <1>9 DEF Close, HandsApart, InSession
  <2>2. ASSUME Path(t) \notin again, NEW s \in hand[t] PROVE Written(s)'
    <3>1. hand[t] \subseteq artifact[Path(t)] \cup temporary[Path(t)]
      BY <1>9, <2>2 DEF Close, FlushWrites, OnDisk
    <3> QED
      BY <2>1, <3>1, HandIsOfPath DEF Written, FileAt
  <2> QED
    BY <2>1, <2>2, NothingOverwritten
<1>10. ASSUME NEW t \in Thread, Raise(t) PROVE SpansKept'
  <2>1. Fail(t) /\ hand[t] # {}
    BY <1>10 DEF Raise, EnterRaises, LogRaises, PackRaises, HandsApart, InSession
  <2>2. /\ UNCHANGED <<exported, buffer, promised, temporary, again>>
        /\ \A u \in Thread : u # t => hand'[u] = hand[u]
    BY <2>1 DEF Fail
  <2>3. \A f \in File : f # Path(t) => artifact'[f] = artifact[f]
    BY <1>10 DEF Raise, EnterRaises, LogRaises, PackRaises
  <2>4. /\ \A u \in Thread : lost[u] \subseteq lost'[u]
        /\ \A k \in Trace : k # Key(t) => deadletter'[k] = deadletter[k]
        /\ hand[t] \subseteq lost'[t] \/ deadletter'[Key(t)] = hand[t]
    <3>1. Key(t) \in Trace
      BY <2>1, HandHasPath
    <3>2. CASE Propagate(t)
      BY <3>1, <3>2 DEF Propagate
    <3>3. CASE Divert(t)
      BY <3>1, <3>3 DEF Divert
    <3> QED
      BY <2>1, <3>2, <3>3 DEF Fail
  <2>5. ASSUME NEW s \in hand[t] PROVE Written(s)' \/ s \in lost'[t]
    BY <2>4, HandIsOfPath DEF Written
  <2> QED
    BY <2>1, <2>2, <2>3, <2>4, <2>5, NothingOverwritten
<1>11. CASE UNCHANGED vars
  BY <1>1, <1>11 DEF vars
<1> QED
  BY <1>2, <1>3, <1>4, <1>5, <1>6, <1>7, <1>8, <1>9, <1>10, <1>11 DEF Next, Write

-----------------------------------------------------------------------------
(* Theorems.                                                               *)

LEMMA KInvInit == Init => KInv
<1> SUFFICES ASSUME Init PROVE KInv
  OBVIOUS
<1>1. TypeOK
  <2>1. pc \in [Thread -> {"top", "wait", "ended", "dead", "idle", "join",
                          "done", "raised", "take", "enter"} \cup InSession]
    BY DEF Init
  <2>2. saved \in [Thread -> Seq(Thread)] /\ stdout \in Seq(Thread)
    BY DEF Init
  <2> QED
    BY <2>1, <2>2 DEF Init, TypeOK
<1>2. HandsApart
  BY DEF Init, HandsApart, InSession
<1>3. Untaken /\ FirstFlush /\ FlushWrites /\ SpansKept
  BY DEF Init, Untaken, FirstFlush, FlushWrites, SpansKept
<1>4. DueListed
  BY DEF Init, DueListed, Thread
<1> QED
  BY <1>1, <1>2, <1>3, <1>4 DEF KInv

LEMMA KInvStep == KInv /\ [Next]_vars => KInv'
BY TypeStep, HandsStep, UntakenStep, FirstFlushStep, FlushWritesStep, DueStep,
   KeptStep DEF KInv

LEMMA KInvAlways == Spec => []KInv
BY KInvInit, KInvStep, PTL DEF Spec

\* Every variable of the exporter keeps its type: only spans that were exported
\* are in the buffer, in a thread's hand or owed to a caller.
THEOREM ExporterTypeCorrect == Spec => []TypeOK
<1>1. KInv => TypeOK
  BY DEF KInv
<1> QED
  BY KInvAlways, <1>1, PTL

\* However many threads flush and whatever raises, a span that export() took
\* can be found, or its flush raised, or its file was written again; and a
\* flush of everything that returned left nothing of its own in the buffer.
THEOREM SpansAreKept == Spec => []SpansKept
<1>1. KInv => SpansKept
  BY DEF KInv
<1> QED
  BY KInvAlways, <1>1, PTL
-----------------------------------------------------------------------------
(* The console.                                                            *)

\* The invariant: while nothing is tangled there is one session at most, which
\* found the console in place, and without one the console is in place.
OneSession ==
    ~tangled =>
        /\ \A t, u \in Thread : pc[t] \in InSession /\ pc[u] \in InSession => t = u
        /\ \A t \in Thread : pc[t] \in InSession => saved[t] = <<>>
        /\ (\A t \in Thread : pc[t] \notin InSession) => stdout = <<>>

LEMMA SessionStep ==
    ASSUME TypeOK, OneSession, [Next]_vars
    PROVE  OneSession'
<1> USE DEF TypeOK, OneSession
\* Steps in which no session begins or ends.
<1>1. ASSUME UNCHANGED ioVars,
             \A t \in Thread : pc'[t] \in InSession <=> pc[t] \in InSession
      PROVE  OneSession'
  BY <1>1
<1>2. ASSUME NEW s \in Span, Export(s) PROVE OneSession'
  BY <1>1, <1>2 DEF Export
<1>3. CASE Loop \/ ListStale \/ Shutdown \/ Exit \/ FinalFlush
  BY <1>1, <1>3 DEF Loop, ListStale, Shutdown, Exit, FinalFlush, ListAll, InSession
<1>4. ASSUME NEW c \in Caller, ForceFlush(c) PROVE OneSession'
  BY <1>1, <1>4 DEF ForceFlush, ListAll, InSession
<1>5. ASSUME NEW t \in Thread, Return(t) \/ \E k \in Trace : Take(t, k) PROVE OneSession'
  BY <1>1, <1>5 DEF Return, Take, InSession
<1>6. ASSUME NEW t \in Thread,
             Pack(t) \/ Sign(t) \/ Unlink(t) \/ Rename(t) \/ StayUnsigned(t)
      PROVE  OneSession'
  BY <1>1, <1>6 DEF Pack, Sign, Unlink, Rename, StayUnsigned, InSession
\* A session that begins finds the console, or another session.
<1>7. ASSUME NEW t \in Thread, Enter(t), ~tangled' PROVE OneSession'
  <2>1. \A u \in Thread : pc[u] \notin InSession
    BY <1>7 DEF Enter
  <2>2. ~tangled /\ stdout = <<>>
    BY <1>7, <2>1 DEF Enter
  <2>3. /\ \A u \in Thread : pc'[u] \in InSession <=> u = t
        /\ saved'[t] = <<>>
    BY <1>7, <2>1, <2>2 DEF Enter, InSession
  <2> QED
    BY <2>3
\* One that ends puts back what it found.
<1>8. ASSUME NEW t \in Thread, pc[t] \in InSession, PutBack(t), UNCHANGED tangled,
             NEW place, place \notin InSession, pc' = [pc EXCEPT ![t] = place]
      PROVE  OneSession'
  <2> SUFFICES ASSUME ~tangled PROVE (\A u \in Thread : pc'[u] \notin InSession) /\ stdout' = <<>>
    BY <1>8
  <2> QED
    BY <1>8 DEF PutBack
<1>9. ASSUME NEW t \in Thread, Close(t) PROVE OneSession'
  BY <1>8, <1>9 DEF Close, InSession
<1>10. ASSUME NEW t \in Thread, Raise(t) PROVE OneSession'
  <2>1. PICK place : place \notin InSession /\ pc' = [pc EXCEPT ![t] = place]
    <3>1. Propagate(t) \/ Divert(t)
      BY <1>10 DEF Raise, EnterRaises, LogRaises, PackRaises, Fail
    <3> QED
      BY <3>1 DEF Propagate, Divert, InSession
  <2>2. CASE EnterRaises(t)
    BY <1>1, <2>1, <2>2 DEF EnterRaises, InSession
  <2>3. CASE LogRaises(t)
    BY <2>3 DEF LogRaises
  <2>4. CASE PackRaises(t)
    BY <1>8, <2>1, <2>4 DEF PackRaises, InSession
  <2> QED
    BY <1>10, <2>2, <2>3, <2>4 DEF Raise
<1>11. CASE UNCHANGED vars
  BY <1>1, <1>11 DEF vars
<1> QED
  BY <1>2, <1>3, <1>4, <1>5, <1>6, <1>7, <1>9, <1>10, <1>11 DEF Next, Write

\* Once no session is open prints go to the console again, however many sessions
\* were opened before and whichever raised on exit, if none overlapped another and
\* none was abandoned.
THEOREM ConsoleIsPutBack == Spec => []ConsoleComesBack
<1>1. Init => OneSession
  <2>1. Init => stdout = <<>> /\ \A t \in Thread : pc[t] \notin InSession
    BY DEF Init, InSession
  <2> QED
    BY <2>1 DEF OneSession
<1>2. KInv /\ OneSession /\ [Next]_vars => OneSession'
  BY SessionStep DEF KInv
<1>3. OneSession => ConsoleComesBack
  BY DEF OneSession, ConsoleComesBack
<1> QED
  BY <1>1, <1>2, <1>3, KInvAlways, PTL DEF Spec

=============================================================================
