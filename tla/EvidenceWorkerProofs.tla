------------------------- MODULE EvidenceWorkerProofs -------------------------
(***************************************************************************)
(* Proofs about EvidenceWorker, for every set of runs, events and batch    *)
(* ids and every bound.                                                    *)
(***************************************************************************)
EXTENDS EvidenceWorker, TLAPS, WellFoundedInduction

LEMMA ElemsType == ASSUME NEW S, NEW s \in Seq(S) PROVE Elems(s) \subseteq S
BY DEF Elems

-----------------------------------------------------------------------------
(* Type correctness.  TypeOK alone is not inductive: the recovered event of *)
(* a boot needs a boot, and a thread in the middle of a batch needs one.    *)

TInv == /\ TypeOK
        /\ phase # "down" => boot \in 1..MaxBoots
        /\ \A t \in Thread : pc[t] # "idle" => bid[t] \in BatchId

LEMMA TInvInit == Init => TInv
BY BoundAssumption DEF Init, TInv, TypeOK, Thread

LEMMA EventsType == TypeOK => Durable \subseteq Event /\ InMemory \subseteq Event
<1> SUFFICES ASSUME TypeOK PROVE Durable \subseteq Event /\ InMemory \subseteq Event
    OBVIOUS
<1>1. \A b \in BatchId : Elems(items[b]) \subseteq Event
      BY ElemsType DEF TypeOK
<1>2. Elems(queue) \subseteq Event /\ Elems(buffer) \subseteq Event
      BY ElemsType DEF TypeOK
<1> QED BY <1>1, <1>2 DEF Durable, InMemory, Written

LEMMA NewType == 
    ASSUME TypeOK, NEW b \in BatchId
    PROVE  /\ Elems(items[b]) \subseteq Event
           /\ {items[b][i].run : i \in NewAt(items[b])} \subseteq Run
           /\ OpenAfter(items[b]) \subseteq Run
<1>1. items[b] \in Seq(Event) BY DEF TypeOK
<1>2. \A e \in Event : e.run \in Run
      BY EventAssumption DEF Event, Recovered, EventOf
<1>3. \A i \in NewAt(items[b]) : items[b][i] \in Event
      BY <1>1 DEF NewAt
<1> QED BY <1>1, <1>2, <1>3, ElemsType DEF OpenAfter

LEMMA TInvNext == TInv /\ [Next]_vars => TInv'
<1> SUFFICES ASSUME TInv, [Next]_vars PROVE TInv'
    OBVIOUS
<1> USE EventAssumption, BoundAssumption
<1> USE DEF TInv, TypeOK, startVars, memVars, jobVars, spoolVars, dbVars,
            caseVars, envVars
<1>1. ASSUME GoDown, UNCHANGED <<items, disk, corrupt, dbVars, caseVars>>,
             faults' \in 0..MaxFaults
      PROVE  TInv'
      <2>1. lost' \subseteq Event
            BY <1>1, EventsType DEF GoDown
      <2> QED BY <1>1, <2>1 DEF GoDown, Thread
<1>2. ASSUME NEW t \in Thread, NEW b \in BatchId, CommitBatch(t, b)
      PROVE  /\ applied' \subseteq BatchId /\ table' \subseteq Event
             /\ open' \subseteq Run
             /\ todo' \in [Thread -> SUBSET Run]
             /\ pc' = [pc EXCEPT ![t] = "rebuild"]
      BY <1>2, NewType DEF CommitBatch
<1>3. ASSUME NEW t \in Thread, NEW s \in Seq(Event), BeginBatch(t, s),
             UNCHANGED <<phase, boot, pending, orphans, memVars>>
      PROVE  TInv'
      BY <1>3 DEF BeginBatch
<1>11. ASSUME NEW t \in Thread, NEW S \in [Run -> SUBSET Event],
             NEW marked \in BOOLEAN, WriteCase(t, S, marked)
      PROVE  /\ cases' \in [Run -> SUBSET Event] /\ unsafe' \subseteq Run
             /\ pc' = [pc EXCEPT ![t] = "rebuild"]
             /\ cur' \in [Thread -> SUBSET Run]
             /\ snap' \in [Thread -> SUBSET Event]
      BY <1>11 DEF WriteCase
<1>4. CASE Startup
      <2>1. CASE Boot BY <2>1 DEF Boot
      <2>2. CASE ReplayDone BY <2>2 DEF ReplayDone
      <2>3. CASE StartupDone BY <2>3 DEF StartupDone
      <2>4. ASSUME NEW b \in BatchId, Quarantine(b) PROVE TInv'
            BY <2>4 DEF Quarantine, NextFile, IsNext
      <2>5. ASSUME NEW b \in BatchId, SkipApplied(b) PROVE TInv'
            BY <2>5 DEF SkipApplied, NextFile, IsNext
      <2>6. ASSUME NEW b \in BatchId, ReplayBatch(b) PROVE TInv'
            BY <2>6, <1>2 DEF ReplayBatch, NextFile, IsNext, Thread
      <2>7. ASSUME NEW r \in Run, RecoverSession(r) PROVE TInv'
            <3>1. <<RecoveredEvent(r)>> \in Seq(Event)
                  BY <2>7 DEF RecoverSession, RecoveredEvent, Event, Recovered,
                              EventOf
            <3> QED BY <2>7, <3>1, <1>3 DEF RecoverSession, Thread
      <2>8. ASSUME NEW r \in Run, CloseSession(r) PROVE TInv'
            BY <2>8 DEF CloseSession
      <2> QED BY <1>4, <2>1, <2>2, <2>3, <2>4, <2>5, <2>6, <2>7, <2>8
              DEF Startup
<1>5. CASE Request
      <2>1. ASSUME NEW e \in Captured, Enqueue(e) PROVE TInv'
            BY <2>1 DEF Enqueue, Event
      <2>2. ASSUME NEW e \in Direct, StoreItems(e) PROVE TInv'
            <3>1. <<e>> \in Seq(Event) BY DEF Event
            <3> QED BY <2>2, <3>1, <1>3 DEF StoreItems, Thread
      <2>3. CASE Stop BY <2>3 DEF Stop
      <2> QED BY <1>5, <2>1, <2>2, <2>3 DEF Request
<1>6. CASE Loop
      <2>1. CASE Get BY <2>1 DEF Get, Running
      <2>2. CASE PollEmpty BY <2>2 DEF PollEmpty, Running
      <2>3. CASE KeepBuffering BY <2>3 DEF KeepBuffering, Running, AfterCheck
      <2>4. CASE Flush BY <2>4, <1>3 DEF Flush, Thread
      <2>5. CASE WorkerExit BY <2>5, <1>1 DEF WorkerExit
      <2> QED BY <1>6, <2>1, <2>2, <2>3, <2>4, <2>5 DEF Loop
<1>7. CASE Crash BY <1>7, <1>1 DEF Crash
<1>8. ASSUME NEW t \in Thread, Persist(t) PROVE TInv'
      <2>1. CASE FinishFile(t) BY <2>1 DEF FinishFile
      <2>2. CASE ApplyBatch(t)
            <3>1. bid[t] \in BatchId BY <2>2 DEF ApplyBatch
            <3> QED BY <2>2, <3>1, <1>2 DEF ApplyBatch
      <2>3. CASE RebuildRead(t) BY <2>3 DEF RebuildRead, EventsOf
      <2>4. CASE RebuildWrite(t)
            <3>1. WriteCase(t, [r \in Run |-> snap[t]], FALSE)
                  BY <2>4 DEF RebuildWrite
            <3>2. [r \in Run |-> snap[t]] \in [Run -> SUBSET Event]
                  OBVIOUS
            <3> HIDE DEF WriteCase
            <3> QED BY <2>4, <3>1, <3>2, <1>11 DEF RebuildWrite
      <2>5. CASE FinishBatch(t)
            <3>1. /\ buffer' = <<>> \/ buffer' = buffer
                  /\ loop' \in {"poll", "exit", loop}
                  BY <2>5, Zenon DEF FinishBatch, AfterCheck
            <3>2. buffer \in Seq(Event) /\ <<>> \in Seq(Event)
                  OBVIOUS
            <3>3. buffer' \in Seq(Event)
                  BY <3>1, <3>2, Zenon
            <3>4. loop' \in {"poll", "decide", "exit"}
                  BY <3>1
            <3> QED BY <2>5, <3>3, <3>4 DEF FinishBatch
      <2> QED BY <1>8, <2>1, <2>2, <2>3, <2>4, <2>5 DEF Persist
<1>9. ASSUME NEW t \in Thread, Fail(t) PROVE TInv'
      <2>1. CASE PersistFails(t)
            <3>1. CASE (t = "worker" /\ loop = "exit") \/ phase = "recover"
                  BY <2>1, <3>1, <1>1 DEF PersistFails
            <3>2. CASE ~((t = "worker" /\ loop = "exit") \/ phase = "recover")
                  <4>1. /\ loop' \in {"poll", "decide", "exit"}
                        /\ pc' = [pc EXCEPT ![t] = "idle"]
                        /\ bid' = [bid EXCEPT ![t] = 0]
                        /\ faults' \in 0..MaxFaults
                        /\ UNCHANGED <<phase, startVars, queue, buffer, todo, cur,
                                       snap, sent, lost, spoolVars, dbVars,
                                       caseVars>>
                        BY <2>1, <3>2 DEF PersistFails, AfterCheck
                  <4> QED BY <4>1
            <3> QED BY <3>1, <3>2
      <2>2. CASE RebuildFails(t)
            <3>1. WriteCase(t, cases, TRUE) BY <2>2 DEF RebuildFails
            <3>2. /\ cases' \in [Run -> SUBSET Event] /\ unsafe' \subseteq Run
                  /\ pc' = [pc EXCEPT ![t] = "rebuild"]
                  /\ cur' \in [Thread -> SUBSET Run]
                  /\ snap' \in [Thread -> SUBSET Event]
                  BY <3>1, <1>11
            <3> QED BY <2>2, <3>2 DEF RebuildFails
      <2> QED BY <1>9, <2>1, <2>2 DEF Fail
<1>10. CASE UNCHANGED vars BY <1>10 DEF vars
<1> QED BY <1>4, <1>5, <1>6, <1>7, <1>8, <1>9, <1>10 DEF Next

\* Every variable keeps its type, whatever the constants are.
THEOREM TypeCorrect == Spec => []TypeOK
<1>1. Spec => []TInv BY TInvInit, TInvNext, PTL DEF Spec
<1> QED BY <1>1, PTL DEF TInv

-----------------------------------------------------------------------------
(* The spool and the store.  What makes the invariants inductive: a thread  *)
(* in the middle of a batch has its file on disk, complete once it is past  *)
(* writing it, and the worker's batch holds its whole buffer until          *)
(* FinishBatch empties it.                                                  *)

FilesHoldEvents == \A b \in BatchId : disk[b] # "absent" => items[b] # <<>>

BatchInHand ==
    \A t \in Thread : pc[t] # "idle" =>
        /\ disk[bid[t]] # "absent"
        /\ pc[t] # "write" => disk[bid[t]] = "whole"

BufferInHand == pc["worker"] # "idle" => items[bid["worker"]] = buffer

SInv == /\ TInv
        /\ BatchesCommitWhole /\ AcceptedIsKept
        /\ FilesHoldEvents /\ BatchInHand /\ BufferInHand

LEMMA ElemsNotEmpty == ASSUME NEW S, NEW s \in Seq(S), s # <<>>
                       PROVE Elems(s) # {}
<1>1. 1 \in DOMAIN s OBVIOUS
<1>2. s[1] \in Elems(s) BY <1>1 DEF Elems
<1> QED BY <1>2

LEMMA ElemsAppend == ASSUME NEW S, NEW s \in Seq(S), NEW e \in S
                     PROVE Elems(Append(s, e)) = Elems(s) \cup {e}
<1>1. /\ DOMAIN Append(s, e) = DOMAIN s \cup {Len(s) + 1}
      /\ Append(s, e)[Len(s) + 1] = e
      /\ \A i \in DOMAIN s : Append(s, e)[i] = s[i]
      OBVIOUS
<1> QED BY <1>1, Zenon DEF Elems

LEMMA ElemsTail == ASSUME NEW S, NEW s \in Seq(S), s # <<>>
                   PROVE Elems(s) = {Head(s)} \cup Elems(Tail(s))
<1>1. 1 \in DOMAIN s /\ Head(s) = s[1] OBVIOUS
<1>2. \A i \in DOMAIN Tail(s) : i + 1 \in DOMAIN s /\ Tail(s)[i] = s[i + 1]
      OBVIOUS
<1>3. ASSUME NEW i \in DOMAIN s, i # 1
      PROVE  i - 1 \in DOMAIN Tail(s) /\ Tail(s)[i - 1] = s[i]
      <2>1. Len(Tail(s)) = Len(s) - 1 OBVIOUS
      <2>2. i - 1 \in 1..Len(Tail(s)) BY <1>3, <2>1
      <2>3. i - 1 \in DOMAIN Tail(s) BY <2>2
      <2>4. i - 1 + 1 = i BY <1>3
      <2> QED BY <2>3, <2>4, <1>2
<1>4. Elems(Tail(s)) \subseteq Elems(s) BY <1>2 DEF Elems
<1>5. Elems(s) \subseteq {Head(s)} \cup Elems(Tail(s))
      BY <1>1, <1>3 DEF Elems
<1>6. Head(s) \in Elems(s) BY <1>1 DEF Elems
<1> QED BY <1>4, <1>5, <1>6

LEMMA SInvInit == Init => SInv
<1> SUFFICES ASSUME Init PROVE SInv
    OBVIOUS
<1>1. TInv BY TInvInit
<1>2. applied = {} /\ table = {} BY DEF Init
<1>3. BatchesCommitWhole BY <1>2 DEF BatchesCommitWhole
<1> QED BY <1>1, <1>3
        DEF SInv, Init, AcceptedIsKept, FilesHoldEvents, BatchInHand,
            BufferInHand, Thread

\* A step that moves no event: threads only go on, or give up, with the batch
\* they have.
LEMMA QuietStep ==
    ASSUME SInv, TInv',
           UNCHANGED <<items, disk, applied, table, sent, lost, queue, buffer>>,
           \A t \in Thread : pc'[t] # "idle" =>
               /\ pc[t] # "idle" /\ bid'[t] = bid[t]
               /\ pc[t] = "write" => pc'[t] = "write"
    PROVE  SInv'
<1>1. Durable' = Durable /\ Written' = Written /\ InMemory' = InMemory
      BY DEF Durable, Written, InMemory
<1>2. BatchesCommitWhole' BY <1>1 DEF SInv, BatchesCommitWhole
<1>3. AcceptedIsKept' BY <1>1 DEF SInv, AcceptedIsKept
<1>4. FilesHoldEvents' BY DEF SInv, FilesHoldEvents
<1>5. BatchInHand' BY DEF SInv, BatchInHand
<1>6. BufferInHand' BY DEF SInv, BufferInHand, Thread
<1> QED BY <1>2, <1>3, <1>4, <1>5, <1>6 DEF SInv

\* The process goes down: what only memory held is counted as lost.
LEMMA GoDownStep ==
    ASSUME SInv, TInv', GoDown, UNCHANGED <<items, disk, applied, table>>
    PROVE  SInv'
<1>1. Durable' = Durable /\ Written' = Written
      BY DEF Durable, Written
<1>2. lost' = lost \cup (InMemory \ Durable) /\ sent' = sent
      BY DEF GoDown
<1>3. BatchesCommitWhole' BY <1>1 DEF SInv, BatchesCommitWhole
<1>4. AcceptedIsKept' BY <1>1, <1>2 DEF SInv, AcceptedIsKept
<1>5. FilesHoldEvents' BY DEF SInv, FilesHoldEvents
<1>6. BatchInHand' /\ BufferInHand'
      BY DEF GoDown, BatchInHand, BufferInHand, Thread
<1> QED BY <1>3, <1>4, <1>5, <1>6 DEF SInv

\* A new batch takes an id no complete file has.
LEMMA BeginStep ==
    ASSUME SInv, TInv', NEW t \in Thread, NEW s \in Seq(Event),
           BeginBatch(t, s), s # <<>>, t = "worker" => s = buffer,
           UNCHANGED <<queue, buffer>>
    PROVE  SInv'
<1> USE DEF SInv, TInv, TypeOK, dbVars, envVars
<1>1. PICK b \in BatchId :
          /\ disk[b] = "absent"
          /\ items' = [items EXCEPT ![b] = s]
          /\ disk' = [disk EXCEPT ![b] = "torn"]
          /\ bid' = [bid EXCEPT ![t] = b]
      BY DEF BeginBatch
<1>2. /\ pc' = [pc EXCEPT ![t] = "write"]
      /\ UNCHANGED <<applied, table, sent, lost>>
      BY DEF BeginBatch
<1>3. /\ Written' = Written
      /\ \A c \in Written : c # b /\ items'[c] = items[c]
      BY <1>1 DEF Written
<1>4. Durable' = Durable
      BY <1>3 DEF Durable
<1>5. BatchesCommitWhole'
      BY <1>2, <1>3 DEF BatchesCommitWhole
<1>6. AcceptedIsKept'
      BY <1>2, <1>4 DEF AcceptedIsKept, InMemory
<1>7. FilesHoldEvents'
      BY <1>1 DEF FilesHoldEvents
<1>8. BatchInHand'
      BY <1>1, <1>2 DEF BatchInHand
<1>9. BufferInHand'
      <2>1. CASE t = "worker" BY <2>1, <1>1, <1>2 DEF BufferInHand, Thread
      <2>2. CASE t # "worker"
            <3>1. pc'["worker"] = pc["worker"] /\ bid'["worker"] = bid["worker"]
                  BY <2>2, <1>1, <1>2 DEF Thread
            <3>2. pc["worker"] # "idle" => bid["worker"] # b
                  BY <1>1 DEF BatchInHand, Thread
            <3> QED BY <3>1, <3>2, <1>1 DEF BufferInHand, Thread
      <2> QED BY <2>1, <2>2
<1> QED BY <1>5, <1>6, <1>7, <1>8, <1>9

\* The transaction of a complete batch.
LEMMA CommitStep ==
    ASSUME SInv, TInv', NEW t \in Thread, NEW b \in BatchId,
           CommitBatch(t, b), disk[b] = "whole", bid' = [bid EXCEPT ![t] = b],
           t = "worker" => items[b] = buffer,
           UNCHANGED <<items, disk, sent, lost, queue, buffer>>
    PROVE  SInv'
<1> USE DEF SInv, TInv, TypeOK
<1>1. /\ applied' = applied \cup {b} /\ table' = table \cup Elems(items[b])
      /\ pc' = [pc EXCEPT ![t] = "rebuild"]
      BY DEF CommitBatch
<1>2. Durable' = Durable /\ Written' = Written /\ InMemory' = InMemory
      BY DEF Durable, Written, InMemory
<1>3. BatchesCommitWhole'
      <2>1. applied' \subseteq Written'
            BY <1>1, <1>2 DEF BatchesCommitWhole, Written
      <2>2. table' = UNION {Elems(items[c]) : c \in applied'}
            BY <1>1 DEF BatchesCommitWhole
      <2> QED BY <2>1, <2>2 DEF BatchesCommitWhole
<1>4. AcceptedIsKept' BY <1>2 DEF AcceptedIsKept
<1>5. FilesHoldEvents' BY DEF FilesHoldEvents
<1>6. BatchInHand' BY <1>1 DEF BatchInHand
<1>7. BufferInHand' BY <1>1 DEF BufferInHand, Thread
<1> QED BY <1>3, <1>4, <1>5, <1>6, <1>7

\* The file of thread t's batch is complete.
LEMMA FinishFileStep ==
    ASSUME SInv, TInv', NEW t \in Thread, FinishFile(t)
    PROVE  SInv'
<1> USE DEF SInv, TInv, TypeOK, dbVars, envVars, memVars
<1>1. /\ pc[t] = "write" /\ bid[t] \in BatchId
      /\ disk' = [disk EXCEPT ![bid[t]] = "whole"]
      /\ pc' = [pc EXCEPT ![t] = "apply"]
      /\ UNCHANGED <<queue, buffer, bid, items, applied, table, sent, lost>>
      BY DEF FinishFile
<1>2. Written' = Written \cup {bid[t]}
      BY <1>1 DEF Written
<1>3. Durable \subseteq Durable' /\ InMemory' = InMemory
      BY <1>1, <1>2 DEF Durable, InMemory
<1>4. BatchesCommitWhole' BY <1>1, <1>2 DEF BatchesCommitWhole
<1>5. AcceptedIsKept' BY <1>1, <1>3 DEF AcceptedIsKept
<1>6. FilesHoldEvents'
      <2>1. disk[bid[t]] # "absent" BY <1>1 DEF BatchInHand
      <2> QED BY <2>1, <1>1 DEF FilesHoldEvents
<1>7. BatchInHand' BY <1>1 DEF BatchInHand
<1>8. BufferInHand' BY <1>1 DEF BufferInHand, Thread
<1> QED BY <1>4, <1>5, <1>6, <1>7, <1>8

\* apply_batch returns: the events of the worker's buffer are on disk, so the
\* buffer can go.
LEMMA FinishBatchStep ==
    ASSUME SInv, TInv', NEW t \in Thread, FinishBatch(t)
    PROVE  SInv'
<1> USE DEF SInv, TInv, TypeOK, dbVars, envVars, spoolVars
<1>1. /\ pc[t] = "rebuild" /\ bid[t] \in BatchId
      /\ pc' = [pc EXCEPT ![t] = "idle"] /\ bid' = [bid EXCEPT ![t] = 0]
      /\ UNCHANGED <<queue, items, disk, applied, table, sent, lost>>
      BY DEF FinishBatch
<1>2. CASE t # "worker"
      <2>1. UNCHANGED buffer BY <1>2 DEF FinishBatch
      <2> QED BY <2>1, <1>1, QuietStep
<1>3. CASE t = "worker"
      <2>1. buffer' = <<>> BY <1>3 DEF FinishBatch
      <2>2. items[bid[t]] = buffer /\ disk[bid[t]] = "whole"
            BY <1>1, <1>3 DEF BufferInHand, BatchInHand
      <2>3. Elems(buffer) \subseteq Durable
            BY <1>1, <2>2 DEF Durable, Written
      <2>4. Durable' = Durable /\ Written' = Written
            BY <1>1 DEF Durable, Written
      <2>5. InMemory \subseteq InMemory' \cup Durable'
            BY <1>1, <2>3, <2>4 DEF InMemory
      <2>6. BatchesCommitWhole' BY <1>1, <2>4 DEF BatchesCommitWhole
      <2>7. AcceptedIsKept' BY <1>1, <2>4, <2>5 DEF AcceptedIsKept
      <2>8. FilesHoldEvents' BY <1>1 DEF FilesHoldEvents
      <2>9. BatchInHand' BY <1>1 DEF BatchInHand
      <2>10. BufferInHand' BY <1>1, <1>3 DEF BufferInHand, Thread
      <2> QED BY <2>6, <2>7, <2>8, <2>9, <2>10
<1> QED BY <1>2, <1>3

\* An event moves from the client to the queue, or from there to the buffer.
LEMMA MemoryStep ==
    ASSUME SInv, TInv', Get \/ \E e \in Captured : Enqueue(e)
    PROVE  SInv'
<1> USE DEF SInv, TInv, TypeOK, dbVars, spoolVars, jobVars
<1>1. UNCHANGED <<pc, bid, items, disk, applied, table, lost>>
      BY DEF Get, Enqueue, envVars
<1>2. Durable' = Durable /\ Written' = Written
      BY <1>1 DEF Durable, Written
<1>3. AcceptedIsKept'
      <2>1. CASE Get
            <3>1. /\ queue \in Seq(Event) /\ buffer \in Seq(Event) /\ queue # <<>>
                  /\ buffer' = Append(buffer, Head(queue))
                  /\ queue' = Tail(queue) /\ sent' = sent
                  BY <2>1 DEF Get, envVars
            <3>2. Elems(buffer') = Elems(buffer) \cup {Head(queue)}
                  BY <3>1, ElemsAppend
            <3>3. Elems(queue) = {Head(queue)} \cup Elems(queue')
                  BY <3>1, ElemsTail
            <3>5. InMemory' = InMemory
                  BY <3>2, <3>3 DEF InMemory
            <3> QED BY <3>1, <3>5, <1>1, <1>2 DEF AcceptedIsKept
      <2>2. ASSUME NEW e \in Captured, Enqueue(e) PROVE AcceptedIsKept'
            <3>1. /\ queue \in Seq(Event) /\ queue' = Append(queue, e)
                  /\ buffer' = buffer /\ sent' = [sent EXCEPT ![e] = @ + 1]
                  BY <2>2 DEF Enqueue
            <3>2. e \in Event BY DEF Event
            <3>3. Elems(queue') = Elems(queue) \cup {e}
                  BY <3>1, <3>2, ElemsAppend
            <3>5. InMemory' = InMemory \cup {e}
                  BY <3>1, <3>3 DEF InMemory
            <3>6. \A f \in Captured : f # e => sent'[f] = sent[f]
                  BY <3>1
            <3> QED BY <3>5, <3>6, <1>1, <1>2 DEF AcceptedIsKept
      <2> QED BY <2>1, <2>2
<1>4. BatchesCommitWhole' BY <1>1, <1>2 DEF BatchesCommitWhole
<1>5. FilesHoldEvents' BY <1>1 DEF FilesHoldEvents
<1>6. BatchInHand' BY <1>1 DEF BatchInHand
<1>7. BufferInHand'
      <2>1. pc["worker"] = "idle" \/ buffer' = buffer
            BY DEF Get, Running, Idle, Enqueue
      <2> QED BY <2>1, <1>1 DEF BufferInHand
<1> QED BY <1>3, <1>4, <1>5, <1>6, <1>7

LEMMA SInvNext == SInv /\ [Next]_vars => SInv'
<1> SUFFICES ASSUME SInv, [Next]_vars PROVE SInv'
    OBVIOUS
<1>0. TInv' BY TInvNext DEF SInv
<1> USE <1>0 DEF startVars, memVars, jobVars, spoolVars, dbVars, caseVars, envVars
<1>1. CASE Startup
      <2>1. CASE Boot BY <2>1, QuietStep DEF Boot
      <2>2. CASE ReplayDone BY <2>2, QuietStep DEF ReplayDone
      <2>3. CASE StartupDone BY <2>3, QuietStep DEF StartupDone
      <2>4. ASSUME NEW b \in BatchId, Quarantine(b) PROVE SInv'
            BY <2>4, QuietStep DEF Quarantine
      <2>5. ASSUME NEW b \in BatchId, SkipApplied(b) PROVE SInv'
            BY <2>5, QuietStep DEF SkipApplied
      <2>6. ASSUME NEW b \in BatchId, ReplayBatch(b) PROVE SInv'
            <3> "server" \in Thread /\ "server" # "worker" BY DEF Thread
            <3> QED BY <2>6, CommitStep DEF ReplayBatch, NextFile, IsNext
      <2>7. ASSUME NEW r \in Run, RecoverSession(r) PROVE SInv'
            <3>1. RecoveredEvent(r) \in Event
                  BY <2>7, BoundAssumption
                  DEF RecoverSession, RecoveredEvent, Event, Recovered, EventOf,
                      SInv, TInv
            <3>2. <<RecoveredEvent(r)>> \in Seq(Event) /\ <<RecoveredEvent(r)>> # <<>>
                  BY <3>1
            <3> QED BY <2>7, <3>2, BeginStep DEF RecoverSession, Thread
      <2>8. ASSUME NEW r \in Run, CloseSession(r) PROVE SInv'
            BY <2>8, QuietStep DEF CloseSession
      <2> QED BY <1>1, <2>1, <2>2, <2>3, <2>4, <2>5, <2>6, <2>7, <2>8
              DEF Startup
<1>2. CASE Request
      <2>1. ASSUME NEW e \in Captured, Enqueue(e) PROVE SInv'
            BY <2>1, MemoryStep
      <2>2. ASSUME NEW e \in Direct, StoreItems(e) PROVE SInv'
            <3>1. <<e>> \in Seq(Event) /\ <<e>> # <<>> BY DEF Event
            <3> QED BY <2>2, <3>1, BeginStep DEF StoreItems, Thread
      <2>3. CASE Stop BY <2>3, QuietStep DEF Stop
      <2> QED BY <1>2, <2>1, <2>2, <2>3 DEF Request
<1>3. CASE Loop
      <2>1. CASE Get BY <2>1, MemoryStep
      <2>2. CASE PollEmpty BY <2>2, QuietStep DEF PollEmpty
      <2>3. CASE KeepBuffering BY <2>3, QuietStep DEF KeepBuffering
      <2>4. CASE Flush
            BY <2>4, BeginStep DEF Flush, Thread, SInv, TInv, TypeOK
      <2>5. CASE WorkerExit BY <2>5, GoDownStep DEF WorkerExit
      <2> QED BY <1>3, <2>1, <2>2, <2>3, <2>4, <2>5 DEF Loop
<1>4. CASE Crash BY <1>4, GoDownStep DEF Crash
<1>5. ASSUME NEW t \in Thread, Persist(t) PROVE SInv'
      <2> USE DEF SInv, TInv, TypeOK
      <2>1. CASE FinishFile(t) BY <2>1, FinishFileStep
      <2>2. CASE ApplyBatch(t)
            <3>1. /\ bid[t] \in BatchId /\ disk[bid[t]] = "whole"
                  /\ bid' = [bid EXCEPT ![t] = bid[t]]
                  /\ t = "worker" => items[bid[t]] = buffer
                  BY <2>2 DEF ApplyBatch, BatchInHand, BufferInHand
            <3> QED BY <2>2, <3>1, CommitStep DEF ApplyBatch
      <2>3. CASE RebuildRead(t) BY <2>3, QuietStep DEF RebuildRead
      <2>4. CASE RebuildWrite(t) BY <2>4, QuietStep DEF RebuildWrite, WriteCase
      <2>5. CASE FinishBatch(t) BY <2>5, FinishBatchStep
      <2> QED BY <1>5, <2>1, <2>2, <2>3, <2>4, <2>5 DEF Persist
<1>6. ASSUME NEW t \in Thread, Fail(t) PROVE SInv'
      <2> USE DEF SInv, TInv, TypeOK
      <2>1. CASE PersistFails(t) /\ GoDown
            BY <2>1, GoDownStep DEF PersistFails
      <2>2. CASE PersistFails(t) /\ ~GoDown
            <3>1. /\ pc' = [pc EXCEPT ![t] = "idle"]
                  /\ bid' = [bid EXCEPT ![t] = 0]
                  /\ UNCHANGED <<items, disk, applied, table, sent, lost, queue,
                                 buffer>>
                  BY <2>2 DEF PersistFails
            <3> QED BY <3>1, QuietStep
      <2>3. CASE RebuildFails(t) BY <2>3, QuietStep DEF RebuildFails, WriteCase
      <2> QED BY <1>6, <2>1, <2>2, <2>3 DEF Fail
<1>7. CASE UNCHANGED vars BY <1>7, QuietStep DEF vars
<1> QED BY <1>1, <1>2, <1>3, <1>4, <1>5, <1>6, <1>7 DEF Next

LEMMA SInvHolds == Spec => []SInv
BY SInvInit, SInvNext, PTL DEF Spec

\* The case store holds exactly the events of the batches it says it applied,
\* each complete in the spool, whatever crashes, raises or comes twice.
THEOREM StoreMatchesSpool == Spec => []BatchesCommitWhole
BY SInvHolds, PTL DEF SInv

\* An event the gateway answered 202 for is in memory or on disk unless the
\* process went down with it: no failed flush, retry or replay drops one.
THEOREM NoAcceptedEventDropped == Spec => []AcceptedIsKept
BY SInvHolds, PTL DEF SInv

-----------------------------------------------------------------------------
(* The ingest path implements the abstract store.  Its log is the complete  *)
(* spool files, so only FinishFile can write to it and only a transaction   *)
(* can commit; both do it again without effect after a retry.               *)

SpoolLog == [b \in BatchId |-> IF b \in Written THEN Elems(items[b]) ELSE {}]

LEMMA RefinesInit == Init => Store!Init
BY DEF Init, Store!Init, Written

\* Every other step leaves the store alone.
LEMMA RefinesStutter ==
    ASSUME UNCHANGED <<applied, table>>, Written' = Written,
           \A b \in Written : items'[b] = items[b]
    PROVE  UNCHANGED Store!vars
<1>1. \A b \in BatchId : (IF b \in Written THEN Elems(items[b]) ELSE {})' =
                         (IF b \in Written THEN Elems(items[b]) ELSE {})
      OBVIOUS
<1>2. SpoolLog' = SpoolLog BY <1>1 DEF SpoolLog
<1> QED BY <1>2 DEF Store!vars, SpoolLog

LEMMA RefinesWrite ==
    ASSUME SInv, NEW t \in Thread, FinishFile(t)
    PROVE  [Store!Next]_Store!vars
<1> USE DEF SInv, TInv, TypeOK, dbVars
<1>0. PICK b \in BatchId : b = bid[t]
      BY DEF FinishFile
<1>1. /\ disk[b] # "absent" /\ items[b] \in Seq(Event)
      /\ items[b] # <<>>
      BY <1>0 DEF FinishFile, BatchInHand, FilesHoldEvents
<1>2. /\ disk' = [disk EXCEPT ![b] = "whole"]
      /\ UNCHANGED <<items, applied, table>>
      BY <1>0 DEF FinishFile
<1>3. Written' = Written \cup {b}
      BY <1>1, <1>2 DEF Written
<1>4. CASE b \in Written
      BY <1>2, <1>3, <1>4, RefinesStutter
<1>5. CASE b \notin Written
      <2>1. Elems(items[b]) # {} /\ Elems(items[b]) \subseteq Event
            BY <1>1, ElemsNotEmpty, ElemsType
      <2>2. SpoolLog[b] = {} BY <1>1, <1>5 DEF SpoolLog
      <2>3. SpoolLog' = [SpoolLog EXCEPT ![b] = Elems(items[b])]
            BY <1>1, <1>2, <1>3, <1>5 DEF SpoolLog
      <2>4. SpoolLog'[b] = Elems(items[b])
            BY <1>1, <2>3 DEF SpoolLog
      <2>5. Store!Write(b)
            BY <1>2, <2>1, <2>2, <2>3, <2>4 DEF Store!Write, SpoolLog
      <2> QED BY <1>1, <2>5 DEF Store!Next
<1> QED BY <1>4, <1>5

LEMMA RefinesCommit ==
    ASSUME SInv, NEW t \in Thread, NEW b \in BatchId,
           CommitBatch(t, b), disk[b] = "whole", UNCHANGED <<items, disk>>
    PROVE  [Store!Next]_Store!vars
<1> USE DEF SInv, TInv, TypeOK
<1>1. /\ applied' = applied \cup {b} /\ table' = table \cup Elems(items[b])
      BY DEF CommitBatch
<1>2. Written' = Written /\ b \in Written BY DEF Written
<1>3. CASE b \in applied
      <2>1. UNCHANGED <<applied, table>>
            BY <1>1, <1>3 DEF BatchesCommitWhole
      <2> QED BY <2>1, <1>2, RefinesStutter
<1>4. CASE b \notin applied
      <2>1. SpoolLog' = SpoolLog BY <1>2 DEF SpoolLog
      <2>2. SpoolLog[b] = Elems(items[b]) BY <1>2 DEF SpoolLog
      <2>3. items[b] \in Seq(Event) /\ items[b] # <<>>
            BY <1>2 DEF FilesHoldEvents, Written
      <2>4. SpoolLog[b] # {} BY <2>2, <2>3, ElemsNotEmpty
      <2>5. Store!Commit(b)
            BY <1>1, <1>4, <2>1, <2>2, <2>4 DEF Store!Commit, SpoolLog
      <2> QED BY <2>5 DEF Store!Next
<1> QED BY <1>3, <1>4

LEMMA RefinesBegin ==
    ASSUME SInv, NEW t \in Thread, NEW s, BeginBatch(t, s)
    PROVE  UNCHANGED Store!vars
<1> USE DEF SInv, TInv, TypeOK, dbVars
<1>1. PICK b \in BatchId :
          /\ disk[b] = "absent"
          /\ items' = [items EXCEPT ![b] = s]
          /\ disk' = [disk EXCEPT ![b] = "torn"]
      BY DEF BeginBatch
<1>2. Written' = Written /\ \A c \in Written : items'[c] = items[c]
      BY <1>1 DEF Written
<1> QED BY <1>2, RefinesStutter DEF BeginBatch

LEMMA RefinesNext == SInv /\ [Next]_vars => [Store!Next]_Store!vars
<1> SUFFICES ASSUME SInv, [Next]_vars PROVE [Store!Next]_Store!vars
    OBVIOUS
<1>0. ASSUME UNCHANGED <<items, disk, applied, table>>
      PROVE  UNCHANGED Store!vars
      BY <1>0, RefinesStutter DEF Written
<1> USE DEF startVars, memVars, jobVars, spoolVars, dbVars, caseVars, envVars
<1>1. CASE Startup
      <2>1. CASE Boot \/ ReplayDone \/ StartupDone
            BY <2>1, <1>0 DEF Boot, ReplayDone, StartupDone
      <2>2. ASSUME NEW b \in BatchId, Quarantine(b) \/ SkipApplied(b)
            PROVE  UNCHANGED Store!vars
            BY <2>2, <1>0 DEF Quarantine, SkipApplied
      <2>3. ASSUME NEW b \in BatchId, ReplayBatch(b)
            PROVE  [Store!Next]_Store!vars
            BY <2>3, RefinesCommit DEF ReplayBatch, Thread
      <2>4. ASSUME NEW r \in Run, RecoverSession(r) PROVE UNCHANGED Store!vars
            BY <2>4, RefinesBegin DEF RecoverSession, Thread
      <2>5. ASSUME NEW r \in Run, CloseSession(r) PROVE UNCHANGED Store!vars
            BY <2>5, <1>0 DEF CloseSession
      <2> QED BY <1>1, <2>1, <2>2, <2>3, <2>4, <2>5 DEF Startup
<1>2. CASE Request
      <2>1. ASSUME NEW e \in Captured, Enqueue(e) PROVE UNCHANGED Store!vars
            BY <2>1, <1>0 DEF Enqueue
      <2>2. ASSUME NEW e \in Direct, StoreItems(e) PROVE UNCHANGED Store!vars
            BY <2>2, RefinesBegin DEF StoreItems, Thread
      <2>3. CASE Stop BY <2>3, <1>0 DEF Stop
      <2> QED BY <1>2, <2>1, <2>2, <2>3 DEF Request
<1>3. CASE Loop
      <2>1. CASE Flush BY <2>1, RefinesBegin DEF Flush, Thread
      <2>2. CASE Get \/ PollEmpty \/ KeepBuffering \/ WorkerExit
            BY <2>2, <1>0 DEF Get, PollEmpty, KeepBuffering, WorkerExit
      <2> QED BY <1>3, <2>1, <2>2 DEF Loop
<1>4. CASE Crash BY <1>4, <1>0 DEF Crash
<1>5. ASSUME NEW t \in Thread, Persist(t) PROVE [Store!Next]_Store!vars
      <2>1. CASE FinishFile(t) BY <2>1, RefinesWrite
      <2>2. CASE ApplyBatch(t)
            <3>1. bid[t] \in BatchId /\ disk[bid[t]] = "whole"
                  BY <2>2 DEF ApplyBatch, SInv, TInv, BatchInHand
            <3> QED BY <2>2, <3>1, RefinesCommit DEF ApplyBatch
      <2>3. CASE RebuildRead(t) \/ RebuildWrite(t) \/ FinishBatch(t)
            BY <2>3, <1>0 DEF RebuildRead, RebuildWrite, FinishBatch
      <2> QED BY <1>5, <2>1, <2>2, <2>3 DEF Persist
<1>6. ASSUME NEW t \in Thread, Fail(t) PROVE UNCHANGED Store!vars
      BY <1>6, <1>0 DEF Fail, PersistFails, RebuildFails
<1>7. CASE UNCHANGED vars BY <1>7, <1>0 DEF vars
<1> QED BY <1>1, <1>2, <1>3, <1>4, <1>5, <1>6, <1>7 DEF Next

\* The worker thread, the server thread, crashes, retries and replays together
\* do nothing to the spool and the store but write a batch once and commit it
\* once, as a whole, after it was written.
THEOREM ImplementsStore == Spec => StoreSpec
<1>1. Spec => Store!Init /\ [][Store!Next]_Store!vars
      BY SInvHolds, RefinesInit, RefinesNext, PTL DEF Spec
<1> QED BY <1>1 DEF StoreSpec, Store!Spec

-----------------------------------------------------------------------------
(* A nonempty set of natural numbers has a least element, and a greatest    *)
(* one if it is bounded.                                                    *)

Less == {p \in Nat \X Nat : p[1] < p[2]}

LEMMA LessWellFounded == IsWellFoundedOn(Less, Nat)
BY NatLessThanWellFounded DEF OpToRel, Less

LEMMA Least == ASSUME NEW T, T \subseteq Nat, T # {}
               PROVE \E i \in T : \A j \in T : i <= j
<1>1. PICK i \in T : \A j \in T : ~(<<j, i>> \in Less)
      BY LessWellFounded, WFMin, Zenon
<1>2. ASSUME NEW j \in T PROVE i <= j
      <2>1. i \in Nat /\ j \in Nat OBVIOUS
      <2>2. <<j, i>> \in Less <=> j < i BY <2>1 DEF Less
      <2> QED BY <1>1, <2>1, <2>2
<1> QED BY <1>2

LEMMA Greatest == ASSUME NEW n \in Nat, NEW T, T \subseteq 0..n, T # {}
                  PROVE \E i \in T : \A j \in T : j <= i
<1> DEFINE U == {n - i : i \in T}
<1>0. \A i \in T : i \in 0..n OBVIOUS
<1>1. U \subseteq Nat /\ U # {}
      <2>1. \A i \in T : n - i \in Nat BY <1>0
      <2> QED BY <2>1
<1>2. PICK u \in U : \A v \in U : u <= v BY <1>1, Least
<1>3. PICK i \in T : u = n - i OBVIOUS
<1>4. ASSUME NEW j \in T PROVE j <= i
      <2>1. n - j \in U OBVIOUS
      <2>2. n - i <= n - j BY <1>2, <1>3, <2>1
      <2>3. i \in 0..n /\ j \in 0..n BY <1>0
      <2> QED BY <2>2, <2>3
<1> QED BY <1>4

-----------------------------------------------------------------------------
(* What a transaction adds.                                                 *)

\* An event that is not stored yet has a first place in its batch.
LEMMA FirstPlace ==
    ASSUME NEW s \in Seq(Event), NEW e \in Elems(s), e \notin table
    PROVE  \E i \in NewAt(s) : s[i] = e
<1> DEFINE T == {i \in DOMAIN s : s[i] = e}
<1>1. T \subseteq Nat /\ T # {} BY DEF Elems
<1>2. PICK i \in T : \A j \in T : i <= j BY <1>1, Least
<1>3. ASSUME NEW j \in DOMAIN s, j < i PROVE s[j] # s[i]
      <2>1. j \in Nat /\ i \in Nat OBVIOUS
      <2>2. j \notin T BY <1>2, <1>3, <2>1
      <2> QED BY <2>2
<1> QED BY <1>3 DEF NewAt

\* A transaction keeps the sessions of the runs it does not end.
LEMMA CommitKeepsOpen ==
    ASSUME TypeOK, UnfinishedRunStaysOpen, NEW s \in Seq(Event),
           table' = table \cup Elems(s), open' = OpenAfter(s)
    PROVE  UnfinishedRunStaysOpen'
<1> SUFFICES ASSUME NEW r \in Run, EventsOf(r)' # {},
                    \A e \in EventsOf(r)' : e.kind \notin Terminal
             PROVE  r \in open'
    BY DEF UnfinishedRunStaysOpen
<1>1. CASE NewOfRun(s, r) = {}
      <2>1. ASSUME NEW e \in Elems(s), e.run = r PROVE e \in table
            <3>1. ASSUME e \notin table PROVE FALSE
                  <4>1. PICK i \in NewAt(s) : s[i] = e BY <3>1, FirstPlace
                  <4>2. i \in NewOfRun(s, r) BY <2>1, <4>1 DEF NewOfRun
                  <4> QED BY <1>1, <4>2
            <3> QED BY <3>1
      <2>2. EventsOf(r)' = EventsOf(r) BY <2>1 DEF EventsOf
      <2>3. r \in open BY <2>2 DEF UnfinishedRunStaysOpen
      <2> QED BY <1>1, <2>3 DEF OpenAfter
<1>2. CASE NewOfRun(s, r) # {}
      <2>1. NewOfRun(s, r) \subseteq DOMAIN s BY DEF NewOfRun, NewAt
      <2>2. NewOfRun(s, r) \subseteq 0..Len(s) BY <2>1
      <2>3. PICK i \in NewOfRun(s, r) : \A j \in NewOfRun(s, r) : j <= i
            BY <1>2, <2>2, Greatest
      <2>4. s[i] \in EventsOf(r)' BY <2>1 DEF EventsOf, Elems, NewOfRun
      <2> QED BY <1>2, <2>3, <2>4 DEF OpenAfter
<1> QED BY <1>1, <1>2

-----------------------------------------------------------------------------
(* Sessions.                                                                *)

OInv == TInv /\ UnfinishedRunStaysOpen

LEMMA OInvInit == Init => OInv
BY TInvInit DEF OInv, UnfinishedRunStaysOpen, EventsOf, Init

LEMMA OInvNext == OInv /\ [Next]_vars => OInv'
<1> SUFFICES ASSUME OInv, [Next]_vars PROVE UnfinishedRunStaysOpen'
    BY TInvNext DEF OInv
<1>1. ASSUME UNCHANGED <<table, open>> PROVE UnfinishedRunStaysOpen'
      BY <1>1 DEF OInv, UnfinishedRunStaysOpen, EventsOf
<1>2. ASSUME NEW t \in Thread, NEW b \in BatchId, CommitBatch(t, b)
      PROVE  UnfinishedRunStaysOpen'
      <2>1. items[b] \in Seq(Event) BY DEF OInv, TInv, TypeOK
      <2> QED BY <1>2, <2>1, CommitKeepsOpen DEF CommitBatch, OInv, TInv
<1>3. ASSUME NEW r \in Run, CloseSession(r) PROVE UnfinishedRunStaysOpen'
      <2>1. /\ RecoveredEvent(r) \in EventsOf(r)
            /\ RecoveredEvent(r).kind \in Terminal
            BY <1>3 DEF CloseSession, EventsOf, RecoveredEvent, Terminal
      <2>2. open' = open \ {r} /\ table' = table
            BY <1>3 DEF CloseSession
      <2> QED BY <2>1, <2>2 DEF OInv, UnfinishedRunStaysOpen, EventsOf
<1> USE DEF dbVars
<1>4. CASE Startup
      <2>1. CASE Boot \/ ReplayDone \/ StartupDone
            BY <2>1, <1>1 DEF Boot, ReplayDone, StartupDone
      <2>2. ASSUME NEW b \in BatchId, Quarantine(b) \/ SkipApplied(b)
            PROVE  UnfinishedRunStaysOpen'
            BY <2>2, <1>1 DEF Quarantine, SkipApplied
      <2>3. ASSUME NEW b \in BatchId, ReplayBatch(b)
            PROVE  UnfinishedRunStaysOpen'
            BY <2>3, <1>2 DEF ReplayBatch, Thread
      <2>4. ASSUME NEW r \in Run, RecoverSession(r)
            PROVE  UnfinishedRunStaysOpen'
            BY <2>4, <1>1 DEF RecoverSession, BeginBatch
      <2> QED BY <1>4, <1>3, <2>1, <2>2, <2>3, <2>4 DEF Startup
<1>5. CASE Request \/ Loop \/ Crash
      BY <1>5, <1>1
      DEF Request, Loop, Crash, Enqueue, StoreItems, Stop, Get, PollEmpty,
          KeepBuffering, Flush, WorkerExit, BeginBatch
<1>6. ASSUME NEW t \in Thread, Persist(t) PROVE UnfinishedRunStaysOpen'
      <2>1. CASE ApplyBatch(t)
            <3>1. bid[t] \in BatchId BY <2>1 DEF ApplyBatch, OInv, TInv
            <3> QED BY <2>1, <3>1, <1>2 DEF ApplyBatch
      <2>2. CASE ~ApplyBatch(t)
            BY <1>6, <2>2, <1>1
            DEF Persist, FinishFile, RebuildRead, RebuildWrite, FinishBatch
      <2> QED BY <2>1, <2>2
<1>7. ASSUME NEW t \in Thread, Fail(t) PROVE UnfinishedRunStaysOpen'
      BY <1>7, <1>1 DEF Fail, PersistFails, RebuildFails
<1>8. CASE UNCHANGED vars BY <1>8, <1>1 DEF vars
<1> QED BY <1>4, <1>5, <1>6, <1>7, <1>8 DEF Next

\* A run whose stored events do not end it has its session row, in every state
\* a crash could leave, so that the next start closes it; also when replay
\* applies the batches of the run out of order.
THEOREM UnfinishedRunIsRecoverable == Spec => []UnfinishedRunStaysOpen
<1>1. Spec => []OInv BY OInvInit, OInvNext, PTL DEF Spec
<1> QED BY <1>1, PTL DEF OInv

LEMMA OpensOnNew ==
    ASSUME TInv, [Next]_vars, NEW r \in open', r \notin open
    PROVE  \E e \in table' \ table : e.run = r
<1>1. ASSUME NEW t \in Thread, NEW b \in BatchId, CommitBatch(t, b)
      PROVE  \E e \in table' \ table : e.run = r
      <2> DEFINE s == items[b]
      <2>1. open' = OpenAfter(s) /\ table' = table \cup Elems(s)
            BY <1>1 DEF CommitBatch
      <2>2. NewOfRun(s, r) # {} BY <2>1 DEF OpenAfter
      <2>3. PICK i \in NewOfRun(s, r) : TRUE BY <2>2
      <2>4. s[i] \in Elems(s) /\ s[i] \notin table /\ s[i].run = r
            BY <2>3 DEF NewOfRun, NewAt, Elems
      <2> QED BY <2>1, <2>4
<1>2. ~(open' \subseteq open) OBVIOUS
<1>3. ~UNCHANGED dbVars /\ \A q \in Run : ~CloseSession(q)
      BY <1>2 DEF dbVars, CloseSession
<1>4. \/ \E t \in Thread : ApplyBatch(t)
      \/ \E b \in BatchId : ReplayBatch(b)
      BY <1>3
      DEF Next, vars, Startup, Request, Loop, Crash, Persist, Fail, Boot,
          ReplayDone, StartupDone, Quarantine, SkipApplied, RecoverSession,
          Enqueue, StoreItems, Stop, Get, PollEmpty, KeepBuffering, Flush,
          WorkerExit, FinishFile, RebuildRead, RebuildWrite, FinishBatch,
          PersistFails, RebuildFails, BeginBatch
<1>5. ASSUME NEW t \in Thread, ApplyBatch(t)
      PROVE  \E e \in table' \ table : e.run = r
      BY <1>1, <1>5 DEF ApplyBatch, TInv
<1>6. ASSUME NEW b \in BatchId, ReplayBatch(b)
      PROVE  \E e \in table' \ table : e.run = r
      BY <1>1, <1>6 DEF ReplayBatch, Thread
<1> QED BY <1>4, <1>5, <1>6

\* No resend, retry or replay of stored events re-opens a run.
THEOREM StoredEventsOpenNothing == Spec => OpensOnlyOnNewEvent
<1>1. TInv /\ [Next]_vars =>
      [\A r \in open' \ open : \E e \in table' \ table : e.run = r]_vars
      BY OpensOnNew
<1>2. Spec => []TInv BY TInvInit, TInvNext, PTL DEF Spec
<1> QED BY <1>1, <1>2, PTL DEF Spec, OpensOnlyOnNewEvent

-----------------------------------------------------------------------------
(* A start.  Until the process serves, the worker thread waits and the      *)
(* server thread looks at every file that the last process left.            *)

\* Who persists nothing has no batch.
NoneInHand == \A t \in Thread : pc[t] = "idle" => bid[t] = 0

WorkerWaits ==
    /\ phase \in {"down", "replay", "recover"} => pc["worker"] = "idle"
    /\ phase = "down" => pc["server"] = "idle"

\* The replay writes no file, and passes none by.
ReplayInHand ==
    phase = "replay" => /\ pc["server"] \notin {"write", "apply"}
                        /\ Written \subseteq applied \cup corrupt \cup pending

\* The recovery writes a file of its own that only ends a run, one at a time.
RecoverInHand ==
    phase = "recover" =>
        /\ Written \subseteq applied \cup corrupt \cup {bid["server"]}
        /\ pc["server"] \in {"rebuild", "project"} => bid["server"] \in applied
        /\ pc["server"] \in {"write", "apply"} =>
              \A e \in Elems(items[bid["server"]]) : e.kind \in Terminal
        /\ open \subseteq orphans

StartInv == SInv /\ NoneInHand /\ WorkerWaits /\ ReplayInHand /\ RecoverInHand

LEMMA StartInvInit == Init => StartInv
BY SInvInit DEF StartInv, Init, NoneInHand, WorkerWaits, ReplayInHand, RecoverInHand, Thread

\* While the process serves, or goes down, nothing is said of the replay.
LEMMA ServingStep ==
    ASSUME SInv', NoneInHand', phase' \in {"up", "stopping"}
    PROVE  StartInv'
BY DEF StartInv, WorkerWaits, ReplayInHand, RecoverInHand

LEMMA DownStep ==
    ASSUME SInv', GoDown
    PROVE  StartInv'
<1>1. NoneInHand' BY DEF GoDown, NoneInHand
<1> QED BY <1>1 DEF GoDown, StartInv, WorkerWaits, ReplayInHand, RecoverInHand, Thread

\* Events that end their runs open none.
LEMMA EndsOpenNothing ==
    ASSUME NEW s \in Seq(Event), \A e \in Elems(s) : e.kind \in Terminal
    PROVE  OpenAfter(s) \subseteq open
<1> SUFFICES ASSUME NEW r \in OpenAfter(s), r \notin open PROVE FALSE
    OBVIOUS
<1>1. PICK i \in NewOfRun(s, r) : s[i].kind \notin Terminal
      BY DEF OpenAfter
<1>2. s[i] \in Elems(s) BY <1>1 DEF NewOfRun, NewAt, Elems
<1> QED BY <1>1, <1>2

\* The steps of start() but for the batches it applies.
LEMMA StartupStep ==
    ASSUME StartInv, SInv', Startup
    PROVE  StartInv'
<1> USE DEF startVars, memVars, jobVars, spoolVars, dbVars, caseVars, envVars
<1>0. /\ pc \in [Thread -> {"idle", "write", "apply", "rebuild", "project"}]
      /\ bid \in [Thread -> BatchId \cup {0}] /\ disk \in [BatchId -> {"absent", "torn", "whole"}]
      /\ "server" \in Thread /\ "worker" \in Thread /\ 0 \notin BatchId
      BY BoundAssumption DEF StartInv, SInv, TInv, TypeOK, Thread
<1>1. CASE Boot
      <2>1. /\ phase = "down" /\ phase' = "replay" /\ pending' = {b \in BatchId : disk[b] # "absent"} \ corrupt
            /\ UNCHANGED <<jobVars, spoolVars, dbVars>>
            BY <1>1 DEF Boot
      <2>2. NoneInHand' BY <2>1 DEF StartInv, NoneInHand
      <2>3. pc["worker"] = "idle" /\ pc["server"] = "idle"
            BY <2>1 DEF StartInv, WorkerWaits
      <2>4. Written' \subseteq pending' \cup corrupt' BY <2>1 DEF Written
      <2> QED BY <2>1, <2>2, <2>3, <2>4 DEF StartInv, WorkerWaits, ReplayInHand, RecoverInHand
<1>2. CASE ReplayDone
      <2>1. /\ phase = "replay" /\ phase' = "recover" /\ pending = {} /\ pc["server"] = "idle"
            /\ orphans' = open /\ UNCHANGED <<jobVars, spoolVars, dbVars>>
            BY <1>2 DEF ReplayDone, Idle
      <2>2. NoneInHand' BY <2>1 DEF StartInv, NoneInHand
      <2>3. Written' = Written /\ Written \subseteq applied \cup corrupt
            BY <2>1 DEF StartInv, ReplayInHand, Written
      <2>4. pc["worker"] = "idle" BY <2>1 DEF StartInv, WorkerWaits
      <2> QED BY <2>1, <2>2, <2>3, <2>4 DEF StartInv, WorkerWaits, ReplayInHand, RecoverInHand
<1>3. CASE StartupDone
      <2>1. phase' = "up" /\ UNCHANGED <<pc, bid>> BY <1>3 DEF StartupDone
      <2>2. NoneInHand' BY <2>1 DEF StartInv, NoneInHand
      <2> QED BY <2>1, <2>2, ServingStep
<1>4. ASSUME NEW b \in BatchId, Quarantine(b) \/ SkipApplied(b) PROVE StartInv'
      <2>1. /\ phase = "replay" /\ phase' = "replay" /\ pc["server"] = "idle"
            /\ pending' = pending \ {b} /\ b \in applied' \cup corrupt'
            /\ applied' = applied /\ corrupt \subseteq corrupt'
            /\ UNCHANGED <<pc, bid, disk>>
            BY <1>4 DEF Quarantine, SkipApplied, NextFile, IsNext, Idle
      <2>2. NoneInHand' BY <2>1 DEF StartInv, NoneInHand
      <2>3. Written' = Written /\ Written \subseteq applied \cup corrupt \cup pending
            BY <2>1 DEF StartInv, ReplayInHand, Written
      <2>4. Written' \subseteq applied' \cup corrupt' \cup pending'
            BY <2>1, <2>3
      <2>5. pc["worker"] = "idle" BY <2>1 DEF StartInv, WorkerWaits
      <2> QED BY <2>1, <2>2, <2>4, <2>5 DEF StartInv, WorkerWaits, ReplayInHand, RecoverInHand
<1>5. ASSUME NEW b \in BatchId, ReplayBatch(b) PROVE StartInv'
      <2>1. /\ phase = "replay" /\ phase' = "replay"
            /\ pending' = pending \ {b} /\ applied' = applied \cup {b}
            /\ pc' = [pc EXCEPT !["server"] = "rebuild"]
            /\ bid' = [bid EXCEPT !["server"] = b]
            /\ UNCHANGED <<corrupt, disk>>
            BY <1>5 DEF ReplayBatch, NextFile, IsNext, CommitBatch
      <2>2. NoneInHand' BY <1>0, <2>1 DEF StartInv, NoneInHand
      <2>3. Written' = Written /\ Written \subseteq applied \cup corrupt \cup pending
            BY <2>1 DEF StartInv, ReplayInHand, Written
      <2>4. Written' \subseteq applied' \cup corrupt' \cup pending'
            BY <2>1, <2>3
      <2>5. pc'["worker"] = "idle" /\ pc'["server"] = "rebuild"
            BY <1>0, <2>1 DEF StartInv, WorkerWaits
      <2> QED BY <2>1, <2>2, <2>4, <2>5 DEF StartInv, WorkerWaits, ReplayInHand, RecoverInHand
<1>6. ASSUME NEW r \in Run, RecoverSession(r) PROVE StartInv'
      <2>1. /\ phase = "recover" /\ phase' = "recover" /\ pc["server"] = "idle"
            /\ pc' = [pc EXCEPT !["server"] = "write"]
            /\ UNCHANGED <<applied, corrupt, open, orphans>>
            BY <1>6 DEF RecoverSession, BeginBatch, Idle
      <2>2. PICK b \in BatchId : /\ disk[b] = "absent"
                                 /\ items' = [items EXCEPT ![b] = <<RecoveredEvent(r)>>]
                                 /\ disk' = [disk EXCEPT ![b] = "torn"]
                                 /\ bid' = [bid EXCEPT !["server"] = b]
            BY <1>6 DEF RecoverSession, BeginBatch
      <2>3. NoneInHand' BY <1>0, <2>1, <2>2 DEF StartInv, NoneInHand
      <2>4. pc'["worker"] = "idle" /\ pc'["server"] = "write" /\ bid'["server"] = b
            BY <1>0, <2>1, <2>2 DEF StartInv, WorkerWaits
      <2>5. bid["server"] = 0 BY <1>0, <2>1 DEF StartInv, NoneInHand
      <2>6. Written \subseteq applied \cup corrupt
            BY <1>0, <2>1, <2>5 DEF StartInv, RecoverInHand, Written
      <2>7. Written' \subseteq Written BY <1>0, <2>2 DEF Written
      <2>8. \A e \in Elems(items'[b]) : e.kind \in Terminal
            <3>1. items'[b] = <<RecoveredEvent(r)>>
                  BY <2>2 DEF StartInv, SInv, TInv, TypeOK
            <3>2. RecoveredEvent(r).kind \in Terminal BY DEF RecoveredEvent, Terminal
            <3> QED BY <3>1, <3>2 DEF Elems
      <2>9. open' \subseteq orphans' BY <2>1 DEF StartInv, RecoverInHand
      <2> QED BY <2>1, <2>3, <2>4, <2>6, <2>7, <2>8, <2>9
              DEF StartInv, WorkerWaits, ReplayInHand, RecoverInHand
<1>7. ASSUME NEW r \in Run, CloseSession(r) PROVE StartInv'
      <2>1. /\ phase = "recover" /\ phase' = "recover" /\ pc["server"] = "idle"
            /\ open' = open \ {r} /\ orphans' = orphans \ {r}
            /\ UNCHANGED <<jobVars, spoolVars, applied>>
            BY <1>7 DEF CloseSession, Idle
      <2>2. NoneInHand' BY <2>1 DEF StartInv, NoneInHand
      <2>3. Written' = Written BY <2>1 DEF Written
      <2>4. pc["worker"] = "idle" BY <2>1 DEF StartInv, WorkerWaits
      <2> QED BY <2>1, <2>2, <2>3, <2>4 DEF StartInv, WorkerWaits, ReplayInHand, RecoverInHand
<1> QED BY <1>1, <1>2, <1>3, <1>4, <1>5, <1>6, <1>7 DEF Startup

\* The steps of a batch.  Before the process serves, only the server thread has one.
LEMMA PersistStep ==
    ASSUME StartInv, SInv', NEW t \in Thread, Persist(t) \/ Fail(t)
    PROVE  StartInv'
<1> USE DEF startVars, memVars, jobVars, spoolVars, dbVars, caseVars, envVars
<1>0. /\ pc \in [Thread -> {"idle", "write", "apply", "rebuild", "project"}]
      /\ bid \in [Thread -> BatchId \cup {0}] /\ disk \in [BatchId -> {"absent", "torn", "whole"}]
      /\ "server" \in Thread /\ "worker" \in Thread /\ 0 \notin BatchId
      /\ items \in [BatchId -> Seq(Event)]
      /\ phase \in {"down", "replay", "recover", "up", "stopping"}
      BY BoundAssumption DEF StartInv, SInv, TInv, TypeOK, Thread
<1>1. CASE GoDown BY <1>1, DownStep
<1>2. ASSUME ~GoDown PROVE phase' = phase /\ pc[t] # "idle" /\ UNCHANGED <<items, corrupt, pending, orphans>>
      BY <1>2 DEF Persist, Fail, FinishFile, ApplyBatch, RebuildRead, RebuildWrite, FinishBatch,
                  PersistFails, RebuildFails
<1>3. ASSUME ~GoDown
      PROVE  \/ pc' = [pc EXCEPT ![t] = "idle"] /\ bid' = [bid EXCEPT ![t] = 0]
             \/ \E p \in {"apply", "rebuild", "project"} : pc' = [pc EXCEPT ![t] = p] /\ bid' = bid
      BY <1>3 DEF Persist, Fail, FinishFile, ApplyBatch, CommitBatch, RebuildRead, RebuildWrite,
                  FinishBatch, PersistFails, RebuildFails, WriteCase
<1>4. ~GoDown => NoneInHand'
      BY <1>0, <1>3 DEF StartInv, NoneInHand
<1>5. CASE ~GoDown /\ phase \in {"up", "stopping"}
      BY <1>2, <1>4, <1>5, ServingStep
<1>6. ASSUME ~GoDown, phase \in {"down", "replay", "recover"}
      PROVE  phase # "down" /\ t = "server" /\ pc'["worker"] = "idle"
      <2>1. pc["worker"] = "idle" /\ t = "server"
            BY <1>2, <1>6 DEF StartInv, WorkerWaits, Thread
      <2>2. phase # "down" BY <1>2, <1>6, <2>1 DEF StartInv, WorkerWaits
      <2> QED BY <1>0, <1>3, <1>6, <2>1, <2>2
<1>7. ASSUME ~GoDown, phase \in {"replay", "recover"}, UNCHANGED <<disk, applied, open>>,
             bid'["server"] # bid["server"] => bid["server"] \in applied,
             pc'["server"] \in {"idle", "rebuild", "project"},
             pc["server"] \in {"rebuild", "project"}
      PROVE  StartInv'
      <2>1. Written' = Written BY <1>7 DEF Written
      <2>2. pc'["server"] \in {"rebuild", "project"} => bid'["server"] = bid["server"]
            BY <1>0, <1>3, <1>6, <1>7
      <2>3. CASE phase = "replay"
            BY <1>2, <1>4, <1>6, <1>7, <2>1, <2>3
            DEF StartInv, WorkerWaits, ReplayInHand, RecoverInHand
      <2>4. CASE phase = "recover"
            <3>1. Written' \subseteq applied' \cup corrupt' \cup {bid'["server"]}
                  BY <1>2, <1>7, <2>1, <2>4 DEF StartInv, RecoverInHand
            <3>2. pc'["server"] \in {"rebuild", "project"} => bid'["server"] \in applied'
                  BY <1>7, <2>2, <2>4 DEF StartInv, RecoverInHand
            <3>3. open' \subseteq orphans'
                  BY <1>2, <1>7, <2>4 DEF StartInv, RecoverInHand
            <3>4. WorkerWaits' /\ ReplayInHand'
                  BY <1>2, <1>6, <1>7, <2>4 DEF WorkerWaits, ReplayInHand
            <3>5. RecoverInHand'
                  BY <1>2, <1>7, <2>4, <3>1, <3>2, <3>3 DEF RecoverInHand
            <3> QED BY <1>4, <1>7, <3>4, <3>5 DEF StartInv
      <2> QED BY <1>7, <2>3, <2>4
<1>8. CASE ~GoDown /\ phase \in {"replay", "recover"}
      <2>0. t = "server" /\ phase' = phase /\ pc'["worker"] = "idle"
            BY <1>2, <1>6, <1>8
      <2>1. CASE FinishFile(t)
            <3>1. /\ pc["server"] = "write" /\ pc'["server"] = "apply" /\ bid' = bid
                  /\ disk' = [disk EXCEPT ![bid["server"]] = "whole"]
                  /\ UNCHANGED <<items, applied, corrupt, open, orphans>>
                  BY <1>0, <1>2, <1>8, <2>0, <2>1 DEF FinishFile
            <3>2. phase = "recover"
                  BY <1>8, <3>1 DEF StartInv, ReplayInHand
            <3>3. Written' \subseteq Written \cup {bid["server"]}
                  BY <1>0, <3>1 DEF Written
            <3>4. Written' \subseteq applied' \cup corrupt' \cup {bid'["server"]}
                  BY <3>1, <3>2, <3>3 DEF StartInv, RecoverInHand
            <3>5. RecoverInHand'
                  BY <2>0, <3>1, <3>2, <3>4 DEF StartInv, RecoverInHand
            <3> QED BY <1>4, <1>8, <2>0, <3>2, <3>5 DEF StartInv, WorkerWaits, ReplayInHand
      <2>2. CASE ApplyBatch(t)
            <3>1. /\ pc["server"] = "apply" /\ pc'["server"] = "rebuild" /\ bid' = bid
                  /\ applied' = applied \cup {bid["server"]} /\ open' = OpenAfter(items[bid["server"]])
                  /\ UNCHANGED <<items, disk, corrupt, orphans>>
                  BY <1>0, <1>2, <1>8, <2>0, <2>2 DEF ApplyBatch, CommitBatch
            <3>2. phase = "recover"
                  BY <1>8, <3>1 DEF StartInv, ReplayInHand
            <3>3. bid["server"] \in BatchId
                  BY <1>0, <3>1 DEF StartInv, SInv, TInv
            <3>4. open' \subseteq open
                  <4>1. items[bid["server"]] \in Seq(Event) BY <1>0, <3>3
                  <4>2. \A e \in Elems(items[bid["server"]]) : e.kind \in Terminal
                        BY <3>1, <3>2 DEF StartInv, RecoverInHand
                  <4> QED BY <3>1, <4>1, <4>2, EndsOpenNothing
            <3>5. Written' = Written BY <3>1 DEF Written
            <3>6. RecoverInHand'
                  BY <2>0, <3>1, <3>2, <3>4, <3>5 DEF StartInv, RecoverInHand
            <3> QED BY <1>4, <1>8, <2>0, <3>2, <3>6 DEF StartInv, WorkerWaits, ReplayInHand
      <2>3. CASE RebuildRead(t) \/ RebuildWrite(t) \/ RebuildFails(t)
            <3>1. /\ UNCHANGED <<disk, applied, open, bid>>
                  /\ pc[t] \in {"rebuild", "project"}
                  /\ \E p \in {"rebuild", "project"} : pc' = [pc EXCEPT ![t] = p]
                  BY <2>3 DEF RebuildRead, RebuildWrite, RebuildFails, WriteCase
            <3>2. pc'["server"] \in {"rebuild", "project"} BY <1>0, <2>0, <3>1
            <3> QED BY <1>7, <1>8, <2>0, <3>1, <3>2
      <2>4. CASE FinishBatch(t)
            <3>1. /\ UNCHANGED <<disk, applied, open>> /\ pc[t] = "rebuild"
                  /\ pc' = [pc EXCEPT ![t] = "idle"] /\ bid' = [bid EXCEPT ![t] = 0]
                  BY <2>4 DEF FinishBatch
            <3>2. pc'["server"] = "idle" BY <1>0, <2>0, <3>1
            <3>3. CASE phase = "recover"
                  <4>1. bid["server"] \in applied
                        BY <2>0, <3>1, <3>3 DEF StartInv, RecoverInHand
                  <4> QED BY <1>7, <1>8, <2>0, <3>1, <3>2, <4>1
            <3>4. CASE phase = "replay"
                  <4>1. Written' = Written BY <3>1 DEF Written
                  <4> QED BY <1>2, <1>4, <1>8, <2>0, <3>1, <3>2, <3>4, <4>1
                          DEF StartInv, WorkerWaits, ReplayInHand, RecoverInHand
            <3> QED BY <1>8, <3>3, <3>4
      <2>5. CASE PersistFails(t)
            <3>1. pc["server"] \in {"write", "apply"} BY <2>0, <2>5 DEF PersistFails
            <3>2. phase = "recover" BY <1>8, <3>1 DEF StartInv, ReplayInHand
            <3> QED BY <1>8, <2>5, <3>2 DEF PersistFails
      <2> QED BY <2>1, <2>2, <2>3, <2>4, <2>5 DEF Persist, Fail
<1> QED BY <1>0, <1>1, <1>5, <1>6, <1>8

LEMMA StartInvNext == StartInv /\ [Next]_vars => StartInv'
<1> SUFFICES ASSUME StartInv, [Next]_vars PROVE StartInv'
    OBVIOUS
<1>0. SInv' BY SInvNext DEF StartInv
<1> USE DEF startVars, memVars, jobVars, spoolVars, dbVars, caseVars, envVars
<1>1. CASE Startup BY <1>0, <1>1, StartupStep
<1>2. CASE Request \/ Get \/ PollEmpty \/ KeepBuffering \/ Flush
      <2>1. phase \in {"up", "stopping"} /\ phase' \in {"up", "stopping"}
            BY <1>2 DEF Request, Enqueue, StoreItems, Stop, Get, PollEmpty,
                        KeepBuffering, Flush, Running
      <2>2. \/ UNCHANGED <<pc, bid>>
            \/ \E t \in Thread, b \in BatchId : /\ pc' = [pc EXCEPT ![t] = "write"]
                                               /\ bid' = [bid EXCEPT ![t] = b]
            BY <1>2 DEF Request, Enqueue, StoreItems, Stop, Get, PollEmpty,
                        KeepBuffering, Flush,
                        BeginBatch, Thread
      <2>3. /\ pc \in [Thread -> {"idle", "write", "apply", "rebuild", "project"}]
            /\ bid \in [Thread -> BatchId \cup {0}]
            BY DEF StartInv, SInv, TInv, TypeOK
      <2>4. NoneInHand' BY <2>2, <2>3 DEF StartInv, NoneInHand
      <2> QED BY <1>0, <2>1, <2>4, ServingStep
<1>3. CASE WorkerExit \/ Crash BY <1>0, <1>3, DownStep DEF WorkerExit, Crash
<1>4. ASSUME NEW t \in Thread, Persist(t) \/ Fail(t) PROVE StartInv'
      BY <1>0, <1>4, PersistStep
<1>5. CASE UNCHANGED vars
      <2>1. Written' = Written BY <1>5 DEF vars, Written
      <2> QED BY <1>0, <1>5, <2>1
              DEF vars, StartInv, NoneInHand, WorkerWaits, ReplayInHand, RecoverInHand
<1> QED BY <1>1, <1>2, <1>3, <1>4, <1>5 DEF Next, Loop

LEMMA StartInvHolds == Spec => []StartInv
BY StartInvInit, StartInvNext, PTL DEF Spec

\* When the replay is over, every complete file of the spool is applied or set
\* aside, but for the one that the recovery is about to apply.
THEOREM ReplayIsComplete == Spec => []ReplayLeavesNoBatch
<1>1. StartInv => ReplayLeavesNoBatch BY DEF StartInv, RecoverInHand, ReplayLeavesNoBatch
<1> QED BY <1>1, StartInvHolds, PTL

\* No run of an earlier process is open when the process begins to serve.
THEOREM OrphansAreClosed == Spec => StartupClosesOrphans
<1>1. StartInv /\ [Next]_vars => [phase = "recover" /\ phase' = "up" => open' = {}]_vars
      <2> SUFFICES ASSUME StartInv, Next, phase = "recover", phase' = "up" PROVE open' = {}
          OBVIOUS
      <2>1. StartupDone
            BY DEF Next, Startup, Request, Loop, Crash, Persist, Fail, GoDown, Boot, ReplayDone,
               Quarantine, SkipApplied, ReplayBatch, NextFile, IsNext, RecoverSession,
               CloseSession,
               Enqueue, StoreItems, Stop, Get, PollEmpty, KeepBuffering, Flush,
               WorkerExit, Running,
               FinishFile, ApplyBatch, RebuildRead, RebuildWrite, FinishBatch,
               PersistFails, RebuildFails
      <2>2. orphans = {} /\ open' = open BY <2>1 DEF StartupDone, dbVars
      <2> QED BY <2>2 DEF StartInv, RecoverInHand
<1> QED BY <1>1, StartInvHolds, PTL DEF Spec, StartupClosesOrphans

-----------------------------------------------------------------------------
(* Projection, in a process that starts with an empty store.  The cases of  *)
(* the runs whose events only the worker stores are its own affair: the     *)
(* server thread rebuilds the cases of the events it stores itself.         *)

FreshStart ==
    boot = 0 \/ (boot = 1 /\ phase \in {"replay", "recover"}) =>
        /\ table = {} /\ open = {} /\ orphans = {} /\ pending = {}
        /\ \A b \in BatchId : disk[b] = "absent"
        /\ \A r \in Run : cases[r] = {}
        /\ \A t \in Thread : pc[t] = "idle"

\* A thread has cases to rebuild only between its commit and its last case.
HandsEmpty ==
    \A t \in Thread : /\ pc[t] \in {"idle", "write", "apply"} => todo[t] = {}
                      /\ pc[t] # "project" => cur[t] = {}

Serving == boot = 1 /\ phase \in {"up", "stopping"}

Own(r) == EventsOf(r) \cap Direct = {}

ServerInHand ==
    Serving => /\ pc["server"] \in {"write", "apply"} =>
                     Elems(items[bid["server"]]) \subseteq Direct
               /\ \A r \in todo["server"] \cup cur["server"] : ~Own(r)

\* The worker has still to rebuild a stale case, and has read all its events.
WorkerInHand ==
    Serving => \A r \in Run : Own(r) =>
        /\ r \in cur["worker"] => snap["worker"] = EventsOf(r)
        /\ r \in todo["worker"] \cup cur["worker"] \cup unsafe \/ cases[r] = EventsOf(r)

FreshInv == StartInv /\ FreshStart /\ HandsEmpty /\ ServerInHand /\ WorkerInHand

LEMMA FreshInvInit == Init => FreshInv
<1> SUFFICES ASSUME Init PROVE FreshInv
    OBVIOUS
<1>1. StartInv BY StartInvInit
<1>2. FreshStart /\ HandsEmpty BY DEF Init, FreshStart, HandsEmpty
<1>3. ~Serving BY DEF Init, Serving
<1> QED BY <1>1, <1>2, <1>3 DEF FreshInv, ServerInHand, WorkerInHand

LEMMA Typing ==
    ASSUME StartInv
    PROVE  /\ pc \in [Thread -> {"idle", "write", "apply", "rebuild", "project"}]
           /\ bid \in [Thread -> BatchId \cup {0}] /\ items \in [BatchId -> Seq(Event)]
           /\ todo \in [Thread -> SUBSET Run] /\ cur \in [Thread -> SUBSET Run]
           /\ snap \in [Thread -> SUBSET Event] /\ disk \in [BatchId -> {"absent", "torn", "whole"}]
           /\ cases \in [Run -> SUBSET Event]
           /\ "server" \in Thread /\ "worker" \in Thread
           /\ \A t \in Thread : pc[t] # "idle" => bid[t] \in BatchId /\ disk[bid[t]] # "absent"
BY DEF StartInv, SInv, TInv, TypeOK, Thread, BatchInHand

LEMMA HandsStep ==
    ASSUME StartInv, HandsEmpty, [Next]_vars
    PROVE  HandsEmpty'
<1> USE DEF startVars, memVars, jobVars, spoolVars, dbVars, caseVars, envVars
<1>0. /\ pc \in [Thread -> {"idle", "write", "apply", "rebuild", "project"}]
      /\ todo \in [Thread -> SUBSET Run] /\ cur \in [Thread -> SUBSET Run] /\ "server" \in Thread
      BY Typing
<1>1. ASSUME UNCHANGED <<pc, todo, cur>> PROVE HandsEmpty'
      BY <1>1 DEF HandsEmpty
<1>2. ASSUME GoDown PROVE HandsEmpty'
      BY <1>2 DEF GoDown, HandsEmpty
<1>3. ASSUME NEW t \in Thread, pc[t] \in {"idle", "write", "apply"}, UNCHANGED <<todo, cur>>,
             NEW p \in {"idle", "write", "apply"}, pc' = [pc EXCEPT ![t] = p]
      PROVE  HandsEmpty'
      BY <1>0, <1>3 DEF HandsEmpty
<1>4. ASSUME NEW t \in Thread, NEW b, pc[t] \in {"idle", "apply"}, CommitBatch(t, b), cur' = cur
      PROVE  HandsEmpty'
      BY <1>0, <1>4 DEF HandsEmpty, CommitBatch
<1>5. CASE Startup
      <2>1. CASE Boot \/ ReplayDone \/ StartupDone
            BY <1>1, <2>1 DEF Boot, ReplayDone, StartupDone
      <2>2. ASSUME NEW b \in BatchId, Quarantine(b) \/ SkipApplied(b) PROVE HandsEmpty'
            BY <1>1, <2>2 DEF Quarantine, SkipApplied
      <2>3. ASSUME NEW b \in BatchId, ReplayBatch(b) PROVE HandsEmpty'
            BY <1>0, <1>4, <2>3 DEF ReplayBatch, NextFile, IsNext, Idle
      <2>4. ASSUME NEW r \in Run, RecoverSession(r) PROVE HandsEmpty'
            BY <1>0, <1>3, <2>4 DEF RecoverSession, BeginBatch, Idle
      <2>5. ASSUME NEW r \in Run, CloseSession(r) PROVE HandsEmpty'
            BY <1>1, <2>5 DEF CloseSession
      <2> QED BY <1>5, <2>1, <2>2, <2>3, <2>4, <2>5 DEF Startup
<1>6. CASE Request
      <2>1. ASSUME NEW e \in Direct, StoreItems(e) PROVE HandsEmpty'
            BY <1>0, <1>3, <2>1 DEF StoreItems, BeginBatch, Idle
      <2> QED BY <1>1, <1>6, <2>1 DEF Request, Enqueue, Stop
<1>7. CASE Loop \/ Crash
      <2>1. CASE Flush
            BY <1>3, <2>1 DEF Flush, BeginBatch, Idle, Thread
      <2> QED BY <1>1, <1>2, <1>7, <2>1 DEF Loop, Crash, Get, PollEmpty, KeepBuffering,
                                        WorkerExit
<1>8. ASSUME NEW t \in Thread, Persist(t) \/ Fail(t) PROVE HandsEmpty'
      <2>1. CASE FinishFile(t) BY <1>3, <2>1 DEF FinishFile
      <2>2. CASE ApplyBatch(t) BY <1>4, <2>2 DEF ApplyBatch
      <2>3. CASE RebuildRead(t)
            <3>1. /\ pc' = [pc EXCEPT ![t] = "project"]
                  /\ \E r : /\ cur' = [cur EXCEPT ![t] = {r}]
                            /\ todo' = [todo EXCEPT ![t] = @ \ {r}]
                  BY <2>3 DEF RebuildRead
            <3> QED BY <1>0, <3>1 DEF HandsEmpty
      <2>4. CASE RebuildWrite(t) \/ RebuildFails(t)
            <3>1. /\ pc' = [pc EXCEPT ![t] = "rebuild"] /\ cur' = [cur EXCEPT ![t] = {}]
                  /\ todo' = todo
                  BY <2>4 DEF RebuildWrite, RebuildFails, WriteCase
            <3> QED BY <1>0, <3>1 DEF HandsEmpty
      <2>5. CASE FinishBatch(t)
            <3>1. /\ pc' = [pc EXCEPT ![t] = "idle"] /\ todo[t] = {} /\ pc[t] = "rebuild"
                  /\ UNCHANGED <<todo, cur>>
                  BY <2>5 DEF FinishBatch
            <3> QED BY <1>0, <3>1 DEF HandsEmpty
      <2>6. CASE PersistFails(t)
            BY <1>2, <1>3, <2>6 DEF PersistFails
      <2> QED BY <1>8, <2>1, <2>2, <2>3, <2>4, <2>5, <2>6 DEF Persist, Fail
<1>9. CASE UNCHANGED vars BY <1>1, <1>9 DEF vars
<1> QED BY <1>5, <1>6, <1>7, <1>8, <1>9 DEF Next

LEMMA FreshStartStep ==
    ASSUME FreshInv, [Next]_vars
    PROVE  FreshStart'
<1> USE DEF startVars, memVars, jobVars, spoolVars, dbVars, caseVars, envVars
<1> SUFFICES ASSUME boot' = 0 \/ (boot' = 1 /\ phase' \in {"replay", "recover"}) PROVE FreshStart'
    BY DEF FreshStart
<1>0. boot \in Nat /\ (phase # "down" => boot >= 1)
      BY BoundAssumption DEF FreshInv, StartInv, SInv, TInv, TypeOK
<1>1. CASE Boot
      <2>1. /\ boot = 0 /\ UNCHANGED <<table, open, orphans, disk, cases, pc>>
            /\ pending' = {b \in BatchId : disk[b] # "absent"} \ corrupt
            BY <1>0, <1>1 DEF Boot
      <2>2. pending' = {} BY <2>1 DEF FreshInv, FreshStart
      <2> QED BY <2>1, <2>2 DEF FreshInv, FreshStart
<1>2. CASE ReplayDone
      <2>1. /\ boot' = boot /\ phase = "replay" /\ orphans' = open
            /\ UNCHANGED <<table, open, pending, disk, cases, pc>>
            BY <1>2 DEF ReplayDone
      <2> QED BY <1>0, <2>1 DEF FreshInv, FreshStart
<1>3. CASE UNCHANGED vars BY <1>3 DEF vars, FreshInv, FreshStart
<1>4. CASE Next /\ ~Boot /\ ~ReplayDone
      <2>1. boot' = boot
            BY <1>4 DEF Next, Startup, Request, Loop, Crash, Persist, Fail, GoDown,
               StartupDone, Quarantine, SkipApplied, ReplayBatch, NextFile,
               RecoverSession, CloseSession,
               Enqueue, StoreItems, Stop, Get, PollEmpty, KeepBuffering, Flush, WorkerExit,
               FinishFile, ApplyBatch, RebuildRead, RebuildWrite, FinishBatch,
               PersistFails, RebuildFails
      <2>2. boot = 0 \/ (boot = 1 /\ phase \in {"replay", "recover"})
            <3>1. phase' = phase \/ phase' \in {"down", "up", "stopping"}
                  BY <1>4 DEF Next, Startup, Request, Loop, Crash, Persist, Fail, GoDown,
                     StartupDone, Quarantine, SkipApplied, ReplayBatch, NextFile,
                     RecoverSession, CloseSession,
                     Enqueue, StoreItems, Stop, Get, PollEmpty, KeepBuffering, Flush,
                     WorkerExit,
                     FinishFile, ApplyBatch, RebuildRead, RebuildWrite, FinishBatch,
                     PersistFails, RebuildFails
            <3> QED BY <2>1, <3>1
      <2>3. pending = {} /\ orphans = {} /\ \A t \in Thread : pc[t] = "idle"
            BY <2>2 DEF FreshInv, FreshStart
      <2>4. phase \notin {"up", "stopping"} /\ (phase = "down" \/ phase' \in {"replay", "recover"})
            BY <1>0, <2>1, <2>2
      <2>5. ASSUME NEW t \in Thread, Persist(t) \/ Fail(t) PROVE FALSE
            BY <2>3, <2>5 DEF Persist, Fail, FinishFile, ApplyBatch, RebuildRead, RebuildWrite,
                              FinishBatch, PersistFails, RebuildFails
      <2>6. ~Startup
            BY <1>4, <2>3, <2>4 DEF Startup, StartupDone, Quarantine, SkipApplied,
                                    ReplayBatch, NextFile,
                              IsNext, RecoverSession, CloseSession
      <2>7. ~Request /\ ~Loop /\ ~Crash
            BY <2>4 DEF Request, Loop, Crash, GoDown, Enqueue, StoreItems, Stop, Get, PollEmpty,
                        KeepBuffering, Flush, WorkerExit, Running
      <2> QED BY <1>4, <2>5, <2>6, <2>7 DEF Next
<1> QED BY <1>1, <1>2, <1>3, <1>4

\* A transaction adds to the events of the runs it hands over for a rebuild.
LEMMA CommitTouches ==
    ASSUME TypeOK, NEW s \in Seq(Event), table' = table \cup Elems(s),
           NEW r \in Run, r \notin {s[i].run : i \in NewAt(s)}
    PROVE  EventsOf(r)' = EventsOf(r)
<1>1. ASSUME NEW e \in Elems(s), e.run = r, e \notin table PROVE FALSE
      <2>1. PICK i \in NewAt(s) : s[i] = e BY <1>1, FirstPlace
      <2> QED BY <1>1, <2>1
<1> QED BY <1>1 DEF EventsOf

\* Requests and the loop, short of a batch.
LEMMA HandsStay ==
    ASSUME FreshInv, UNCHANGED <<jobVars, items, table, cases, unsafe>>, Serving' => Serving
    PROVE  ServerInHand' /\ WorkerInHand'
<1> USE DEF jobVars
<1>1. \A r \in Run : EventsOf(r)' = EventsOf(r) /\ Own(r)' = Own(r)
      BY DEF EventsOf, Own
<1>2. todo["server"] \subseteq Run /\ cur["server"] \subseteq Run
      BY Typing DEF FreshInv
<1>3. ServerInHand'
      BY <1>1, <1>2 DEF FreshInv, ServerInHand
<1>4. WorkerInHand'
      BY <1>1 DEF FreshInv, WorkerInHand
<1> QED BY <1>3, <1>4

\* A batch that begins: the server's holds one event of its own.
LEMMA HandsBegin ==
    ASSUME FreshInv, NEW t \in Thread, NEW s, BeginBatch(t, s),
           t = "server" /\ Serving' => Elems(s) \subseteq Direct,
           Serving' => Serving
    PROVE  ServerInHand' /\ WorkerInHand'
<1> USE DEF dbVars, caseVars
<1>1. PICK b \in BatchId : /\ disk[b] = "absent" /\ items' = [items EXCEPT ![b] = s]
                           /\ bid' = [bid EXCEPT ![t] = b]
      BY DEF BeginBatch
<1>2. /\ pc[t] = "idle" /\ pc' = [pc EXCEPT ![t] = "write"]
      /\ UNCHANGED <<todo, cur, snap, table, cases, unsafe>>
      BY DEF BeginBatch, Idle
<1>3. \A r \in Run : EventsOf(r)' = EventsOf(r) /\ Own(r)' = Own(r)
      BY <1>2 DEF EventsOf, Own
<1>4. WorkerInHand'
      BY <1>2, <1>3 DEF FreshInv, WorkerInHand
<1>5. /\ todo["server"] \subseteq Run /\ cur["server"] \subseteq Run
      /\ pc \in [Thread -> {"idle", "write", "apply", "rebuild", "project"}]
      /\ bid \in [Thread -> BatchId \cup {0}] /\ items \in [BatchId -> Seq(Event)]
      /\ pc["server"] # "idle" => bid["server"] \in BatchId /\ disk[bid["server"]] # "absent"
      /\ "server" \in Thread
      BY Typing DEF FreshInv
<1>6. ASSUME Serving', pc'["server"] \in {"write", "apply"}
      PROVE  Elems(items'[bid'["server"]]) \subseteq Direct
      <2>1. CASE t = "server"
            <3>1. bid'["server"] = b /\ items'[b] = s BY <1>1, <1>5, <2>1
            <3> QED BY <1>6, <2>1, <3>1
      <2>2. CASE t # "server"
            <3>1. pc'["server"] = pc["server"] /\ bid'["server"] = bid["server"]
                  BY <1>1, <1>2, <1>5, <2>2
            <3>2. bid["server"] # b /\ bid["server"] \in BatchId
                  BY <1>1, <1>5, <1>6, <3>1
            <3>3. items'[bid["server"]] = items[bid["server"]]
                  BY <1>1, <1>5, <3>2
            <3> QED BY <1>6, <3>1, <3>3 DEF FreshInv, ServerInHand
      <2> QED BY <2>1, <2>2
<1>7. ServerInHand'
      BY <1>2, <1>3, <1>5, <1>6 DEF FreshInv, ServerInHand
<1> QED BY <1>4, <1>7

\* A commit: the server's adds to no run that is only the worker's, and the
\* worker's leaves what it adds to for its own rebuild.
LEMMA HandsCommit ==
    ASSUME FreshInv, NEW t \in Thread, ApplyBatch(t), Serving' => Serving
    PROVE  ServerInHand' /\ WorkerInHand'
<1> SUFFICES ASSUME Serving, Serving' PROVE ServerInHand' /\ WorkerInHand'
    BY DEF ServerInHand, WorkerInHand
<1> USE DEF caseVars, spoolVars
<1> DEFINE s == items[bid[t]]
           R == {s[i].run : i \in NewAt(s)}
<1>1. /\ pc[t] = "apply" /\ bid' = bid /\ items' = items
      /\ table' = table \cup Elems(s) /\ todo' = [todo EXCEPT ![t] = R]
      /\ pc' = [pc EXCEPT ![t] = "rebuild"]
      /\ UNCHANGED <<cur, snap, cases, unsafe>>
      BY DEF ApplyBatch, CommitBatch
<1>2. /\ pc \in [Thread -> {"idle", "write", "apply", "rebuild", "project"}]
      /\ todo \in [Thread -> SUBSET Run] /\ cur \in [Thread -> SUBSET Run]
      /\ "server" \in Thread /\ "worker" \in Thread /\ s \in Seq(Event) /\ TypeOK
      BY <1>1, Typing DEF FreshInv, StartInv, SInv, TInv
<1>3. todo[t] = {} /\ cur[t] = {}
      BY <1>1 DEF FreshInv, HandsEmpty
<1>4. \A r \in Run : Own(r)' => Own(r)
      BY <1>1 DEF Own, EventsOf
<1>5. \A r \in Run : r \notin R => EventsOf(r)' = EventsOf(r)
      BY <1>1, <1>2, CommitTouches
<1>6. R \subseteq {e.run : e \in Elems(s)} BY DEF NewAt, Elems
<1> HIDE DEF s, R
<1>7. CASE t = "server"
      <2>1. Elems(s) \subseteq Direct
            BY <1>1, <1>7 DEF FreshInv, ServerInHand, s
      <2>2. \A r \in R : ~Own(r)'
            BY <1>1, <1>6, <2>1 DEF Own, EventsOf
      <2>3. /\ todo'["server"] = R /\ todo'["worker"] = todo["worker"]
            /\ pc'["server"] = "rebuild" /\ cur'["server"] = {}
            BY <1>1, <1>2, <1>3, <1>7
      <2>4. ServerInHand' BY <2>2, <2>3 DEF ServerInHand
      <2>5. ASSUME NEW r \in Run, Own(r)'
            PROVE  /\ r \in cur'["worker"] => snap'["worker"] = EventsOf(r)'
                   /\ r \in todo'["worker"] \cup cur'["worker"] \cup unsafe' \/ cases'[r] = EventsOf(r)'
            <3>1. EventsOf(r)' = EventsOf(r) /\ Own(r) BY <1>4, <1>5, <2>2, <2>5
            <3> QED BY <1>1, <2>3, <3>1 DEF FreshInv, WorkerInHand
      <2>6. WorkerInHand' BY <2>5 DEF WorkerInHand
      <2> QED BY <2>4, <2>6
<1>8. CASE t = "worker"
      <2>1. /\ todo'["worker"] = R /\ todo'["server"] = todo["server"]
            /\ pc'["server"] = pc["server"] /\ cur'["worker"] = {} /\ todo["worker"] = {}
            BY <1>1, <1>2, <1>3, <1>8
      <2>2. \A r \in todo'["server"] \cup cur'["server"] : ~Own(r)'
            BY <1>1, <1>2, <1>4, <2>1 DEF FreshInv, ServerInHand
      <2>3. ServerInHand'
            BY <1>1, <2>1, <2>2 DEF FreshInv, ServerInHand
      <2>4. ASSUME NEW r \in Run, Own(r)'
            PROVE  /\ r \in cur'["worker"] => snap'["worker"] = EventsOf(r)'
                   /\ r \in todo'["worker"] \cup cur'["worker"] \cup unsafe' \/ cases'[r] = EventsOf(r)'
            <3>1. CASE r \in R BY <2>1, <3>1
            <3>2. CASE r \notin R
                  <4>1. EventsOf(r)' = EventsOf(r) /\ Own(r) BY <1>4, <1>5, <2>4, <3>2
                  <4> QED BY <1>1, <1>3, <1>8, <2>1, <4>1 DEF FreshInv, WorkerInHand
            <3> QED BY <3>1, <3>2
      <2>5. WorkerInHand' BY <2>4 DEF WorkerInHand
      <2> QED BY <2>3, <2>5
<1> QED BY <1>7, <1>8 DEF Thread

\* A rebuild writes what it read; the two threads have no case in common that
\* is only the worker's.
LEMMA HandsRebuild ==
    ASSUME FreshInv, NEW t \in Thread, RebuildRead(t) \/ RebuildWrite(t) \/ RebuildFails(t),
           Serving' => Serving
    PROVE  ServerInHand' /\ WorkerInHand'
<1> SUFFICES ASSUME Serving, Serving' PROVE ServerInHand' /\ WorkerInHand'
    BY DEF ServerInHand, WorkerInHand
<1> USE DEF caseVars, spoolVars, dbVars
<1>1. /\ UNCHANGED <<bid, items, table>> /\ pc[t] \in {"rebuild", "project"}
      /\ \E p \in {"rebuild", "project"} : pc' = [pc EXCEPT ![t] = p]
      BY DEF RebuildRead, RebuildWrite, RebuildFails, WriteCase
<1>2. /\ pc \in [Thread -> {"idle", "write", "apply", "rebuild", "project"}]
      /\ todo \in [Thread -> SUBSET Run] /\ cur \in [Thread -> SUBSET Run]
      /\ snap \in [Thread -> SUBSET Event] /\ cases \in [Run -> SUBSET Event]
      /\ "server" \in Thread /\ "worker" \in Thread
      BY Typing DEF FreshInv
<1>3. \A r \in Run : EventsOf(r)' = EventsOf(r) /\ Own(r)' = Own(r)
      BY <1>1 DEF EventsOf, Own
<1>4. pc'["server"] \in {"write", "apply"} => pc["server"] \in {"write", "apply"}
      BY <1>1, <1>2
<1>5. ASSUME NEW r \in Run, Own(r)
      PROVE  /\ r \notin todo["server"] \cup cur["server"]
             /\ r \in cur["worker"] => snap["worker"] = EventsOf(r)
             /\ r \in todo["worker"] \cup cur["worker"] \cup unsafe \/ cases[r] = EventsOf(r)
      BY <1>5 DEF FreshInv, ServerInHand, WorkerInHand
<1>6. ASSUME \A r \in Run : Own(r) => /\ r \notin todo'["server"] \cup cur'["server"]
                                      /\ r \in cur'["worker"] => snap'["worker"] = EventsOf(r)
                                      /\ \/ r \in todo'["worker"] \cup cur'["worker"] \cup unsafe'
                                         \/ cases'[r] = EventsOf(r),
             todo'["server"] \cup cur'["server"] \subseteq Run
      PROVE  ServerInHand' /\ WorkerInHand'
      <2>1. ServerInHand' BY <1>1, <1>3, <1>4, <1>6 DEF FreshInv, ServerInHand
      <2>2. WorkerInHand' BY <1>3, <1>6 DEF WorkerInHand
      <2> QED BY <2>1, <2>2
<1>7. CASE RebuildRead(t)
      <2>1. PICK q \in todo[t] : /\ cur' = [cur EXCEPT ![t] = {q}]
                                 /\ snap' = [snap EXCEPT ![t] = EventsOf(q)]
                                 /\ todo' = [todo EXCEPT ![t] = @ \ {q}]
            BY <1>7 DEF RebuildRead
      <2>2. cases' = cases /\ unsafe' = unsafe /\ pc[t] = "rebuild" BY <1>7 DEF RebuildRead
      <2>3. cur[t] = {} BY <2>2 DEF FreshInv, HandsEmpty
      <2>4. q \in Run /\ todo'["server"] \cup cur'["server"] \subseteq Run BY <1>2, <2>1
      <2>5. ASSUME NEW r \in Run, Own(r)
            PROVE  /\ r \notin todo'["server"] \cup cur'["server"]
                   /\ r \in cur'["worker"] => snap'["worker"] = EventsOf(r)
                   /\ r \in todo'["worker"] \cup cur'["worker"] \cup unsafe' \/ cases'[r] = EventsOf(r)
            <3>1. CASE t = "server" BY <1>2, <1>5, <2>1, <2>2, <2>5, <3>1
            <3>2. CASE t = "worker"
                  <4>1. /\ cur'["worker"] = {q} /\ snap'["worker"] = EventsOf(q)
                        /\ todo'["worker"] = todo["worker"] \ {q} /\ cur["worker"] = {}
                        /\ todo'["server"] = todo["server"] /\ cur'["server"] = cur["server"]
                        BY <1>2, <2>1, <2>3, <3>2
                  <4> QED BY <1>5, <2>2, <2>5, <4>1
            <3> QED BY <3>1, <3>2 DEF Thread
      <2> QED BY <1>6, <2>4, <2>5
<1>8. ASSUME NEW S, NEW marked, WriteCase(t, S, marked), todo' = todo,
             \/ S = [r \in Run |-> snap[t]] /\ marked = FALSE
             \/ S = cases /\ marked = TRUE
      PROVE  ServerInHand' /\ WorkerInHand'
      <2>1. /\ cases' = [r \in Run |-> IF r \in cur[t] THEN S[r] ELSE cases[r]]
            /\ unsafe' = IF marked THEN unsafe \cup cur[t] ELSE unsafe \ cur[t]
            /\ cur' = [cur EXCEPT ![t] = {}] /\ snap' = [snap EXCEPT ![t] = {}]
            BY <1>8 DEF WriteCase
      <2>2. todo'["server"] \cup cur'["server"] \subseteq Run BY <1>2, <1>8, <2>1
      <2>3. ASSUME NEW r \in Run, Own(r)
            PROVE  /\ r \notin todo'["server"] \cup cur'["server"]
                   /\ r \in cur'["worker"] => snap'["worker"] = EventsOf(r)
                   /\ r \in todo'["worker"] \cup cur'["worker"] \cup unsafe' \/ cases'[r] = EventsOf(r)
            <3>1. /\ r \notin cur[t] => cases'[r] = cases[r] /\ (r \in unsafe => r \in unsafe')
                  /\ r \in cur[t] => cases'[r] = S[r] /\ (marked => r \in unsafe')
                  BY <2>1
            <3>2. CASE t = "server"
                  <4>1. r \notin cur[t] /\ cur'["worker"] = cur["worker"] /\ snap'["worker"] = snap["worker"]
                        BY <1>2, <1>5, <2>1, <2>3, <3>2
                  <4>2. cur'["server"] = {} BY <1>2, <2>1, <3>2
                  <4> QED BY <1>5, <1>8, <2>3, <3>1, <4>1, <4>2
            <3>3. CASE t = "worker"
                  <4>1. cur'["worker"] = {} /\ cur'["server"] = cur["server"]
                        BY <1>2, <2>1, <3>3
                  <4>2. CASE r \in cur["worker"]
                        <5>1. snap["worker"] = EventsOf(r) BY <1>5, <2>3, <4>2
                        <5>2. r \in unsafe' \/ cases'[r] = EventsOf(r)
                              BY <1>8, <3>1, <3>3, <4>2, <5>1
                        <5> QED BY <1>5, <1>8, <2>3, <4>1, <5>2
                  <4>3. CASE r \notin cur["worker"]
                        BY <1>5, <1>8, <2>3, <3>1, <3>3, <4>1, <4>3
                  <4> QED BY <4>2, <4>3
            <3> QED BY <3>2, <3>3 DEF Thread
      <2> QED BY <1>6, <2>2, <2>3
<1>9. CASE RebuildWrite(t)
      BY <1>8, <1>9 DEF RebuildWrite
<1>10. CASE RebuildFails(t)
      BY <1>8, <1>10 DEF RebuildFails
<1> QED BY <1>7, <1>9, <1>10

LEMMA FreshInvNext == FreshInv /\ [Next]_vars => FreshInv'
<1> SUFFICES ASSUME FreshInv, [Next]_vars PROVE FreshInv'
    OBVIOUS
<1>0. StartInv' /\ HandsEmpty' /\ FreshStart'
      BY StartInvNext, HandsStep, FreshStartStep DEF FreshInv
<1> SUFFICES ASSUME Serving' PROVE ServerInHand' /\ WorkerInHand'
    BY <1>0 DEF FreshInv, ServerInHand, WorkerInHand
<1> USE DEF startVars, memVars, jobVars, spoolVars, dbVars, caseVars, envVars
<1>1. CASE StartupDone
      <2>1. /\ boot = 1 /\ phase = "recover" /\ UNCHANGED <<jobVars, spoolVars, dbVars, caseVars>>
            BY <1>1 DEF StartupDone, Serving
      <2>2. /\ table = {} /\ \A r \in Run : cases[r] = {}
            /\ pc["server"] = "idle" /\ pc["worker"] = "idle"
            BY <2>1, Typing DEF FreshInv, FreshStart
      <2>3. todo["server"] = {} /\ cur["server"] = {} /\ cur["worker"] = {}
            BY <2>2, Typing DEF FreshInv, HandsEmpty
      <2>4. \A r \in Run : EventsOf(r)' = {} BY <2>1, <2>2 DEF EventsOf
      <2>5. ServerInHand' BY <2>1, <2>2, <2>3 DEF ServerInHand
      <2>6. WorkerInHand' BY <2>1, <2>2, <2>3, <2>4 DEF WorkerInHand
      <2> QED BY <2>5, <2>6
<1>2. CASE ~StartupDone /\ ~Serving
      <2>1. boot' = 1 /\ phase' \in {"up", "stopping"} BY DEF Serving
      <2>2. boot' = boot /\ phase \in {"up", "stopping"}
            BY <1>2, <2>1 DEF Next, Startup, Request, Loop, Crash, Persist, Fail, GoDown, vars,
               Boot, ReplayDone, Quarantine, SkipApplied, ReplayBatch, NextFile,
               IsNext, RecoverSession,
               CloseSession, Enqueue, StoreItems, Stop, Get, PollEmpty, KeepBuffering,
               Flush, WorkerExit,
               Running, FinishFile, ApplyBatch, RebuildRead, RebuildWrite, FinishBatch,
               PersistFails,
               RebuildFails
      <2> QED BY <1>2, <2>1, <2>2 DEF Serving
<1>3. CASE Serving
      <2>1. CASE Startup
            BY <1>3, <2>1, HandsStay DEF Serving, Startup, Boot, ReplayDone,
                                        StartupDone, Quarantine,
               SkipApplied, ReplayBatch, NextFile, IsNext, RecoverSession, CloseSession
      <2>2. ASSUME NEW e \in Direct, StoreItems(e) PROVE ServerInHand' /\ WorkerInHand'
            <3>1. Elems(<<e>>) \subseteq Direct BY DEF Elems
            <3>2. BeginBatch("server",
            <<e>>) /\ "server" \in Thread BY <2>2 DEF StoreItems, Thread
            <3> QED BY <1>3, <3>1, <3>2, HandsBegin
      <2>3. CASE Flush
            <3>1. BeginBatch("worker", buffer) /\ "worker" \in Thread BY <2>3 DEF Flush, Thread
            <3> QED BY <1>3, <3>1, HandsBegin
      <2>4. CASE Request \/ Loop \/ Crash
            <3>1. CASE (\E e \in Captured : Enqueue(e)) \/ Stop \/ Get \/ PollEmpty \/ KeepBuffering
                  BY <1>3, <3>1, HandsStay DEF Enqueue, Stop, Get, PollEmpty, KeepBuffering
            <3>2. ~WorkerExit /\ ~Crash BY DEF WorkerExit, Crash, GoDown, Serving
            <3> QED BY <2>2, <2>3, <2>4, <3>1, <3>2 DEF Request, Loop
      <2>5. ASSUME NEW t \in Thread, Persist(t) \/ Fail(t) PROVE ServerInHand' /\ WorkerInHand'
            <3>1. CASE ApplyBatch(t) BY <1>3, <3>1, HandsCommit
            <3>2. CASE RebuildRead(t) \/ RebuildWrite(t) \/ RebuildFails(t) BY <1>3,
                                        <3>2, HandsRebuild
            <3>3. CASE FinishFile(t) \/ FinishBatch(t) \/ PersistFails(t)
                  <4>1. ~GoDown BY DEF GoDown, Serving
                  <4>2. /\ UNCHANGED <<items, table, cases, unsafe, todo, cur, snap>>
                        /\ \/ pc[t] = "write" /\ pc' = [pc EXCEPT ![t] = "apply"] /\ bid' = bid
                           \/ pc' = [pc EXCEPT ![t] = "idle"] /\ bid' = [bid EXCEPT ![t] = 0]
                        BY <3>3, <4>1 DEF FinishFile, FinishBatch, PersistFails
                  <4>3. /\ pc \in [Thread -> {"idle", "write", "apply", "rebuild", "project"}]
                        /\ bid \in [Thread -> BatchId \cup {0}] /\ "server" \in Thread
                        /\ todo["server"] \subseteq Run /\ cur["server"] \subseteq Run
                        BY Typing DEF FreshInv
                  <4>4. pc'["server"] \in {"write", "apply"} => /\ pc["server"] \in {"write", "apply"}
                                                              /\ bid'["server"] = bid["server"]
                        BY <4>2, <4>3
                  <4>5. \A r \in Run : EventsOf(r)' = EventsOf(r) /\ Own(r)' = Own(r)
                        BY <4>2 DEF EventsOf, Own
                  <4>6. ServerInHand' BY <1>3, <4>2, <4>3, <4>4, <4>5 DEF FreshInv, ServerInHand
                  <4>7. WorkerInHand' BY <1>3, <4>2, <4>5 DEF FreshInv, WorkerInHand
                  <4> QED BY <4>6, <4>7
            <3> QED BY <2>5, <3>1, <3>2, <3>3 DEF Persist, Fail
      <2>6. CASE UNCHANGED vars BY <1>3, <2>6, HandsStay DEF vars
      <2> QED BY <2>1, <2>4, <2>5, <2>6 DEF Next
<1> QED BY <1>1, <1>2, <1>3

\* With nothing in flight in a process that had nothing to recover, the case of
\* a run whose events only the worker stored shows them all, or says that it
\* is not to be used; whatever raises and is retried.
THEOREM WorkerKeepsCasesFresh == Spec => []WorkerProjectsItsEvents
<1>1. FreshInv => WorkerProjectsItsEvents
      <2> SUFFICES ASSUME FreshInv, phase = "up", boot = 1, \A t \in Thread : Idle(t),
                          NEW r \in Run, EventsOf(r) \cap Direct = {}
                   PROVE  cases[r] = EventsOf(r) \/ r \in unsafe
          BY DEF WorkerProjectsItsEvents
      <2>1. todo["worker"] = {} /\ cur["worker"] = {}
            BY Typing DEF FreshInv, HandsEmpty, Idle
      <2> QED BY <2>1 DEF FreshInv, WorkerInHand, Serving, Own
<1>2. Spec => []FreshInv BY FreshInvInit, FreshInvNext, PTL DEF Spec
<1> QED BY <1>1, <1>2, PTL
=============================================================================
