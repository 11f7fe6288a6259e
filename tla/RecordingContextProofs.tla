------------------------ MODULE RecordingContextProofs ------------------------
(***************************************************************************)
(* Proofs about RecordingContext, for any number of logging threads and    *)
(* every bound.                                                            *)
(***************************************************************************)
EXTENDS RecordingContext, TLAPS

LogKind == Kind \ {"security.redaction"}

\* The kinds an add_step has still to write: a step, or the step that says
\* what was redacted and then the step.
Works == {<<k>> : k \in LogKind} \cup {<<"security.redaction", k>> : k \in LogKind}

Pending == \E t \in Thread : pc[t] = "commit"

(* Only the thread that holds the lock is inside add_step.                  *)
TInv ==
    /\ TypeOK
    /\ \A t \in Thread : pc[t] # "idle" => lock = {t} /\ work[t] \in Works
    /\ Pending => built # 0

(* The rows.  While the database is open, the indexes below step_index are  *)
(* all there, once, and a row at step_index is the one a thread is about to *)
(* commit, with the hash built last.                                        *)

OnceEach ==
    \A s, u \in rows : s.index = u.index \/ s.hash = u.hash => s = u

HashesBuilt == \A s \in rows : s.hash <= built

AllBelow == \A k \in Nat : k < index => \E s \in rows : s.index = k

LastIsPending ==
    /\ \A s \in rows : s.index <= index
    /\ \A s \in rows : s.index = index => Pending /\ s.hash = built
    /\ Pending => \E s \in rows : s.index = index /\ s.hash = built

RowsInv ==
    /\ OnceEach /\ HashesBuilt
    /\ db = "open" => AllBelow /\ LastIsPending
    /\ Contiguous(rows) /\ Contiguous(exported)

(* The chain.  The anchor is the hash of the last step, which is the row    *)
(* being committed unless that is a redaction step's.                       *)

Linked(S) == \A s, u \in S : u.index = s.index + 1 => u.prev \in {ChainStart, s.hash}

AnchorIsLast ==
    IF \E t \in Thread : pc[t] = "commit" /\ ~Redacting(t)
    THEN anchor = built
    ELSE \A s \in rows : s.index + 1 = index => anchor = s.hash

ChainInv ==
    faults = 0 => /\ Linked(rows) /\ Linked(exported)
                  /\ db = "open" => AnchorIsLast

RInv == TInv /\ RowsInv /\ ChainInv

-----------------------------------------------------------------------------
(* Type correctness and the lock.                                           *)

LEMMA TInvInit == Init => TInv
<1> SUFFICES ASSUME Init PROVE TInv
    OBVIOUS
<1>1. faults \in 0..MaxFaults BY RecordingAssumption DEF Init
<1>2. <<>> \in Seq(Kind) OBVIOUS
<1>3. work \in [Thread -> Seq(Kind)] /\ pc \in [Thread -> {"idle", "insert", "commit"}]
      BY <1>2 DEF Init
<1>4. \A t \in Thread : pc[t] = "idle" BY DEF Init
<1> QED BY <1>1, <1>3, <1>4 DEF Init, TInv, TypeOK, Pending, Phase, ChainStart

LEMMA WorksType ==
    ASSUME NEW w \in Works
    PROVE  /\ w \in Seq(Kind) /\ w # <<>> /\ Head(w) \in Kind
           /\ Head(w) = "security.redaction" => Tail(w) \in Works
<1>1. CASE \E k \in LogKind : w = <<k>>
      BY <1>1 DEF LogKind
<1>2. CASE \E k \in LogKind : w = <<"security.redaction", k>>
      <2>1. PICK k \in LogKind : w = <<"security.redaction", k>> BY <1>2
      <2>2. Tail(w) = <<k>> BY <2>1
      <2>3. "security.redaction" \in Kind /\ k \in Kind BY DEF Kind, LogKind
      <2> QED BY <2>1, <2>2, <2>3 DEF Works
<1> QED BY <1>1, <1>2 DEF Works

LEMMA AddStepType ==
    ASSUME TInv, NEW t \in Thread, NEW k \in LogKind, AddStep(t, k)
    PROVE  /\ lock' \subseteq Thread
           /\ pc' \in [Thread -> {"idle", "insert", "commit"}]
           /\ work' \in [Thread -> Seq(Kind)]
           /\ \A u \in Thread : pc'[u] # "idle" => lock' = {u} /\ work'[u] \in Works
           /\ ~Pending'
<1>1. PICK w \in Works : work' = [work EXCEPT ![t] = w]
      BY DEF AddStep, Works
<1>2. w \in Seq(Kind) BY WorksType
<1> QED BY <1>1, <1>2 DEF AddStep, TInv, TypeOK, Idle, Pending

LEMMA LeaveType ==
    ASSUME TInv, NEW t \in Thread, Leave(t)
    PROVE  /\ lock' \subseteq Thread
           /\ pc' \in [Thread -> {"idle", "insert", "commit"}]
           /\ work' \in [Thread -> Seq(Kind)]
           /\ pc[t] # "idle" => \A u \in Thread : pc'[u] = "idle"
<1>1. <<>> \in Seq(Kind) OBVIOUS
<1> QED BY <1>1 DEF Leave, TInv, TypeOK

LEMMA TInvNext == TInv /\ [Next]_vars => TInv'
<1> SUFFICES ASSUME TInv, [Next]_vars PROVE TInv'
    OBVIOUS
<1> USE RecordingAssumption
<1> USE DEF TInv, TypeOK, logVars, sealVars
<1>1. "main" \in Thread /\ {"session.start", "log", "tail", "environment",
                            "session.error", "session.end"} \subseteq LogKind
      BY DEF Thread, LogKind, Kind
<1>0. ASSUME UNCHANGED logVars, phase' \in Phase, raised' \in BOOLEAN,
             tail' \in {"none", "buffered", "emitted"},
             exported' \subseteq Step, db' \in {"open", "closed"},
             workspace' \in BOOLEAN, temporary' \in BOOLEAN,
             artifact' \in {"none", "unsigned", "signed"},
             faults' \in 0..MaxFaults
      PROVE  TInv'
      BY <1>0 DEF Pending
<1>2. ASSUME NEW t \in Thread, NEW k \in LogKind, AddStep(t, k),
             phase' \in Phase, raised' \in BOOLEAN,
             tail' \in {"none", "buffered", "emitted"}, UNCHANGED sealVars
      PROVE  TInv'
      <2>1. UNCHANGED <<index, anchor, built, rows, returned, faults>>
            BY <1>2 DEF AddStep
      <2> QED BY <1>2, <2>1, AddStepType
<1>3. ASSUME faults < MaxFaults, faults' = faults + 1
      PROVE  faults' \in 0..MaxFaults
      BY <1>3
<1>4. CASE Main
      <2>1. CASE Enter BY <2>1, <1>1, <1>2 DEF Enter, Phase
      <2>2. CASE EnterDone BY <2>2, <1>0 DEF EnterDone, Phase
      <2>3. CASE Exit BY <2>3, <1>1, <1>2 DEF Exit, Phase
      <2>4. CASE LogNoEnvironment
            BY <2>4, <1>1, <1>2 DEF LogNoEnvironment, Phase
      <2>5. CASE LogError BY <2>5, <1>1, <1>2 DEF LogError, Phase
      <2>6. CASE LogEnd BY <2>6, <1>1, <1>2 DEF LogEnd, Phase
      <2>7. CASE EmitPending BY <2>7, <1>1, <1>2 DEF EmitPending, Phase
      <2>8. CASE Export BY <2>8, <1>0 DEF Export, Go, Phase
      <2>9. CASE CloseDb BY <2>9, <1>0 DEF CloseDb, Go, Phase
      <2>10. CASE Pack BY <2>10, <1>0 DEF Pack, Go, Phase
      <2>11. CASE Sign BY <2>11, <1>0 DEF Sign, Go, Phase
      <2>12. CASE Unlink BY <2>12, <1>0 DEF Unlink, Go, Phase
      <2>13. CASE Rename BY <2>13, <1>0 DEF Rename, Go, Phase
      <2>14. CASE Cleanup BY <2>14, <1>0 DEF Cleanup, Go, Phase
      <2> QED BY <1>4, <2>1, <2>2, <2>3, <2>4, <2>5, <2>6, <2>7, <2>8, <2>9,
                 <2>10, <2>11, <2>12, <2>13, <2>14 DEF Main
<1>5. CASE PrintTail BY <1>5, <1>0 DEF PrintTail, Phase
<1>6. CASE CaptureFails
      <2>1. faults' \in 0..MaxFaults BY <1>6, <1>3 DEF CaptureFails
      <2> QED BY <1>6, <2>1, <1>0 DEF CaptureFails, Phase
<1>7. CASE ExitRaises
      <2>1. faults' \in 0..MaxFaults BY <1>7, <1>3 DEF ExitRaises, Raise
      <2> QED BY <1>7, <2>1, <1>0 DEF ExitRaises, Raise, Go, Phase
<1>8. CASE Crash BY <1>8, <1>0 DEF Crash, Phase
<1>9. ASSUME NEW t \in Thread, Log(t) PROVE TInv'
      <2>1. AddStep(t, "log") /\ UNCHANGED <<phase, raised, tail, sealVars>>
            BY <1>9, Zenon DEF Log
      <2> QED BY <2>1, <1>1, <1>2
<1>10. ASSUME NEW t \in Thread, Insert(t) PROVE TInv'
      <2>1. work[t] \in Works /\ Head(work[t]) \in Kind
            BY <1>10, WorksType DEF Insert
      <2>2. built + 1 \in Nat \ {0} /\ index \in Nat /\ anchor \in Nat
            OBVIOUS
      <2>3. NewStep(t) \in Step
            BY <2>1, <2>2, Zenon DEF NewStep, Step
      <2>4. anchor' \in Nat BY <1>10 DEF Insert, AnchorBeforeWrite
      <2>5. /\ rows' = rows \cup {NewStep(t)} /\ built' = built + 1
            /\ pc' = [pc EXCEPT ![t] = "commit"] /\ pc[t] = "insert"
            /\ UNCHANGED <<phase, raised, tail, lock, work, index, returned,
                           sealVars, faults>>
            BY <1>10 DEF Insert
      <2>6. rows' \subseteq Step BY <2>3, <2>5
      <2>7. built' \in Nat /\ built' # 0 BY <2>5
      <2> QED BY <2>4, <2>5, <2>6, <2>7
<1>11. ASSUME NEW t \in Thread, Commit(t) PROVE TInv'
      <2>1. /\ pc[t] = "commit" /\ index' = index + 1
            /\ UNCHANGED <<phase, raised, tail, built, rows, sealVars, faults>>
            BY <1>11 DEF Commit
      <2>2. built \in Nat \ {0} /\ lock = {t} /\ work[t] \in Works
            BY <2>1 DEF Pending
      <2>3. anchor' \in Nat /\ index' \in Nat
            BY <1>11, <2>1 DEF Commit, AnchorAfterCommit
      <2>4. CASE Redacting(t)
            <3>1. /\ work' = [work EXCEPT ![t] = Tail(@)]
                  /\ pc' = [pc EXCEPT ![t] = "insert"]
                  /\ UNCHANGED <<lock, returned>>
                  BY <1>11, <2>4 DEF Commit
            <3>2. Tail(work[t]) \in Works BY <2>2, <2>4, WorksType DEF Redacting
            <3>3. Tail(work[t]) \in Seq(Kind) BY <3>2, WorksType
            <3>4. ~Pending' BY <3>1, <2>2 DEF Pending
            <3>5. \A u \in Thread : pc'[u] # "idle" => lock' = {u} /\ work'[u] \in Works
                  BY <3>1, <3>2, <2>2
            <3>6. work' \in [Thread -> Seq(Kind)]
                  BY <3>1, <3>3
            <3> QED BY <2>1, <2>3, <3>1, <3>4, <3>5, <3>6
      <2>5. CASE ~Redacting(t)
            <3>1. Leave(t) /\ returned' = returned \cup {built}
                  BY <1>11, <2>5 DEF Commit
            <3>2. \A u \in Thread : pc'[u] = "idle" BY <2>1, <3>1, LeaveType
            <3>3. ~Pending' BY <3>2 DEF Pending
            <3> QED BY <2>1, <2>2, <2>3, <3>1, <3>2, <3>3, LeaveType
      <2> QED BY <2>4, <2>5
<1>12. ASSUME NEW t \in Thread, WriteRaises(t) PROVE TInv'
      <2>1. /\ pc[t] \in {"insert", "commit"} /\ Leave(t)
            /\ phase' = AfterRaise(t)
            /\ UNCHANGED <<raised, tail, index, returned, sealVars>>
            BY <1>12 DEF WriteRaises
      <2>2. \A u \in Thread : pc'[u] = "idle" BY <2>1, LeaveType
      <2>3. ~Pending' BY <2>2 DEF Pending
      <2>4. rows' \subseteq Step /\ built' \in Nat /\ anchor' \in Nat
            BY <1>12 DEF WriteRaises, AnchorBeforeWrite
      <2>5. faults' \in 0..MaxFaults BY <1>12, <1>3 DEF WriteRaises
      <2>6. phase' \in Phase BY <2>1 DEF AfterRaise, Phase
      <2> QED BY <2>1, <2>2, <2>3, <2>4, <2>5, <2>6, LeaveType
<1>13. CASE UNCHANGED vars BY <1>13, <1>0 DEF vars
<1> QED BY <1>4, <1>5, <1>6, <1>7, <1>8, <1>9, <1>10, <1>11, <1>12, <1>13
        DEF Next, Write

\* The state is always well typed, whatever threads log and whatever raises.
THEOREM RecordingTypeCorrect == Spec => []TypeOK
<1>1. TInv => TypeOK BY DEF TInv
<1> QED BY TInvInit, TInvNext, <1>1, PTL DEF Spec

-----------------------------------------------------------------------------
(* The indexes.                                                             *)

\* Rows that are there once each and leave no gap below n.
LEMMA NoGap ==
    ASSUME NEW R, R \subseteq Step, NEW n \in Nat,
           \A s, u \in R : s.index = u.index => s = u,
           \A k \in Nat : k < n => \E s \in R : s.index = k,
           \A s \in R : s.index <= n
    PROVE  Contiguous(R)
<1>1. \A s \in R : s.index \in Nat BY DEF Step
<1>2. ASSUME NEW s \in R, s.index > 0
      PROVE  \E u \in R : u.index + 1 = s.index
      <2>1. s.index \in Nat /\ s.index <= n BY <1>1
      <2>2. s.index - 1 \in Nat /\ s.index - 1 < n BY <2>1, <1>2
      <2>3. PICK u \in R : u.index = s.index - 1 BY <2>2
      <2>4. u.index \in Nat BY <1>1
      <2> QED BY <2>1, <2>3, <2>4
<1> QED BY <1>2 DEF Contiguous

\* While no thread is in add_step nothing is pending; while t is, nobody else is.
LEMMA LockExcludes ==
    ASSUME TInv
    PROVE  /\ lock = {} => \A u \in Thread : pc[u] = "idle"
           /\ \A t, u \in Thread : pc[t] # "idle" /\ u # t => pc[u] = "idle"
           /\ \A t \in Thread : pc[t] = "insert" => ~Pending
BY DEF TInv, TypeOK, Pending

\* A step that does not touch the rows.
LEMMA RowsQuiet ==
    ASSUME RowsInv, UNCHANGED <<index, built, rows>>, Pending' <=> Pending,
           db' = "open" => db = "open", exported' \in {exported, rows}
    PROVE  RowsInv'
BY DEF RowsInv, OnceEach, HashesBuilt, AllBelow, LastIsPending, Contiguous

LEMMA RowsInsert ==
    ASSUME TInv, TInv', RowsInv, NEW t \in Thread, Insert(t)
    PROVE  RowsInv'
<1> USE DEF TInv, TypeOK
<1>1. /\ pc[t] = "insert" /\ pc' = [pc EXCEPT ![t] = "commit"]
      /\ db = "open" /\ db' = "open"
      /\ rows' = rows \cup {NewStep(t)}
      /\ built' = built + 1 /\ index' = index /\ exported' = exported
      BY DEF Insert, sealVars
<1>2. NewStep(t).hash = built + 1 /\ NewStep(t).index = index
      BY DEF NewStep
<1>3. ~Pending /\ Pending' BY <1>1, LockExcludes DEF Pending
<1>4. \A s \in rows : s.hash \in Nat /\ s.index \in Nat BY DEF Step
<1>5. \A s \in rows : s.hash <= built /\ s.index <= index /\ s.index # index
      BY <1>1, <1>3 DEF RowsInv, HashesBuilt, LastIsPending
<1>6. \A s \in rows : s.hash # built + 1 BY <1>4, <1>5
<1>7. OnceEach' BY <1>1, <1>2, <1>5, <1>6 DEF RowsInv, OnceEach
<1>8. HashesBuilt' BY <1>1, <1>2, <1>4, <1>5 DEF HashesBuilt
<1>9. AllBelow' BY <1>1 DEF RowsInv, AllBelow
<1>10. (\A s \in rows : s.index <= index)' BY <1>1, <1>2, <1>5
<1>11. LastIsPending'
       BY <1>1, <1>2, <1>3, <1>5, <1>10 DEF LastIsPending
<1>12. Contiguous(rows')
       BY <1>7, <1>9, <1>10, NoGap DEF OnceEach, AllBelow
<1> QED BY <1>1, <1>7, <1>8, <1>9, <1>11, <1>12 DEF RowsInv, Contiguous

LEMMA RowsCommit ==
    ASSUME TInv, TInv', ~Pending', RowsInv, NEW t \in Thread, Commit(t)
    PROVE  RowsInv'
<1> USE DEF TInv, TypeOK
<1>1. /\ pc[t] = "commit" /\ db = "open" /\ db' = "open"
      /\ rows' = rows /\ built' = built /\ index' = index + 1
      /\ exported' = exported
      BY DEF Commit, sealVars
<1>2. Pending BY <1>1 DEF Pending
<1>3. \A s \in rows : s.index \in Nat BY DEF Step
<1>4. PICK r \in rows : r.index = index
      BY <1>1, <1>2 DEF RowsInv, LastIsPending
<1>5. AllBelow'
      <2>1. ASSUME NEW k \in Nat, k < index + 1
            PROVE  \E s \in rows : s.index = k
            <3>1. k < index \/ k = index BY <2>1
            <3> QED BY <1>1, <1>4, <3>1 DEF RowsInv, AllBelow
      <2> QED BY <1>1, <2>1 DEF AllBelow
<1>6. \A s \in rows : s.index <= index BY <1>1 DEF RowsInv, LastIsPending
<1>7. \A s \in rows : s.index <= index + 1 /\ s.index # index + 1
      BY <1>3, <1>6
<1>8. LastIsPending' BY <1>1, <1>7 DEF LastIsPending
<1> QED BY <1>1, <1>5, <1>8 DEF RowsInv, OnceEach, HashesBuilt, Contiguous

LEMMA RowsRaise ==
    ASSUME TInv, TInv', RowsInv, NEW t \in Thread, WriteRaises(t)
    PROVE  RowsInv'
<1> USE DEF TInv, TypeOK
<1>1. /\ pc[t] \in {"insert", "commit"} /\ Leave(t)
      /\ index' = index /\ exported' = exported /\ db' = db
      /\ built' \in {built, built + 1}
      BY DEF WriteRaises, sealVars
<1>2. \A u \in Thread : pc'[u] = "idle" BY <1>1, LeaveType
<1>3. ~Pending' BY <1>2 DEF Pending
<1>4. \A s \in rows : s.hash \in Nat /\ s.index \in Nat BY DEF Step
<1>5. built <= built' BY <1>1
<1>6. \A s \in rows : s.hash <= built BY DEF RowsInv, HashesBuilt
<1>7. \A s \in rows : s.hash <= built' BY <1>1, <1>4, <1>5, <1>6
<1>8. CASE rows' = rows /\ (db = "closed" \/ pc[t] = "insert")
      <2>1. db = "open" => ~Pending BY <1>8, LockExcludes
      <2>2. db = "open" => LastIsPending'
            BY <1>1, <1>3, <1>8, <2>1 DEF RowsInv, LastIsPending
      <2>3. db = "open" => AllBelow' BY <1>1, <1>8 DEF RowsInv, AllBelow
      <2>4. HashesBuilt' BY <1>8, <1>7 DEF HashesBuilt
      <2>5. OnceEach' /\ Contiguous(rows)' /\ Contiguous(exported)'
            BY <1>1, <1>8 DEF RowsInv, OnceEach, Contiguous
      <2> QED BY <1>1, <2>2, <2>3, <2>4, <2>5 DEF RowsInv
<1>9. CASE /\ db = "open" /\ pc[t] = "commit"
           /\ rows' = {s \in rows : s.hash # built}
      <2>1. Pending BY <1>9 DEF Pending
      <2>2. PICK r \in rows : r.index = index /\ r.hash = built
            BY <1>9, <2>1 DEF RowsInv, LastIsPending
      <2>3. OnceEach' BY <1>9 DEF RowsInv, OnceEach
      <2>4. HashesBuilt' BY <1>9, <1>7 DEF HashesBuilt
      <2>5. AllBelow'
            <3>1. ASSUME NEW k \in Nat, k < index
                  PROVE  \E s \in rows' : s.index = k
                  <4>1. PICK s \in rows : s.index = k
                        BY <1>9, <3>1 DEF RowsInv, AllBelow
                  <4>2. s # r BY <2>2, <3>1, <4>1
                  <4>3. s.hash # built BY <2>2, <4>2 DEF RowsInv, OnceEach
                  <4> QED BY <1>9, <4>1, <4>3
            <3> QED BY <1>1, <3>1 DEF AllBelow
      <2>6. \A s \in rows : s.index <= index /\ (s.index = index => s.hash = built)
            BY <1>9 DEF RowsInv, LastIsPending
      <2>7. LastIsPending'
            BY <1>1, <1>3, <1>9, <2>6 DEF LastIsPending
      <2>8. (\A s \in rows : s.index <= index)' BY <1>1, <1>9, <2>6
      <2>9. Contiguous(rows')
            BY <2>3, <2>5, <2>8, NoGap DEF OnceEach, AllBelow
      <2> QED BY <1>1, <2>3, <2>4, <2>5, <2>7, <2>9 DEF RowsInv, Contiguous
<1> QED BY <1>1, <1>8, <1>9 DEF WriteRaises

-----------------------------------------------------------------------------
(* The chain.                                                               *)

\* A step that touches neither the rows nor the anchor.
LEMMA ChainQuiet ==
    ASSUME ChainInv, faults \in Nat, faults' = faults \/ faults' > faults,
           UNCHANGED <<index, anchor, built, rows>>,
           \A t \in Thread : pc[t] = "commit" \/ pc'[t] = "commit"
                              => UNCHANGED <<pc, work>>,
           db' = "open" => db = "open", exported' \in {exported, rows}
    PROVE  ChainInv'
<1>1. faults' = 0 => faults = 0 OBVIOUS
<1>2. (\E t \in Thread : pc[t] = "commit" /\ ~Redacting(t))' <=>
      \E t \in Thread : pc[t] = "commit" /\ ~Redacting(t)
      BY DEF Redacting
<1>3. AnchorIsLast => AnchorIsLast' BY <1>2 DEF AnchorIsLast
<1> QED BY <1>1, <1>3 DEF ChainInv, Linked

\* Inserting a step: it names the row before it.
LEMMA ChainInsert ==
    ASSUME TInv, TInv', RowsInv, ChainInv, NEW t \in Thread, Insert(t)
    PROVE  ChainInv'
<1> USE DEF TInv, TypeOK
<1> SUFFICES ASSUME faults = 0
             PROVE  Linked(rows)' /\ Linked(exported)' /\ AnchorIsLast'
    BY DEF ChainInv, Insert
<1>1. /\ pc[t] = "insert" /\ pc' = [pc EXCEPT ![t] = "commit"]
      /\ db = "open" /\ work' = work
      /\ rows' = rows \cup {NewStep(t)}
      /\ built' = built + 1 /\ index' = index /\ exported' = exported
      /\ anchor' = IF Redacting(t) THEN anchor ELSE built + 1
      BY DEF Insert, sealVars, AnchorBeforeWrite
<1>2. NewStep(t).prev = anchor /\ NewStep(t).index = index
      BY DEF NewStep
<1>3. ~Pending /\ \A u \in Thread \ {t} : pc[u] = "idle"
      BY <1>1, LockExcludes
<1>4. \A s \in rows : s.index \in Nat /\ s.index <= index
      BY <1>1 DEF RowsInv, LastIsPending, Step
<1>5. \A s \in rows : s.index + 1 = index => anchor = s.hash
      BY <1>1, <1>3 DEF ChainInv, AnchorIsLast, Pending
<1>6. \A s \in rows : s.index # index + 1 BY <1>4
<1>7. Linked(rows)'
      <2>1. Linked(rows) BY DEF ChainInv
      <2>2. index # index + 1 OBVIOUS
      <2> QED BY <1>1, <1>2, <1>5, <1>6, <2>1, <2>2 DEF Linked
<1>8. Linked(exported)' BY <1>1 DEF ChainInv, Linked
<1>9. AnchorIsLast'
      <2>1. Redacting(t)' <=> Redacting(t) BY <1>1 DEF Redacting
      <2>2. CASE Redacting(t)
            <3>1. ~(\E u \in Thread : pc[u] = "commit" /\ ~Redacting(u))'
                  BY <1>1, <1>3, <2>1, <2>2
            <3>2. \A s \in rows' : s.index + 1 = index => anchor = s.hash
                  BY <1>1, <1>2, <1>5
            <3> QED BY <1>1, <2>2, <3>1, <3>2 DEF AnchorIsLast
      <2>3. CASE ~Redacting(t)
            <3>1. (\E u \in Thread : pc[u] = "commit" /\ ~Redacting(u))'
                  BY <1>1, <2>1, <2>3
            <3> QED BY <1>1, <2>3, <3>1 DEF AnchorIsLast
      <2> QED BY <2>2, <2>3
<1> QED BY <1>7, <1>8, <1>9

\* Committing a step: it is the last row, and the anchor is its hash.
LEMMA ChainCommit ==
    ASSUME TInv, ~Pending', RowsInv, ChainInv, NEW t \in Thread, Commit(t)
    PROVE  ChainInv'
<1> USE DEF TInv, TypeOK
<1> SUFFICES ASSUME faults = 0
             PROVE  Linked(rows)' /\ Linked(exported)' /\ AnchorIsLast'
    BY DEF ChainInv, Commit
<1>1. /\ pc[t] = "commit" /\ db = "open"
      /\ rows' = rows /\ index' = index + 1 /\ exported' = exported
      /\ anchor' = IF Redacting(t) THEN built ELSE anchor
      BY DEF Commit, sealVars, AnchorAfterCommit
<1>2. anchor' = built
      <2>1. CASE Redacting(t) BY <1>1, <2>1
      <2>2. CASE ~Redacting(t)
            <3>1. anchor = built BY <1>1, <2>2 DEF ChainInv, AnchorIsLast
            <3> QED BY <1>1, <2>2, <3>1
      <2> QED BY <2>1, <2>2
<1>3. \A s \in rows : s.index \in Nat /\ (s.index = index => s.hash = built)
      BY <1>1 DEF RowsInv, LastIsPending, Step
<1>4. \A s \in rows : s.index + 1 = index + 1 => s.hash = built
      BY <1>3
<1>5. AnchorIsLast' BY <1>1, <1>2, <1>4 DEF AnchorIsLast, Pending
<1>6. Linked(rows)' /\ Linked(exported)' BY <1>1 DEF ChainInv, Linked
<1> QED BY <1>5, <1>6

\* The first exception lifts the promise; without one only a closed database
\* raises, and its rows stay.
LEMMA ChainRaise ==
    ASSUME TInv, ChainInv, NEW t \in Thread, WriteRaises(t)
    PROVE  ChainInv'
<1>1. exported' = exported /\ db' = db BY DEF WriteRaises, sealVars
<1>2. CASE db = "closed" /\ rows' = rows /\ faults' = faults
      BY <1>1, <1>2 DEF ChainInv, Linked
<1>3. CASE faults' = faults + 1
      <2>1. faults' # 0 BY <1>3 DEF TInv, TypeOK
      <2> QED BY <2>1 DEF ChainInv
<1> QED BY <1>2, <1>3 DEF WriteRaises

-----------------------------------------------------------------------------
(* Rows and chain together.                                                 *)

LEMMA RInvInit == Init => RInv
<1> SUFFICES ASSUME Init PROVE RInv
    OBVIOUS
<1>1. RowsInv
      BY DEF Init, RowsInv, OnceEach, HashesBuilt, AllBelow, LastIsPending,
             Pending, Contiguous
<1>2. ChainInv
      BY DEF Init, ChainInv, Linked, AnchorIsLast
<1> QED BY <1>1, <1>2, TInvInit DEF RInv

LEMMA RInvNext == RInv /\ [Next]_vars => RInv'
<1> SUFFICES ASSUME RInv, [Next]_vars PROVE RInv'
    OBVIOUS
<1>1. TInv /\ TInv' /\ RowsInv /\ ChainInv BY TInvNext DEF RInv
<1>2. faults \in Nat BY <1>1, RecordingAssumption DEF TInv, TypeOK
<1>3. ASSUME UNCHANGED logVars, faults' = faults \/ faults' = faults + 1,
             db' = "open" => db = "open", exported' \in {exported, rows}
      PROVE  RInv'
      <2>1. faults' = faults \/ faults' > faults BY <1>2, <1>3
      <2>2. RowsInv' BY <1>1, <1>3, RowsQuiet DEF logVars, Pending
      <2>3. ChainInv' BY <1>1, <1>2, <1>3, <2>1, ChainQuiet DEF logVars
      <2> QED BY <1>1, <2>2, <2>3 DEF RInv
<1>4. ASSUME NEW t \in Thread, NEW k \in Kind, AddStep(t, k), UNCHANGED sealVars
      PROVE  RInv'
      <2>1. /\ lock = {} /\ pc' = [pc EXCEPT ![t] = "insert"]
            /\ UNCHANGED <<index, anchor, built, rows, faults, db, exported>>
            BY <1>4 DEF AddStep, sealVars
      <2>2. \A u \in Thread : pc[u] # "commit" /\ pc'[u] # "commit"
            BY <1>1, <2>1, LockExcludes DEF TInv, TypeOK
      <2>3. Pending' <=> Pending BY <2>2 DEF Pending
      <2>4. RowsInv' BY <1>1, <2>1, <2>3, RowsQuiet
      <2>5. ChainInv' BY <1>1, <1>2, <2>1, <2>2, ChainQuiet
      <2> QED BY <1>1, <2>4, <2>5 DEF RInv
<1>5. "main" \in Thread /\ {"session.start", "log", "tail", "environment",
                             "session.error", "session.end"} \subseteq Kind
      BY DEF Thread, Kind
<1>6. CASE Main
      <2>1. CASE Enter BY <2>1, <1>4, <1>5 DEF Enter
      <2>2. CASE EnterDone BY <2>2, <1>3 DEF EnterDone, sealVars
      <2>3. CASE Exit BY <2>3, <1>4, <1>5 DEF Exit
      <2>4. CASE LogNoEnvironment BY <2>4, <1>4, <1>5 DEF LogNoEnvironment
      <2>5. CASE LogError BY <2>5, <1>4, <1>5 DEF LogError
      <2>6. CASE LogEnd BY <2>6, <1>4, <1>5 DEF LogEnd
      <2>7. CASE EmitPending BY <2>7, <1>4, <1>5 DEF EmitPending
      <2>8. CASE Export BY <2>8, <1>3 DEF Export, Go
      <2>9. CASE CloseDb BY <2>9, <1>3 DEF CloseDb, Go
      <2>10. CASE Pack BY <2>10, <1>3 DEF Pack, Go
      <2>11. CASE Sign BY <2>11, <1>3 DEF Sign, Go
      <2>12. CASE Unlink BY <2>12, <1>3 DEF Unlink, Go
      <2>13. CASE Rename BY <2>13, <1>3 DEF Rename, Go
      <2>14. CASE Cleanup BY <2>14, <1>3 DEF Cleanup, Go
      <2> QED BY <1>6, <2>1, <2>2, <2>3, <2>4, <2>5, <2>6, <2>7, <2>8, <2>9,
                 <2>10, <2>11, <2>12, <2>13, <2>14 DEF Main
<1>7. CASE PrintTail BY <1>7, <1>3 DEF PrintTail, sealVars
<1>8. CASE CaptureFails BY <1>8, <1>3 DEF CaptureFails, sealVars
<1>9. CASE ExitRaises BY <1>9, <1>3 DEF ExitRaises, Raise, Go, sealVars
<1>10. CASE Crash BY <1>10, <1>3 DEF Crash, sealVars
<1>11. CASE UNCHANGED vars BY <1>11, <1>3 DEF vars, sealVars
<1>12. ASSUME NEW t \in Thread, Log(t) PROVE RInv'
       <2>1. AddStep(t, "log") /\ UNCHANGED sealVars BY <1>12, Zenon DEF Log
       <2> QED BY <2>1, <1>4, <1>5
<1>13. ASSUME NEW t \in Thread, Insert(t) PROVE RInv'
       BY <1>1, <1>13, RowsInsert, ChainInsert DEF RInv
<1>14. ASSUME NEW t \in Thread, Commit(t) PROVE RInv'
       <2>1. ~Pending'
             <3>1. pc[t] = "commit" /\ \A u \in Thread \ {t} : pc[u] = "idle"
                   BY <1>1, <1>14, LockExcludes DEF Commit
             <3>2. \/ pc' = [pc EXCEPT ![t] = "insert"]
                   \/ pc' = [pc EXCEPT ![t] = "idle"]
                   BY <1>14 DEF Commit, Leave
             <3> QED BY <1>1, <3>1, <3>2 DEF Pending, TInv, TypeOK
       <2> QED BY <1>1, <1>14, <2>1, RowsCommit, ChainCommit DEF RInv
<1>15. ASSUME NEW t \in Thread, WriteRaises(t) PROVE RInv'
       BY <1>1, <1>15, RowsRaise, ChainRaise DEF RInv
<1> QED BY <1>6, <1>7, <1>8, <1>9, <1>10, <1>11, <1>12, <1>13, <1>14, <1>15
        DEF Next, Write

LEMMA RInvHolds == Spec => []RInv
BY RInvInit, RInvNext, PTL DEF Spec

\* Whatever threads log and whatever writes fail, the indexes in the database
\* and in steps.jsonl are 0, 1, 2, ...
THEOREM IndexesAreContiguous == Spec => []IndexContiguous
<1>1. RInv => IndexContiguous BY DEF RInv, RowsInv, IndexContiguous
<1> QED BY <1>1, RInvHolds, PTL

LEMMA LinkedVerifies ==
    ASSUME NEW R, R \subseteq Step, Contiguous(R), Linked(R)
    PROVE  Verifies(R)
<1> SUFFICES ASSUME NEW s \in R, NEW u \in R, s.index < u.index,
                    \A v \in R : v.index <= s.index \/ u.index <= v.index
             PROVE  u.prev \in {ChainStart, s.hash}
    BY DEF Verifies
<1>1. \A v \in R : v.index \in Nat BY DEF Step
<1>2. PICK v \in R : v.index + 1 = u.index
      <2>1. u.index > 0 BY <1>1
      <2> QED BY <2>1 DEF Contiguous
<1>3. v.index <= s.index
      <2>1. v.index \in Nat /\ ~(u.index <= v.index) BY <1>1, <1>2
      <2> QED BY <2>1
<1>4. u.index = s.index + 1 BY <1>1, <1>2, <1>3
<1> QED BY <1>4 DEF Linked

\* Until a write raises, the chain verifies in the database at any moment and
\* in steps.jsonl, however many threads log.
THEOREM ChainVerifies == Spec => []ChainIntact
<1>1. RInv => ChainIntact
      <2> SUFFICES ASSUME RInv, faults = 0
                   PROVE  Verifies(rows) /\ Verifies(exported)
          BY DEF ChainIntact, ChainAlwaysIntact
      <2>1. /\ rows \subseteq Step /\ exported \subseteq Step
            /\ Contiguous(rows) /\ Contiguous(exported)
            /\ Linked(rows) /\ Linked(exported)
            BY DEF RInv, TInv, TypeOK, RowsInv, ChainInv
      <2> QED BY <2>1, LinkedVerifies
<1> QED BY <1>1, RInvHolds, PTL

-----------------------------------------------------------------------------
(* Redaction steps.  A redaction step that is the last row was committed by *)
(* a thread that is still in add_step, so the next row is its own.          *)

Adjacent ==
    \A s, u \in rows :
        s.kind = "security.redaction" /\ u.index = s.index + 1 => s.by = u.by

RedactorStays ==
    \A s \in rows : s.kind = "security.redaction" /\ s.index + 1 = index
                     => pc[s.by] # "idle"

PendingIsOwn ==
    \A s \in rows, t \in Thread :
        pc[t] = "commit" /\ s.index = index => s.by = t /\ s.kind = Head(work[t])

AInv == faults = 0 => Adjacent /\ (db = "open" => RedactorStays /\ PendingIsOwn)

LEMMA AInvNext == RInv /\ AInv /\ [Next]_vars => AInv'
<1> SUFFICES ASSUME RInv, AInv, [Next]_vars PROVE AInv'
    OBVIOUS
<1>1. TInv /\ RowsInv BY DEF RInv
<1>2. faults \in Nat BY <1>1, RecordingAssumption DEF TInv, TypeOK
<1>3. ASSUME UNCHANGED logVars, faults' = faults \/ faults' = faults + 1,
             db' = "open" => db = "open"
      PROVE  AInv'
      <2>1. faults' = 0 => faults = 0 BY <1>2, <1>3
      <2> QED BY <1>3, <2>1
              DEF AInv, logVars, Adjacent, RedactorStays, PendingIsOwn
<1>4. ASSUME NEW t \in Thread, NEW k \in Kind, AddStep(t, k), UNCHANGED sealVars
      PROVE  AInv'
      <2>1. /\ lock = {} /\ pc' = [pc EXCEPT ![t] = "insert"]
            /\ UNCHANGED <<index, rows, faults, db>>
            BY <1>4 DEF AddStep, sealVars
      <2>2. \A u \in Thread : pc[u] = "idle" /\ pc'[u] # "commit"
            BY <1>1, <2>1, LockExcludes DEF TInv, TypeOK
      <2>3. \A s \in rows : s.by \in Thread BY <1>1 DEF TInv, TypeOK, Step
      <2> QED BY <2>1, <2>2, <2>3
              DEF AInv, Adjacent, RedactorStays, PendingIsOwn
<1>5. "main" \in Thread /\ {"session.start", "log", "tail", "environment",
                             "session.error", "session.end"} \subseteq Kind
      BY DEF Thread, Kind
<1>6. CASE Main
      <2>1. CASE Enter BY <2>1, <1>4, <1>5 DEF Enter
      <2>2. CASE EnterDone BY <2>2, <1>3 DEF EnterDone, sealVars
      <2>3. CASE Exit BY <2>3, <1>4, <1>5 DEF Exit
      <2>4. CASE LogNoEnvironment BY <2>4, <1>4, <1>5 DEF LogNoEnvironment
      <2>5. CASE LogError BY <2>5, <1>4, <1>5 DEF LogError
      <2>6. CASE LogEnd BY <2>6, <1>4, <1>5 DEF LogEnd
      <2>7. CASE EmitPending BY <2>7, <1>4, <1>5 DEF EmitPending
      <2>8. CASE Export BY <2>8, <1>3 DEF Export, Go
      <2>9. CASE CloseDb BY <2>9, <1>3 DEF CloseDb, Go
      <2>10. CASE Pack BY <2>10, <1>3 DEF Pack, Go
      <2>11. CASE Sign BY <2>11, <1>3 DEF Sign, Go
      <2>12. CASE Unlink BY <2>12, <1>3 DEF Unlink, Go
      <2>13. CASE Rename BY <2>13, <1>3 DEF Rename, Go
      <2>14. CASE Cleanup BY <2>14, <1>3 DEF Cleanup, Go
      <2> QED BY <1>6, <2>1, <2>2, <2>3, <2>4, <2>5, <2>6, <2>7, <2>8, <2>9,
                 <2>10, <2>11, <2>12, <2>13, <2>14 DEF Main
<1>7. CASE PrintTail BY <1>7, <1>3 DEF PrintTail, sealVars
<1>8. CASE CaptureFails BY <1>8, <1>3 DEF CaptureFails, sealVars
<1>9. CASE ExitRaises BY <1>9, <1>3 DEF ExitRaises, Raise, Go, sealVars
<1>10. CASE Crash BY <1>10, <1>3 DEF Crash, sealVars
<1>11. CASE UNCHANGED vars BY <1>11, <1>3 DEF vars, sealVars
<1>12. ASSUME NEW t \in Thread, Log(t) PROVE AInv'
       <2>1. AddStep(t, "log") /\ UNCHANGED sealVars BY <1>12, Zenon DEF Log
       <2> QED BY <2>1, <1>4, <1>5
<1>13. ASSUME NEW t \in Thread, Insert(t) PROVE AInv'
       <2> SUFFICES ASSUME faults = 0
                    PROVE  Adjacent' /\ RedactorStays' /\ PendingIsOwn'
           BY <1>13 DEF AInv, Insert
       <2>1. /\ pc[t] = "insert" /\ pc' = [pc EXCEPT ![t] = "commit"]
             /\ db = "open" /\ work' = work /\ index' = index
             /\ rows' = rows \cup {NewStep(t)}
             BY <1>13 DEF Insert
       <2>2. NewStep(t).index = index /\ NewStep(t).by = t
             /\ NewStep(t).kind = Head(work[t])
             BY DEF NewStep
       <2>3. \A s \in rows : s.by \in Thread /\ s.index \in Nat
             BY <1>1 DEF TInv, TypeOK, Step
       <2>4. ~Pending /\ \A u \in Thread \ {t} : pc[u] = "idle"
             BY <1>1, <2>1, LockExcludes
       <2>5. \A s \in rows : s.index <= index /\ s.index # index
             BY <1>1, <2>1, <2>4 DEF RowsInv, LastIsPending
       <2>6. index \in Nat BY <1>1 DEF TInv, TypeOK
       <2>7. index # index + 1 /\ \A s \in rows : s.index # index + 1
             BY <2>3, <2>5, <2>6
       <2>8. \A s \in rows : s.kind = "security.redaction" /\ s.index + 1 = index
                              => s.by = t
             BY <2>1, <2>3, <2>4 DEF AInv, RedactorStays
       <2>9. Adjacent'
             BY <2>1, <2>2, <2>7, <2>8 DEF AInv, Adjacent
       <2>10. RedactorStays'
              <3>1. pc'[t] = "commit" BY <1>1, <2>1 DEF TInv, TypeOK
              <3> QED BY <2>1, <2>2, <2>7, <2>8, <3>1 DEF RedactorStays
       <2>11. PendingIsOwn'
              <3>1. \A u \in Thread \ {t} : pc'[u] = "idle"
                    BY <1>1, <2>1, <2>4 DEF TInv, TypeOK
              <3> QED BY <2>1, <2>2, <2>5, <3>1 DEF PendingIsOwn
       <2> QED BY <2>9, <2>10, <2>11
<1>14. ASSUME NEW t \in Thread, Commit(t) PROVE AInv'
       <2> SUFFICES ASSUME faults = 0
                    PROVE  Adjacent' /\ RedactorStays' /\ PendingIsOwn'
           BY <1>14 DEF AInv, Commit
       <2>1. /\ pc[t] = "commit" /\ db = "open" /\ rows' = rows
             /\ index' = index + 1
             BY <1>14 DEF Commit
       <2>2. index \in Nat /\ pc \in [Thread -> {"idle", "insert", "commit"}]
             BY <1>1 DEF TInv, TypeOK
       <2>3. \A s \in rows : s.index \in Nat /\ s.index <= index
             BY <1>1, <2>1 DEF RowsInv, LastIsPending, TInv, TypeOK, Step
       <2>4. Adjacent' BY <2>1 DEF AInv, Adjacent
       <2>5. RedactorStays'
             <3>1. ASSUME NEW s \in rows, s.kind = "security.redaction",
                          s.index + 1 = index + 1
                   PROVE  pc'[s.by] # "idle"
                   <4>1. s.index = index BY <2>2, <2>3, <3>1
                   <4>2. s.by = t /\ Redacting(t)
                         BY <2>1, <3>1, <4>1 DEF AInv, PendingIsOwn, Redacting
                   <4>3. pc' = [pc EXCEPT ![t] = "insert"]
                         BY <1>14, <4>2 DEF Commit
                   <4> QED BY <2>2, <4>2, <4>3
             <3> QED BY <2>1, <3>1 DEF RedactorStays
       <2>6. PendingIsOwn'
             <3>1. \A s \in rows : s.index # index + 1 BY <2>2, <2>3
             <3> QED BY <2>1, <3>1 DEF PendingIsOwn
       <2> QED BY <2>4, <2>5, <2>6
<1>15. ASSUME NEW t \in Thread, WriteRaises(t) PROVE AInv'
       <2>1. CASE db = "closed" /\ rows' = rows /\ faults' = faults
             <3>1. db' = "closed" BY <1>15, <2>1 DEF WriteRaises, sealVars
             <3> QED BY <2>1, <3>1 DEF AInv, Adjacent
       <2>2. CASE faults' = faults + 1
             BY <1>2, <2>2 DEF AInv
       <2> QED BY <1>15, <2>1, <2>2 DEF WriteRaises
<1> QED BY <1>6, <1>7, <1>8, <1>9, <1>10, <1>11, <1>12, <1>13, <1>14, <1>15
        DEF Next, Write

\* Until a write raises, no other thread's step comes between a redaction step
\* and the step it announces.
THEOREM RedactionsAreAdjacent == Spec => []RedactionAdjacent
<1>1. Init => AInv
      BY DEF Init, AInv, Adjacent, RedactorStays, PendingIsOwn
<1>2. AInv => RedactionAdjacent BY DEF AInv, Adjacent, RedactionAdjacent
<1> QED BY <1>1, <1>2, AInvNext, RInvHolds, PTL DEF Spec

-----------------------------------------------------------------------------
(* What can be read.  Without an exception main exports only after it has   *)
(* committed session.end, closes the database only after that, and removes  *)
(* the workspace only with the artifact at its place.  A step inserted      *)
(* behind the export has a higher index than session.end.                   *)

Sealing == {"pack", "sign", "unlink", "rename", "restore", "done"}

\* Main logs nothing while it seals, but what its capture left.
Quiet == {"close", "pack", "sign", "unlink", "rename", "done"}

Ending == {<<"session.end">>, <<"security.redaction", "session.end">>}

IsEnd(e) == e.kind = "session.end" /\ e.index < index

EndCommitted == \E e \in rows : IsEnd(e)

EndExported ==
    \E e \in rows : IsEnd(e) /\ \A s \in rows : s.index <= e.index => s \in exported

DbFollowsPhase ==
    phase # "dead" => db = (IF phase \in Sealing THEN "closed" ELSE "open")

EndIsLogged ==
    phase = "end" => IF Idle("main") THEN EndCommitted ELSE work["main"] \in Ending

Sealed ==
    /\ DbFollowsPhase
    /\ workspace \/ phase = "done"
    /\ phase \in {"restore", "done"} => artifact # "none"
    /\ phase \in Quiet => Idle("main")
    /\ EndIsLogged
    /\ phase = "close" \/ db = "closed" => EndExported

KInv == faults = 0 => Sealed

\* Nobody outside add_step is disturbed by another thread's return from it.
LEMMA LeaveIdles ==
    ASSUME TInv, NEW t \in Thread, Leave(t)
    PROVE  /\ Idle("main") => Idle("main")'
           /\ t # "main" => work'["main"] = work["main"] /\ (Idle("main")' <=> Idle("main"))
           /\ Idle(t)'
BY DEF Leave, TInv, TypeOK, Idle, Thread

\* The rows of an export stay exported while others are inserted behind it.
LEMMA EndStays ==
    ASSUME TInv, NEW r, rows' \in {rows, rows \cup {r}}, r.index = index,
           index' \in {index, index + 1}, exported' = exported
    PROVE  (EndCommitted => EndCommitted') /\ (EndExported => EndExported')
<1>1. index \in Nat /\ \A s \in rows : s.index \in Nat
      BY DEF TInv, TypeOK, Step
<1>2. ASSUME NEW e \in rows, IsEnd(e) PROVE e \in rows' /\ IsEnd(e)'
      <2>1. e.index \in Nat BY <1>1
      <2>2. e.index < index + 1 BY <1>1, <1>2, <2>1 DEF IsEnd
      <2> QED BY <1>2, <2>2 DEF IsEnd
<1>3. EndCommitted => EndCommitted'
      BY <1>2 DEF EndCommitted
<1>4. ASSUME NEW e \in rows, IsEnd(e),
             \A s \in rows : s.index <= e.index => s \in exported
      PROVE  \A s \in rows' : s.index <= e.index => s \in exported'
      <2>1. e.index \in Nat /\ e.index < index BY <1>1, <1>4 DEF IsEnd
      <2>2. ~(r.index <= e.index) BY <1>1, <2>1
      <2> QED BY <1>4, <2>2
<1> QED BY <1>2, <1>3, <1>4 DEF EndExported

\* An add_step begins: nothing is inserted yet.
LEMMA EndWaits ==
    ASSUME TInv, NEW t \in Thread, NEW k \in Kind, AddStep(t, k),
           UNCHANGED <<db, exported, workspace, artifact>>
    PROVE  /\ EndCommitted' <=> EndCommitted
           /\ EndExported' <=> EndExported
           /\ faults' = faults
           /\ t # "main" => work'["main"] = work["main"] /\ (Idle("main")' <=> Idle("main"))
           /\ k = "session.end" /\ t = "main" => ~Idle("main")' /\ work'["main"] \in Ending
<1>1. UNCHANGED <<rows, index, faults>> BY DEF AddStep
<1>2. PICK w \in {<<k>>, <<"security.redaction", k>>} :
          work' = [work EXCEPT ![t] = w]
      BY DEF AddStep
<1>3. pc' = [pc EXCEPT ![t] = "insert"] BY DEF AddStep
<1>4. pc \in [Thread -> {"idle", "insert", "commit"}] /\ DOMAIN work = Thread
      BY DEF TInv, TypeOK
<1>5. "main" \in Thread BY DEF Thread
<1>6. (EndCommitted' <=> EndCommitted) /\ (EndExported' <=> EndExported)
      BY <1>1 DEF EndCommitted, EndExported, IsEnd
<1>7. t # "main" => work'["main"] = work["main"] /\ pc'["main"] = pc["main"]
      BY <1>2, <1>3, <1>4, <1>5
<1>8. t = "main" => work'["main"] = w /\ pc'["main"] = "insert"
      BY <1>2, <1>3, <1>4, <1>5
<1> QED BY <1>1, <1>6, <1>7, <1>8 DEF Idle, Ending

LEMMA KInvNext == RInv /\ AInv /\ KInv /\ [Next]_vars => KInv'
<1> SUFFICES ASSUME RInv, AInv, KInv, [Next]_vars, faults' = 0 PROVE Sealed'
    BY DEF KInv
<1>1. TInv /\ RowsInv BY DEF RInv
<1>2. faults \in Nat BY <1>1, RecordingAssumption DEF TInv, TypeOK
<1>3. "main" \in Thread /\ {"session.start", "log", "tail", "environment",
                             "session.error", "session.end"} \subseteq Kind
      BY DEF Thread, Kind
<1>4. ASSUME faults' = faults + 1 PROVE FALSE BY <1>2, <1>4
<1>5. ASSUME faults' = faults PROVE Sealed BY <1>5 DEF KInv
<1>6. ASSUME UNCHANGED logVars, faults' = faults
      PROVE  /\ Sealed
             /\ EndCommitted' <=> EndCommitted
             /\ exported' = exported => (EndExported' <=> EndExported)
             /\ Idle("main")' <=> Idle("main")
             /\ work' = work
      BY <1>5, <1>6 DEF logVars, EndCommitted, EndExported, IsEnd, Idle
<1>7. ASSUME NEW k \in Kind, AddStep("main", k), UNCHANGED sealVars,
             phase' \in {"starting", "body", "environment", "environment logged",
                         "error", "restore"},
             phase' = phase \/ {phase, phase'} \cap Sealing = {}, phase # "dead"
      PROVE  Sealed'
      <2>1. UNCHANGED <<db, exported, workspace, artifact>> BY <1>7 DEF sealVars
      <2>2. Sealed BY <1>3, <1>5, <1>7, <2>1, EndWaits, <1>1
      <2>3. EndExported' <=> EndExported BY <1>1, <1>3, <1>7, <2>1, EndWaits
      <2> QED BY <1>7, <2>1, <2>2, <2>3
              DEF Sealed, DbFollowsPhase, EndIsLogged, Sealing, Quiet
<1>8. CASE Main
      <2>1. CASE Enter
            BY <2>1, <1>3, <1>7 DEF Enter, Sealing
      <2>2. CASE EnterDone
            BY <2>2, <1>6
            DEF EnterDone, sealVars, Sealed, DbFollowsPhase, EndIsLogged, Sealing, Quiet
      <2>3. CASE Exit BY <2>3, <1>3, <1>7 DEF Exit, Sealing
      <2>4. CASE LogNoEnvironment
            BY <2>4, <1>3, <1>7 DEF LogNoEnvironment, Sealing
      <2>5. CASE LogError
            BY <2>5, <1>3, <1>7 DEF LogError, EnvironmentDone, Sealing
      <2>6. CASE LogEnd
            <3>1. /\ phase \notin Sealing \cup {"dead", "close"} /\ phase' = "end"
                  /\ AddStep("main", "session.end")
                  /\ UNCHANGED <<db, exported, workspace, artifact>>
                  BY <2>6 DEF LogEnd, EnvironmentDone, Sealing, sealVars
            <3>2. /\ faults' = faults /\ ~Idle("main")' /\ work'["main"] \in Ending
                  /\ EndExported' <=> EndExported
                  BY <1>1, <1>3, <3>1, EndWaits
            <3>3. Sealed BY <3>2, <1>5
            <3>4. EndIsLogged' BY <3>2 DEF EndIsLogged
            <3> QED BY <3>1, <3>2, <3>3, <3>4
                    DEF Sealed, DbFollowsPhase, Sealing, Quiet
      <2>7. CASE EmitPending BY <2>7, <1>3, <1>7 DEF EmitPending, Sealing
      <2>8. CASE Export
            <3>1. /\ phase = "end" /\ Idle("main") /\ phase' = "close"
                  /\ exported' = rows
                  /\ UNCHANGED <<db, workspace, artifact, rows, index>>
                  /\ UNCHANGED logVars /\ faults' = faults
                  BY <2>8 DEF Export, Go, logVars
            <3>2. Sealed /\ Idle("main")' BY <3>1, <1>6
            <3>3. EndCommitted BY <3>1, <3>2 DEF Sealed, EndIsLogged
            <3>4. EndExported' BY <3>1, <3>3 DEF EndCommitted, EndExported, IsEnd
            <3> QED BY <3>1, <3>2, <3>4
                    DEF Sealed, DbFollowsPhase, EndIsLogged, Sealing, Quiet
      <2>9. CASE CloseDb
            BY <2>9, <1>6
            DEF CloseDb, Go, Sealed, DbFollowsPhase, EndIsLogged, Sealing, Quiet
      <2>10. CASE Pack
             BY <2>10, <1>6
             DEF Pack, Go, Sealed, DbFollowsPhase, EndIsLogged, Sealing, Quiet
      <2>11. CASE Sign
             BY <2>11, <1>6
             DEF Sign, Go, Sealed, DbFollowsPhase, EndIsLogged, Sealing, Quiet
      <2>12. CASE Unlink
             BY <2>12, <1>6
             DEF Unlink, Go, Sealed, DbFollowsPhase, EndIsLogged, Sealing, Quiet
      <2>13. CASE Rename
             BY <2>13, <1>6
             DEF Rename, Go, Sealed, DbFollowsPhase, EndIsLogged, Sealing, Quiet
      <2>14. CASE Cleanup
             BY <2>14, <1>6
             DEF Cleanup, Go, Sealed, DbFollowsPhase, EndIsLogged, Sealing, Quiet
      <2> QED BY <1>8, <2>1, <2>2, <2>3, <2>4, <2>5, <2>6, <2>7, <2>8, <2>9,
                 <2>10, <2>11, <2>12, <2>13, <2>14 DEF Main
<1>9. CASE PrintTail
      BY <1>9, <1>6 DEF PrintTail, sealVars, Sealed, DbFollowsPhase, EndIsLogged
<1>10. CASE CaptureFails BY <1>10, <1>4 DEF CaptureFails
<1>11. CASE ExitRaises BY <1>11, <1>4 DEF ExitRaises, Raise
<1>12. CASE Crash
       BY <1>12, <1>6 DEF Crash, sealVars, Sealed, DbFollowsPhase, EndIsLogged, Quiet
<1>13. CASE UNCHANGED vars
       BY <1>13, <1>6 DEF vars, sealVars, Sealed, DbFollowsPhase, EndIsLogged
<1>14. ASSUME NEW t \in Thread, Log(t) PROVE Sealed'
       <2>1. /\ AddStep(t, "log") /\ UNCHANGED <<phase, sealVars>>
             /\ t = "main" => phase = "body"
             BY <1>14, Zenon DEF Log
       <2>2. CASE t = "main"
             BY <1>3, <1>7, <2>1, <2>2
       <2>3. CASE t # "main"
             <3>1. UNCHANGED <<db, exported, workspace, artifact, phase>>
                   BY <2>1 DEF sealVars
             <3>2. /\ EndCommitted' <=> EndCommitted
                   /\ EndExported' <=> EndExported
                   /\ faults' = faults /\ work'["main"] = work["main"]
                   /\ Idle("main")' <=> Idle("main")
                   BY <1>1, <1>3, <2>1, <2>3, <3>1, EndWaits
             <3>3. Sealed BY <3>2, <1>5
             <3> QED BY <3>1, <3>2, <3>3 DEF Sealed, DbFollowsPhase, EndIsLogged
       <2> QED BY <2>2, <2>3
<1>15. ASSUME NEW t \in Thread, Insert(t) PROVE Sealed'
       <2>1. /\ pc[t] = "insert" /\ db = "open" /\ pc' = [pc EXCEPT ![t] = "commit"]
             /\ rows' = rows \cup {NewStep(t)} /\ work' = work
             /\ UNCHANGED <<phase, index, db, exported, workspace, artifact, faults>>
             BY <1>15 DEF Insert, sealVars
       <2>2. Sealed BY <2>1, <1>5
       <2>3. NewStep(t).index = index BY DEF NewStep
       <2>4. (EndCommitted => EndCommitted') /\ (EndExported => EndExported')
             BY <1>1, <2>1, <2>3, EndStays
       <2>5. Idle("main")' <=> Idle("main")
             BY <1>1, <1>3, <2>1 DEF Idle, TInv, TypeOK
       <2> QED BY <2>1, <2>2, <2>4, <2>5 DEF Sealed, DbFollowsPhase, EndIsLogged
<1>16. ASSUME NEW t \in Thread, Commit(t) PROVE Sealed'
       <2>1. /\ pc[t] = "commit" /\ db = "open"
             /\ index' = index + 1 /\ rows' = rows
             /\ UNCHANGED <<phase, db, exported, workspace, artifact, faults>>
             BY <1>16 DEF Commit, sealVars
       <2>2. Sealed BY <2>1, <1>5
       <2> DEFINE r == [index |-> index]
       <2>3. r.index = index OBVIOUS
       <2> HIDE DEF r
       <2>4. (EndCommitted => EndCommitted') /\ (EndExported => EndExported')
             BY <1>1, <2>1, <2>3, EndStays
       <2>5. Idle("main") => Idle("main")'
             BY <1>1, <1>3, <1>16, <2>1 DEF Commit, Leave, Idle, TInv, TypeOK
       <2>6. EndIsLogged'
             <3> SUFFICES ASSUME phase = "end", ~Idle("main")
                          PROVE  IF Idle("main")' THEN EndCommitted'
                                 ELSE work'["main"] \in Ending
                 BY <2>1, <2>2, <2>4, <2>5 DEF Sealed, EndIsLogged
             <3>1. t = "main"
                   BY <1>1, <1>3, <2>1, LockExcludes DEF Idle
             <3>2. work["main"] \in Ending BY <2>2 DEF Sealed, EndIsLogged
             <3>3. CASE Redacting(t)
                   <4>1. /\ work' = [work EXCEPT ![t] = Tail(@)]
                         /\ pc' = [pc EXCEPT ![t] = "insert"]
                         BY <1>16, <3>3 DEF Commit
                   <4>2. work["main"] = <<"security.redaction", "session.end">>
                         BY <3>1, <3>2, <3>3 DEF Redacting, Ending
                   <4>3. work'["main"] = <<"session.end">>
                         BY <1>1, <1>3, <3>1, <4>1, <4>2 DEF TInv, TypeOK
                   <4>4. ~Idle("main")'
                         BY <1>1, <1>3, <3>1, <4>1 DEF TInv, TypeOK, Idle
                   <4> QED BY <4>3, <4>4 DEF Ending
             <3>4. CASE ~Redacting(t)
                   <4>1. Leave(t) BY <1>16, <3>4 DEF Commit
                   <4>2. Idle("main")' BY <1>1, <3>1, <4>1, LeaveIdles
                   <4>3. work["main"] = <<"session.end">>
                         BY <3>1, <3>2, <3>4 DEF Redacting, Ending
                   <4>4. PICK e \in rows : e.index = index
                         BY <1>1, <2>1 DEF RowsInv, LastIsPending, Pending
                   <4>5. e.kind = "session.end"
                         BY <2>1, <2>2, <3>1, <4>3, <4>4, <1>2, <1>5
                         DEF AInv, PendingIsOwn
                   <4>6. e.index < index + 1
                         BY <1>1, <4>4 DEF TInv, TypeOK
                   <4>7. EndCommitted'
                         BY <2>1, <4>4, <4>5, <4>6 DEF EndCommitted, IsEnd
                   <4> QED BY <4>2, <4>7
             <3> QED BY <3>3, <3>4
       <2> QED BY <2>1, <2>2, <2>4, <2>5, <2>6 DEF Sealed, DbFollowsPhase
<1>17. ASSUME NEW t \in Thread, WriteRaises(t) PROVE Sealed'
       <2>1. /\ db = "closed" /\ UNCHANGED <<rows, faults>>
             /\ phase # "dead" /\ pc[t] # "idle" /\ Leave(t)
             /\ phase' = AfterRaise(t)
             /\ UNCHANGED <<index, db, exported, workspace, artifact>>
             BY <1>4, <1>17 DEF WriteRaises, sealVars
       <2>2. Sealed BY <2>1, <1>5
       <2>3. phase \in Sealing BY <2>1, <2>2 DEF Sealed, DbFollowsPhase
       <2>4. phase' = phase
             BY <2>1, <2>2, <2>3 DEF Sealed, AfterRaise, Quiet, Idle, Sealing
       <2>5. EndExported' <=> EndExported
             BY <2>1 DEF EndExported, IsEnd
       <2>6. Idle("main") => Idle("main")' BY <1>1, <2>1, LeaveIdles
       <2> QED BY <2>1, <2>2, <2>3, <2>4, <2>5, <2>6
               DEF Sealed, DbFollowsPhase, EndIsLogged, Sealing
<1> QED BY <1>8, <1>9, <1>10, <1>11, <1>12, <1>13, <1>14, <1>15, <1>16, <1>17
        DEF Next, Write

\* Without an exception, every step whose log_step returned can be read, up to
\* and including session.end: in the database until it is closed, then in
\* steps.jsonl, and in the artifact once the workspace is removed; also when the
\* process crashes, and while other threads log behind the export.
THEOREM StepsAreKept == Spec => []KeptUpToTheEnd
<1>1. Init => KInv
      BY DEF Init, KInv, Sealed, DbFollowsPhase, EndIsLogged, Sealing, Quiet
<1>2. RInv /\ KInv => KeptUpToTheEnd
      <2> SUFFICES ASSUME RInv, Sealed, NEW s \in rows,
                          \A u \in rows : u.kind = "session.end" => s.index <= u.index
                   PROVE  s.hash \in Readable
          BY DEF KInv, KeptUpToTheEnd
      <2>1. CASE workspace /\ db = "open"
            BY <2>1 DEF Readable, HashesOf
      <2>2. CASE ~(workspace /\ db = "open")
            <3>1. db = "closed"
                  BY <2>2 DEF Sealed, DbFollowsPhase, Sealing, RInv, TInv, TypeOK
            <3>2. PICK e \in rows :
                      IsEnd(e) /\ \A u \in rows : u.index <= e.index => u \in exported
                  BY <3>1 DEF Sealed, EndExported
            <3>3. s \in exported BY <3>2 DEF IsEnd
            <3>4. workspace \/ artifact # "none" BY DEF Sealed
            <3> QED BY <3>3, <3>4 DEF Readable, HashesOf
      <2> QED BY <2>1, <2>2
<1>3. Init => AInv
      BY DEF Init, AInv, Adjacent, RedactorStays, PendingIsOwn
<1> QED BY <1>1, <1>2, <1>3, AInvNext, KInvNext, RInvHolds, PTL DEF Spec
=============================================================================
