------------------------ MODULE AsyncRecorderProofs ------------------------
(***************************************************************************)
(* Theorems about AsyncRecorder, for any number of steps and of writes     *)
(* that raise, with and without a cancelled writer and late callers.       *)
(*                                                                         *)
(* ExportIsWhole speaks of the end only.  Orderly adds what is true on the *)
(* way there: which steps the queue holds, that the executor has the one   *)
(* the writer awaits and no other, and that once a step is missed the      *)
(* queue's count of unfinished items never comes back to zero.             *)
(***************************************************************************)
EXTENDS AsyncRecorder, TLAPS

LEMMA Items == Item \subseteq Nat /\ 0 \in Item /\ Sentinel = 0
  BY RecorderAssumption DEF Item, Sentinel

\* What Tail and Append leave of a sequence.
LEMMA Shorter ==
  ASSUME NEW S, NEW s \in Seq(S), s # <<>>
  PROVE  /\ Tail(s) \in Seq(S) /\ Head(s) \in S /\ Head(s) = s[1]
         /\ Len(s) \in Nat \ {0} /\ Len(Tail(s)) = Len(s) - 1
         /\ \A i \in 1 .. Len(Tail(s)) : Tail(s)[i] = s[i + 1]
  OBVIOUS

LEMMA Longer ==
  ASSUME NEW S, NEW s \in Seq(S), NEW e \in S
  PROVE  /\ Append(s, e) \in Seq(S) /\ Len(s) \in Nat /\ Len(Append(s, e)) = Len(s) + 1
         /\ \A i \in 1 .. Len(s) : Append(s, e)[i] = s[i]
         /\ Append(s, e)[Len(s) + 1] = e /\ Append(s, e) # <<>>
  OBVIOUS

LEMMA Wider ==
  ASSUME NEW S, NEW T, S \subseteq T, NEW s \in Seq(S)
  PROVE  s \in Seq(T) /\ Len(s) \in Nat
<1>1. Len(s) \in Nat /\ s \in [1 .. Len(s) -> S]
  OBVIOUS
<1>2. s \in [1 .. Len(s) -> T]
  BY <1>1
<1> QED BY <1>1, <1>2

USE DEF queueVars, writerVars, execVars, stopVars, envVars

Writing == writer \in {"write", "drain write"}

\* Items that were put and that nobody will mark done any more.
Waiting == Len(queue)
InHand == IF Writing THEN 1 ELSE 0
Debt == unfinished - Waiting - InHand

\* The types hold because task_done is not called too often and the executor
\* only works on what it was given.
Typed == TypeOK /\ Debt \in Nat /\ (running => jobs # <<>>)

LEMMA Counted == TypeOK => Waiting \in Nat /\ unfinished \in Nat /\ InHand \in {0, 1}
<1> SUFFICES ASSUME TypeOK PROVE Waiting \in Nat /\ unfinished \in Nat /\ InHand \in {0, 1}
  OBVIOUS
<1>1. queue \in Seq(Item) /\ unfinished \in Nat
  BY DEF TypeOK
<1>2. Waiting \in Nat
  BY <1>1 DEF Waiting
<1>3. InHand \in {0, 1}
  BY DEF InHand, Writing
<1> QED BY <1>1, <1>2, <1>3

LEMMA TypeInit == Init => Typed
<1> SUFFICES ASSUME Init PROVE Typed
  OBVIOUS
<1>1. queue \in Seq(Item) /\ jobs \in Seq(Item) /\ stored \in Seq(Item) /\ exported \in Seq(Item)
  BY DEF Init
<1>2. faults \in 0 .. MaxFaults /\ count \in Item /\ awaited \in Item
  BY RecorderAssumption, Items DEF Init
<1>3. TypeOK
  BY <1>1, <1>2 DEF Init, TypeOK
<1>4. Waiting = 0 /\ InHand = 0
  BY DEF Init, Writing, Waiting, InHand
<1>5. Debt = 0
  BY <1>4 DEF Init, Debt
<1> QED BY <1>3, <1>5 DEF Init, Typed

\* An item is put: one more that is not done, and one more in the queue.
LEMMA PutCounts ==
  ASSUME Typed, NEW item \in Item, Put(item), UNCHANGED writer
  PROVE  /\ queue' \in Seq(Item) /\ unfinished' \in Nat
         /\ Waiting' = Waiting + 1 /\ Debt' = Debt
<1>1. queue' \in Seq(Item) /\ Waiting' = Waiting + 1
  BY Longer DEF Put, Typed, TypeOK, Waiting
<1>2. InHand' = InHand
  BY DEF InHand, Writing
<1>3. unfinished' = unfinished + 1
  BY DEF Put
<1>4. TypeOK
  BY DEF Typed
<1> QED BY <1>1, <1>2, <1>3, <1>4, Counted DEF Debt

\* Where the writer goes with a step, and with the sentinel.
Leads(next) == /\ next[FALSE] \in {"write", "drain write"}
               /\ next[TRUE] \in {"ended", "drain"}

\* An item is taken: it is done at once, or the writer awaits it.
LEMMA TakeCounts ==
  ASSUME Typed, NEW next, Take(next), Leads(next), ~Writing
  PROVE  Typed' /\ Debt' = Debt
<1>0. queue \in Seq(Item) /\ queue # <<>> /\ queue' = Tail(queue)
  BY DEF Take, Typed, TypeOK
<1>1. queue' \in Seq(Item) /\ Head(queue) \in Item
  BY <1>0, Shorter
<1>6. Waiting \in Nat /\ Waiting' = Waiting - 1 /\ Waiting >= 1
  <2>1. Len(queue) \in Nat \ {0} /\ Len(Tail(queue)) = Len(queue) - 1
    BY <1>0, Shorter
  <2> QED BY <1>0, <2>1 DEF Waiting
<1>2. UNCHANGED <<count, error, result, running, stored, stopVars, envVars>>
  BY DEF Take
<1>3. InHand = 0
  BY DEF InHand
<1>7. unfinished \in Nat /\ Debt \in Nat
  BY DEF Typed, TypeOK
<1>4. CASE Head(queue) = Sentinel
  <2>1. /\ writer' \in {"ended", "drain"} /\ unfinished' = unfinished - 1
        /\ UNCHANGED <<awaited, jobs>>
    BY <1>4 DEF Take, Leads
  <2>2. InHand' = 0
    BY <2>1 DEF InHand, Writing
  <2>3. unfinished' \in Nat /\ Debt' = Debt
    <3>1. unfinished' = unfinished - 1
      BY <2>1
    <3> QED BY <3>1, <1>6, <1>3, <1>7, <2>2 DEF Debt
  <2>4. TypeOK' /\ (running' => jobs' # <<>>)
    BY <1>1, <1>2, <2>1, <2>3 DEF Typed, TypeOK
  <2> QED BY <1>7, <2>3, <2>4 DEF Typed
<1>5. CASE Head(queue) # Sentinel
  <2>1. /\ writer' \in {"write", "drain write"} /\ awaited' = Head(queue)
        /\ jobs' = Append(jobs, Head(queue)) /\ UNCHANGED unfinished
    <3>1. (Head(queue) = Sentinel) = FALSE
      BY <1>5
    <3>2. writer' = next[FALSE]
      BY <3>1, Zenon DEF Take
    <3> QED BY <1>5, <3>2, Zenon DEF Take, Leads
  <2>2. jobs' \in Seq(Item) /\ jobs' # <<>>
    <3>1. jobs \in Seq(Item)
      BY DEF Typed, TypeOK
    <3>2. Append(jobs, Head(queue)) \in Seq(Item) /\ Append(jobs, Head(queue)) # <<>>
      BY <1>1, <3>1, Longer
    <3> QED BY <2>1, <3>2
  <2>3. InHand' = 1
    BY <2>1 DEF InHand, Writing
  <2>4. Debt' = Debt
    <3>1. unfinished' = unfinished
      BY <2>1
    <3> QED BY <3>1, <1>6, <1>3, <1>7, <2>3 DEF Debt
  <2>5. TypeOK'
    BY <1>1, <1>2, <2>1, <2>2 DEF Typed, TypeOK
  <2> QED BY <1>7, <2>2, <2>4, <2>5 DEF Typed
<1> QED BY <1>4, <1>5

LEMMA TypeStep == Typed /\ [Next]_vars => Typed'
<1> SUFFICES ASSUME Typed, [Next]_vars PROVE Typed'
  OBVIOUS
<1>0. TypeOK /\ Waiting \in Nat /\ InHand \in {0, 1} /\ Debt \in Nat /\ unfinished \in Nat
  BY Counted DEF Typed
<1>1. CASE RecordStep
  <2>1. count + 1 \in Item /\ Put(count + 1) /\ UNCHANGED writer
    <3>1. count \in 0 .. MaxSteps /\ count < MaxSteps
      BY <1>0, <1>1 DEF RecordStep, Item, TypeOK
    <3> QED BY <3>1, <1>1, RecorderAssumption DEF RecordStep, Item
  <2>2. queue' \in Seq(Item) /\ unfinished' \in Nat /\ Debt' = Debt
    BY <2>1, PutCounts
  <2>3. count' \in Item /\ late' \in BOOLEAN
    BY <1>0, <1>1, <2>1 DEF RecordStep, TypeOK
  <2>4. TypeOK'
    BY <1>0, <1>1, <2>2, <2>3 DEF RecordStep, TypeOK
  <2> QED BY <1>0, <1>1, <2>2, <2>4 DEF RecordStep, Typed
<1>2. CASE JobStarts
  <2>1. TypeOK' /\ (running' => jobs' # <<>>)
    BY <1>0, <1>2 DEF JobStarts, TypeOK
  <2>2. Debt' = Debt
    BY <1>2 DEF JobStarts, Debt, Waiting, InHand, Writing
  <2> QED BY <1>0, <2>1, <2>2 DEF Typed
<1>3. CASE Written \/ WriteRaises
  <2>1. PICK how \in {"ok", "raised"} : JobEnds(how)
    BY <1>3 DEF Written, WriteRaises
  <2>2. jobs' \in Seq(Item) /\ Head(jobs) \in Item
    BY <1>0, <2>1, Shorter DEF JobEnds, Typed, TypeOK
  <2>3. stored' \in Seq(Item)
    <3>1. stored \in Seq(Item)
      BY <1>0 DEF TypeOK
    <3>2. stored' = stored \/ stored' = Append(stored, Head(jobs))
      BY <1>3 DEF Written, WriteRaises
    <3> QED BY <3>1, <3>2, <2>2, Longer
  <2>4. faults' \in 0 .. MaxFaults
    <3>1. faults \in 0 .. MaxFaults
      BY <1>0 DEF TypeOK
    <3>2. faults' = faults \/ (faults < MaxFaults /\ faults' = faults + 1)
      BY <1>3 DEF Written, WriteRaises
    <3> QED BY <3>1, <3>2, RecorderAssumption
  <2>5. TypeOK' /\ ~running'
    BY <1>0, <2>1, <2>2, <2>3, <2>4 DEF JobEnds, TypeOK
  <2>6. Debt' = Debt
    BY <2>1 DEF JobEnds, Debt, Waiting, InHand, Writing
  <2> QED BY <1>0, <2>5, <2>6 DEF Typed
<1>4. CASE Get
  <2> DEFINE next == [b \in BOOLEAN |-> IF b THEN "ended" ELSE "write"]
  <2>1. Take(next) /\ ~Writing /\ Leads(next)
    BY <1>4 DEF Get, Writing, Leads
  <2> QED BY <2>1, TakeCounts
<1>5. CASE Drain
  <2> DEFINE next == [b \in BOOLEAN |-> IF b THEN "drain" ELSE "drain write"]
  <2>1. Take(next) /\ ~Writing /\ Leads(next)
    BY <1>5 DEF Drain, Writing, Leads
  <2> QED BY <2>1, TakeCounts
<1>6. CASE Resume("write", "get") \/ Resume("drain write", "drain")
  <2>1. /\ InHand = 1 /\ InHand' = 0 /\ Waiting' = Waiting /\ unfinished' = unfinished - 1
        /\ awaited' = 0 /\ result' = "none" /\ writer' \in {"get", "drain"}
        /\ UNCHANGED <<count, queue, error, execVars, stopVars, envVars>>
    BY <1>6 DEF Resume, InHand, Writing, Waiting
  <2>2. unfinished' \in Nat /\ Debt' = Debt
    BY <1>0, <2>1 DEF Debt
  <2>3. TypeOK'
    BY <1>0, <2>1, <2>2, Items DEF TypeOK
  <2> QED BY <1>0, <2>1, <2>2, <2>3 DEF Typed
<1>7. CASE LoopRaises \/ DrainEnds \/ Cancel
  <2>1. /\ UNCHANGED <<queueVars, running, stored, stopVars, late, faults>>
        /\ writer' \in {"ended", "drain"} /\ awaited' = 0 /\ result' = "none"
        /\ error' \in BOOLEAN /\ cancelled' \in BOOLEAN
    BY <1>0, <1>7 DEF LoopRaises, DrainEnds, Cancel, TypeOK
  <2>2. jobs' \in Seq(Item) /\ (running => jobs' # <<>>)
    <3>1. jobs' = jobs \/ (~running /\ jobs' = <<>>)
      BY <1>7 DEF LoopRaises, DrainEnds, Cancel
    <3>3. <<>> \in Seq(Item)
      OBVIOUS
    <3>2. jobs \in Seq(Item) /\ (running => jobs # <<>>)
      BY DEF Typed, TypeOK
    <3> QED BY <3>1, <3>2, <3>3
  <2>3. TypeOK'
    BY <1>0, <2>1, <2>2, Items DEF TypeOK
  <2>4. InHand' = 0 /\ Waiting' = Waiting
    BY <2>1 DEF InHand, Writing, Waiting
  <2>5. Debt' \in Nat
    BY <1>0, <2>1, <2>4 DEF Debt
  <2> QED BY <2>1, <2>2, <2>3, <2>5 DEF Typed
<1>8. CASE Stop
  <2>1. 0 \in Item /\ Put(0) /\ UNCHANGED writer
    BY <1>8, Items DEF Stop
  <2>2. queue' \in Seq(Item) /\ unfinished' \in Nat /\ Debt' = Debt
    BY <2>1, PutCounts
  <2>3. TypeOK'
    BY <1>0, <1>8, <2>2 DEF Stop, TypeOK
  <2> QED BY <1>0, <1>8, <2>2, <2>3 DEF Stop, Typed
<1>9. CASE StopTask \/ UNCHANGED vars
  <2>1. UNCHANGED <<queueVars, writerVars, execVars, envVars>>
    BY <1>9 DEF StopTask, Joined, Finalize, vars
  <2>2. stopper' \in {"idle", "join", "finalize", "done"} /\ exported' \in Seq(Item)
    BY <1>0, <1>9 DEF StopTask, Joined, Finalize, vars, TypeOK
  <2>3. TypeOK'
    BY <1>0, <2>1, <2>2 DEF TypeOK
  <2>4. Debt' = Debt
    BY <2>1 DEF Debt, Waiting, InHand, Writing
  <2> QED BY <2>1, <2>3, <2>4 DEF Typed
<1> QED BY <1>1, <1>2, <1>3, <1>4, <1>5, <1>6, <1>7, <1>8, <1>9
        DEF Next, Executor, WriterTask

\* Every variable of the recorder keeps its type: in particular the queue's count of
\* unfinished items never becomes negative.
THEOREM RecorderTypeCorrect == Spec => []TypeOK
<1>1. Typed => TypeOK
  BY DEF Typed
<1> QED BY <1>1, TypeInit, TypeStep, PTL DEF Spec

-----------------------------------------------------------------------------
(* The order on the way: from the queue to the executor to the table.      *)

\* A queue whose steps follow base, with the sentinel at p; none if p is 0.
InLine(q, p, base) ==
    \A i \in 1 .. Len(q) :
        q[i] = IF p = 0 \/ i < p THEN base + i
               ELSE IF i = p THEN Sentinel ELSE base + i - 1

LEMMA LineGrows ==
  ASSUME NEW q \in Seq(Item), NEW p \in 0 .. Len(q), NEW base \in Nat, InLine(q, p, base),
         NEW e \in Item, e = IF p = 0 THEN base + Len(q) + 1 ELSE base + Len(q)
  PROVE  InLine(Append(q, e), p, base)
<1>1. /\ Len(q) \in Nat /\ Len(Append(q, e)) = Len(q) + 1
      /\ \A i \in 1 .. Len(q) : Append(q, e)[i] = q[i]
      /\ Append(q, e)[Len(q) + 1] = e
  BY Longer
<1> DEFINE n == Len(q)  r == Append(q, e)
<1>2. /\ n \in Nat /\ p \in 0 .. n /\ Len(r) = n + 1 /\ r[n + 1] = e
      /\ \A i \in 1 .. n : r[i] = q[i]
      /\ e = IF p = 0 THEN base + n + 1 ELSE base + n
  BY <1>1
<1>3. \A i \in 1 .. n : q[i] = IF p = 0 \/ i < p THEN base + i
                             ELSE IF i = p THEN Sentinel ELSE base + i - 1
  BY DEF InLine
<1> HIDE DEF n, r
<1>4. ASSUME NEW i \in 1 .. Len(r)
      PROVE  r[i] = IF p = 0 \/ i < p THEN base + i
                    ELSE IF i = p THEN Sentinel ELSE base + i - 1
  <2>1. CASE i \in 1 .. n
    BY <1>2, <1>3, <2>1
  <2>2. CASE i = n + 1
    BY <1>2, <2>2
  <2> QED BY <1>2, <1>4, <2>1, <2>2
<1> QED BY <1>4 DEF InLine, r

LEMMA LineEnds ==
  ASSUME NEW q \in Seq(Item), NEW base \in Nat, InLine(q, 0, base)
  PROVE  InLine(Append(q, Sentinel), Len(q) + 1, base)
<1> DEFINE n == Len(q)  r == Append(q, Sentinel)
<1>1. /\ n \in Nat /\ Len(r) = n + 1 /\ r[n + 1] = Sentinel
      /\ \A i \in 1 .. n : r[i] = q[i]
  BY Longer, Items
<1>2. \A i \in 1 .. n : q[i] = base + i
  BY DEF InLine
<1> HIDE DEF n, r
<1>3. ASSUME NEW i \in 1 .. Len(r)
      PROVE  r[i] = IF n + 1 = 0 \/ i < n + 1 THEN base + i
                    ELSE IF i = n + 1 THEN Sentinel ELSE base + i - 1
  <2>1. CASE i \in 1 .. n
    BY <1>1, <1>2, <2>1
  <2>2. CASE i = n + 1
    BY <1>1, <2>2
  <2> QED BY <1>1, <1>3, <2>1, <2>2
<1> QED BY <1>3 DEF InLine, n, r

\* The sentinel comes off when it is the first; a step that comes off is the
\* one after base.
LEMMA LineTaken ==
  ASSUME NEW q \in Seq(Item), q # <<>>, NEW p \in 0 .. Len(q), NEW base \in Nat,
         InLine(q, p, base)
  PROVE  /\ Head(q) = Sentinel => p = 1 /\ InLine(Tail(q), 0, base)
         /\ Head(q) # Sentinel => /\ p # 1 /\ Head(q) = base + 1
                                 /\ InLine(Tail(q), IF p = 0 THEN 0 ELSE p - 1, base + 1)
<1> DEFINE n == Len(q)  r == Tail(q)
<1>1. /\ n \in Nat /\ n >= 1 /\ p \in 0 .. n /\ Len(r) = n - 1 /\ Head(q) = q[1]
      /\ \A i \in 1 .. Len(r) : r[i] = q[i + 1]
  BY Shorter
<1>2. \A i \in 1 .. n : q[i] = IF p = 0 \/ i < p THEN base + i
                             ELSE IF i = p THEN Sentinel ELSE base + i - 1
  BY DEF InLine
<1> HIDE DEF n, r
<1>3. Head(q) = IF p = 1 THEN Sentinel ELSE base + 1
  BY <1>1, <1>2
<1>4. Head(q) = Sentinel <=> p = 1
  BY <1>3 DEF Sentinel
<1>5. ASSUME p = 1, NEW i \in 1 .. Len(r)
      PROVE  r[i] = IF 0 = 0 \/ i < 0 THEN base + i
                    ELSE IF i = 0 THEN Sentinel ELSE base + i - 1
  <2>1. i + 1 \in 1 .. n /\ i + 1 > p /\ r[i] = q[i + 1]
    BY <1>1, <1>5
  <2>2. q[i + 1] = base + (i + 1) - 1
    BY <1>1, <1>2, <1>5, <2>1
  <2> QED BY <2>1, <2>2
<1>6. ASSUME p # 1, NEW i \in 1 .. Len(r), NEW m, m = IF p = 0 THEN 0 ELSE p - 1
      PROVE  r[i] = IF m = 0 \/ i < m THEN (base + 1) + i
                    ELSE IF i = m THEN Sentinel ELSE (base + 1) + i - 1
  <2>1. i + 1 \in 1 .. n /\ r[i] = q[i + 1] /\ i \in Nat
    BY <1>1
  <2>2. r[i] = IF p = 0 \/ i + 1 < p THEN base + (i + 1)
               ELSE IF i + 1 = p THEN Sentinel ELSE base + (i + 1) - 1
    BY <1>2, <2>1
  <2>3. CASE p = 0
    BY <1>6, <2>1, <2>2, <2>3
  <2>4. CASE p > 1
    BY <1>6, <2>1, <2>2, <2>4
  <2> QED BY <1>1, <1>6, <2>3, <2>4
<1>7. p = 1 => InLine(Tail(q), 0, base)
  BY <1>5 DEF InLine, r
<1>8. p # 1 => InLine(Tail(q), IF p = 0 THEN 0 ELSE p - 1, base + 1)
  BY <1>6 DEF InLine, r
<1> QED BY <1>3, <1>4, <1>7, <1>8

\* The queue holds the steps after base that were accepted, and the sentinel.
Behind(p, base) ==
    /\ p \in 0 .. Waiting
    /\ InLine(queue, p, base)
    /\ count = base + Waiting - (IF p = 0 THEN 0 ELSE 1)
    /\ p # 0 => stopper = "join"

Lost == IF result = "raised" THEN 1 ELSE 0

\* The steps up to base are stored in their order, but for the one awaited.
InStep(base) ==
    /\ base = Len(stored) + Len(jobs) + Lost
    /\ \A i \in 1 .. Len(stored) : stored[i] = i
    /\ jobs = IF Writing /\ result = "none" THEN <<base>> ELSE <<>>
    /\ Writing => awaited = base

\* No more was stored than was taken, and until an item is never marked done
\* nothing was left out.
Ahead(base) == Len(stored) + Len(jobs) <= base /\ (Debt = 0 => InStep(base))

Sane == /\ jobs \in Seq(Nat \ {0})
        /\ result # "none" => Writing
        /\ awaited # 0 <=> Writing

Sealed == stopper \in {"finalize", "done"}

\* stop() gets past the queue only when the writer has ended and every step
\* it was to wait for is stored.
Ended ==
    /\ Sealed => writer = "ended" /\ Debt = 0 /\ (~late => count = Len(stored))
    /\ stopper = "idle" => ~late
    /\ stopper = "done" => exported = stored

Orderly == /\ Typed /\ Sane /\ Ended
           /\ \E p, base \in Nat : Behind(p, base) /\ Ahead(base)

LEMMA OrderlyInit == Init => Orderly
<1> SUFFICES ASSUME Init PROVE Orderly
  OBVIOUS
<1>1. Len(queue) = 0 /\ Len(jobs) = 0 /\ Len(stored) = 0 /\ jobs \in Seq(Nat \ {0})
  BY DEF Init
<1>2. ~Writing /\ Lost = 0 /\ ~Sealed
  BY DEF Init, Writing, Lost, Sealed
<1>3. Sane /\ Ended
  BY <1>1, <1>2 DEF Init, Sane, Ended
<1>4. Behind(0, 0)
  BY <1>1 DEF Init, Behind, InLine, Waiting
<1>5. Ahead(0)
  BY <1>1, <1>2 DEF Init, Ahead, InStep
<1> QED BY <1>3, <1>4, <1>5, TypeInit DEF Orderly

\* What a step leaves of the queue, the writer and the executor stays true.
LEMMA BehindStays ==
  ASSUME NEW p \in Nat, NEW base \in Nat, Behind(p, base),
         UNCHANGED <<queue, count>>, stopper = "join" => stopper' = "join" \/ p = 0
  PROVE  Behind(p, base)'
<1>1. InLine(queue', p, base) /\ Waiting' = Waiting
  BY DEF Behind, Waiting
<1> QED BY <1>1 DEF Behind

LEMMA AheadStays ==
  ASSUME NEW base \in Nat, Ahead(base), UNCHANGED <<writer, awaited, result, jobs, stored>>,
         Debt' = 0 => Debt = 0
  PROVE  Ahead(base)'
<1>1. Lost' = Lost /\ Writing' = Writing
  BY DEF Lost, Writing
<1> QED BY <1>1 DEF Ahead, InStep

LEMMA SaneStays ==
  ASSUME Sane, UNCHANGED <<writer, awaited, result, jobs>>
  PROVE  Sane'
  BY DEF Sane, Writing

\* Nothing is on its way once stop() is past the queue.
LEMMA SealedIsIdle ==
  ASSUME Orderly, Sealed
  PROVE  jobs = <<>> /\ ~running /\ writer = "ended" /\ Debt = 0
<1>1. ~Writing /\ Debt = 0 /\ writer = "ended"
  BY DEF Orderly, Ended, Writing
<1>2. jobs = <<>>
  BY <1>1 DEF Orderly, Ahead, InStep
<1> QED BY <1>1, <1>2 DEF Orderly, Typed

\* An accepted step is the last of the line.
LEMMA RecordKeeps ==
  ASSUME Orderly, RecordStep
  PROVE  Sane' /\ Ended' /\ \E p, base \in Nat : Behind(p, base)' /\ Ahead(base)'
<1>1. PICK p \in Nat, base \in Nat : Behind(p, base) /\ Ahead(base)
  BY DEF Orderly
<1>2. Typed /\ TypeOK /\ Sane /\ Ended
  BY DEF Orderly, Typed
<1>3. /\ count \in Nat /\ count < MaxSteps /\ count' = count + 1 /\ count + 1 \in Item
      /\ Put(count + 1) /\ queue' = Append(queue, count + 1)
      /\ late' = (late \/ stopper # "idle")
      /\ UNCHANGED <<writerVars, execVars, stopVars>>
  <2>1. count \in 0 .. MaxSteps
    BY <1>2 DEF TypeOK, Item
  <2>2. count < MaxSteps
    BY DEF RecordStep
  <2>3. count \in Nat /\ count + 1 \in Item
    BY <2>1, <2>2, RecorderAssumption DEF Item
  <2> QED BY <2>2, <2>3 DEF RecordStep, Put
<1>4. Waiting' = Waiting + 1 /\ Debt' = Debt /\ Waiting \in Nat
  BY <1>2, <1>3, PutCounts, Counted
<1>5. Behind(p, base)'
  <2>1. queue \in Seq(Item) /\ p \in 0 .. Waiting /\ InLine(queue, p, base)
        /\ count = base + Waiting - (IF p = 0 THEN 0 ELSE 1) /\ (p # 0 => stopper = "join")
    BY <1>1, <1>2 DEF Behind, TypeOK
  <2>2. count + 1 = IF p = 0 THEN base + Waiting + 1 ELSE base + Waiting
    BY <1>4, <2>1
  <2>3. InLine(queue', p, base)
    <3>1. /\ p \in 0 .. Len(queue) /\ count + 1 \in Item
          /\ count + 1 = IF p = 0 THEN base + Len(queue) + 1 ELSE base + Len(queue)
      BY <1>3, <2>1, <2>2 DEF Waiting
    <3>2. queue \in Seq(Item) /\ InLine(queue, p, base)
      BY <2>1
    <3>3. InLine(Append(queue, count + 1), p, base)
      BY <3>1, <3>2, LineGrows, Zenon
    <3> QED BY <1>3, <3>3
  <2>4. p \in 0 .. Waiting' /\ count' = base + Waiting' - (IF p = 0 THEN 0 ELSE 1)
    BY <1>3, <1>4, <2>1
  <2> QED BY <1>3, <2>1, <2>3, <2>4 DEF Behind
<1>6. Ahead(base)'
  BY <1>1, <1>3, <1>4, AheadStays
<1>7. Sane'
  BY <1>2, <1>3, SaneStays
<1>8. Ended'
  BY <1>2, <1>3, <1>4 DEF Ended, Sealed
<1> QED BY <1>5, <1>6, <1>7, <1>8

\* stop() puts the only sentinel, behind the steps before it.
LEMMA StopKeeps ==
  ASSUME Orderly, Stop
  PROVE  Sane' /\ Ended' /\ \E p, base \in Nat : Behind(p, base)' /\ Ahead(base)'
<1>1. PICK p \in Nat, base \in Nat : Behind(p, base) /\ Ahead(base)
  BY DEF Orderly
<1>2. Typed /\ TypeOK /\ Sane /\ Ended
  BY DEF Orderly, Typed
<1>3. /\ stopper = "idle" /\ stopper' = "join" /\ Put(Sentinel)
      /\ queue' = Append(queue, Sentinel) /\ Sentinel \in Item
      /\ UNCHANGED <<count, writerVars, execVars, exported, envVars>>
  BY Items DEF Stop, Put
<1>4. Waiting' = Waiting + 1 /\ Debt' = Debt /\ Waiting \in Nat
  BY <1>2, <1>3, PutCounts, Counted
<1>9. PICK w \in Nat : w = Waiting + 1
  BY <1>4
<1>5. Behind(w, base)'
  <2>4. p = 0
    BY <1>1, <1>3 DEF Behind
  <2>5. InLine(queue, p, base) /\ count = base + Waiting - (IF p = 0 THEN 0 ELSE 1)
    BY <1>1 DEF Behind
  <2>6. count = base + Waiting
    BY <1>4, <2>4, <2>5
  <2>1. queue \in Seq(Item) /\ InLine(queue, 0, base) /\ count = base + Waiting
    BY <1>2, <2>4, <2>5, <2>6 DEF TypeOK
  <2>2. InLine(queue', w, base)
    BY <1>3, <1>9, <2>1, LineEnds DEF Waiting
  <2>3. count' = base + Waiting' - 1 /\ w \in 0 .. Waiting' /\ w # 0
    BY <1>3, <1>4, <1>9, <2>1
  <2> QED BY <1>3, <2>2, <2>3 DEF Behind
<1>6. Ahead(base)'
  BY <1>1, <1>3, <1>4, AheadStays
<1>7. Sane'
  BY <1>2, <1>3, SaneStays
<1>8. Ended'
  BY <1>2, <1>3 DEF Ended, Sealed
<1> QED BY <1>9, <1>5, <1>6, <1>7, <1>8

\* A job that ends was the awaited step, or nothing is owed to it any more.
LEMMA EndsKeeps ==
  ASSUME Orderly, NEW how \in {"ok", "raised"}, JobEnds(how),
         how = "ok" => stored' = Append(stored, Head(jobs)), how = "raised" => stored' = stored
  PROVE  Sane' /\ Ended' /\ \E p, base \in Nat : Behind(p, base)' /\ Ahead(base)'
<1>1. PICK p \in Nat, base \in Nat : Behind(p, base) /\ Ahead(base)
  BY DEF Orderly
<1>2. Typed /\ TypeOK /\ Sane /\ Ended
  BY DEF Orderly, Typed
<1>3. /\ running /\ jobs' = Tail(jobs)
      /\ result' = IF Head(jobs) = awaited THEN how ELSE result
      /\ UNCHANGED <<queueVars, writer, awaited, error, stopVars, cancelled, late>>
  BY DEF JobEnds
<1>4. jobs # <<>> /\ ~Sealed
  BY <1>2, <1>3, SealedIsIdle DEF Typed
<1>5. /\ jobs' \in Seq(Nat \ {0}) /\ Head(jobs) # 0 /\ Head(jobs) \in Nat
      /\ Len(jobs) \in Nat /\ Len(jobs') = Len(jobs) - 1
  <2>1. jobs \in Seq(Nat \ {0}) /\ jobs # <<>>
    BY <1>2, <1>4 DEF Sane
  <2> QED BY <1>3, <2>1, Shorter
<1>6. Writing' = Writing /\ Debt' = Debt
  BY <1>3 DEF Writing, Debt, Waiting, InHand
<1>7. Behind(p, base)'
  BY <1>1, <1>3, BehindStays
<1>8. Sane'
  <2>1. awaited # 0 <=> Writing
    BY <1>2 DEF Sane
  <2>2. Head(jobs) = awaited => Writing
    BY <1>5, <2>1
  <2> QED BY <1>2, <1>3, <1>5, <1>6, <2>2 DEF Sane
<1>9. Ended'
  BY <1>2, <1>3, <1>4 DEF Ended, Sealed
<1>10. Len(stored') + Len(jobs') <= base
  <2>1. Len(stored) \in Nat /\ Len(stored) + Len(jobs) <= base
    <3>1. stored \in Seq(Item)
      BY <1>2 DEF TypeOK
    <3> QED BY <1>1, <3>1 DEF Ahead
  <2>2. Len(stored') = Len(stored) \/ Len(stored') = Len(stored) + 1
    <3>1. stored \in Seq(Nat)
      <4>1. stored \in Seq(Item)
        BY <1>2 DEF TypeOK
      <4> QED BY <4>1, Items, Wider
    <3>2. Len(Append(stored, Head(jobs))) = Len(stored) + 1
      BY <1>5, <3>1, Longer
    <3> QED BY <3>2
  <2> QED BY <1>5, <2>1, <2>2
<1>11. Debt' = 0 => InStep(base)'
  <2> SUFFICES ASSUME Debt = 0 PROVE InStep(base)'
    BY <1>6
  <2>1. InStep(base)
    BY <1>1 DEF Ahead
  <2>2. /\ Writing /\ result = "none" /\ jobs = <<base>> /\ awaited = base
    BY <1>4, <2>1 DEF InStep
  <2>3. /\ Len(jobs) = 1 /\ Head(jobs) = base /\ Lost = 0 /\ jobs' = <<>> /\ result' = how
    BY <1>3, <2>2 DEF Lost
  <2>4. /\ base = Len(stored) + 1 /\ \A i \in 1 .. Len(stored) : stored[i] = i
        /\ stored \in Seq(Nat) /\ Len(stored) \in Nat
    <3>1. stored \in Seq(Item)
      BY <1>2 DEF TypeOK
    <3>2. stored \in Seq(Nat) /\ Len(stored) \in Nat
      BY <3>1, Items, Wider
    <3>3. base = Len(stored) + Len(jobs) + Lost /\ \A i \in 1 .. Len(stored) : stored[i] = i
      BY <2>1 DEF InStep
    <3>4. Len(jobs) = 1 /\ Lost = 0
      BY <2>3
    <3> QED BY <3>2, <3>3, <3>4
  <2>5. jobs' = (IF Writing' /\ result' = "none" THEN <<base>> ELSE <<>>) /\ (Writing' => awaited' = base)
    BY <1>3, <2>2, <2>3
  <2>6. CASE how = "ok"
    <3>1. stored' = Append(stored, base)
      BY <2>3, <2>6
    <3>2. /\ Len(stored') = Len(stored) + 1 /\ stored'[Len(stored) + 1] = base
          /\ \A i \in 1 .. Len(stored) : stored'[i] = stored[i]
      BY <2>4, <3>1, Longer
    <3>3. Lost' = 0 /\ Len(jobs') = 0
      BY <2>3, <2>6 DEF Lost
    <3>4. base = Len(stored') + Len(jobs') + Lost'
      BY <2>4, <3>2, <3>3
    <3>5. \A i \in 1 .. Len(stored') : stored'[i] = i
      BY <2>4, <3>2
    <3> QED BY <2>5, <3>4, <3>5 DEF InStep
  <2>7. CASE how = "raised"
    <3>1. stored' = stored /\ Lost' = 1 /\ Len(jobs') = 0
      BY <2>3, <2>7 DEF Lost
    <3>2. base = Len(stored') + Len(jobs') + Lost'
      BY <2>4, <3>1
    <3> QED BY <2>4, <2>5, <3>1, <3>2 DEF InStep
  <2> QED BY <2>6, <2>7
<1> QED BY <1>7, <1>8, <1>9, <1>10, <1>11 DEF Ahead

\* A step that is taken is the next one; the sentinel leaves the line.
LEMMA TakeKeeps ==
  ASSUME Orderly, NEW next, Take(next), Leads(next), ~Writing, ~Sealed
  PROVE  Sane' /\ Ended' /\ \E p, base \in Nat : Behind(p, base)' /\ Ahead(base)'
<1>1. PICK p \in Nat, base \in Nat : Behind(p, base) /\ Ahead(base)
  BY DEF Orderly
<1>2. Typed /\ TypeOK /\ Sane /\ Ended
  BY DEF Orderly, Typed
<1>3. /\ queue \in Seq(Item) /\ queue # <<>> /\ queue' = Tail(queue)
      /\ UNCHANGED <<count, error, result, running, stored, stopVars, envVars>>
  BY <1>2 DEF Take, TypeOK
<1>4. Debt' = Debt
  BY <1>2, TakeCounts
<1>5. result = "none" /\ Lost = 0 /\ Lost' = 0
  BY <1>2, <1>3 DEF Sane, Lost
<1>6. Ended' /\ ~Sealed'
  BY <1>2, <1>3 DEF Ended, Sealed
<1>7. Waiting \in Nat /\ Waiting >= 1 /\ Waiting' = Waiting - 1
  <2>1. Len(queue) \in Nat \ {0} /\ Len(Tail(queue)) = Len(queue) - 1
    BY <1>3, Shorter
  <2> QED BY <1>3, <2>1 DEF Waiting
<1>8. /\ p \in 0 .. Waiting /\ InLine(queue, p, base)
      /\ count = base + Waiting - (IF p = 0 THEN 0 ELSE 1) /\ (p # 0 => stopper = "join")
  BY <1>1 DEF Behind
<1>9. /\ Head(queue) = Sentinel => p = 1 /\ InLine(queue', 0, base)
      /\ Head(queue) # Sentinel => /\ p # 1 /\ Head(queue) = base + 1
                                  /\ InLine(queue', IF p = 0 THEN 0 ELSE p - 1, base + 1)
  <2>1. p \in 0 .. Len(queue)
    BY <1>8 DEF Waiting
  <2> QED BY <1>3, <1>8, <2>1, LineTaken
<1>10. CASE Head(queue) = Sentinel
  <2>1. UNCHANGED <<awaited, jobs>> /\ writer' \in {"ended", "drain"}
    BY <1>10 DEF Take, Leads
  <2>2. ~Writing'
    BY <2>1 DEF Writing
  <2>3. Sane'
    BY <1>2, <1>3, <1>5, <2>1, <2>2 DEF Sane
  <2>4. p = 1 /\ InLine(queue', 0, base) /\ count' = base + Waiting'
    BY <1>3, <1>7, <1>8, <1>9, <1>10
  <2>5. Behind(0, base)'
    BY <1>7, <2>4 DEF Behind
  <2>6. Ahead(base)'
    BY <1>1, <1>3, <1>4, <1>5, <2>1, <2>2 DEF Ahead, InStep
  <2> QED BY <1>6, <2>3, <2>5, <2>6
<1>11. CASE Head(queue) # Sentinel
  <2>1. awaited' = Head(queue) /\ jobs' = Append(jobs, Head(queue)) /\ writer' \in {"write", "drain write"}
    <3>1. (Head(queue) = Sentinel) = FALSE
      BY <1>11
    <3>2. writer' = next[FALSE]
      BY <3>1, Zenon DEF Take
    <3> QED BY <1>11, <3>2, Zenon DEF Take, Leads
  <2>2. Writing'
    BY <2>1 DEF Writing
  <2>3. Head(queue) = base + 1 /\ base + 1 \in Nat \ {0}
    BY <1>9, <1>11
  <2>4. PICK next_base \in Nat \ {0} : next_base = base + 1
    BY <2>3
  <2>5. PICK m \in Nat : m = IF p = 0 THEN 0 ELSE p - 1
    BY <1>8
  <2>6. Behind(m, next_base)'
    <3>1. InLine(queue', m, next_base)
      BY <1>9, <1>11, <2>4, <2>5
    <3>2. p # 1
      BY <1>9, <1>11
    <3>3. m \in 0 .. Waiting' /\ (m # 0 => p # 0)
      BY <1>7, <1>8, <2>5
    <3>4. count' = next_base + Waiting' - (IF m = 0 THEN 0 ELSE 1)
      BY <1>3, <1>7, <1>8, <2>4, <2>5, <3>2
    <3> QED BY <1>3, <1>8, <3>1, <3>3, <3>4 DEF Behind
  <2>7. jobs \in Seq(Nat \ {0}) /\ jobs' = Append(jobs, next_base) /\ awaited' = next_base
    BY <1>2, <2>1, <2>3, <2>4 DEF Sane
  <2>8. jobs' \in Seq(Nat \ {0}) /\ Len(jobs') = Len(jobs) + 1 /\ Len(jobs) \in Nat
    BY <2>4, <2>7, Longer
  <2>9. Sane'
    BY <1>2, <1>3, <1>5, <2>2, <2>4, <2>7, <2>8 DEF Sane
  <2>10. Len(stored') + Len(jobs') <= next_base
    <3>1. stored \in Seq(Item) /\ Len(stored) + Len(jobs) <= base
      BY <1>1, <1>2 DEF TypeOK, Ahead
    <3>2. Len(stored) \in Nat
      BY <3>1
    <3> QED BY <1>3, <2>4, <2>8, <3>1, <3>2
  <2>11. Debt' = 0 => InStep(next_base)'
    <3> SUFFICES ASSUME Debt = 0 PROVE InStep(next_base)'
      BY <1>4
    <3>1. InStep(base)
      BY <1>1 DEF Ahead
    <3>2. jobs = <<>>
      BY <3>1 DEF InStep
    <3>3. base = Len(stored) + Len(jobs) + Lost /\ \A i \in 1 .. Len(stored) : stored[i] = i
      BY <3>1 DEF InStep
    <3>4. stored \in Seq(Item)
      BY <1>2 DEF TypeOK
    <3>5. Len(stored) \in Nat /\ Len(jobs) = 0
      BY <3>2, <3>4
    <3>6. next_base = Len(stored') + Len(jobs') + Lost'
      BY <1>3, <1>5, <2>4, <2>8, <3>3, <3>5
    <3>7. jobs' = <<next_base>>
      BY <2>7, <3>2
    <3> QED BY <1>3, <1>5, <2>2, <2>7, <3>3, <3>6, <3>7 DEF InStep
  <2>12. Ahead(next_base)'
    BY <2>10, <2>11 DEF Ahead
  <2> QED BY <1>6, <2>6, <2>9, <2>12
<1> QED BY <1>10, <1>11

\* The writer that leaves a write without marking it done makes the debt that
\* join waits for in vain.
LEMMA LeavesKeeps ==
  ASSUME Orderly, ~Sealed,
         UNCHANGED <<count, queue, running, stored, stopVars, late>>,
         writer' \in {"get", "drain", "ended"}, awaited' = 0, result' = "none",
         jobs' \in {jobs, <<>>},
         \/ Writing /\ result = "ok" /\ unfinished' = unfinished - 1
         \/ unfinished' = unfinished
  PROVE  Sane' /\ Ended' /\ \E p, base \in Nat : Behind(p, base)' /\ Ahead(base)'
<1>1. PICK p \in Nat, base \in Nat : Behind(p, base) /\ Ahead(base)
  BY DEF Orderly
<1>2. Typed /\ TypeOK /\ Sane /\ Ended
  BY DEF Orderly, Typed
<1>3. ~Writing' /\ Lost' = 0 /\ InHand' = 0 /\ Waiting' = Waiting
  BY DEF Writing, Lost, InHand, Waiting
<1>4. Ended'
  BY <1>2 DEF Ended, Sealed
<1>5. Sane'
  <2>1. jobs \in Seq(Nat \ {0}) /\ <<>> \in Seq(Nat \ {0})
    BY <1>2 DEF Sane
  <2>2. jobs' \in Seq(Nat \ {0})
    BY <2>1
  <2> QED BY <1>3, <2>2 DEF Sane
<1>6. Behind(p, base)'
  BY <1>1, BehindStays
<1>7. Len(stored') + Len(jobs') <= base
  <2>1. /\ stored \in Seq(Item) /\ jobs \in Seq(Item)
        /\ Len(stored) + Len(jobs) <= base /\ stored' = stored
    BY <1>1, <1>2 DEF Ahead, TypeOK
  <2>2. Len(stored) \in Nat /\ Len(jobs) \in Nat /\ Len(jobs') \in {0, Len(jobs)}
    BY <2>1
  <2> QED BY <2>1, <2>2
<1>8. Debt' = 0 => InStep(base)'
  <2> SUFFICES ASSUME Debt' = 0 PROVE InStep(base)'
    OBVIOUS
  <2>1. /\ Waiting \in Nat /\ unfinished \in Nat /\ Debt \in Nat
    BY <1>2, Counted DEF Typed
  <2>2. Debt = 0 /\ result # "raised" /\ (Writing => result # "none")
    <3>1. CASE Writing /\ result = "ok" /\ unfinished' = unfinished - 1
      <4>1. InHand = 1
        BY <3>1 DEF InHand
      <4>2. Debt = 0
        BY <1>3, <2>1, <3>1, <4>1 DEF Debt
      <4> QED BY <3>1, <4>2
    <3>2. CASE unfinished' = unfinished /\ Writing
      <4>1. InHand = 1
        BY <3>2 DEF InHand
      <4>2. Debt' = Debt + 1
        BY <1>3, <2>1, <3>2, <4>1 DEF Debt
      <4> QED BY <2>1, <4>2
    <3>3. CASE unfinished' = unfinished /\ ~Writing
      <4>1. InHand = 0 /\ result = "none"
        BY <1>2, <3>3 DEF InHand, Sane
      <4>2. Debt' = Debt
        BY <1>3, <2>1, <3>3, <4>1 DEF Debt
      <4> QED BY <3>3, <4>1, <4>2
    <3> QED BY <3>1, <3>2, <3>3
  <2>3. InStep(base)
    BY <1>1, <2>2 DEF Ahead
  <2>4. jobs = <<>> /\ Lost = 0
    BY <2>2, <2>3 DEF InStep, Lost
  <2>5. base = Len(stored) + Len(jobs) + Lost /\ \A i \in 1 .. Len(stored) : stored[i] = i
    BY <2>3 DEF InStep
  <2>6. jobs' = <<>>
    BY <2>4
  <2>7. base = Len(stored') + Len(jobs') + Lost'
    BY <1>3, <2>4, <2>5, <2>6
  <2> QED BY <1>3, <2>5, <2>6, <2>7 DEF InStep
<1> QED BY <1>4, <1>5, <1>6, <1>7, <1>8 DEF Ahead

\* join and the end of the writer: then nothing is on its way, and no step is
\* missing.
LEMMA JoinedIsWhole ==
  ASSUME Orderly, stopper = "join", unfinished = 0, writer = "ended"
  PROVE  Debt = 0 /\ count = Len(stored)
<1>1. PICK p \in Nat, base \in Nat : Behind(p, base) /\ Ahead(base)
  BY DEF Orderly
<1>2. ~Writing /\ result # "raised"
  BY DEF Writing, Orderly, Sane
<1>3. InHand = 0 /\ Lost = 0
  BY <1>2 DEF InHand, Lost
<1>4. Waiting \in Nat /\ Debt \in Nat
  BY Counted DEF Orderly, Typed
<1>5. Waiting = 0 /\ Debt = 0
  BY <1>3, <1>4 DEF Debt
<1>6. InStep(base)
  BY <1>1, <1>5 DEF Ahead
<1>7. base = Len(stored) + Len(jobs) + Lost
  BY <1>6 DEF InStep
<1>8. jobs = <<>>
  BY <1>2, <1>6 DEF InStep
<1>9. stored \in Seq(Item)
  BY DEF Orderly, Typed, TypeOK
<1>10. Len(stored) \in Nat /\ Len(jobs) = 0
  BY <1>8, <1>9
<1>11. p = 0 /\ count = base
  BY <1>1, <1>5 DEF Behind
<1> QED BY <1>3, <1>5, <1>7, <1>10, <1>11

LEMMA OrderlyStep == Orderly /\ [Next]_vars => Orderly'
<1> SUFFICES ASSUME Orderly, [Next]_vars PROVE Orderly'
  OBVIOUS
<1>0. Typed'
  BY TypeStep DEF Orderly
<1>00. PICK p \in Nat, base \in Nat : Behind(p, base) /\ Ahead(base)
  BY DEF Orderly
<1> SUFFICES Sane' /\ Ended' /\ \E q, b \in Nat : Behind(q, b)' /\ Ahead(b)'
  BY <1>0 DEF Orderly
<1>1. CASE RecordStep
  BY <1>1, RecordKeeps
<1>2. CASE JobStarts
  <2>1. UNCHANGED <<queueVars, writerVars, jobs, stored, stopVars, envVars>>
    BY <1>2 DEF JobStarts
  <2>2. Debt' = Debt
    BY <2>1 DEF Debt, Waiting, InHand, Writing
  <2>3. Behind(p, base)' /\ Ahead(base)' /\ Sane'
    BY <1>00, <2>1, <2>2, BehindStays, AheadStays, SaneStays DEF Orderly
  <2>4. Ended'
    BY <2>1, <2>2 DEF Orderly, Ended, Sealed
  <2> QED BY <2>3, <2>4
<1>3. CASE Written
  <2>1. JobEnds("ok") /\ stored' = Append(stored, Head(jobs))
    BY <1>3 DEF Written
  <2> QED BY <2>1, EndsKeeps
<1>4. CASE WriteRaises
  <2>1. JobEnds("raised") /\ stored' = stored
    BY <1>4 DEF WriteRaises
  <2> QED BY <2>1, EndsKeeps
<1>5. CASE Get
  <2> DEFINE next == [b \in BOOLEAN |-> IF b THEN "ended" ELSE "write"]
  <2>1. Take(next) /\ ~Writing /\ Leads(next) /\ writer = "get"
    BY <1>5 DEF Get, Writing, Leads
  <2>2. ~Sealed
    BY <2>1, SealedIsIdle
  <2> QED BY <2>1, <2>2, TakeKeeps
<1>6. CASE Drain
  <2> DEFINE next == [b \in BOOLEAN |-> IF b THEN "drain" ELSE "drain write"]
  <2>1. Take(next) /\ ~Writing /\ Leads(next) /\ writer = "drain"
    BY <1>6 DEF Drain, Writing, Leads
  <2>2. ~Sealed
    BY <2>1, SealedIsIdle
  <2> QED BY <2>1, <2>2, TakeKeeps
<1>7. CASE Resume("write", "get") \/ Resume("drain write", "drain")
  <2>1. /\ writer \in {"write", "drain write"} /\ result = "ok"
        /\ writer' \in {"get", "drain", "ended"} /\ awaited' = 0 /\ result' = "none"
        /\ unfinished' = unfinished - 1 /\ jobs' = jobs
        /\ UNCHANGED <<count, queue, running, stored, stopVars, late>>
    BY <1>7 DEF Resume
  <2>2. ~Sealed /\ Writing
    BY <2>1, SealedIsIdle DEF Writing
  <2> QED BY <2>1, <2>2, LeavesKeeps
<1>8. CASE LoopRaises \/ DrainEnds \/ Cancel
  <2>1. /\ writer # "ended"
        /\ writer' \in {"get", "drain", "ended"} /\ awaited' = 0 /\ result' = "none"
        /\ unfinished' = unfinished /\ jobs' \in {jobs, <<>>}
        /\ UNCHANGED <<count, queue, running, stored, stopVars, late>>
    BY <1>8 DEF LoopRaises, DrainEnds, Cancel
  <2>2. ~Sealed
    BY <2>1, SealedIsIdle
  <2> QED BY <2>1, <2>2, LeavesKeeps
<1>9. CASE Stop
  BY <1>9, StopKeeps
<1>10. CASE Joined
  <2>1. /\ stopper = "join" /\ unfinished = 0 /\ writer = "ended" /\ stopper' = "finalize"
        /\ UNCHANGED <<queueVars, writerVars, execVars, exported, envVars>>
    BY <1>10 DEF Joined
  <2>2. Debt = 0 /\ count = Len(stored)
    BY <2>1, JoinedIsWhole
  <2>3. Debt' = Debt
    BY <2>1 DEF Debt, Waiting, InHand, Writing
  <2>4. Ended'
    BY <2>1, <2>2, <2>3 DEF Ended, Sealed
  <2>5. p = 0
    <3>1. Waiting = 0
      BY <2>1, <2>2, Counted DEF Debt, InHand, Writing, Orderly, Typed
    <3> QED BY <1>00, <3>1 DEF Behind
  <2>6. Behind(p, base)' /\ Ahead(base)' /\ Sane'
    BY <1>00, <2>1, <2>3, <2>5, BehindStays, AheadStays, SaneStays DEF Orderly
  <2> QED BY <2>4, <2>6
<1>11. CASE Finalize
  <2>1. /\ stopper = "finalize" /\ stopper' = "done" /\ exported' = stored
        /\ UNCHANGED <<queueVars, writerVars, execVars, envVars>>
    BY <1>11 DEF Finalize
  <2>2. Debt' = Debt
    BY <2>1 DEF Debt, Waiting, InHand, Writing
  <2>3. Ended'
    BY <2>1, <2>2 DEF Orderly, Ended, Sealed
  <2>4. Behind(p, base)' /\ Ahead(base)' /\ Sane'
    BY <1>00, <2>1, <2>2, BehindStays, AheadStays, SaneStays DEF Orderly
  <2> QED BY <2>3, <2>4
<1>12. CASE UNCHANGED vars
  <2>1. UNCHANGED <<queueVars, writerVars, execVars, stopVars, envVars>>
    BY <1>12 DEF vars
  <2>2. Debt' = Debt
    BY <2>1 DEF Debt, Waiting, InHand, Writing
  <2>3. Ended'
    BY <2>1, <2>2 DEF Orderly, Ended, Sealed
  <2>4. Behind(p, base)' /\ Ahead(base)' /\ Sane'
    BY <1>00, <2>1, <2>2, BehindStays, AheadStays, SaneStays DEF Orderly
  <2> QED BY <2>3, <2>4
<1> QED BY <1>1, <1>2, <1>3, <1>4, <1>5, <1>6, <1>7, <1>8, <1>9, <1>10, <1>11, <1>12
        DEF Next, Executor, WriterTask, StopTask

LEMMA OrderlyAlways == Spec => []Orderly
  BY OrderlyInit, OrderlyStep, PTL DEF Spec

\* stop() never exports a recording that misses a step accepted before it was
\* called, or has them in another order, whatever raises or is cancelled.
THEOREM ExportsAreWhole == Spec => []ExportIsWhole
<1>1. Orderly => ExportIsWhole
  <2> SUFFICES ASSUME Orderly, stopper = "done", ~late
               PROVE  exported = [i \in 1 .. count |-> i]
    BY DEF ExportIsWhole
  <2>1. exported = stored /\ count = Len(stored)
    BY DEF Orderly, Ended, Sealed
  <2>2. stored \in Seq(Item)
    BY DEF Orderly, Typed, TypeOK
  <2>3. PICK base \in Nat : InStep(base)
    BY SealedIsIdle DEF Orderly, Ahead, Sealed
  <2>4. \A i \in 1 .. Len(stored) : stored[i] = i
    BY <2>3 DEF InStep
  <2>5. stored = [i \in 1 .. Len(stored) |-> stored[i]]
    BY <2>2
  <2>6. [i \in 1 .. Len(stored) |-> stored[i]] = [i \in 1 .. Len(stored) |-> i]
    BY <2>4
  <2> QED BY <2>1, <2>5, <2>6
<1> QED BY <1>1, OrderlyAlways, PTL

-----------------------------------------------------------------------------
(* The recorder implements the log of steps.                               *)

\* What is stored was taken, and what was taken was accepted.
LEMMA StoredWereAccepted ==
  ASSUME Orderly
  PROVE  Len(stored) \in Nat /\ Len(jobs) \in Nat /\ count \in Nat
         /\ Len(stored) + Len(jobs) <= count
<1>1. PICK p \in Nat, base \in Nat : Behind(p, base) /\ Ahead(base)
  BY DEF Orderly
<1>2. stored \in Seq(Item) /\ jobs \in Seq(Item) /\ count \in Nat
  BY Items DEF Orderly, Typed, TypeOK
<1>3. Len(stored) \in Nat /\ Len(jobs) \in Nat
  BY <1>2
<1>4. base <= count
  <2>1. p \in 0 .. Waiting /\ count = base + Waiting - (IF p = 0 THEN 0 ELSE 1)
    BY <1>1 DEF Behind
  <2>2. Waiting \in Nat
    BY Counted DEF Orderly, Typed
  <2> QED BY <2>1, <2>2
<1>5. Len(stored) + Len(jobs) <= base
  BY <1>1 DEF Ahead
<1> QED BY <1>2, <1>3, <1>4, <1>5

LEMMA LogInit == Init => Log!Init
  BY DEF Init, Log!Init

\* Each step of the recorder is one of the log's, or none.
LEMMA LogStep ==
  ASSUME Orderly, [Next]_vars
  PROVE  [Log!Next]_(Log!vars)
<1> USE DEF Log!vars, Log!Next
<1>1. CASE RecordStep
  <2>1. count' = count + 1 /\ stored' = stored /\ stopper' = stopper
    BY <1>1 DEF RecordStep
  <2>2. Log!Accept
    BY <2>1 DEF Log!Accept
  <2> QED BY <2>2
<1>2. CASE Written
  <2>1. /\ running /\ stored' = Append(stored, Head(jobs))
        /\ count' = count /\ stopper' = stopper
    BY <1>2 DEF Written, JobEnds
  <2>2. jobs # <<>> /\ jobs \in Seq(Item) /\ stored \in Seq(Item) /\ ~Sealed
    BY <2>1, SealedIsIdle DEF Orderly, Typed, TypeOK
  <2>3. Len(jobs) # 0 /\ Head(jobs) \in Item
    BY <2>2, Shorter
  <2>4. Len(stored') = Len(stored) + 1
    BY <2>1, <2>2, <2>3, Longer
  <2>5. Len(stored) < count
    BY <2>3, StoredWereAccepted
  <2>6. Log!Store
    BY <2>1, <2>2, <2>4, <2>5 DEF Log!Store, Sealed
  <2> QED BY <2>6
<1>3. CASE Stop
  <2>1. stopper = "idle" /\ stopper' = "join" /\ count' = count /\ stored' = stored
    BY <1>3 DEF Stop
  <2>2. Log!Ask
    BY <2>1 DEF Log!Ask
  <2> QED BY <2>2
<1>4. CASE Joined
  <2>1. stopper = "join" /\ stopper' = "finalize" /\ count' = count /\ stored' = stored
    BY <1>4 DEF Joined
  <2>2. count = Len(stored)
    BY <1>4, JoinedIsWhole DEF Joined
  <2>3. Log!Seal
    BY <2>1, <2>2 DEF Log!Seal
  <2> QED BY <2>3
<1>5. CASE Finalize
  <2>1. stopper = "finalize" /\ stopper' = "done" /\ count' = count /\ stored' = stored
    BY <1>5 DEF Finalize
  <2> QED BY <2>1
<1>6. CASE JobStarts \/ WriteRaises \/ LoopRaises \/ DrainEnds \/ Cancel
           \/ Resume("write", "get") \/ Resume("drain write", "drain") \/ UNCHANGED vars
  <2>1. count' = count /\ stored' = stored /\ stopper' = stopper
    BY <1>6 DEF JobStarts, WriteRaises, JobEnds, LoopRaises, DrainEnds, Cancel, Resume, vars
  <2> QED BY <2>1
<1>7. CASE Get \/ Drain
  <2>1. PICK next : Take(next)
    BY <1>7 DEF Get, Drain
  <2>2. count' = count /\ stored' = stored /\ stopper' = stopper
    BY <2>1 DEF Take
  <2> QED BY <2>2
<1> QED BY <1>1, <1>2, <1>3, <1>4, <1>5, <1>6, <1>7
        DEF Next, Executor, WriterTask, StopTask

\* Every behaviour of the recorder is one of StepLog: steps are stored one by
\* one, in the order they were accepted and without a gap, and the recording is
\* sealed when all of them are.
THEOREM ImplementsLog == Spec => LogSpec
<1>1. Orderly /\ [Next]_vars => [Log!Next]_(Log!vars)
  BY LogStep
<1> QED BY <1>1, LogInit, OrderlyAlways, PTL DEF Spec, LogSpec, Log!Spec

=============================================================================
