------------------------ MODULE GuardSessionsProofs ------------------------
(***************************************************************************)
(* Theorems about GuardSessions, for any calls, threads, contexts and      *)
(* bounds.  Neither property is inductive: what a wrapper or a hook finds  *)
(* depends on everything that ran on its thread and in its context before. *)
(*                                                                         *)
(* A thread.  Its plain calls in progress are a stack (Stacked).  They run *)
(* in one context and belong to one session, the one that this context or  *)
(* the thread's own stack of sessions names (Nested), so each finds its    *)
(* own session (Hooked), and each but the innermost is in a step, unless   *)
(* the consumer of a stream made the call inside it (Waiting).             *)
(*                                                                         *)
(* Results.  A list holds ids of the calls that share it (Owned).  While   *)
(* calls that interleave have lists of their own (once they do not, they   *)
(* never do again: StaysIsolated), the list ends with the open steps of    *)
(* the stack in their order (OnTop).  Whoever validates is the innermost   *)
(* call, so the last id is its own, and an open record is that of the step *)
(* its call is in (Recorded).                                              *)
(*                                                                         *)
(* Records.  A context without a plain call in it holds no session it      *)
(* should not (Resting), and on a thread that serves plain calls only the  *)
(* stack of sessions is that of the outermost call (Alone); so the session *)
(* a call joined stays open until the call is over.  Until it is closed    *)
(* every call in it has left its start and its steps there (Written).      *)
(***************************************************************************)
EXTENDS GuardSessions, SequenceTheorems, TLAPS

\* The calls that have begun.
Begun == {t \in Task : pc[t] # "idle"}

-----------------------------------------------------------------------------
(* The sequences that threads and contexts keep.                           *)

LEMMA Tops ==
    ASSUME NEW S, NEW s \in Seq(S), s # <<>>
    PROVE  /\ Len(s) \in Nat \ {0} /\ Last(s) = s[Len(s)] /\ Last(s) \in S
           /\ Current(s) = Last(s)
           /\ Pop(s) \in Seq(S) /\ Len(Pop(s)) = Len(s) - 1
           /\ \A i \in 1 .. Len(s) - 1 : Pop(s)[i] = s[i]
<1>1. Len(s) \in Nat \ {0} /\ Last(s) = s[Len(s)] /\ Last(s) \in S
    BY DEF Last
<1> DEFINE k == Len(s)
<1>0. k \in Nat \ {0}
    BY <1>1
<1> HIDE DEF k
<1>2. /\ k - 1 \in Int /\ (1 <= k - 1 \/ k - 1 = 0)
      /\ (k - 1) - 1 + 1 = k - 1
    BY <1>0
<1>3. ASSUME NEW i \in 1 .. k - 1
      PROVE  i \in 1 .. k /\ 1 + i - 1 = i
    BY <1>0
<1> USE DEF k
<1>5. /\ Front(s) \in Seq(S)
      /\ Len(Front(s)) = IF 1 <= Len(s) - 1 THEN (Len(s) - 1) - 1 + 1 ELSE 0
      /\ \A i \in 1 .. (Len(s) - 1) - 1 + 1 : Front(s)[i] = s[1 + i - 1]
    BY <1>1, <1>2, <1>3, SubSeqProperties DEF Front
<1>6. Len(Front(s)) = Len(s) - 1
    BY <1>1, <1>2, <1>5
<1>7. \A i \in 1 .. Len(s) - 1 : Front(s)[i] = s[i]
    BY <1>2, <1>3, <1>5
<1> QED
    BY <1>1, <1>5, <1>6, <1>7 DEF Pop, Current

LEMMA Pops ==
    ASSUME NEW S, NEW s \in Seq(S)
    PROVE  Pop(s) \in Seq(S)
<1>1. CASE s = <<>>
    BY <1>1 DEF Pop
<1>2. CASE s # <<>>
    BY <1>2, Tops
<1> QED
    BY <1>1, <1>2

LEMMA Pushes ==
    ASSUME NEW S, NEW s \in Seq(S), NEW e \in S
    PROVE  /\ Len(s) \in Nat /\ Append(s, e) \in Seq(S) /\ Append(s, e) # <<>>
           /\ Len(Append(s, e)) = Len(s) + 1
           /\ Append(s, e)[Len(s) + 1] = e
           /\ \A i \in 1 .. Len(s) : Append(s, e)[i] = s[i]
    OBVIOUS

-----------------------------------------------------------------------------
(* Types.                                                                  *)

\* Who calls t, and in which context.
Directly(t, x) ==
    /\ Plain(t) /\ UNCHANGED list
    /\ \/ calls[thread[t]] = <<>> /\ x = thread[t]
       \/ \E p \in Task \ {t} :
            thread[p] = thread[t] /\ open[p] /\ Runs(p) /\ context[p] = x

InCopy(t, y) ==
    /\ calls[thread[t]] = <<>>
    /\ \/ y \in Thread /\ calls[y] = <<>>
       \/ \E p \in Task \ {t} : open[p] /\ Runs(p) /\ context[p] = y
    /\ list' = [list EXCEPT ![t] = list[y]]

\* The two ways a call begins.
Joining(t, x, value) ==
    LET s == Found(value, thread[t]) IN
    /\ Plain(t) /\ s # None
    /\ home' = [home EXCEPT ![t] = s] /\ fallback' = fallback
    /\ ctx' = [ctx EXCEPT ![x] = value]
    /\ Emit(s, Start(t))

Opening(t, x, value) ==
    /\ Plain(t) => Found(value, thread[t]) = None
    /\ home' = [home EXCEPT ![t] = t]
    /\ fallback' = [fallback EXCEPT ![thread[t]] = Append(@, t)]
    /\ ctx' = [ctx EXCEPT ![x] = t]
    /\ Emit(t, Start(t))

Calling(t, x, value) ==
    /\ pc[t] = "idle" /\ pc' = [pc EXCEPT ![t] = "run"]
    /\ context' = [context EXCEPT ![t] = x]
    /\ calls' = IF Plain(t) THEN [calls EXCEPT ![thread[t]] = Append(@, t)] ELSE calls
    /\ prior' = [prior EXCEPT ![t] = value]
    /\ Joining(t, x, value) \/ Opening(t, x, value)
    /\ UNCHANGED <<kind, thread, open, n, hook, ids, records, finalized, artifact>>

LEMMA Executes ==
    ASSUME NEW t, NEW x, NEW value, Execute(t, x, value)
    PROVE  Calling(t, x, value)
<1> DEFINE s == Found(value, thread[t])
<1>1. CASE Plain(t) /\ s # None
    BY <1>1 DEF Execute, Joins, Calling, Joining, given, stepVars
<1>2. CASE ~(Plain(t) /\ s # None)
    BY <1>2 DEF Execute, Opens, Calling, Opening, given, stepVars
<1> QED
    BY <1>1, <1>2

CallStep ==
    \/ \E t \in Task, x \in Context : Directly(t, x) /\ Calling(t, x, ctx[x])
    \/ \E t \in Task, y \in Context : InCopy(t, y) /\ Calling(t, t, ctx[y])

LEMMA CallSteps ==
    ASSUME TypeOK, NEW t \in Task, CallDirectly(t) \/ \E x \in Context : CallInCopy(t, x)
    PROVE  CallStep
<1>1. CASE CallDirectly(t)
  <2>1. CASE calls[thread[t]] = <<>> /\ Execute(t, thread[t], ctx[thread[t]])
    <3>1. thread[t] \in Context
        BY DEF TypeOK, Context
    <3> QED
        BY <1>1, <2>1, <3>1, Executes DEF CallDirectly, Directly, CallStep
  <2>2. ASSUME NEW p \in Task \ {t}, thread[p] = thread[t], open[p], Runs(p),
               Execute(t, context[p], ctx[context[p]])
        PROVE  CallStep
    <3>1. context[p] \in Context
        BY DEF TypeOK
    <3> QED
        BY <1>1, <2>2, <3>1, Executes DEF CallDirectly, Directly, CallStep
  <2> QED
      BY <1>1, <2>1, <2>2 DEF CallDirectly
<1>2. ASSUME NEW x \in Context, CallInCopy(t, x) PROVE CallStep
    BY <1>2, Executes DEF CallInCopy, InCopy, CallStep
<1> QED
    BY <1>1, <1>2

LEMMA Emits ==
    ASSUME DOMAIN steps = Task, NEW s \in Session, NEW step, Emit(s, step)
    PROVE  /\ DOMAIN steps' = Task
           /\ \A u \in Task : steps[u] \subseteq steps'[u]
           /\ \A u \in Task : \A v \in steps'[u] : v \in steps[u] \/ v = step
           /\ s # None /\ ~finalized[s] => step \in steps'[s]
<1>1. CASE s = None \/ finalized[s]
    BY <1>1 DEF Emit
<1>2. CASE ~(s = None \/ finalized[s])
    BY <1>2 DEF Emit, Session
<1> QED
    BY <1>1, <1>2

LEMMA FoundTyped ==
    ASSUME TypeOK, NEW value \in Session, NEW h \in Thread
    PROVE  Found(value, h) \in Session
<1>1. fallback[h] \in Seq(Task)
    BY DEF TypeOK
<1>2. Current(fallback[h]) \in Session
    BY <1>1, Tops DEF Current, Session
<1> QED
    BY <1>2 DEF Found

LEMMA StateTyped ==
    ASSUME TypeOK, NEW t \in Task
    PROVE  State(t) \in Session
<1>1. ctx[context[t]] \in Session /\ thread[t] \in Thread
    BY DEF TypeOK
<1> QED
    BY <1>1, FoundTyped DEF State

LEMMA InitTyped == Init => TypeOK
<1> SUFFICES ASSUME Init PROVE TypeOK
    OBVIOUS
<1>1. <<>> \in Seq(Task) /\ <<>> \in Seq(Id)
    OBVIOUS
<1>2. \A t \in Task : t \in Context
    BY DEF Context
<1>3. ids \in [Context \cup {None} -> Seq(Id)]
    BY <1>1, Zenon DEF Init
<1>4. calls \in [Thread -> Seq(Task)] /\ fallback \in [Thread -> Seq(Task)]
    BY <1>1, Zenon DEF Init
<1>5. DOMAIN records = Task /\ \A s \in Task : DOMAIN records[s] = {}
    BY DEF Init, NoRecords
<1> QED
    BY <1>2, <1>3, <1>4, <1>5 DEF Init, TypeOK, Session

LEMMA CallTyped ==
    ASSUME TypeOK, NEW t \in Task, NEW x \in Context, NEW value \in Session,
           Calling(t, x, value),
           list' = list \/ \E y \in Context : list' = [list EXCEPT ![t] = list[y]]
    PROVE  TypeOK'
<1> USE DEF TypeOK
<1> DEFINE h == thread[t]
<1>1. h \in Thread /\ t \in Context /\ t \in Session /\ Found(value, h) \in Session
    BY FoundTyped DEF Context, Session
<1>2. Append(calls[h], t) \in Seq(Task) /\ Append(fallback[h], t) \in Seq(Task)
    BY <1>1, Pushes
<1>3. calls' \in [Thread -> Seq(Task)]
    BY <1>1, <1>2 DEF Calling
<1> DEFINE Set == /\ fallback' \in [Thread -> Seq(Task)] /\ ctx' \in [Context -> Session]
                  /\ home' \in [Task -> Session]
<1>4. Set
  <2>1. CASE Joining(t, x, value)
      BY <1>1, <2>1 DEF Joining
  <2>2. CASE Opening(t, x, value)
      BY <1>1, <1>2, <2>2 DEF Opening
  <2> QED
      BY <2>1, <2>2 DEF Calling
<1>5. DOMAIN steps' = Task
    BY <1>1, Emits DEF Calling, Joining, Opening
<1>6. list' \in [Context -> Context \cup {None}]
    OBVIOUS
<1>7. /\ pc' \in [Task -> {"idle", "run", "over"}] /\ context' \in [Task -> Context]
      /\ prior' \in [Task -> Session]
    BY DEF Calling
<1>8. UNCHANGED <<kind, thread, open, n, hook, ids, records, finalized, artifact>>
    BY DEF Calling
<1> QED
    BY <1>3, <1>4, <1>5, <1>6, <1>7, <1>8

LEMMA PushedTyped ==
    ASSUME TypeOK, NEW t \in Task, list' \in [Context -> Context \cup {None}]
    PROVE  Pushed(t) \in [Context \cup {None} -> Seq(Id)]
<1>1. list'[context[t]] \in Context \cup {None} /\ <<t, n[t] + 1>> \in Id
    BY DEF TypeOK, Id
<1>2. Append(ids[list'[context[t]]], <<t, n[t] + 1>>) \in Seq(Id)
    BY <1>1, Pushes DEF TypeOK
<1> QED
    BY <1>1, <1>2 DEF Pushed, TypeOK

LEMMA StepTyped ==
    ASSUME TypeOK, NEW t \in Task,
           \/ BeginStep(t) \/ BeginStream(t) \/ Validate(t) \/ EndStep(t) \/ EndStream(t)
    PROVE  TypeOK'
<1> USE DEF TypeOK
<1>1. State(t) \in Session /\ <<t, n[t] + 1>> \in Id /\ context[t] \in Context
      /\ hook[t] \in Session /\ None \in Session /\ n[t] + 1 \in Nat
  <2>1. State(t) \in Session
      BY StateTyped
  <2> QED
      BY <2>1 DEF Id, Session
<1>2. ASSUME NEW s \in Session, BeginsStep(t, s)
      PROVE  /\ UNCHANGED <<given, callVars, sessionVars, steps>>
             /\ open' \in [Task -> BOOLEAN] /\ n' \in [Task -> Nat]
             /\ hook' \in [Task -> Session] /\ list' \in [Context -> Context \cup {None}]
    BY <1>1, <1>2 DEF BeginsStep
<1>3. CASE BeginStep(t)
  <2>1. BeginsStep(t, State(t))
      BY <1>3 DEF BeginStep
  <2>2. ids' \in [Context \cup {None} -> Seq(Id)]
    <3>1. ids' = ids \/ ids' = Pushed(t)
        BY <1>3 DEF BeginStep
    <3>2. list' \in [Context -> Context \cup {None}]
        BY <1>1, <1>2, <2>1
    <3> QED
        BY <3>1, <3>2, PushedTyped
  <2> DEFINE id == <<t, n[t] + 1>>
             Kept == DOMAIN records' = Task /\ \A s \in Task : DOMAIN records'[s] \subseteq Id
  <2>3. Kept
    <3>1. CASE records' = records
        BY <3>1
    <3>2. ASSUME NEW s \in Task,
                 records' = [records EXCEPT ![s] =
                     [i \in DOMAIN @ \cup {id} |-> IF i \in DOMAIN @ THEN @[i] ELSE {}]]
          PROVE  Kept
      <4> HIDE DEF id
      <4>1. DOMAIN records'[s] = DOMAIN records[s] \cup {id}
          BY <3>2
      <4>2. \A u \in Task : u # s => records'[u] = records[u]
          BY <3>2
      <4>3. id \in Id
          BY <1>1 DEF id
      <4> QED
          BY <3>2, <4>1, <4>2, <4>3
    <3>3. State(t) = None \/ finalized[State(t)] \/ State(t) \in Task
        BY <1>1 DEF Session
    <3> QED
        BY <1>3, <3>1, <3>2, <3>3, Zenon DEF BeginStep
  <2> QED
      BY <1>1, <1>2, <2>1, <2>2, <2>3 DEF given, callVars, sessionVars
<1>4. CASE BeginStream(t)
  <2>1. BeginsStep(t, State(t)) /\ records' = records
      BY <1>4 DEF BeginStream
  <2>2. ids' \in [Context \cup {None} -> Seq(Id)]
    <3>1. ids' = ids \/ ids' = Pushed(t)
        BY <1>4 DEF BeginStream
    <3>2. list' \in [Context -> Context \cup {None}]
        BY <1>1, <1>2, <2>1
    <3> QED
        BY <3>1, <3>2, PushedTyped
  <2> QED
      BY <1>1, <1>2, <2>1, <2>2 DEF given, callVars, sessionVars
<1>5. CASE Validate(t)
  <2>1. PICK s \in Task : \E id \in DOMAIN records[s] :
            records' = [records EXCEPT ![s][id] = @ \cup {<<t, n[t]>>}]
      BY <1>1, <1>5 DEF Validate, Session
  <2>2. DOMAIN records' = Task /\ \A u \in Task : DOMAIN records'[u] = DOMAIN records[u]
      BY <2>1
  <2>3. UNCHANGED <<given, callVars, open, n, hook, ids, list, sessionVars, steps>>
      BY <1>5 DEF Validate
  <2> QED
      BY <2>2, <2>3 DEF given, callVars, sessionVars
<1>6. ASSUME EndsStep(t)
      PROVE  /\ UNCHANGED <<given, callVars, n, list, sessionVars>>
             /\ open' \in [Task -> BOOLEAN] /\ hook' \in [Task -> Session]
             /\ ids' \in [Context \cup {None} -> Seq(Id)]
  <2>1. Pop(ids[List(t)]) \in Seq(Id)
      BY Pops DEF List
  <2> QED
      BY <1>1, <1>6, <2>1 DEF EndsStep
<1>7. CASE EndStep(t)
  <2>1. EndsStep(t)
      BY <1>7 DEF EndStep
  <2> DEFINE Kept == /\ DOMAIN steps' = Task /\ DOMAIN records' = Task
                     /\ \A s \in Task : DOMAIN records'[s] \subseteq Id
  <2>2. Kept
    <3>1. CASE steps' = steps /\ records' = records
        BY <3>1
    <3>2. ASSUME NEW s \in Task, NEW id \in Id, Emit(s, Step(id, records[s][id])),
                 records' = [records EXCEPT ![s] = [i \in DOMAIN @ \ {id} |-> @[i]]]
          PROVE  Kept
        BY <3>2, Emits DEF Session
    <3>3. <<t, n[t]>> \in Id
        BY DEF Id
    <3> QED
        BY <1>1, <1>7, <3>1, <3>2, <3>3 DEF EndStep, Session
  <2> QED
      BY <1>6, <2>1, <2>2 DEF given, callVars, sessionVars
<1>8. CASE EndStream(t)
  <2>1. EndsStep(t) /\ records' = records /\ Emit(hook[t], Step(<<t, n[t]>>, {}))
      BY <1>8 DEF EndStream
  <2>2. DOMAIN steps' = Task
      BY <1>1, <2>1, Emits
  <2> QED
      BY <1>6, <2>1, <2>2 DEF given, callVars, sessionVars
<1> QED
    BY <1>3, <1>4, <1>5, <1>7, <1>8

LEMMA ReturnTyped ==
    ASSUME TypeOK, NEW t \in Task, Leave(t) \/ \E packed \in BOOLEAN : Exit(t, packed)
    PROVE  TypeOK'
<1> USE DEF TypeOK
<1>1. /\ calls[thread[t]] \in Seq(Task) /\ fallback[thread[t]] \in Seq(Task)
      /\ prior[t] \in Session
    OBVIOUS
<1>2. Pop(calls[thread[t]]) \in Seq(Task) /\ Pop(fallback[thread[t]]) \in Seq(Task)
    BY <1>1, Pops
<1>3. Returns(t)
    BY DEF Leave, Exit
<1>4. /\ UNCHANGED <<given, home, context, list, prior, open, n, hook, ids>>
      /\ pc' \in [Task -> {"idle", "run", "over"}] /\ calls' \in [Thread -> Seq(Task)]
    BY <1>2, <1>3 DEF Returns
<1>5. CASE Leave(t)
    BY <1>4, <1>5 DEF Leave, sessionVars, given
<1>6. ASSUME NEW packed \in BOOLEAN, Exit(t, packed) PROVE TypeOK'
  <2>1. /\ finalized' \in [Task -> BOOLEAN] /\ ctx' \in [Context -> Session]
        /\ fallback' \in [Thread -> Seq(Task)] /\ steps' = steps
      BY <1>1, <1>2, <1>6 DEF Exit, Unstacked
  <2>2. /\ DOMAIN artifact' = Task
        /\ DOMAIN records' = Task /\ \A s \in Task : DOMAIN records'[s] \subseteq Id
    <3>1. DOMAIN NoRecords = {}
        BY DEF NoRecords
    <3> QED
        BY <1>6, <3>1 DEF Exit
  <2> QED
      BY <1>4, <2>1, <2>2 DEF given
<1> QED
    BY <1>5, <1>6

\* Every step is one of these.
LEMMA Steps ==
    ASSUME TypeOK, [Next]_vars
    PROVE  \/ CallStep
           \/ \E t \in Task : \/ BeginStep(t) \/ BeginStream(t) \/ Validate(t)
                              \/ EndStep(t) \/ EndStream(t)
                              \/ Leave(t) \/ \E packed \in BOOLEAN : Exit(t, packed)
           \/ UNCHANGED vars
BY CallSteps DEF Next

LEMMA CallStepTyped == TypeOK /\ CallStep => TypeOK'
<1> SUFFICES ASSUME TypeOK, CallStep PROVE TypeOK'
    OBVIOUS
<1>1. \A y \in Context : ctx[y] \in Session
    BY DEF TypeOK
<1>2. \A t \in Task : t \in Context
    BY DEF Context
<1> QED
    BY <1>1, <1>2, CallTyped DEF CallStep, Directly, InCopy

LEMMA TypedStep == TypeOK /\ [Next]_vars => TypeOK'
<1> SUFFICES ASSUME TypeOK, [Next]_vars PROVE TypeOK'
    OBVIOUS
<1>1. UNCHANGED vars => TypeOK'
    BY DEF TypeOK, vars, given, callVars, stepVars, sessionVars
<1> QED
    BY <1>1, CallStepTyped, StepTyped, ReturnTyped, Steps

-----------------------------------------------------------------------------
(* What the three kinds of steps leave as it is.                           *)

Hooks(t) == BeginStep(t) \/ BeginStream(t) \/ Validate(t) \/ EndStep(t) \/ EndStream(t)

LEMMA HookEffect ==
    ASSUME TypeOK, NEW t \in Task, Hooks(t)
    PROVE  /\ UNCHANGED <<kind, thread, pc, home, context, ctx, prior, calls>>
           /\ UNCHANGED <<finalized, fallback, artifact>>
           /\ \A u \in Task : u # t =>
                open'[u] = open[u] /\ n'[u] = n[u] /\ hook'[u] = hook[u]
           /\ Runs(t)
           /\ open[t] \/ pc[t] # "idle"
           /\ \/ list' = list
              \/ /\ list[context[t]] = None /\ pc[t] # "idle"
                 /\ list' = [list EXCEPT ![context[t]] = context[t]]
<1> DEFINE Effect ==
             /\ UNCHANGED <<kind, thread, pc, home, context, ctx, prior, calls>>
             /\ UNCHANGED <<finalized, fallback, artifact>>
             /\ \A u \in Task : u # t =>
                  open'[u] = open[u] /\ n'[u] = n[u] /\ hook'[u] = hook[u]
             /\ Runs(t)
             /\ open[t] \/ pc[t] # "idle"
             /\ \/ list' = list
                \/ /\ list[context[t]] = None /\ pc[t] # "idle"
                   /\ list' = [list EXCEPT ![context[t]] = context[t]]
<1>1. ASSUME NEW s, BeginsStep(t, s) PROVE Effect
    BY <1>1 DEF BeginsStep, TypeOK, List, given, callVars, sessionVars
<1>2. ASSUME EndsStep(t) PROVE Effect
    BY <1>2 DEF EndsStep, TypeOK, given, callVars, sessionVars
<1>3. ASSUME Validate(t) PROVE Effect
    BY <1>3 DEF Validate, given, callVars, sessionVars
<1> HIDE DEF Effect
<1>4. BeginsStep(t, State(t)) \/ EndsStep(t) \/ Validate(t)
    BY DEF Hooks, BeginStep, BeginStream, EndStep, EndStream
<1>5. Effect
  <2>1. CASE BeginsStep(t, State(t))
      BY <1>1, <2>1
  <2>2. CASE EndsStep(t)
      BY <1>2, <2>2
  <2> QED
      BY <1>3, <1>4, <2>1, <2>2
<1> QED
    BY <1>5 DEF Effect

LEMMA ReturnEffect ==
    ASSUME TypeOK, NEW t \in Task, Leave(t) \/ \E packed \in BOOLEAN : Exit(t, packed)
    PROVE  /\ pc[t] = "run" /\ Runs(t) /\ (kind[t] = "sync" => ~open[t])
           /\ pc' = [pc EXCEPT ![t] = "over"]
           /\ calls' = IF Plain(t) THEN [calls EXCEPT ![thread[t]] = Pop(@)] ELSE calls
           /\ UNCHANGED <<kind, thread, home, context, list, prior, open, n, hook, ids>>
           /\ UNCHANGED steps
           /\ \/ /\ home[t] # t
                 /\ UNCHANGED <<ctx, fallback, finalized, records, artifact>>
              \/ /\ home[t] = t
                 /\ ctx' = [ctx EXCEPT ![context[t]] = prior[t]]
                 /\ fallback' = [fallback EXCEPT ![thread[t]] = Pop(@)]
                 /\ finalized' = [finalized EXCEPT ![t] = TRUE]
                 /\ records' = records \/ records' = [records EXCEPT ![t] = NoRecords]
                 /\ artifact' = artifact \/ artifact' = [artifact EXCEPT ![t] = steps[t]]
<1>1. Returns(t)
    BY DEF Leave, Exit
<1>2. CASE Leave(t)
    BY <1>1, <1>2 DEF Leave, Returns, given, sessionVars
<1>3. ASSUME NEW packed \in BOOLEAN, Exit(t, packed)
      PROVE  /\ home[t] = t /\ UNCHANGED steps
             /\ ctx' = [ctx EXCEPT ![context[t]] = prior[t]]
             /\ fallback' = [fallback EXCEPT ![thread[t]] = Pop(@)]
             /\ finalized' = [finalized EXCEPT ![t] = TRUE]
             /\ records' = records \/ records' = [records EXCEPT ![t] = NoRecords]
             /\ artifact' = artifact \/ artifact' = [artifact EXCEPT ![t] = steps[t]]
    BY <1>3 DEF Exit, Unstacked
<1> QED
    BY <1>1, <1>2, <1>3 DEF Returns, given

-----------------------------------------------------------------------------
(* Where calls are, and what they have found.                              *)

ThreadOf(x) == IF x \in Thread THEN x ELSE thread[x]

\* A context belongs to the thread of the calls in it; what a call shares with
\* another is its thread's own context or that of a call made in a copy.
Sited == \A t \in Task :
    /\ t \notin Begun => context[t] = t /\ list[t] = None /\ ~open[t] /\ n[t] = 0
    /\ ThreadOf(context[t]) = thread[t]
    /\ context[t] \in Task => /\ context[context[t]] = context[t]
                              /\ t \in Begun => context[t] \in Begun
    /\ kind[t] = "async" => context[t] = t

\* Sessions are those of calls that have begun.
Known ==
    /\ ctx \in [Context -> Begun \cup {None}]
    /\ fallback \in [Thread -> Seq(Begun)]
    /\ home \in [Task -> Begun \cup {None}] /\ prior \in [Task -> Begun \cup {None}]
    /\ \A t \in Begun : home[t] # None
    /\ \A t \in Task : finalized[t] => pc[t] = "over"

LEMMA SitedStep == TypeOK /\ Sited /\ [Next]_vars => Sited'
<1> SUFFICES ASSUME TypeOK, Sited, [Next]_vars PROVE Sited'
    OBVIOUS
<1> USE GuardAssumption
<1>1. ASSUME NEW t \in Task, NEW x \in Context, Directly(t, x), Calling(t, x, ctx[x])
      PROVE  Sited'
  <2>1. /\ pc[t] = "idle" /\ pc' = [pc EXCEPT ![t] = "run"] /\ list' = list
        /\ context' = [context EXCEPT ![t] = x] /\ UNCHANGED <<kind, thread, open, n>>
      BY <1>1 DEF Calling, Directly
  <2> DEFINE Good == /\ ThreadOf(x) = thread[t]
                     /\ x \in Task => context[x] = x /\ x \in Begun /\ x # t
  <2>2. Good
    <3>1. CASE x = thread[t]
        BY <3>1 DEF ThreadOf, TypeOK
    <3>2. ASSUME NEW p \in Task \ {t}, thread[p] = thread[t], open[p], context[p] = x
          PROVE  Good
        BY <2>1, <3>2 DEF Sited, Begun
    <3> QED
        BY <1>1, <3>1, <3>2 DEF Directly
  <2>3. kind[t] # "async"
      BY <1>1 DEF Directly, Plain
  <2> QED
      BY <2>1, <2>2, <2>3 DEF Sited, Begun, ThreadOf, TypeOK
<1>2. ASSUME NEW t \in Task, NEW y \in Context, InCopy(t, y), Calling(t, t, ctx[y])
      PROVE  Sited'
  <2>1. /\ pc[t] = "idle" /\ pc' = [pc EXCEPT ![t] = "run"]
        /\ list' = [list EXCEPT ![t] = list[y]]
        /\ context' = [context EXCEPT ![t] = t] /\ UNCHANGED <<kind, thread, open, n>>
      BY <1>2 DEF Calling, InCopy
  <2> QED
      BY <2>1 DEF Sited, Begun, ThreadOf, TypeOK
<1>3. ASSUME NEW t \in Task, Hooks(t) PROVE Sited'
  <2>1. t \in Begun
      BY <1>3, HookEffect DEF Sited, Begun
  <2>2. /\ UNCHANGED <<kind, thread, pc, context>>
        /\ \A u \in Task : u # t => open'[u] = open[u] /\ n'[u] = n[u]
        /\ list' = list \/ list' = [list EXCEPT ![context[t]] = context[t]]
      BY <1>3, HookEffect
  <2> QED
      BY <2>1, <2>2 DEF Sited, Begun, ThreadOf, TypeOK
<1>4. ASSUME NEW t \in Task, Leave(t) \/ \E packed \in BOOLEAN : Exit(t, packed)
      PROVE  Sited'
  <2>1. /\ pc[t] = "run" /\ pc' = [pc EXCEPT ![t] = "over"]
        /\ UNCHANGED <<kind, thread, context, list, open, n>>
      BY <1>4, ReturnEffect
  <2> QED
      BY <2>1 DEF Sited, Begun, ThreadOf, TypeOK
<1>5. CASE UNCHANGED vars
    BY <1>5 DEF vars, given, callVars, stepVars, sessionVars, Sited, Begun, ThreadOf
<1> QED
    BY <1>1, <1>2, <1>3, <1>4, <1>5, Steps DEF CallStep, Hooks

LEMMA FoundBegun ==
    ASSUME Known, NEW value \in Begun \cup {None}, NEW h \in Thread
    PROVE  Found(value, h) \in Begun \cup {None}
<1>1. fallback[h] \in Seq(Begun)
    BY DEF Known
<1>2. Current(fallback[h]) \in Begun \cup {None}
    BY <1>1, Tops DEF Current
<1> QED
    BY <1>2 DEF Found

LEMMA Wider ==
    ASSUME NEW S, NEW T, S \subseteq T, NEW s \in Seq(S)
    PROVE  s \in Seq(T)
    OBVIOUS

LEMMA KnownStep == TypeOK /\ Known /\ [Next]_vars => Known'
<1> SUFFICES ASSUME TypeOK, Known, [Next]_vars PROVE Known'
    OBVIOUS
<1>1. ASSUME NEW t \in Task, NEW x \in Context, NEW y \in Context, Calling(t, x, ctx[y])
      PROVE  Known'
  <2> DEFINE s == Found(ctx[y], thread[t])
             F == fallback[thread[t]]
  <2>1. /\ pc[t] = "idle" /\ pc' = [pc EXCEPT ![t] = "run"]
        /\ prior' = [prior EXCEPT ![t] = ctx[y]] /\ UNCHANGED finalized
      BY <1>1 DEF Calling
  <2>2. t \in Begun' /\ Begun' = Begun \cup {t}
      BY <2>1 DEF Begun, TypeOK
  <2>3. ctx[y] \in Begun \cup {None} /\ thread[t] \in Thread /\ s \in Begun \cup {None}
    <3>1. ctx[y] \in Begun \cup {None} /\ thread[t] \in Thread
        BY DEF Known, TypeOK
    <3> QED
        BY <3>1, FoundBegun
  <2>4. /\ prior' \in [Task -> Begun' \cup {None}]
        /\ \A u \in Task : finalized'[u] => pc'[u] = "over"
      BY <2>1, <2>2, <2>3 DEF Known, TypeOK
  <2>5. ASSUME NEW u \in Session, u = s \/ u = t,
               home' = [home EXCEPT ![t] = u], u # None
        PROVE  /\ home' \in [Task -> Begun' \cup {None}]
               /\ \A v \in Begun' : home'[v] # None
      BY <2>2, <2>3, <2>5 DEF Known, Begun
  <2>6. ASSUME ctx' = [ctx EXCEPT ![x] = t] \/ ctx' = [ctx EXCEPT ![x] = ctx[y]]
        PROVE  ctx' \in [Context -> Begun' \cup {None}]
      BY <2>2, <2>3, <2>6 DEF Known
  <2>7. \A h \in Thread : fallback[h] \in Seq(Begun')
      BY <2>2, Wider DEF Known
  <2>8. CASE Joining(t, x, ctx[y])
    <3>1. /\ home' = [home EXCEPT ![t] = s] /\ s # None /\ fallback' = fallback
          /\ ctx' = [ctx EXCEPT ![x] = ctx[y]]
        BY <2>8 DEF Joining
    <3>2. s \in Session
        BY <2>3 DEF Begun, Session
    <3>3. fallback' \in [Thread -> Seq(Begun')]
        BY <2>7, <3>1 DEF Known
    <3> QED
        BY <2>2, <2>4, <2>5, <2>6, <3>1, <3>2, <3>3 DEF Known
  <2>9. CASE Opening(t, x, ctx[y])
    <3>1. /\ home' = [home EXCEPT ![t] = t] /\ ctx' = [ctx EXCEPT ![x] = t]
          /\ fallback' = [fallback EXCEPT ![thread[t]] = Append(F, t)]
        BY <2>9 DEF Opening
    <3>2. t \in Session /\ t # None
        BY GuardAssumption DEF Session
    <3>3. Append(F, t) \in Seq(Begun')
        BY <2>2, <2>3, <2>7, Pushes
    <3>4. fallback' \in [Thread -> Seq(Begun')]
        BY <2>7, <3>1, <3>3 DEF Known
    <3> QED
        BY <2>2, <2>4, <2>5, <2>6, <3>1, <3>2, <3>4 DEF Known
  <2> QED
      BY <1>1, <2>8, <2>9 DEF Calling
<1>2. ASSUME NEW t \in Task, Hooks(t) PROVE Known'
  <2>1. UNCHANGED <<pc, ctx, fallback, home, prior, finalized>>
      BY <1>2, HookEffect
  <2> QED
      BY <2>1 DEF Known, Begun
<1>3. ASSUME NEW t \in Task, Leave(t) \/ \E packed \in BOOLEAN : Exit(t, packed)
      PROVE  Known'
  <2>1. /\ pc[t] = "run" /\ pc' = [pc EXCEPT ![t] = "over"] /\ UNCHANGED <<home, prior>>
      BY <1>3, ReturnEffect
  <2>2. Begun' = Begun
      BY <2>1 DEF Begun, TypeOK
  <2>3. CASE UNCHANGED <<ctx, fallback, finalized>>
      BY <2>1, <2>2, <2>3 DEF Known, TypeOK
  <2>4. CASE /\ ctx' = [ctx EXCEPT ![context[t]] = prior[t]]
             /\ fallback' = [fallback EXCEPT ![thread[t]] = Pop(@)]
             /\ finalized' = [finalized EXCEPT ![t] = TRUE]
    <3>1. \A u \in Task : finalized'[u] => pc'[u] = "over"
        BY <2>1, <2>4 DEF Known, TypeOK
    <3>2. ctx' \in [Context -> Begun \cup {None}]
        BY <2>4 DEF Known
    <3>3. Pop(fallback[thread[t]]) \in Seq(Begun)
        BY Pops DEF Known, TypeOK
    <3>4. fallback' \in [Thread -> Seq(Begun)]
        BY <2>4, <3>3 DEF Known
    <3> QED
        BY <2>1, <2>2, <3>1, <3>2, <3>4 DEF Known
  <2> QED
      BY <1>3, <2>3, <2>4, ReturnEffect
<1>4. CASE UNCHANGED vars
    BY <1>4 DEF vars, given, callVars, stepVars, sessionVars, Known, Begun
<1>5. \A t \in Task : t \in Context
    BY DEF Context
<1> QED
    BY <1>1, <1>2, <1>3, <1>4, <1>5, Steps DEF CallStep, Hooks

-----------------------------------------------------------------------------
(* The plain calls in progress on a thread, each inside the one before it. *)

StackedAt(h) ==
    /\ \A i \in 1 .. Len(calls[h]) :
          /\ thread[calls[h][i]] = h /\ kind[calls[h][i]] # "async"
          /\ pc[calls[h][i]] = "run"
    /\ \A i, j \in 1 .. Len(calls[h]) : calls[h][i] = calls[h][j] => i = j
    /\ \A t \in Task : thread[t] = h /\ kind[t] # "async" /\ pc[t] = "run"
          => \E i \in 1 .. Len(calls[h]) : calls[h][i] = t

Stacked == \A h \in Thread : StackedAt(h)

LEMMA TopRuns ==
    ASSUME TypeOK, NEW t \in Task, kind[t] # "async", pc[t] = "run", Runs(t)
    PROVE  /\ calls[thread[t]] # <<>> /\ Len(calls[thread[t]]) \in Nat \ {0}
           /\ calls[thread[t]][Len(calls[thread[t]])] = t
           /\ Pop(calls[thread[t]]) \in Seq(Task)
           /\ Len(Pop(calls[thread[t]])) = Len(calls[thread[t]]) - 1
           /\ \A i \in 1 .. Len(calls[thread[t]]) - 1 :
                 Pop(calls[thread[t]])[i] = calls[thread[t]][i]
<1> DEFINE c == calls[thread[t]]
<1>1. c \in Seq(Task) /\ t # None
    BY GuardAssumption DEF TypeOK
<1>2. Current(c) = t
    BY DEF Runs, Plain
<1>3. c # <<>>
    BY <1>1, <1>2 DEF Current
<1> HIDE DEF c
<1>4. Len(c) \in Nat \ {0} /\ c[Len(c)] = t
    BY <1>1, <1>2, <1>3, Tops
<1>5. /\ Pop(c) \in Seq(Task) /\ Len(Pop(c)) = Len(c) - 1
      /\ \A i \in 1 .. Len(c) - 1 : Pop(c)[i] = c[i]
    BY <1>1, <1>3, Tops
<1> QED
    BY <1>3, <1>4, <1>5 DEF c

LEMMA OthersRun ==
    ASSUME TypeOK, NEW t \in Task, Runs(t), ~(kind[t] # "async" /\ pc[t] = "run"),
           calls[thread[t]] # <<>>
    PROVE  /\ kind[t] # "async"
           /\ context[calls[thread[t]][Len(calls[thread[t]])]] = context[t]
<1> DEFINE c == calls[thread[t]]
<1>1. c \in Seq(Task) /\ c # <<>>
    BY DEF TypeOK
<1> HIDE DEF c
<1>2. Current(c) = c[Len(c)] /\ Current(c) \in Task
    BY <1>1, Tops
<1>3. Current(c) # None
    BY <1>2, GuardAssumption
<1> QED
    BY <1>2, <1>3 DEF Runs, Plain, c

LEMMA StackedStep == TypeOK /\ Stacked /\ [Next]_vars => Stacked'
<1> SUFFICES ASSUME TypeOK, Stacked, [Next]_vars, NEW h \in Thread PROVE StackedAt(h)'
    BY DEF Stacked
<1> DEFINE c == calls[h]
<1>0. StackedAt(h) /\ c \in Seq(Task) /\ Len(c) \in Nat
    BY DEF Stacked, TypeOK
<1>1. ASSUME NEW t \in Task, NEW x, NEW value, Calling(t, x, value)
      PROVE  StackedAt(h)'
  <2>1. pc[t] = "idle" /\ pc' = [pc EXCEPT ![t] = "run"] /\ UNCHANGED <<kind, thread>>
      BY <1>1 DEF Calling
  <2>2. CASE thread[t] = h /\ kind[t] # "async"
    <3>1. calls'[h] = Append(c, t)
        BY <1>1, <2>2 DEF Calling, Plain, TypeOK
    <3>2. /\ Len(calls'[h]) = Len(c) + 1 /\ calls'[h][Len(c) + 1] = t
          /\ \A i \in 1 .. Len(c) : calls'[h][i] = c[i]
        BY <1>0, <3>1, Pushes
    <3> DEFINE k == Len(c)
    <3>3. \A i \in 1 .. k : c[i] # t /\ c[i] \in Task
        BY <1>0, <2>1 DEF StackedAt
    <3>4. \A i \in 1 .. k + 1 : i = k + 1 \/ i \in 1 .. k
        BY <1>0
    <3>5. k + 1 \in 1 .. k + 1 /\ \A i \in 1 .. k : i \in 1 .. k + 1
        BY <1>0
    <3> HIDE DEF k
    <3>6. /\ Len(calls'[h]) = k + 1 /\ calls'[h][k + 1] = t
          /\ \A i \in 1 .. k : calls'[h][i] = c[i]
        BY <3>2 DEF k
    <3>7. /\ \A i \in 1 .. k : /\ thread[c[i]] = h /\ kind[c[i]] # "async"
                               /\ pc[c[i]] = "run"
          /\ \A i, j \in 1 .. k : c[i] = c[j] => i = j
          /\ \A u \in Task : thread[u] = h /\ kind[u] # "async" /\ pc[u] = "run"
                => \E i \in 1 .. k : c[i] = u
        BY <1>0 DEF StackedAt, k
    <3>8. pc'[t] = "run" /\ \A u \in Task : u # t => pc'[u] = pc[u]
        BY <2>1 DEF TypeOK
    <3> HIDE DEF c
    <3>9. \A i \in 1 .. k + 1 : /\ thread[calls'[h][i]] = h /\ kind[calls'[h][i]] # "async"
                                /\ pc'[calls'[h][i]] = "run"
        BY <2>2, <3>3, <3>4, <3>6, <3>7, <3>8
    <3>10. \A i, j \in 1 .. k + 1 : calls'[h][i] = calls'[h][j] => i = j
        BY <3>3, <3>4, <3>6, <3>7
    <3>11. \A u \in Task : thread[u] = h /\ kind[u] # "async" /\ pc'[u] = "run"
                => \E i \in 1 .. k + 1 : calls'[h][i] = u
        BY <3>5, <3>6, <3>7, <3>8
    <3> QED
        BY <2>1, <3>6, <3>9, <3>10, <3>11 DEF StackedAt
  <2>3. CASE ~(thread[t] = h /\ kind[t] # "async")
    <3>1. calls'[h] = c
        BY <1>1, <2>3 DEF Calling, Plain, TypeOK
    <3>2. \A i \in 1 .. Len(c) : c[i] # t /\ c[i] \in Task
        BY <1>0, <2>1 DEF StackedAt
    <3>3. pc'[t] = "run" /\ \A u \in Task : u # t => pc'[u] = pc[u]
        BY <2>1 DEF TypeOK
    <3> QED
        BY <1>0, <2>1, <2>3, <3>1, <3>2, <3>3 DEF StackedAt
  <2> QED
      BY <2>2, <2>3
<1>2. ASSUME NEW t \in Task, Hooks(t) PROVE StackedAt(h)'
    BY <1>0, <1>2, HookEffect DEF StackedAt
<1>3. ASSUME NEW t \in Task, Leave(t) \/ \E packed \in BOOLEAN : Exit(t, packed)
      PROVE  StackedAt(h)'
  <2>1. /\ pc[t] = "run" /\ pc' = [pc EXCEPT ![t] = "over"] /\ Runs(t)
        /\ UNCHANGED <<kind, thread>>
        /\ calls' = IF Plain(t) THEN [calls EXCEPT ![thread[t]] = Pop(@)] ELSE calls
      BY <1>3, ReturnEffect
  <2>2. CASE thread[t] = h /\ kind[t] # "async"
    <3> DEFINE k == Len(c)
    <3>1. calls'[h] = Pop(c)
        BY <2>1, <2>2 DEF Plain, TypeOK
    <3>2. /\ k \in Nat \ {0} /\ c[k] = t /\ Len(calls'[h]) = k - 1
          /\ \A i \in 1 .. k - 1 : calls'[h][i] = c[i]
        BY <2>1, <2>2, <3>1, TopRuns
    <3>3. \A i \in 1 .. k - 1 : i \in 1 .. k /\ i # k
        BY <3>2
    <3>4. k \in 1 .. k /\ \A i \in 1 .. k : i = k \/ i \in 1 .. k - 1
        BY <3>2
    <3> HIDE DEF k
    <3>5. /\ \A i \in 1 .. k : /\ thread[c[i]] = h /\ kind[c[i]] # "async"
                               /\ pc[c[i]] = "run" /\ c[i] \in Task
          /\ \A i, j \in 1 .. k : c[i] = c[j] => i = j
          /\ \A u \in Task : thread[u] = h /\ kind[u] # "async" /\ pc[u] = "run"
                => \E i \in 1 .. k : c[i] = u
        BY <1>0 DEF StackedAt, k
    <3>6. pc'[t] = "over" /\ \A u \in Task : u # t => pc'[u] = pc[u]
        BY <2>1 DEF TypeOK
    <3> HIDE DEF c
    <3>7. \A i \in 1 .. k - 1 : c[i] # t
        BY <3>2, <3>3, <3>4, <3>5
    <3> QED
        BY <2>1, <3>2, <3>3, <3>4, <3>5, <3>6, <3>7 DEF StackedAt
  <2>3. CASE ~(thread[t] = h /\ kind[t] # "async")
    <3>1. calls'[h] = c
        BY <2>1, <2>3 DEF Plain, TypeOK
    <3>2. \A i \in 1 .. Len(c) : c[i] # t /\ c[i] \in Task
        BY <1>0, <2>3 DEF StackedAt
    <3>3. pc'[t] = "over" /\ \A u \in Task : u # t => pc'[u] = pc[u]
        BY <2>1 DEF TypeOK
    <3> QED
        BY <1>0, <2>1, <2>3, <3>1, <3>2, <3>3 DEF StackedAt
  <2> QED
      BY <2>2, <2>3
<1>4. CASE UNCHANGED vars
    BY <1>0, <1>4 DEF vars, given, callVars, StackedAt
<1> QED
    BY <1>1, <1>2, <1>3, <1>4, Steps DEF CallStep, Hooks

-----------------------------------------------------------------------------
(* A call that begins.                                                     *)

\* What is found with this value in the context and this stack.
Finds(value, stack) == IF value # None THEN value ELSE Current(stack)

\* t is called in context x, which has the value of context y.
Entering(t, x, y) ==
    \/ Directly(t, x) /\ y = x
    \/ InCopy(t, y) /\ x = t

LEMMA Entries ==
    ASSUME TypeOK, CallStep
    PROVE  \E t \in Task, x \in Context, y \in Context :
              Entering(t, x, y) /\ Calling(t, x, ctx[y])
<1>1. \A t \in Task : t \in Context
    BY DEF Context
<1> QED
    BY <1>1 DEF CallStep, Entering

LEMMA EntrySite ==
    ASSUME TypeOK, Sited, NEW t \in Task, NEW x \in Context, NEW y \in Context,
           Entering(t, x, y), Calling(t, x, ctx[y])
    PROVE  /\ pc[t] = "idle" /\ pc'[t] = "run" /\ \A u \in Task : u # t => pc'[u] = pc[u]
           /\ context'[t] = x /\ \A u \in Task : u # t => context'[u] = context[u]
           /\ prior'[t] = ctx[y] /\ \A u \in Task : u # t => prior'[u] = prior[u]
           /\ ThreadOf(x) = thread[t]
           /\ \A z \in Context : ThreadOf(z) # thread[t] => ctx'[z] = ctx[z]
           /\ \A z \in Context : z # x => ctx'[z] = ctx[z]
           /\ \A h \in Thread : h # thread[t] => fallback'[h] = fallback[h]
           /\ \A u \in Task : u # t => home'[u] = home[u]
           /\ \A h \in Thread : h # thread[t] \/ kind[t] = "async" => calls'[h] = calls[h]
           /\ kind[t] # "async" => calls'[thread[t]] = Append(calls[thread[t]], t)
           /\ calls[thread[t]] # <<>> => Directly(t, x)
           /\ x = t \/ list' = list
           /\ \A z \in Context : z # t => list'[z] = list[z]
<1>1. /\ pc[t] = "idle" /\ pc' = [pc EXCEPT ![t] = "run"]
      /\ context' = [context EXCEPT ![t] = x] /\ prior' = [prior EXCEPT ![t] = ctx[y]]
      /\ calls' = IF kind[t] # "async" THEN [calls EXCEPT ![thread[t]] = Append(@, t)] ELSE calls
    BY DEF Calling, Plain
<1>2. /\ \E v : ctx' = [ctx EXCEPT ![x] = v]
      /\ \E v : home' = [home EXCEPT ![t] = v]
      /\ fallback' = fallback \/ fallback' = [fallback EXCEPT ![thread[t]] = Append(@, t)]
    BY DEF Calling, Joining, Opening
<1>3. ThreadOf(x) = thread[t]
  <2>1. CASE Directly(t, x)
    <3>1. x = thread[t] \/ \E p \in Task : thread[p] = thread[t] /\ context[p] = x
        BY <2>1 DEF Directly
    <3> QED
        BY <3>1 DEF ThreadOf, Sited, TypeOK
  <2>2. CASE x = t
      BY <2>2, GuardAssumption DEF ThreadOf
  <2> QED
      BY <2>1, <2>2 DEF Entering
<1>4. /\ calls[thread[t]] # <<>> => Directly(t, x)
      /\ x = t \/ list' = list
      /\ \A z \in Context : z # t => list'[z] = list[z]
    BY DEF Entering, InCopy, Directly, TypeOK
<1>5. /\ \A z \in Context : ThreadOf(z) # thread[t] => ctx'[z] = ctx[z]
      /\ \A z \in Context : z # x => ctx'[z] = ctx[z]
    BY <1>2, <1>3 DEF TypeOK
<1>6. /\ \A h \in Thread : h # thread[t] => fallback'[h] = fallback[h]
      /\ \A u \in Task : u # t => home'[u] = home[u]
    BY <1>2 DEF TypeOK
<1>7. /\ \A h \in Thread : h # thread[t] \/ kind[t] = "async" => calls'[h] = calls[h]
      /\ kind[t] # "async" => calls'[thread[t]] = Append(calls[thread[t]], t)
    BY <1>1 DEF TypeOK
<1>8. /\ pc[t] = "idle" /\ pc'[t] = "run" /\ \A u \in Task : u # t => pc'[u] = pc[u]
      /\ context'[t] = x /\ \A u \in Task : u # t => context'[u] = context[u]
      /\ prior'[t] = ctx[y] /\ \A u \in Task : u # t => prior'[u] = prior[u]
    BY <1>1 DEF TypeOK
<1> QED
    BY <1>3, <1>4, <1>5, <1>6, <1>7, <1>8

\* The calls on one stack run in one context and belong to one session, which
\* the context or the thread's stack of sessions names; only the outermost of
\* them may have opened it.
NestedAt(h) ==
    /\ \A i \in 1 .. Len(calls[h]) :
          /\ context[calls[h][i]] = context[calls[h][1]]
          /\ home[calls[h][i]] = home[calls[h][1]]
          /\ home[calls[h][i]] = calls[h][i] => i = 1
    /\ calls[h] # <<>> => Found(ctx[context[calls[h][1]]], h) = home[calls[h][1]]

Nested == \A h \in Thread : NestedAt(h)

\* A call inside another joins its session and shares its context.
LEMMA Inside ==
    ASSUME TypeOK, Stacked, Known, Nested, NEW t \in Task, NEW x \in Context,
           Directly(t, x), Calling(t, x, ctx[x]), calls[thread[t]] # <<>>
    PROVE  /\ x = context[calls[thread[t]][1]]
           /\ home'[t] = home[calls[thread[t]][1]]
           /\ ctx' = ctx /\ fallback' = fallback
           /\ Emit(home[calls[thread[t]][1]], Start(t))
<1> DEFINE h == thread[t]
           c == calls[h]
<1>1. h \in Thread /\ c \in Seq(Task) /\ c # <<>> /\ Len(c) \in Nat \ {0}
  <2>1. h \in Thread /\ c \in Seq(Task) /\ c # <<>>
      BY DEF TypeOK
  <2> QED
      BY <2>1, Tops
<1>2. 1 \in 1 .. Len(c) /\ Len(c) \in 1 .. Len(c)
    BY <1>1
<1>3. c[1] \in Begun /\ context[c[Len(c)]] = context[c[1]]
    BY <1>1, <1>2 DEF Stacked, StackedAt, Nested, NestedAt, Begun
<1>4. x = context[c[1]]
  <2>1. PICK p \in Task : thread[p] = h /\ open[p] /\ Runs(p) /\ context[p] = x
      BY DEF Directly
  <2>2. context[c[Len(c)]] = context[p]
    <3>1. CASE kind[p] # "async" /\ pc[p] = "run"
        BY <2>1, <3>1, TopRuns
    <3>2. CASE ~(kind[p] # "async" /\ pc[p] = "run")
        BY <2>1, <3>2, OthersRun
    <3> QED
        BY <3>1, <3>2
  <2> QED
      BY <1>3, <2>1, <2>2
<1>5. Found(ctx[x], h) = home[c[1]] /\ home[c[1]] # None
    BY <1>1, <1>3, <1>4 DEF Nested, NestedAt, Known
<1>6. Joining(t, x, ctx[x])
    BY <1>5 DEF Calling, Opening, Directly
<1>7. ctx' = ctx
    BY <1>6 DEF Joining, TypeOK
<1>8. home'[t] = home[c[1]] /\ fallback' = fallback /\ Emit(home[c[1]], Start(t))
    BY <1>5, <1>6 DEF Joining, TypeOK
<1> QED
    BY <1>4, <1>7, <1>8

\* What a call finds on its thread's stack when it is the first one there.
LEMMA Outermost ==
    ASSUME TypeOK, Sited, Known, NEW t \in Task, NEW x \in Context, NEW y \in Context,
           Entering(t, x, y), Calling(t, x, ctx[y])
    PROVE  Finds(ctx'[x], fallback'[thread[t]]) = home'[t]
<1>1. CASE Joining(t, x, ctx[y])
    BY <1>1 DEF Joining, Found, Finds, TypeOK
<1>2. CASE Opening(t, x, ctx[y])
  <2>1. ctx'[x] = t /\ home'[t] = t
      BY <1>2 DEF Opening, TypeOK
  <2>2. t # None
      BY GuardAssumption
  <2> QED
      BY <2>1, <2>2 DEF Finds
<1> QED
    BY <1>1, <1>2 DEF Calling

LEMMA Outside ==
    ASSUME TypeOK, Sited, Stacked, Nested, NEW h \in Thread, NEW g \in Thread, g # h,
           calls'[h] = calls[h], fallback'[h] = fallback[h],
           \A u \in Begun : context'[u] = context[u] /\ home'[u] = home[u],
           \A z \in Context : ThreadOf(z) # g => ctx'[z] = ctx[z]
    PROVE  NestedAt(h)'
<1> DEFINE c == calls[h]
<1>1. c \in Seq(Task) /\ Len(c) \in Nat
    BY DEF TypeOK
<1>2. \A i \in 1 .. Len(c) : c[i] \in Begun /\ thread[c[i]] = h /\ c[i] \in Task
    BY <1>1 DEF Stacked, StackedAt, Begun
<1>3. NestedAt(h)
    BY DEF Nested
<1>4. CASE c = <<>>
    BY <1>4 DEF NestedAt
<1>5. CASE c # <<>>
  <2>1. 1 \in 1 .. Len(c)
      BY <1>1, <1>5
  <2>2. ThreadOf(context[c[1]]) = h /\ context[c[1]] \in Context
      BY <1>2, <2>1 DEF Sited, TypeOK
  <2>3. ctx'[context[c[1]]] = ctx[context[c[1]]]
      BY <2>2
  <2>4. \A i \in 1 .. Len(c) : context'[c[i]] = context[c[i]] /\ home'[c[i]] = home[c[i]]
      BY <1>2
  <2> QED
      BY <1>3, <1>5, <2>1, <2>3, <2>4 DEF NestedAt, Found
<1> QED
    BY <1>4, <1>5

LEMMA NestedStep == TypeOK /\ Sited /\ Known /\ Stacked /\ Nested /\ [Next]_vars => Nested'
<1> SUFFICES ASSUME TypeOK, Sited, Known, Stacked, Nested, [Next]_vars, NEW h \in Thread
             PROVE  NestedAt(h)'
    BY DEF Nested
<1> DEFINE c == calls[h]
<1>0. NestedAt(h) /\ c \in Seq(Task) /\ Len(c) \in Nat
    BY DEF Nested, TypeOK
<1>A. \A i \in 1 .. Len(c) : /\ c[i] \in Begun /\ thread[c[i]] = h /\ c[i] \in Task
                             /\ kind[c[i]] # "async"
    BY <1>0 DEF Stacked, StackedAt, Begun
<1>1. ASSUME NEW t \in Task, NEW x \in Context, NEW y \in Context,
             Entering(t, x, y), Calling(t, x, ctx[y])
      PROVE  NestedAt(h)'
  <2>0. t \notin Begun
      BY <1>1, EntrySite DEF Begun
  <2>1. CASE h # thread[t]
    <3>1. /\ calls'[h] = calls[h] /\ fallback'[h] = fallback[h]
          /\ \A u \in Begun : context'[u] = context[u] /\ home'[u] = home[u]
          /\ \A z \in Context : ThreadOf(z) # thread[t] => ctx'[z] = ctx[z]
        BY <1>1, <2>0, <2>1, EntrySite DEF Begun
    <3> QED
        BY <2>1, <3>1, Outside DEF TypeOK
  <2>2. CASE h = thread[t] /\ c = <<>>
    <3>1. CASE kind[t] = "async"
        BY <1>1, <2>2, <3>1, EntrySite DEF NestedAt
    <3>2. CASE kind[t] # "async"
      <4>1. calls'[h] = <<t>>
          BY <1>1, <2>2, <3>2, EntrySite
      <4>2. context'[t] = x /\ Finds(ctx'[x], fallback'[h]) = home'[t]
          BY <1>1, <2>2, EntrySite, Outermost
      <4>3. Len(calls'[h]) = 1 /\ calls'[h][1] = t /\ \A i \in 1 .. 1 : i = 1
          BY <4>1
      <4> QED
          BY <4>1, <4>2, <4>3 DEF NestedAt, Found, Finds
    <3> QED
        BY <3>1, <3>2
  <2>3. CASE h = thread[t] /\ c # <<>>
    <3>1. Directly(t, x) /\ kind[t] # "async" /\ calls'[h] = Append(c, t)
        BY <1>1, <2>3, EntrySite DEF Directly, Plain
    <3> DEFINE k == Len(c)
               d == calls'[h]
    <3>2. k \in Nat \ {0}
        BY <1>0, <2>3
    <3>3. Len(d) = k + 1 /\ d[k + 1] = t /\ \A i \in 1 .. k : d[i] = c[i]
        BY <1>0, <3>1, Pushes
    <3>4. x = y
        BY <1>1, <2>3, <3>1 DEF Entering, InCopy
    <3>5. /\ context'[t] = context[c[1]] /\ home'[t] = home[c[1]]
          /\ ctx' = ctx /\ fallback' = fallback
        BY <1>1, <2>3, <3>1, <3>4, EntrySite, Inside
    <3>6. \A i \in 1 .. k : context'[c[i]] = context[c[i]] /\ home'[c[i]] = home[c[i]]
        BY <1>1, <1>A, <2>0, EntrySite DEF Begun
    <3>7. 1 \in 1 .. k /\ \A i \in 1 .. k + 1 : i = k + 1 \/ i \in 1 .. k
        BY <3>2
    <3>8. home[c[1]] \in Begun
        BY <1>A, <3>7 DEF Known
    <3>9. /\ \A i \in 1 .. k : /\ context[c[i]] = context[c[1]] /\ home[c[i]] = home[c[1]]
                               /\ home[c[i]] = c[i] => i = 1
          /\ Found(ctx[context[c[1]]], h) = home[c[1]]
        BY <1>0, <2>3 DEF NestedAt
    <3>10. Finds(ctx'[context'[d[1]]], fallback'[h]) = home'[d[1]]
        BY <3>3, <3>5, <3>6, <3>7, <3>9 DEF Found, Finds
    <3> HIDE DEF k, c
    <3>11. \A i \in 1 .. k + 1 : /\ context'[d[i]] = context'[d[1]]
                                 /\ home'[d[i]] = home'[d[1]]
                                 /\ home'[d[i]] = d[i] => i = 1
        BY <2>0, <3>3, <3>5, <3>6, <3>7, <3>8, <3>9
    <3> QED
        BY <3>3, <3>10, <3>11 DEF NestedAt, Found, Finds
  <2> QED
      BY <2>1, <2>2, <2>3
<1>2. ASSUME NEW t \in Task, Hooks(t) PROVE NestedAt(h)'
  <2>1. UNCHANGED <<calls, context, home, ctx, fallback>>
      BY <1>2, HookEffect
  <2> QED
      BY <1>0, <2>1 DEF NestedAt, Found
<1>3. ASSUME NEW t \in Task, Leave(t) \/ \E packed \in BOOLEAN : Exit(t, packed)
      PROVE  NestedAt(h)'
  <2>1. /\ pc[t] = "run" /\ Runs(t) /\ UNCHANGED <<context, home>>
        /\ calls' = IF kind[t] # "async" THEN [calls EXCEPT ![thread[t]] = Pop(@)] ELSE calls
        /\ \/ home[t] # t /\ UNCHANGED <<ctx, fallback>>
           \/ /\ home[t] = t
              /\ ctx' = [ctx EXCEPT ![context[t]] = prior[t]]
              /\ fallback' = [fallback EXCEPT ![thread[t]] = Pop(@)]
      BY <1>3, ReturnEffect DEF Plain
  <2>2. CASE h # thread[t]
    <3>1. calls'[h] = calls[h] /\ fallback'[h] = fallback[h]
        BY <2>1, <2>2 DEF TypeOK
    <3>2. ThreadOf(context[t]) = thread[t]
        BY DEF Sited
    <3>3. \A z \in Context : ThreadOf(z) # thread[t] => ctx'[z] = ctx[z]
        BY <2>1, <3>2 DEF TypeOK
    <3> QED
        BY <2>1, <2>2, <3>1, <3>3, Outside DEF TypeOK
  <2>3. CASE h = thread[t] /\ kind[t] = "async"
    <3>1. c = <<>>
        BY <2>1, <2>3, OthersRun
    <3> QED
        BY <2>1, <2>3, <3>1 DEF NestedAt
  <2>4. CASE h = thread[t] /\ kind[t] # "async"
    <3> DEFINE k == Len(c)
               d == calls'[h]
    <3>1. d = Pop(c)
        BY <2>1, <2>4 DEF TypeOK
    <3>2. /\ k \in Nat \ {0} /\ c[k] = t /\ d \in Seq(Task) /\ Len(d) = k - 1
          /\ \A i \in 1 .. k - 1 : d[i] = c[i]
        BY <2>1, <2>4, <3>1, TopRuns
    <3>3. CASE k = 1
      <4>1. d = <<>>
          BY <3>2, <3>3
      <4>2. Len(d) = 0
          BY <4>1
      <4> QED
          BY <4>1, <4>2 DEF NestedAt
    <3>4. CASE k # 1
      <4>0. k \in Nat \ {0}
          BY <3>2
      <4> HIDE DEF k
      <4>1. 1 \in 1 .. k - 1 /\ k \in 1 .. k /\ \A i \in 1 .. k - 1 : i \in 1 .. k
          BY <3>4, <4>0
      <4> USE DEF k
      <4>2. home[t] # t
          BY <1>0, <3>2, <3>4, <4>1 DEF NestedAt
      <4>3. UNCHANGED <<ctx, fallback>>
          BY <2>1, <4>2
      <4>4. c # <<>>
          BY <3>2
      <4> QED
          BY <1>0, <2>1, <3>2, <4>1, <4>3, <4>4 DEF NestedAt, Found
    <3> QED
        BY <3>3, <3>4
  <2> QED
      BY <2>2, <2>3, <2>4
<1>4. CASE UNCHANGED vars
    BY <1>0, <1>4 DEF vars, given, callVars, sessionVars, NestedAt, Found
<1> QED
    BY <1>1, <1>2, <1>3, <1>4, Steps, Entries DEF Hooks

-----------------------------------------------------------------------------
(* Lists of iterations.                                                    *)

\* Once a call has a list of iterations it keeps it.
LEMMA ListStays ==
    ASSUME TypeOK, Sited, [Next]_vars
    PROVE  /\ \A u \in Begun : /\ context'[u] = context[u]
                               /\ list[context[u]] # None =>
                                     list'[context[u]] = list[context[u]]
           /\ UNCHANGED <<kind, thread>>
<1>1. ASSUME NEW t \in Task, NEW x \in Context, NEW y \in Context,
             Entering(t, x, y), Calling(t, x, ctx[y])
      PROVE  /\ \A u \in Begun : /\ context'[u] = context[u]
                                 /\ list[context[u]] # None =>
                                       list'[context[u]] = list[context[u]]
             /\ UNCHANGED <<kind, thread>>
  <2>1. t \notin Begun /\ \A u \in Begun : context'[u] = context[u]
      BY <1>1, EntrySite DEF Begun
  <2>2. list[t] = None
      BY <2>1 DEF Sited
  <2>3. \A z \in Context : z # t => list'[z] = list[z]
      BY <1>1, EntrySite
  <2>4. UNCHANGED <<kind, thread>>
      BY <1>1 DEF Calling
  <2> QED
      BY <2>1, <2>2, <2>3, <2>4 DEF TypeOK, Begun
<1>2. ASSUME NEW t \in Task, Hooks(t)
      PROVE  /\ \A u \in Begun : /\ context'[u] = context[u]
                                 /\ list[context[u]] # None =>
                                       list'[context[u]] = list[context[u]]
             /\ UNCHANGED <<kind, thread>>
  <2>1. /\ UNCHANGED <<kind, thread, context>>
        /\ list' = list \/ /\ list[context[t]] = None
                           /\ list' = [list EXCEPT ![context[t]] = context[t]]
      BY <1>2, HookEffect
  <2>2. \A z \in Context : list[z] # None => list'[z] = list[z]
      BY <2>1 DEF TypeOK
  <2>3. \A u \in Task : context[u] \in Context
      BY DEF TypeOK
  <2> QED
      BY <2>1, <2>2, <2>3 DEF Begun
<1>3. ASSUME NEW t \in Task, Leave(t) \/ \E packed \in BOOLEAN : Exit(t, packed)
      PROVE  UNCHANGED <<context, list, kind, thread>>
    BY <1>3, ReturnEffect
<1>4. CASE UNCHANGED vars
    BY <1>4 DEF vars, given, callVars
<1> QED
    BY <1>1, <1>2, <1>3, <1>4, Steps, Entries DEF Hooks

LEMMA StaysIsolated ==
    ASSUME TypeOK, Sited, [Next]_vars, Isolated'
    PROVE  Isolated
<1> SUFFICES ASSUME NEW t \in Task, NEW u \in Task, t # u,
                    list[context[t]] = list[context[u]], list[context[t]] # None
             PROVE  /\ thread[t] = thread[u] /\ "stream" \notin {kind[t], kind[u]}
                    /\ kind[t] # "async" \/ kind[u] # "async"
    BY DEF Isolated, List, Plain
<1>1. t \in Begun /\ u \in Begun
    BY DEF Sited
<1>2. /\ list'[context'[t]] = list[context[t]] /\ list'[context'[u]] = list[context[u]]
      /\ UNCHANGED <<kind, thread>>
    BY <1>1, ListStays
<1> QED
    BY <1>2 DEF Isolated, List, Plain

\* The session a plain call's hooks find while it runs.
LEMMA TopFinds ==
    ASSUME TypeOK, Known, Stacked, Nested, NEW t \in Task,
           kind[t] # "async", pc[t] = "run", Runs(t)
    PROVE  /\ State(t) = home[t] /\ home[t] \in Begun
           /\ home[t] = home[calls[thread[t]][1]]
           /\ context[t] = context[calls[thread[t]][1]]
<1> DEFINE h == thread[t]
           c == calls[h]
<1>1. h \in Thread /\ c # <<>> /\ Len(c) \in Nat \ {0} /\ c[Len(c)] = t
    BY TopRuns DEF TypeOK
<1>2. Len(c) \in 1 .. Len(c)
    BY <1>1
<1>3. /\ context[t] = context[c[1]] /\ home[t] = home[c[1]]
      /\ Found(ctx[context[c[1]]], h) = home[c[1]]
    BY <1>1, <1>2 DEF Nested, NestedAt
<1>4. home[t] \in Begun
    BY DEF Known, Begun
<1> QED
    BY <1>3, <1>4 DEF State

\* The session the hook of an open step found; a plain call finds its own, and
\* whoever found one has a list of iterations.
Hooked == \A t \in Task :
    /\ ~open[t] => hook[t] = None
    /\ open[t] /\ kind[t] = "sync" => pc[t] = "run" /\ hook[t] = home[t]
    /\ open[t] /\ kind[t] # "async" => hook[t] # None
    /\ hook[t] # None => list[context[t]] # None

\* What beginning and ending a step does to the list of its context.
LEMMA BeginEffect ==
    ASSUME TypeOK, NEW t \in Task, NEW s, BeginsStep(t, s)
    PROVE  /\ pc[t] # "idle" /\ ~open[t] /\ open'[t] /\ n'[t] = n[t] + 1 /\ hook'[t] = s
           /\ s # None => /\ list'[context[t]] # None /\ list'[context[t]] \in Context
                          /\ list[context[t]] # None =>
                                list'[context[t]] = list[context[t]]
                          /\ list[context[t]] = None => list'[context[t]] = context[t]
           /\ \A z \in Context : z # context[t] => list'[z] = list[z]
           /\ s = None => list' = list
<1>1. context[t] \in Context /\ context[t] # None /\ list[context[t]] \in Context \cup {None}
    BY GuardAssumption DEF TypeOK, Context
<1> QED
    BY <1>1 DEF BeginsStep, List, TypeOK

LEMMA EndEffect ==
    ASSUME TypeOK, NEW t \in Task, EndsStep(t)
    PROVE  /\ open[t] /\ ~open'[t] /\ n' = n /\ hook'[t] = None /\ list' = list
           /\ hook[t] = None => ids' = ids
           /\ hook[t] # None =>
                 /\ ids'[list[context[t]]] = Pop(ids[list[context[t]]])
                 /\ \A l \in Context \cup {None} : l # list[context[t]] => ids'[l] = ids[l]
<1>1. context[t] \in Context /\ list[context[t]] \in Context \cup {None}
    BY DEF TypeOK
<1> QED
    BY <1>1 DEF EndsStep, List, TypeOK

LEMMA HookedStep ==
    TypeOK /\ Sited /\ Known /\ Stacked /\ Nested /\ Hooked /\ [Next]_vars => Hooked'
<1> SUFFICES ASSUME TypeOK, Sited, Known, Stacked, Nested, Hooked, [Next]_vars,
                    NEW u \in Task
             PROVE  /\ ~open'[u] => hook'[u] = None
                    /\ open'[u] /\ kind'[u] = "sync" => pc'[u] = "run" /\ hook'[u] = home'[u]
                    /\ open'[u] /\ kind'[u] # "async" => hook'[u] # None
                    /\ hook'[u] # None => list'[context'[u]] # None
    BY DEF Hooked
<1> DEFINE Good == /\ ~open'[u] => hook'[u] = None
                   /\ open'[u] /\ kind'[u] = "sync" => pc'[u] = "run" /\ hook'[u] = home'[u]
                   /\ open'[u] /\ kind'[u] # "async" => hook'[u] # None
                   /\ hook'[u] # None => list'[context'[u]] # None
<1>0. u \notin Begun => ~open[u] /\ hook[u] = None
    BY DEF Sited, Hooked
<1>00. /\ u \in Begun /\ list[context[u]] # None => list'[context'[u]] # None
       /\ UNCHANGED <<kind, thread>>
    BY ListStays
<1>1. ASSUME NEW t \in Task, NEW x \in Context, NEW y \in Context,
             Entering(t, x, y), Calling(t, x, ctx[y])
      PROVE  Good
  <2>1. UNCHANGED <<open, hook>> /\ t \notin Begun
      BY <1>1, EntrySite DEF Calling, Begun
  <2>2. u \in Begun => home'[u] = home[u] /\ pc'[u] = pc[u]
      BY <1>1, <2>1, EntrySite DEF Begun
  <2> QED
      BY <1>0, <1>00, <2>1, <2>2 DEF Hooked
<1>2. ASSUME NEW t \in Task, Hooks(t), u # t PROVE Good
  <2>1. open'[u] = open[u] /\ hook'[u] = hook[u] /\ UNCHANGED <<pc, home>>
      BY <1>2, HookEffect
  <2> QED
      BY <1>0, <1>00, <2>1 DEF Hooked
<1>3. CASE BeginStep(u)
  <2>1. kind[u] = "sync" /\ pc[u] = "run" /\ BeginsStep(u, State(u)) /\ Runs(u)
      BY <1>3 DEF BeginStep, BeginsStep
  <2>2. State(u) = home[u] /\ home[u] # None
    <3>1. State(u) = home[u] /\ home[u] \in Begun
        BY <2>1, TopFinds
    <3> QED
        BY <3>1, GuardAssumption DEF Begun
  <2>3. open'[u] /\ hook'[u] = home[u] /\ list'[context[u]] # None
      BY <2>1, <2>2, BeginEffect
  <2>4. UNCHANGED <<pc, home, context, kind>>
      BY <1>3, HookEffect DEF Hooks
  <2> QED
      BY <2>1, <2>2, <2>3, <2>4
<1>4. CASE BeginStream(u)
  <2>1. /\ kind[u] # "sync" /\ (kind[u] = "stream" => pc[u] = "run")
        /\ BeginsStep(u, State(u)) /\ Runs(u)
      BY <1>4 DEF BeginStream, BeginsStep
  <2>2. kind[u] # "async" => State(u) # None
    <3>1. kind[u] # "async" => kind[u] = "stream"
        BY <2>1 DEF TypeOK
    <3>2. kind[u] # "async" => State(u) \in Begun
        BY <2>1, <3>1, TopFinds
    <3> QED
        BY <3>2, GuardAssumption DEF Begun
  <2>3. open'[u] /\ hook'[u] = State(u) /\ (State(u) # None => list'[context[u]] # None)
      BY <2>1, BeginEffect
  <2>4. UNCHANGED <<pc, home, context, kind>>
      BY <1>4, HookEffect DEF Hooks
  <2> QED
      BY <2>1, <2>2, <2>3, <2>4
<1>5. CASE Validate(u)
    BY <1>0, <1>00, <1>5 DEF Validate, Hooked, callVars
<1>6. CASE EndStep(u) \/ EndStream(u)
    BY <1>6, EndEffect DEF EndStep, EndStream
<1>7. ASSUME NEW t \in Task, Leave(t) \/ \E packed \in BOOLEAN : Exit(t, packed)
      PROVE  Good
  <2>1. /\ kind[t] = "sync" => ~open[t]
        /\ UNCHANGED <<open, hook, home>> /\ pc' = [pc EXCEPT ![t] = "over"]
      BY <1>7, ReturnEffect
  <2>2. open[u] /\ kind[u] = "sync" => pc'[u] = pc[u]
      BY <2>1 DEF TypeOK
  <2> QED
      BY <1>0, <1>00, <2>1, <2>2 DEF Hooked
<1>8. CASE UNCHANGED vars
  <2>1. UNCHANGED <<open, hook, pc, home>>
      BY <1>8 DEF vars, callVars, stepVars
  <2> QED
      BY <1>0, <1>00, <2>1 DEF Hooked
<1>9. ASSUME NEW t \in Task, Hooks(t) PROVE Good
    BY <1>2, <1>3, <1>4, <1>5, <1>6, <1>9 DEF Hooks
<1> QED
    BY <1>1, <1>7, <1>8, <1>9, Steps, Entries DEF Hooks

-----------------------------------------------------------------------------
(* Records and lists of ids.                                               *)

LEMMA BegunStays ==
    ASSUME TypeOK, [Next]_vars
    PROVE  Begun \subseteq Begun'
<1>1. ASSUME NEW t \in Task, NEW x \in Context, NEW y \in Context,
             Entering(t, x, y), Calling(t, x, ctx[y])
      PROVE  Begun \subseteq Begun'
    BY <1>1 DEF Calling, Begun, TypeOK
<1>2. ASSUME NEW t \in Task, Hooks(t) PROVE Begun \subseteq Begun'
  <2>1. pc' = pc
      BY <1>2, HookEffect
  <2> QED
      BY <2>1 DEF Begun
<1>3. ASSUME NEW t \in Task, Leave(t) \/ \E packed \in BOOLEAN : Exit(t, packed)
      PROVE  Begun \subseteq Begun'
  <2>1. pc' = [pc EXCEPT ![t] = "over"]
      BY <1>3, ReturnEffect
  <2> QED
      BY <2>1 DEF Begun, TypeOK
<1>4. CASE UNCHANGED vars
    BY <1>4 DEF vars, callVars, Begun
<1> QED
    BY <1>1, <1>2, <1>3, <1>4, Steps, Entries DEF Hooks

\* An open record is that of the step its call is in, in the session the hook
\* of that step found.
Recorded == \A s \in Task : ~finalized[s] =>
    \A id \in DOMAIN records[s] :
        /\ open[id[1]] /\ n[id[1]] = id[2] /\ kind[id[1]] = "sync"
        /\ hook[id[1]] = s

\* What BeginStep, Validate and EndStep do to the records.
LEMMA BeginRecord ==
    ASSUME TypeOK, NEW t \in Task, BeginStep(t)
    PROVE  /\ kind[t] = "sync" /\ pc[t] = "run" /\ Runs(t) /\ BeginsStep(t, State(t))
           /\ UNCHANGED <<steps, finalized>>
           /\ State(t) = None \/ finalized[State(t)] => UNCHANGED <<ids, records>>
           /\ State(t) # None /\ ~finalized[State(t)] =>
                 /\ ids' = Pushed(t)
                 /\ DOMAIN records'[State(t)]
                       = DOMAIN records[State(t)] \cup {<<t, n[t] + 1>>}
                 /\ \A i \in DOMAIN records'[State(t)] :
                       \/ records'[State(t)][i] = {}
                       \/ /\ i \in DOMAIN records[State(t)]
                          /\ records'[State(t)][i] = records[State(t)][i]
                 /\ \A s \in Task : s # State(t) => records'[s] = records[s]
<1>1. /\ kind[t] = "sync" /\ pc[t] = "run" /\ Runs(t) /\ BeginsStep(t, State(t))
      /\ UNCHANGED <<steps, finalized>>
    BY DEF BeginStep, BeginsStep, sessionVars
<1>2. State(t) = None \/ finalized[State(t)] => UNCHANGED <<ids, records>>
    BY DEF BeginStep
<1>3. ASSUME State(t) # None, ~finalized[State(t)]
      PROVE  /\ ids' = Pushed(t)
             /\ DOMAIN records'[State(t)]
                   = DOMAIN records[State(t)] \cup {<<t, n[t] + 1>>}
             /\ \A i \in DOMAIN records'[State(t)] :
                   \/ records'[State(t)][i] = {}
                   \/ /\ i \in DOMAIN records[State(t)]
                      /\ records'[State(t)][i] = records[State(t)][i]
             /\ \A s \in Task : s # State(t) => records'[s] = records[s]
  <2> DEFINE s == State(t)
             id == <<t, n[t] + 1>>
             new == [i \in DOMAIN records[s] \cup {id} |->
                       IF i \in DOMAIN records[s] THEN records[s][i] ELSE {}]
  <2>1. s \in Task
      BY <1>3, StateTyped DEF Session
  <2>2. ids' = Pushed(t) /\ records' = [records EXCEPT ![s] = new]
      BY <1>3 DEF BeginStep
  <2>3. /\ DOMAIN new = DOMAIN records[s] \cup {id}
        /\ \A i \in DOMAIN new : new[i] = {} \/ (i \in DOMAIN records[s] /\ new[i] = records[s][i])
      OBVIOUS
  <2> HIDE DEF new
  <2>4. records'[s] = new /\ \A v \in Task : v # s => records'[v] = records[v]
      BY <2>1, <2>2 DEF TypeOK
  <2> QED
      BY <2>2, <2>3, <2>4
<1> QED
    BY <1>1, <1>2, <1>3

LEMMA EndRecord ==
    ASSUME TypeOK, NEW t \in Task, EndStep(t)
    PROVE  /\ kind[t] = "sync" /\ EndsStep(t) /\ finalized' = finalized
           /\ \/ /\ hook[t] # None /\ ~finalized[hook[t]]
                 /\ <<t, n[t]>> \in DOMAIN records[hook[t]]
                 /\ Emit(hook[t], Step(<<t, n[t]>>, records[hook[t]][<<t, n[t]>>]))
                 /\ DOMAIN records'[hook[t]] = DOMAIN records[hook[t]] \ {<<t, n[t]>>}
                 /\ \A i \in DOMAIN records'[hook[t]] :
                       records'[hook[t]][i] = records[hook[t]][i]
                 /\ \A s \in Task : s # hook[t] => records'[s] = records[s]
              \/ /\ \/ hook[t] = None \/ finalized[hook[t]]
                    \/ <<t, n[t]>> \notin DOMAIN records[hook[t]]
                 /\ UNCHANGED <<steps, records>>
<1> DEFINE s == hook[t]
           id == <<t, n[t]>>
<1>1. kind[t] = "sync" /\ EndsStep(t) /\ finalized' = finalized
    BY DEF EndStep, EndsStep, sessionVars
<1>2. CASE s # None /\ ~finalized[s] /\ id \in DOMAIN records[s]
  <2> DEFINE new == [i \in DOMAIN records[s] \ {id} |-> records[s][i]]
  <2>1. s \in Task
      BY <1>2 DEF TypeOK, Session
  <2>2. Emit(s, Step(id, records[s][id])) /\ records' = [records EXCEPT ![s] = new]
      BY <1>2 DEF EndStep
  <2>3. DOMAIN new = DOMAIN records[s] \ {id} /\ \A i \in DOMAIN new : new[i] = records[s][i]
      OBVIOUS
  <2> HIDE DEF new, id, s
  <2>4. records'[s] = new /\ \A v \in Task : v # s => records'[v] = records[v]
      BY <2>1, <2>2 DEF TypeOK
  <2>5. /\ DOMAIN records'[s] = DOMAIN records[s] \ {id}
        /\ \A i \in DOMAIN records'[s] : records'[s][i] = records[s][i]
        /\ \A v \in Task : v # s => records'[v] = records[v]
      BY <2>3, <2>4
  <2>6. /\ s # None /\ ~finalized[s] /\ id \in DOMAIN records[s]
        /\ Emit(s, Step(id, records[s][id]))
      BY <1>2, <2>2
  <2> QED
      BY <1>1, <2>5, <2>6 DEF s, id
<1>3. CASE ~(s # None /\ ~finalized[s] /\ id \in DOMAIN records[s])
    BY <1>1, <1>3 DEF EndStep
<1> QED
    BY <1>2, <1>3

LEMMA ValidateRecord ==
    ASSUME TypeOK, NEW t \in Task, Validate(t)
    PROVE  /\ open[t] /\ Runs(t) /\ State(t) \in Task /\ ~finalized[State(t)]
           /\ IterationOf(t) \in DOMAIN records[State(t)]
           /\ UNCHANGED <<open, n, hook, ids, list, finalized, steps>>
           /\ \A s \in Task : DOMAIN records'[s] = DOMAIN records[s]
           /\ \A s \in Task : \A i \in DOMAIN records[s] :
                 IF s = State(t) /\ i = IterationOf(t)
                 THEN records'[s][i] = records[s][i] \cup {<<t, n[t]>>}
                 ELSE records'[s][i] = records[s][i]
<1> DEFINE s == State(t)
           id == IterationOf(t)
<1>1. /\ open[t] /\ Runs(t) /\ s # None /\ ~finalized[s] /\ id \in DOMAIN records[s]
      /\ records' = [records EXCEPT ![s][id] = @ \cup {<<t, n[t]>>}]
      /\ UNCHANGED <<open, n, hook, ids, list, finalized, steps>>
    BY DEF Validate, sessionVars
<1>2. s \in Task
    BY <1>1, StateTyped DEF Session
<1> HIDE DEF s, id
<1>3. /\ \A v \in Task : DOMAIN records'[v] = DOMAIN records[v]
      /\ \A v \in Task : \A i \in DOMAIN records[v] :
            IF v = s /\ i = id
            THEN records'[v][i] = records[v][i] \cup {<<t, n[t]>>}
            ELSE records'[v][i] = records[v][i]
    BY <1>1, <1>2 DEF TypeOK
<1> QED
    BY <1>1, <1>2, <1>3 DEF s, id

LEMMA RecordedStep == TypeOK /\ Hooked /\ Recorded /\ [Next]_vars => Recorded'
<1> SUFFICES ASSUME TypeOK, Hooked, Recorded, [Next]_vars, NEW s \in Task, ~finalized'[s],
                    NEW id \in DOMAIN records'[s]
             PROVE  /\ open'[id[1]] /\ n'[id[1]] = id[2] /\ kind'[id[1]] = "sync"
                    /\ hook'[id[1]] = s
    BY DEF Recorded
<1> DEFINE Good == /\ open'[id[1]] /\ n'[id[1]] = id[2] /\ kind'[id[1]] = "sync"
                   /\ hook'[id[1]] = s
           Old == ~finalized[s] /\ id \in DOMAIN records[s]
<1>0. ASSUME Old
      PROVE  /\ open[id[1]] /\ n[id[1]] = id[2] /\ kind[id[1]] = "sync" /\ hook[id[1]] = s
             /\ id[1] \in Task /\ id = <<id[1], id[2]>> /\ hook[id[1]] # None
  <2>1. id \in Id
      BY <1>0 DEF TypeOK
  <2> QED
      BY <1>0, <2>1, GuardAssumption DEF Recorded, Id
<1>1. ASSUME NEW t \in Task, NEW x \in Context, NEW y \in Context,
             Entering(t, x, y), Calling(t, x, ctx[y])
      PROVE  Good
  <2>1. UNCHANGED <<records, finalized, open, n, kind, hook>>
      BY <1>1 DEF Calling
  <2> QED
      BY <1>0, <2>1
<1>2. ASSUME NEW t \in Task, Hooks(t)
      PROVE  /\ UNCHANGED <<kind, finalized>>
             /\ \A u \in Task : u # t =>
                  open'[u] = open[u] /\ n'[u] = n[u] /\ hook'[u] = hook[u]
    BY <1>2, HookEffect
<1>3. ASSUME NEW t \in Task, Hooks(t), Old, id[1] # t PROVE Good
    BY <1>0, <1>2, <1>3
<1>4. ASSUME NEW t \in Task, BeginStep(t) PROVE Good
  <2>1. BeginsStep(t, State(t)) /\ kind[t] = "sync"
      BY <1>4, BeginRecord
  <2>2. ~open[t] /\ open'[t] /\ n'[t] = n[t] + 1 /\ hook'[t] = State(t)
      BY <2>1, BeginEffect
  <2>3. ~finalized[s] /\ kind'[t] = "sync"
      BY <1>2, <1>4, <2>1 DEF Hooks
  <2>4. CASE Old
      BY <1>0, <1>3, <1>4, <2>2, <2>4 DEF Hooks
  <2>5. CASE ~Old
    <3>1. id \notin DOMAIN records[s]
        BY <2>3, <2>5
    <3>2. s = State(t) /\ id = <<t, n[t] + 1>>
        BY <1>4, <3>1, BeginRecord
    <3> QED
        BY <2>2, <2>3, <3>2
  <2> QED
      BY <2>4, <2>5
<1>5. ASSUME NEW t \in Task, BeginStream(t) PROVE Good
  <2>1. kind[t] # "sync" /\ records' = records /\ ~finalized[s]
      BY <1>2, <1>5 DEF BeginStream, Hooks
  <2> QED
      BY <1>0, <1>3, <1>5, <2>1 DEF Hooks
<1>6. ASSUME NEW t \in Task, Validate(t) PROVE Good
    BY <1>0, <1>2, <1>6, ValidateRecord DEF Hooks
<1>7. ASSUME NEW t \in Task, EndStep(t) PROVE Good
  <2>1. Old
      BY <1>2, <1>7, EndRecord DEF Hooks
  <2>2. id[1] # t
    <3>1. SUFFICES ASSUME id[1] = t PROVE FALSE
        OBVIOUS
    <3>2. hook[t] = s /\ id = <<t, n[t]>> /\ hook[t] # None
        BY <1>0, <2>1, <3>1
    <3>3. DOMAIN records'[s] = DOMAIN records[s] \ {id}
        BY <1>7, <2>1, <3>2, EndRecord
    <3> QED
        BY <3>3
  <2> QED
      BY <1>3, <1>7, <2>1, <2>2 DEF Hooks
<1>8. ASSUME NEW t \in Task, EndStream(t) PROVE Good
  <2>1. kind[t] # "sync" /\ records' = records /\ ~finalized[s]
      BY <1>2, <1>8 DEF EndStream, Hooks
  <2> QED
      BY <1>0, <1>3, <1>8, <2>1 DEF Hooks
<1>9. ASSUME NEW t \in Task, Leave(t) \/ \E packed \in BOOLEAN : Exit(t, packed)
      PROVE  Good
  <2>1. /\ UNCHANGED <<open, n, hook, kind>>
        /\ \/ UNCHANGED <<records, finalized>>
           \/ /\ finalized' = [finalized EXCEPT ![t] = TRUE]
              /\ records' = records \/ records' = [records EXCEPT ![t] = NoRecords]
      BY <1>9, ReturnEffect
  <2>2. Old
      BY <2>1 DEF TypeOK
  <2> QED
      BY <1>0, <2>1, <2>2
<1>10. CASE UNCHANGED vars
  <2>1. UNCHANGED <<open, n, hook, kind, finalized, records>>
      BY <1>10 DEF vars, given, stepVars, sessionVars
  <2> QED
      BY <1>0, <2>1
<1> QED
    BY <1>1, <1>4, <1>5, <1>6, <1>7, <1>8, <1>9, <1>10, Steps, Entries

\* The ids in a list are those of calls that have it.
Owned == \A l \in Context \cup {None} : \A j \in 1 .. Len(ids[l]) :
    /\ l # None /\ ids[l][j][1] \in Begun
    /\ list[context[ids[l][j][1]]] = l

LEMMA OwnedStep == TypeOK /\ Sited /\ Owned /\ [Next]_vars => Owned'
<1> SUFFICES ASSUME TypeOK, Sited, Owned, [Next]_vars,
                    NEW l \in Context \cup {None}, NEW j \in 1 .. Len(ids'[l])
             PROVE  /\ l # None /\ ids'[l][j][1] \in Begun'
                    /\ list'[context'[ids'[l][j][1]]] = l
    BY DEF Owned
<1> DEFINE Good(id) == /\ l # None /\ id[1] \in Begun'
                       /\ list'[context'[id[1]]] = l
<1>1. ASSUME NEW i \in 1 .. Len(ids[l]) PROVE Good(ids[l][i])
    BY Zenon, ListStays, BegunStays DEF Owned
<1>2. ASSUME ids'[l] = ids[l] PROVE Good(ids'[l][j])
    BY <1>1, <1>2
<1>3. ASSUME NEW t \in Task, BeginsStep(t, State(t)), State(t) # None, ids' = Pushed(t)
      PROVE  Good(ids'[l][j])
  <2> DEFINE m == list'[context[t]]
             id == <<t, n[t] + 1>>
  <2>1. /\ m \in Context /\ t \in Begun /\ context' = context /\ pc' = pc
      BY <1>3, BeginEffect DEF BeginsStep, callVars, Begun
  <2>2. m # None /\ t \in Begun' /\ id \in Id
    <3>1. m # None
        BY <2>1, GuardAssumption DEF Context
    <3>2. t \in Begun'
        BY <2>1 DEF Begun
    <3>3. n[t] + 1 \in Nat
        BY DEF TypeOK
    <3> QED
        BY <3>1, <3>2, <3>3 DEF Id
  <2>3. CASE l # m
    <3>1. ids'[l] = ids[l]
        BY <1>3, <2>3 DEF Pushed, TypeOK
    <3> QED
        BY <1>2, <3>1
  <2>4. CASE l = m
    <3>1. ids'[l] = Append(ids[l], id) /\ ids[l] \in Seq(Id)
        BY <1>3, <2>4 DEF Pushed, TypeOK
    <3> DEFINE k == Len(ids[l])
    <3>2. /\ Len(ids'[l]) = k + 1 /\ ids'[l][k + 1] = id /\ k \in Nat
          /\ \A i \in 1 .. k : ids'[l][i] = ids[l][i]
        BY <2>2, <3>1, Pushes
    <3>3. j = k + 1 \/ j \in 1 .. k
        BY <3>2
    <3>4. CASE j = k + 1
      <4>1. ids'[l][j][1] = t
          BY <3>2, <3>4
      <4> QED
          BY <2>1, <2>2, <2>4, <4>1
    <3>5. CASE j \in 1 .. k
        BY <1>1, <3>2, <3>5
    <3> QED
        BY <3>3, <3>4, <3>5
  <2> QED
      BY <2>3, <2>4
<1>4. ASSUME NEW t \in Task, EndsStep(t) PROVE Good(ids'[l][j])
  <2>1. CASE ids'[l] = ids[l]
      BY <1>2, <2>1
  <2>2. CASE ids'[l] # ids[l]
    <3>1. ids'[l] = Pop(ids[l]) /\ ids[l] \in Seq(Id)
        BY <1>4, <2>2, EndEffect DEF TypeOK
    <3>2. ids[l] # <<>>
        BY <2>2, <3>1 DEF Pop
    <3> DEFINE k == Len(ids[l])
    <3>3. /\ k \in Nat \ {0} /\ Len(ids'[l]) = k - 1
          /\ \A i \in 1 .. k - 1 : ids'[l][i] = ids[l][i]
        BY <3>1, <3>2, Tops
    <3>4. j \in 1 .. k - 1 /\ j \in 1 .. k
        BY <3>3
    <3> QED
        BY <1>1, <3>3, <3>4
  <2> QED
      BY <2>1, <2>2
<1>5. ASSUME NEW t \in Task, Hooks(t) PROVE Good(ids'[l][j])
  <2>1. CASE BeginStep(t)
      BY <1>2, <1>3, <2>1, BeginRecord
  <2>2. CASE BeginStream(t)
      BY <1>2, <1>3, <2>2 DEF BeginStream
  <2>3. CASE Validate(t)
      BY <1>2, <2>3 DEF Validate
  <2>4. CASE EndStep(t) \/ EndStream(t)
      BY <1>4, <2>4 DEF EndStep, EndStream
  <2> QED
      BY <1>5, <2>1, <2>2, <2>3, <2>4 DEF Hooks
<1>6. ASSUME NEW t \in Task, NEW x \in Context, NEW y \in Context,
             Entering(t, x, y), Calling(t, x, ctx[y])
      PROVE  ids' = ids
    BY <1>6 DEF Calling
<1>7. ASSUME NEW t \in Task, Leave(t) \/ \E packed \in BOOLEAN : Exit(t, packed)
      PROVE  ids' = ids
    BY <1>7, ReturnEffect
<1>8. UNCHANGED vars => ids' = ids
    BY DEF vars, stepVars
<1> HIDE DEF Good
<1>9. Good(ids'[l][j])
  <2>1. CASE ids' = ids
      BY <1>2, <2>1
  <2>2. ids' = ids \/ (\E t \in Task : Hooks(t)) \/ UNCHANGED vars
      BY <1>6, <1>7, Steps, Entries DEF Hooks
  <2> QED
      BY <1>5, <1>8, <2>1, <2>2
<1> QED
    BY <1>9 DEF Good

-----------------------------------------------------------------------------
(* Calls that wait for a call inside them.                                 *)

\* There is a stream in context x.
StreamIn(x) == \E p \in Task : kind[p] = "stream" /\ pc[p] # "idle" /\ context[p] = x

\* A call that another one is inside of is in a step, unless the other was made
\* by the consumer of a stream in their context.
WaitingAt(h) == \A i \in 1 .. Len(calls[h]) - 1 :
    \/ kind[calls[h][i]] = "sync" /\ open[calls[h][i]]
    \/ StreamIn(context[calls[h][1]])

Waiting == \A h \in Thread : WaitingAt(h)

\* Who calls inside a call that is the top of its thread's stack.
LEMMA InnerCaller ==
    ASSUME TypeOK, Sited, Stacked, Nested, Hooked, NEW t \in Task, NEW x \in Context,
           Directly(t, x), calls[thread[t]] # <<>>
    PROVE  \/ open[calls[thread[t]][Len(calls[thread[t]])]]
           \/ \E p \in Begun : /\ kind[p] = "stream" /\ pc[p] # "run"
                               /\ context[p] = context[calls[thread[t]][1]]
<1> DEFINE h == thread[t]
           c == calls[h]
<1>1. PICK p \in Task : thread[p] = h /\ open[p] /\ Runs(p)
    BY DEF Directly
<1>2. CASE kind[p] # "async" /\ pc[p] = "run"
    BY <1>1, <1>2, TopRuns
<1>3. CASE ~(kind[p] # "async" /\ pc[p] = "run")
  <2>1. kind[p] # "async" /\ context[c[Len(c)]] = context[p]
      BY <1>1, <1>3, OthersRun
  <2>2. kind[p] = "stream" /\ pc[p] # "run" /\ p \in Begun
      BY <1>1, <1>3, <2>1 DEF Hooked, TypeOK, Sited
  <2>3. Len(c) \in 1 .. Len(c) /\ h \in Thread
    <3>1. c \in Seq(Task) /\ h \in Thread
        BY DEF TypeOK
    <3>2. Len(c) \in Nat \ {0}
        BY <3>1, Tops
    <3> QED
        BY <3>1, <3>2
  <2>4. context[c[Len(c)]] = context[c[1]]
      BY <2>3 DEF Nested, NestedAt
  <2> QED
      BY <2>1, <2>2, <2>4
<1> QED
    BY <1>2, <1>3

LEMMA WaitingStep ==
    TypeOK /\ Sited /\ Known /\ Stacked /\ Nested /\ Hooked /\ Waiting /\ [Next]_vars
      => Waiting'
<1> SUFFICES ASSUME TypeOK, Sited, Known, Stacked, Nested, Hooked, Waiting, [Next]_vars,
                    NEW h \in Thread, NEW i \in 1 .. Len(calls'[h]) - 1
             PROVE  \/ kind'[calls'[h][i]] = "sync" /\ open'[calls'[h][i]]
                    \/ StreamIn(context[calls[h][1]])'
    BY DEF Waiting, WaitingAt
<1> DEFINE c == calls[h]
           d == calls'[h]
           Good == \/ kind'[d[i]] = "sync" /\ open'[d[i]]
                   \/ StreamIn(context[calls[h][1]])'
<1>0. /\ c \in Seq(Task) /\ Len(c) \in Nat /\ d \in Seq(Task) /\ Len(d) \in Nat
  <2>1. TypeOK'
      BY TypedStep
  <2>2. d \in Seq(Task) /\ c \in Seq(Task)
      BY <2>1 DEF TypeOK
  <2> HIDE DEF c, d
  <2> QED
      BY <2>2
<1>A. \A j \in 1 .. Len(c) : c[j] \in Begun /\ c[j] \in Task /\ thread[c[j]] = h
    BY <1>0 DEF Stacked, StackedAt, Begun
<1>B. kind' = kind /\ \A u \in Begun : context'[u] = context[u]
    BY ListStays
\* The call is still there, and so is the stream.
<1>1. ASSUME i \in 1 .. Len(c) - 1, d[i] = c[i], d[1] = c[1], open'[c[i]] = open[c[i]]
      PROVE  Good
  <2>1. 1 \in 1 .. Len(c) /\ i \in 1 .. Len(c)
      BY <1>0, <1>1
  <2>2. context'[d[1]] = context[c[1]]
      BY <1>1, <1>A, <1>B, <2>1
  <2>3. CASE StreamIn(context[c[1]])
    <3>1. PICK p \in Begun : kind[p] = "stream" /\ context[p] = context[c[1]]
        BY <2>3 DEF StreamIn, Begun
    <3>2. p \in Begun' /\ context'[p] = context'[d[1]]
        BY <1>B, <2>2, <3>1, BegunStays
    <3> QED
        BY <1>B, <3>1, <3>2 DEF StreamIn, Begun
  <2>4. CASE kind[c[i]] = "sync" /\ open[c[i]]
      BY <1>1, <1>B, <2>4
  <2> QED
      BY <1>1, <2>3, <2>4 DEF Waiting, WaitingAt
<1>2. ASSUME NEW t \in Task, NEW x \in Context, NEW y \in Context,
             Entering(t, x, y), Calling(t, x, ctx[y])
      PROVE  Good
  <2>1. UNCHANGED open
      BY <1>2 DEF Calling
  <2>2. CASE h # thread[t] \/ kind[t] = "async"
    <3>1. d = c
        BY <1>2, <2>2, EntrySite
    <3> QED
        BY <1>1, <2>1, <3>1
  <2>3. CASE h = thread[t] /\ kind[t] # "async"
    <3>1. d = Append(c, t)
        BY <1>2, <2>3, EntrySite
    <3> DEFINE k == Len(c)
    <3>2. Len(d) = k + 1 /\ \A j \in 1 .. k : d[j] = c[j]
        BY <1>0, <3>1, Pushes
    <3>3. k \in 1 .. k /\ 1 \in 1 .. k /\ i \in 1 .. k /\ (i = k \/ i \in 1 .. k - 1)
        BY <1>0, <3>2
    <3>4. d[1] = c[1] /\ d[i] = c[i] /\ c # <<>>
        BY <1>0, <3>2, <3>3
    <3>5. CASE i \in 1 .. k - 1
        BY <1>1, <2>1, <3>4, <3>5
    <3>6. CASE i = k
      <4>1. Directly(t, x)
          BY <1>2, <2>3, <3>4, EntrySite
      <4>2. context'[d[1]] = context[c[1]]
          BY <1>A, <1>B, <3>3, <3>4
      <4>3. ASSUME NEW p \in Begun, kind[p] = "stream", context[p] = context[c[1]]
            PROVE  Good
        <5>1. p \in Begun' /\ context'[p] = context'[d[1]]
            BY <1>B, <4>2, <4>3, BegunStays
        <5> QED
            BY <1>B, <4>3, <5>1 DEF StreamIn, Begun
      <4>4. CASE open[c[k]]
        <5>1. kind[c[k]] = "sync" => Good
            BY <1>B, <2>1, <3>4, <3>6, <4>4
        <5>2. kind[c[k]] # "sync" => kind[c[k]] = "stream"
          <6>1. kind[c[k]] # "async"
              BY <3>3 DEF Stacked, StackedAt
          <6>2. c[k] \in Task
              BY <1>A, <3>3
          <6> QED
              BY <6>1, <6>2 DEF TypeOK
        <5>3. c[k] \in Begun /\ context[c[k]] = context[c[1]]
            BY <1>A, <3>3 DEF Nested, NestedAt
        <5> QED
            BY <4>3, <5>1, <5>2, <5>3
      <4> QED
          BY <2>3, <3>4, <4>1, <4>3, <4>4, InnerCaller
    <3> QED
        BY <3>3, <3>5, <3>6
  <2> QED
      BY <2>2, <2>3
<1>3. ASSUME NEW t \in Task, Hooks(t) PROVE Good
  <2>1. /\ d = c /\ Runs(t) /\ UNCHANGED <<pc, kind, thread>>
        /\ \A u \in Task : u # t => open'[u] = open[u]
      BY <1>3, HookEffect
  <2>2. i \in 1 .. Len(c) /\ i # Len(c) /\ Len(c) \in 1 .. Len(c)
      BY <1>0, <2>1
  <2>3. c[i] # t
    <3>1. SUFFICES ASSUME c[i] = t PROVE FALSE
        OBVIOUS
    <3>2. thread[t] = h /\ kind[t] # "async" /\ pc[t] = "run"
        BY <2>2, <3>1 DEF Stacked, StackedAt
    <3>3. c[Len(c)] = t
        BY <2>1, <3>2, TopRuns
    <3> QED
        BY <2>2, <3>1, <3>3 DEF Stacked, StackedAt
  <2> QED
      BY <1>1, <1>A, <2>1, <2>2, <2>3
<1>4. ASSUME NEW t \in Task, Leave(t) \/ \E packed \in BOOLEAN : Exit(t, packed)
      PROVE  Good
  <2>1. /\ pc[t] = "run" /\ Runs(t) /\ UNCHANGED open
        /\ calls' = IF kind[t] # "async" THEN [calls EXCEPT ![thread[t]] = Pop(@)] ELSE calls
      BY <1>4, ReturnEffect DEF Plain
  <2>2. CASE h # thread[t] \/ kind[t] = "async"
    <3>1. d = c
        BY <2>1, <2>2 DEF TypeOK
    <3> QED
        BY <1>1, <2>1, <3>1
  <2>3. CASE h = thread[t] /\ kind[t] # "async"
    <3> DEFINE k == Len(c)
    <3>1. d = Pop(c)
        BY <2>1, <2>3 DEF TypeOK
    <3>2. k \in Nat \ {0} /\ Len(d) = k - 1 /\ \A j \in 1 .. k - 1 : d[j] = c[j]
        BY <2>1, <2>3, <3>1, TopRuns
    <3>3. i \in 1 .. k - 1 /\ 1 \in 1 .. k - 1
        BY <3>2
    <3> QED
        BY <1>1, <2>1, <3>2, <3>3
  <2> QED
      BY <2>2, <2>3
<1>5. UNCHANGED vars => d = c /\ open' = open
    BY DEF vars, callVars, stepVars
<1>6. UNCHANGED vars => Good
    BY <1>1, <1>5
<1>7. Good
    BY <1>2, <1>3, <1>4, <1>6, Steps, Entries DEF Hooks
<1> QED
    BY <1>7

-----------------------------------------------------------------------------
(* Where the ids of the calls in progress are in their list.               *)

\* The last k ids of s are those of the steps m of the first k calls of c.
EndsWith(s, k, c, m) ==
    /\ k <= Len(s)
    /\ \A i \in 1 .. k : s[Len(s) - k + i] = <<c[i], m[c[i]]>>

LEMMA EndsWithNone ==
    ASSUME NEW s \in Seq(Id), NEW c, NEW m
    PROVE  EndsWith(s, 0, c, m)
BY DEF EndsWith

LEMMA EndsWithMore ==
    ASSUME NEW s \in Seq(Id), NEW k \in Nat, NEW c, NEW m, NEW d, NEW r, NEW id \in Id,
           EndsWith(s, k, c, m), \A i \in 1 .. k : d[i] = c[i] /\ r[c[i]] = m[c[i]],
           id = <<d[k + 1], r[d[k + 1]]>>
    PROVE  EndsWith(Append(s, id), k + 1, d, r)
<1> DEFINE l == Len(s)
           e == Append(s, id)
<1>1. l \in Nat /\ Len(e) = l + 1 /\ e[l + 1] = id /\ \A i \in 1 .. l : e[i] = s[i]
    BY Pushes
<1>2. k <= l /\ \A i \in 1 .. k : s[l - k + i] = <<c[i], m[c[i]]>>
    BY DEF EndsWith
<1> HIDE DEF l, e
<1>3. k + 1 <= Len(e)
    BY <1>1, <1>2
<1>4. ASSUME NEW i \in 1 .. k + 1 PROVE e[Len(e) - (k + 1) + i] = <<d[i], r[d[i]]>>
  <2>1. CASE i = k + 1
    <3>1. Len(e) - (k + 1) + i = l + 1
        BY <1>1, <2>1
    <3> QED
        BY <1>1, <2>1, <3>1
  <2>2. CASE i # k + 1
    <3>0. i \in 1 .. k
        BY <2>2
    <3>1. Len(e) - (k + 1) + i = l - k + i /\ l - k + i \in 1 .. l
        BY <1>1, <1>2, <3>0
    <3>2. e[l - k + i] = s[l - k + i]
        BY <1>1, <3>1
    <3>3. s[l - k + i] = <<c[i], m[c[i]]>> /\ d[i] = c[i] /\ r[c[i]] = m[c[i]]
        BY <1>2, <3>0
    <3> QED
        BY <3>1, <3>2, <3>3
  <2> QED
      BY <2>1, <2>2
<1> QED
    BY <1>3, <1>4 DEF EndsWith, e

LEMMA EndsWithLess ==
    ASSUME NEW s \in Seq(Id), NEW k \in Nat \ {0}, NEW c, NEW m, EndsWith(s, k, c, m)
    PROVE  EndsWith(Pop(s), k - 1, c, m)
<1> DEFINE l == Len(s)
           e == Pop(s)
<1>1. k <= l /\ \A i \in 1 .. k : s[l - k + i] = <<c[i], m[c[i]]>>
    BY DEF EndsWith
<1>2. s # <<>>
    BY <1>1
<1>3. l \in Nat \ {0} /\ Len(e) = l - 1 /\ \A i \in 1 .. l - 1 : e[i] = s[i]
    BY <1>2, Tops
<1> HIDE DEF l, e
<1>4. k - 1 <= Len(e)
    BY <1>1, <1>3
<1>5. ASSUME NEW i \in 1 .. k - 1 PROVE e[Len(e) - (k - 1) + i] = <<c[i], m[c[i]]>>
  <2>1. /\ i \in 1 .. k /\ Len(e) - (k - 1) + i = l - k + i
        /\ l - k + i \in 1 .. l - 1
      BY <1>1, <1>3
  <2>2. e[l - k + i] = s[l - k + i] /\ s[l - k + i] = <<c[i], m[c[i]]>>
      BY <1>1, <1>3, <2>1
  <2> QED
      BY <2>1, <2>2
<1> QED
    BY <1>4, <1>5 DEF EndsWith, e

LEMMA EndsWithSame ==
    ASSUME NEW s, NEW k, NEW c, NEW m, NEW d, NEW r, EndsWith(s, k, c, m),
           \A i \in 1 .. k : d[i] = c[i] /\ r[c[i]] = m[c[i]]
    PROVE  EndsWith(s, k, d, r)
BY DEF EndsWith

\* How many calls of a stack are in a step, if those that wait all are.
Depth(h) == IF open[calls[h][Len(calls[h])]] THEN Len(calls[h]) ELSE Len(calls[h]) - 1

OnTopAt(h) ==
    calls[h] # <<>> /\ list[context[calls[h][1]]] # None
        /\ ~finalized[home[calls[h][1]]]
    => EndsWith(ids[list[context[calls[h][1]]]], Depth(h), calls[h], n)

\* While calls that interleave have lists of their own, a list ends with the
\* ids of the steps that are open on its thread's stack, in that order.
OnTop == Isolated => \A h \in Thread : OnTopAt(h)

LEMMA Unmixed ==
    ASSUME Isolated, NEW t \in Task, NEW u \in Task, t # u,
           list[context[t]] = list[context[u]], list[context[t]] # None
    PROVE  /\ thread[t] = thread[u] /\ kind[t] # "stream" /\ kind[u] # "stream"
           /\ kind[t] # "async" \/ kind[u] # "async"
BY DEF Isolated, List, Plain

LEMMA UnmixedAfter ==
    ASSUME Isolated', NEW t \in Task, NEW u \in Task, t # u,
           list'[context'[t]] = list'[context'[u]], list'[context'[t]] # None
    PROVE  /\ thread'[t] = thread'[u] /\ kind'[t] # "stream" /\ kind'[u] # "stream"
           /\ kind'[t] # "async" \/ kind'[u] # "async"
BY DEF Isolated, List, Plain

\* A stack that the step leaves alone, with its list.
LEMMA OnTopKept ==
    ASSUME TypeOK, Sited, Stacked, Isolated, OnTop, [Next]_vars, NEW h \in Thread,
           calls'[h] = calls[h],
           \A i \in 1 .. Len(calls[h]) : /\ home'[calls[h][i]] = home[calls[h][i]]
                                         /\ open'[calls[h][i]] = open[calls[h][i]]
                                         /\ n'[calls[h][i]] = n[calls[h][i]],
           calls[h] # <<>> =>
              /\ list'[context[calls[h][1]]] = list[context[calls[h][1]]]
              /\ finalized[home[calls[h][1]]] => finalized'[home[calls[h][1]]]
              /\ ids'[list[context[calls[h][1]]]] = ids[list[context[calls[h][1]]]]
    PROVE  OnTopAt(h)'
<1> DEFINE c == calls[h]
           k == Depth(h)
<1> SUFFICES ASSUME c # <<>> PROVE OnTopAt(h)'
    BY DEF OnTopAt
<1>1. c \in Seq(Task) /\ Len(c) \in Nat \ {0}
  <2>1. c \in Seq(Task)
      BY DEF TypeOK
  <2> QED
      BY <2>1, Tops
<1>2. 1 \in 1 .. Len(c) /\ Len(c) \in 1 .. Len(c)
    BY <1>1
<1>3. c[1] \in Begun /\ context'[c[1]] = context[c[1]]
  <2>1. c[1] \in Begun
      BY <1>1, <1>2 DEF Stacked, StackedAt, Begun
  <2> QED
      BY <2>1, ListStays
<1>4. Depth(h)' = k /\ k \in Nat /\ \A i \in 1 .. k : i \in 1 .. Len(c)
    BY <1>1, <1>2 DEF Depth
<1>5. SUFFICES ASSUME list[context[c[1]]] # None, ~finalized[home[c[1]]]
               PROVE  EndsWith(ids[list[context[c[1]]]], k, c, n')
    BY <1>2, <1>3, <1>4 DEF OnTopAt
<1>6. EndsWith(ids[list[context[c[1]]]], k, c, n)
    BY <1>5 DEF OnTop, OnTopAt
<1> HIDE DEF k, c
<1> QED
    BY <1>4, <1>6, EndsWithSame DEF c

LEMMA OnTopCall ==
    ASSUME TypeOK, Sited, Known, Stacked, Nested, Hooked, Waiting, Isolated, OnTop,
           [Next]_vars, NEW h \in Thread,
           NEW t \in Task, NEW x \in Context, NEW y \in Context,
           Entering(t, x, y), Calling(t, x, ctx[y])
    PROVE  OnTopAt(h)'
<1> DEFINE c == calls[h]
           d == calls'[h]
<1>1. UNCHANGED <<open, n, ids, finalized>> /\ t \notin Begun
    BY EntrySite DEF Calling, Begun
<1>2. c \in Seq(Task) /\ Len(c) \in Nat
    BY DEF TypeOK
<1>3. \A i \in 1 .. Len(c) : /\ c[i] \in Begun /\ c[i] \in Task
                             /\ home'[c[i]] = home[c[i]] /\ context'[c[i]] = context[c[i]]
                             /\ context[c[i]] \in Context /\ context[c[i]] # t
  <2>1. \A i \in 1 .. Len(c) : c[i] \in Begun /\ c[i] \in Task
      BY <1>2 DEF Stacked, StackedAt, Begun
  <2>2. \A u \in Begun : context[u] \in Context /\ context[u] # t
      BY <1>1 DEF Sited, TypeOK, Begun
  <2>3. \A u \in Begun : home'[u] = home[u] /\ context'[u] = context[u]
      BY <1>1, EntrySite DEF Begun
  <2> QED
      BY <2>1, <2>2, <2>3
<1>4. c # <<>> => /\ list'[context[c[1]]] = list[context[c[1]]]
                  /\ 1 \in 1 .. Len(c) /\ Len(c) \in 1 .. Len(c)
    BY <1>2, <1>3, EntrySite
<1>5. CASE h # thread[t] \/ kind[t] = "async"
  <2>1. d = c
      BY <1>5, EntrySite
  <2> QED
      BY <1>1, <1>3, <1>4, <2>1, OnTopKept
<1>6. CASE h = thread[t] /\ kind[t] # "async"
  <2> DEFINE k == Len(c)
             l == list[context[c[1]]]
  <2>1. d = Append(c, t) /\ t \in Task
      BY <1>6, EntrySite
  <2>2. /\ Len(d) = k + 1 /\ d[k + 1] = t /\ k \in Nat /\ d # <<>>
        /\ \A i \in 1 .. k : d[i] = c[i]
      BY <1>2, <2>1, Pushes
  <2>3. ~open'[t]
      BY <1>1 DEF Sited
  <2>4. Depth(h)' = k
    <3>1. (k + 1) - 1 = k
        BY <2>2
    <3> HIDE DEF k
    <3> QED
        BY <2>2, <2>3, <3>1 DEF Depth
  <2>5. CASE c = <<>>
    <3>1. k = 0 /\ TypeOK'
        BY <2>5, TypedStep
    <3>2. context'[d[1]] \in Context /\ list'[context'[d[1]]] \in Context \cup {None}
      <4>1. d[1] = t
          BY <2>2, <3>1
      <4> QED
          BY <3>1, <4>1 DEF TypeOK
    <3>3. ids'[list'[context'[d[1]]]] \in Seq(Id)
        BY <3>1, <3>2 DEF TypeOK
    <3>4. EndsWith(ids'[list'[context'[d[1]]]], 0, d, n')
        BY <3>3, EndsWithNone
    <3> QED
        BY <2>4, <3>1, <3>4 DEF OnTopAt
  <2>6. CASE c # <<>>
    <3>1. 1 \in 1 .. k /\ k \in 1 .. k
        BY <1>4, <2>6
    <3>2. d[1] = c[1]
        BY <2>2, <3>1
    <3>3. list'[context'[d[1]]] = l /\ home'[d[1]] = home[c[1]]
        BY <1>3, <1>4, <2>6, <3>1, <3>2
    <3>4. SUFFICES ASSUME l # None, ~finalized[home[c[1]]]
                   PROVE  EndsWith(ids[l], k, d, n)
        BY <1>1, <2>4, <3>3 DEF OnTopAt
    <3>5. open[c[k]]
      <4>1. SUFFICES ASSUME NEW p \in Begun, kind[p] = "stream", pc[p] # "run",
                            context[p] = context[c[1]]
                     PROVE  FALSE
        <5>1. Directly(t, x) /\ calls[thread[t]] # <<>>
            BY <1>6, <2>6, EntrySite
        <5> QED
            BY <1>6, <5>1, InnerCaller
      <4>2. c[1] \in Task /\ pc[c[1]] = "run" /\ p \in Task
          BY <1>3, <3>1 DEF Stacked, StackedAt, Begun
      <4> QED
          BY <3>4, <4>1, <4>2, Unmixed
    <3>6. Depth(h) = k
        BY <3>5 DEF Depth
    <3>7. EndsWith(ids[l], k, c, n)
        BY <2>6, <3>4, <3>6 DEF OnTop, OnTopAt
    <3> HIDE DEF k, l, c, d
    <3> QED
        BY <2>2, <3>7, EndsWithSame
  <2> QED
      BY <2>5, <2>6
<1> QED
    BY <1>5, <1>6

LEMMA OnTopReturn ==
    ASSUME TypeOK, Sited, Known, Stacked, Nested, Waiting, Isolated, OnTop,
           [Next]_vars, NEW h \in Thread, NEW t \in Task,
           Leave(t) \/ \E packed \in BOOLEAN : Exit(t, packed)
    PROVE  OnTopAt(h)'
<1> DEFINE c == calls[h]
           d == calls'[h]
<1>1. /\ pc[t] = "run" /\ Runs(t) /\ (kind[t] = "sync" => ~open[t])
      /\ UNCHANGED <<home, context, list, open, n, ids>>
      /\ calls' = IF kind[t] # "async" THEN [calls EXCEPT ![thread[t]] = Pop(@)] ELSE calls
      /\ \A s \in Task : finalized[s] => finalized'[s]
  <2>1. /\ pc[t] = "run" /\ Runs(t) /\ (kind[t] = "sync" => ~open[t])
        /\ UNCHANGED <<home, context, list, open, n, ids>>
        /\ calls' = IF kind[t] # "async" THEN [calls EXCEPT ![thread[t]] = Pop(@)] ELSE calls
        /\ finalized' = finalized \/ finalized' = [finalized EXCEPT ![t] = TRUE]
      BY ReturnEffect DEF Plain
  <2> QED
      BY <2>1 DEF TypeOK
<1>2. c \in Seq(Task) /\ Len(c) \in Nat
    BY DEF TypeOK
<1>3. \A i \in 1 .. Len(c) : c[i] \in Begun /\ c[i] \in Task /\ kind[c[i]] # "async"
    BY <1>2 DEF Stacked, StackedAt, Begun
<1>4. \A i \in 1 .. Len(c) : home[c[i]] \in Task
    BY <1>3 DEF Known, Begun
<1>5. CASE h # thread[t] \/ kind[t] = "async"
  <2>1. d = c
      BY <1>1, <1>5 DEF TypeOK
  <2>2. c # <<>> => 1 \in 1 .. Len(c)
      BY <1>2
  <2> QED
      BY <1>1, <1>4, <2>1, <2>2, OnTopKept
<1>6. CASE h = thread[t] /\ kind[t] # "async"
  <2> DEFINE k == Len(c)
             l == list[context[c[1]]]
  <2>1. d = Pop(c)
      BY <1>1, <1>6 DEF TypeOK
  <2>2. /\ k \in Nat \ {0} /\ c[k] = t /\ d \in Seq(Task) /\ Len(d) = k - 1
        /\ \A i \in 1 .. k - 1 : d[i] = c[i]
    <3>1. /\ k \in Nat \ {0} /\ c[k] = t /\ Pop(c) \in Seq(Task) /\ Len(Pop(c)) = k - 1
          /\ \A i \in 1 .. k - 1 : Pop(c)[i] = c[i]
        BY <1>1, <1>6, TopRuns
    <3> QED
        BY <2>1, <3>1
  <2> SUFFICES ASSUME d # <<>>, list'[context'[d[1]]] # None, ~finalized'[home'[d[1]]]
               PROVE  EndsWith(ids'[list'[context'[d[1]]]], Depth(h)', d, n')
      BY DEF OnTopAt
  <2>3. k - 1 \in Nat \ {0}
    <3>1. Len(d) \in Nat \ {0}
        BY <2>2, Tops
    <3> QED
        BY <2>2, <3>1
  <2>4. /\ 1 \in 1 .. k - 1 /\ k - 1 \in 1 .. k - 1 /\ k # 1 /\ k \in 1 .. k
        /\ \A i \in 1 .. k - 1 : i \in 1 .. k
      BY <2>2, <2>3
  <2>5. d[1] = c[1] /\ c # <<>> /\ 1 \in 1 .. k
      BY <2>2, <2>4
  <2>6. l # None /\ ~finalized[home[c[1]]]
      BY <1>1, <1>4, <2>4, <2>5
  <2>7. c[1] # t /\ context[c[1]] = context[t]
      BY <2>2, <2>4, <2>5 DEF Stacked, StackedAt, Nested, NestedAt
  <2>8. kind[t] = "sync"
    <3>1. kind[t] # "stream"
        BY <1>3, <2>5, <2>6, <2>7, Unmixed
    <3> QED
        BY <1>6, <3>1 DEF TypeOK
  <2>9. open[c[k - 1]]
    <3>1. ASSUME NEW p \in Task, kind[p] = "stream", context[p] = context[c[1]]
          PROVE  FALSE
        BY <2>6, <2>7, <2>8, <3>1, Unmixed
    <3>2. ~StreamIn(context[c[1]])
        BY <3>1 DEF StreamIn
    <3> QED
        BY <2>4, <3>2 DEF Waiting, WaitingAt
  <2>10. Depth(h) = k - 1 /\ Depth(h)' = k - 1
    <3>1. ~open[t]
        BY <1>1, <2>8
    <3>2. d[k - 1] = c[k - 1] /\ open'[d[k - 1]]
        BY <1>1, <2>2, <2>4, <2>9
    <3> HIDE DEF k
    <3> QED
        BY <2>2, <3>1, <3>2 DEF Depth, k
  <2>11. EndsWith(ids[l], k - 1, c, n)
      BY <2>5, <2>6, <2>10 DEF OnTop, OnTopAt
  <2>12. ids'[list'[context'[d[1]]]] = ids[l] /\ n' = n
      BY <1>1, <2>5
  <2> HIDE DEF k, l, c, d
  <2> QED
      BY <2>2, <2>10, <2>11, <2>12, EndsWithSame DEF d
<1> QED
    BY <1>5, <1>6

LEMMA OnTopHooks ==
    ASSUME TypeOK, Sited, Known, Stacked, Nested, Hooked, Waiting, Isolated, OnTop,
           [Next]_vars, Isolated', NEW h \in Thread, NEW t \in Task, Hooks(t)
    PROVE  OnTopAt(h)'
<1> DEFINE c == calls[h]
           k == Len(c)
           l == list[context[c[1]]]
           m == list'[context[c[1]]]
<1>1. /\ UNCHANGED <<kind, thread, pc, home, context, calls, finalized>> /\ Runs(t)
      /\ \A u \in Task : u # t => open'[u] = open[u] /\ n'[u] = n[u]
      /\ open[t] \/ pc[t] # "idle"
    BY HookEffect
<1>2. c \in Seq(Task) /\ k \in Nat
    BY DEF TypeOK
<1>3. \A i \in 1 .. k : /\ c[i] \in Task /\ kind[c[i]] # "async" /\ pc[c[i]] = "run"
                        /\ thread[c[i]] = h /\ context[c[i]] = context[c[1]]
                        /\ home[c[i]] = home[c[1]]
    BY <1>2 DEF Stacked, StackedAt, Nested, NestedAt
<1> SUFFICES ASSUME c # <<>>, m # None, ~finalized[home[c[1]]]
             PROVE  EndsWith(ids'[m], Depth(h)', c, n')
    BY <1>1 DEF OnTopAt
<1>4. k \in Nat \ {0} /\ 1 \in 1 .. k /\ k \in 1 .. k
  <2>1. k \in Nat \ {0}
      BY <1>2, Tops
  <2> QED
      BY <2>1
<1>5. /\ m \in Context \cup {None} /\ context[c[1]] \in Context /\ context[t] \in Context
      /\ ids[m] \in Seq(Id) /\ l \in Context \cup {None}
      /\ \A u \in Task : <<u, n[u] + 1>> \in Id
  <2>1. TypeOK'
      BY TypedStep
  <2>2. context[c[1]] \in Context /\ m \in Context \cup {None}
      BY <1>3, <1>4, <2>1 DEF TypeOK
  <2>3. \A u \in Task : n[u] + 1 \in Nat
      BY DEF TypeOK
  <2> QED
      BY <2>2, <2>3 DEF TypeOK, Id
\* Another's list.
<1>6. CASE t # c[k]
  <2>1. \A i \in 1 .. k : c[i] # t
    <3>1. kind[t] # "async" /\ pc[t] = "run" /\ thread[t] = h => c[k] = t
        BY <1>1, TopRuns
    <3> QED
        BY <1>3, <1>6, <3>1
  <2>2. m # list'[context[t]]
    <3>1. SUFFICES ASSUME m = list'[context[t]] PROVE FALSE
        OBVIOUS
    <3>2. c[1] # t /\ c[1] \in Task
        BY <1>3, <1>4, <2>1
    <3>3. thread[t] = h /\ kind[t] # "stream"
        BY <1>1, <1>3, <1>4, <3>1, <3>2, UnmixedAfter
    <3>4. kind[t] = "async" \/ pc[t] # "run"
        BY <1>1, <1>6, <3>3, TopRuns
    <3>5. kind[t] # "async"
        BY <1>1, <3>3, <3>4, OthersRun
    <3>6. kind[t] = "sync" /\ t \in Begun
      <4>1. kind[t] = "sync"
          BY <3>3, <3>5 DEF TypeOK
      <4>2. t \in Begun
          BY <1>1 DEF Sited, Begun
      <4> QED
          BY <4>1, <4>2
    <3>7. ~open[t]
        BY <3>4, <3>5, <3>6 DEF Hooked
    <3>8. BeginStep(t) \/ BeginStream(t)
        BY <3>7 DEF Hooks, Validate, EndStep, EndStream, EndsStep
    <3> QED
        BY <3>4, <3>5, <3>6, <3>8 DEF BeginStep, BeginStream
  <2>3. context[c[1]] # context[t] /\ m = l
    <3>1. context[c[1]] # context[t]
        BY <2>2
    <3>2. list' = list \/ list' = [list EXCEPT ![context[t]] = context[t]]
        BY HookEffect
    <3> QED
        BY <1>5, <3>1, <3>2 DEF TypeOK
  <2>4. ids'[m] = ids[m]
    <3>1. ids' = ids \/ ids' = Pushed(t) \/ EndsStep(t)
        BY DEF Hooks, BeginStep, BeginStream, Validate, EndStep, EndStream
    <3>2. ids' = Pushed(t) => ids'[m] = ids[m]
        BY <1>5, <2>2 DEF Pushed, TypeOK
    <3>3. EndsStep(t) => ids'[m] = ids[m]
        BY <1>5, <2>2, EndEffect
    <3> QED
        BY <3>1, <3>2, <3>3
  <2>5. OnTopAt(h)'
      BY <1>1, <1>3, <2>1, <2>3, <2>4, OnTopKept
  <2> QED
      BY <1>1, <2>5 DEF OnTopAt
\* The list of the call that runs.
<1>7. CASE t = c[k]
  <2>1. /\ kind[t] # "async" /\ pc[t] = "run" /\ thread[t] = h
        /\ context[t] = context[c[1]] /\ home[t] = home[c[1]]
        /\ State(t) = home[t] /\ home[t] \in Task /\ home[t] # None
    <3>1. kind[t] # "async" /\ pc[t] = "run" /\ thread[t] = h
        BY <1>3, <1>4, <1>7
    <3>2. State(t) = home[t] /\ home[t] \in Begun
        BY <1>1, <3>1, TopFinds
    <3> QED
        BY <1>3, <1>4, <1>7, <3>1, <3>2, GuardAssumption DEF Begun
  <2>2. \A i \in 1 .. k - 1 : c[i] # t /\ i \in 1 .. k
    <3>1. \A i \in 1 .. k - 1 : i \in 1 .. k /\ i # k
        BY <1>4
    <3>2. \A i, j \in 1 .. k : c[i] = c[j] => i = j
        BY DEF Stacked, StackedAt
    <3> QED
        BY <1>4, <1>7, <3>1, <3>2
  <2>3. kind[t] = "stream" => k = 1
    <3>1. SUFFICES ASSUME k # 1 PROVE kind[t] # "stream"
        OBVIOUS
    <3>2. c[1] # t
      <4> HIDE DEF k
      <4>1. 1 \in 1 .. k - 1
          BY <1>4, <3>1
      <4> QED
          BY <2>2, <4>1
    <3> QED
        BY <1>1, <1>3, <1>4, <2>1, <3>2, UnmixedAfter
  <2>4. \A i \in 1 .. k - 1 : n'[c[i]] = n[c[i]]
      BY <1>1, <1>3, <2>2
  <2>5. Depth(h) = (IF open[t] THEN k ELSE k - 1) /\ Depth(h)' = (IF open'[t] THEN k ELSE k - 1)
      BY <1>1, <1>7 DEF Depth
  <2>6. l # None => EndsWith(ids[l], Depth(h), c, n)
      BY DEF OnTop, OnTopAt
  \* A step begins.
  <2>7. ASSUME BeginsStep(t, State(t)), ids' = Pushed(t)
        PROVE  EndsWith(ids'[m], Depth(h)', c, n')
    <3>1. /\ ~open[t] /\ open'[t] /\ n'[t] = n[t] + 1
          /\ l # None => m = l
        BY <2>1, <2>7, BeginEffect
    <3>2. ids'[m] = Append(ids[m], <<t, n[t] + 1>>)
        BY <1>5, <2>1, <2>7 DEF Pushed, TypeOK
    <3>3. EndsWith(ids[m], k - 1, c, n)
      <4>1. CASE l # None
          BY <2>5, <2>6, <3>1, <4>1
      <4>2. CASE l = None
        <5>1. k = 1
          <6>1. SUFFICES ASSUME k # 1 PROVE FALSE
              OBVIOUS
          <6>2. 1 \in 1 .. k - 1
            <7> HIDE DEF k
            <7> QED
                BY <1>4, <6>1
          <6>3. kind[t] = "sync"
              BY <2>1, <2>3, <6>1 DEF TypeOK
          <6>4. ~(kind[c[1]] = "sync" /\ open[c[1]])
              BY <1>3, <1>4, <4>2 DEF Hooked
          <6>5. PICK p \in Task : kind[p] = "stream" /\ context[p] = context[c[1]]
              BY <6>2, <6>4 DEF Waiting, WaitingAt, StreamIn
          <6> QED
              BY <1>1, <2>1, <6>3, <6>5, UnmixedAfter
        <5>2. k - 1 = 0
            BY <5>1
        <5>3. EndsWith(ids[m], 0, c, n)
            BY <1>5, EndsWithNone
        <5> QED
            BY <5>2, <5>3
      <4> QED
          BY <4>1, <4>2
    <3>4. k - 1 \in Nat /\ k - 1 + 1 = k
        BY <1>4
    <3> DEFINE id == <<t, n[t] + 1>>
               q == k - 1
               s == ids[m]
               r == n'
    <3>5. id \in Id /\ id = <<c[k], r[c[k]]>> /\ s \in Seq(Id)
        BY <1>5, <1>7, <3>1
    <3>6. \A i \in 1 .. q : c[i] = c[i] /\ r[c[i]] = n[c[i]]
        BY <2>4
    <3>7. q \in Nat /\ q + 1 = k
        BY <3>4
    <3>8. EndsWith(s, q, c, n)
        BY <3>3
    <3>9. Depth(h)' = k /\ ids'[m] = Append(s, id)
        BY <2>5, <3>1, <3>2
    <3> HIDE DEF id, q, s, r
    <3>10. EndsWith(Append(s, id), q + 1, c, r)
        BY <3>5, <3>6, <3>7, <3>8, EndsWithMore
    <3> QED
        BY <3>7, <3>9, <3>10 DEF r
  \* A step ends.
  <2>8. ASSUME EndsStep(t) PROVE EndsWith(ids'[m], Depth(h)', c, n')
    <3>1. /\ open[t] /\ ~open'[t] /\ n' = n /\ m = l
          /\ hook[t] # None => ids'[l] = Pop(ids[l])
        BY <2>1, <2>8, EndEffect
    <3>2. hook[t] # None
        BY <2>1, <3>1 DEF Hooked
    <3>3. EndsWith(ids[l], k, c, n)
        BY <2>5, <2>6, <3>1
    <3>4. EndsWith(Pop(ids[l]), k - 1, c, n)
        BY <1>4, <1>5, <3>1, <3>3, EndsWithLess
    <3> QED
        BY <2>5, <3>1, <3>2, <3>4
  <2>9. CASE BeginStep(t)
      BY <1>1, <2>1, <2>7, <2>9, BeginRecord
  <2>10. CASE BeginStream(t)
      BY <2>1, <2>7, <2>10 DEF BeginStream
  <2>11. CASE EndStep(t) \/ EndStream(t)
      BY <2>8, <2>11 DEF EndStep, EndStream
  <2>12. CASE Validate(t)
    <3>1. UNCHANGED <<open, n, ids, list>>
        BY <2>12 DEF Validate
    <3> QED
        BY <2>5, <2>6, <3>1
  <2> QED
      BY <2>9, <2>10, <2>11, <2>12 DEF Hooks
<1> QED
    BY <1>6, <1>7

LEMMA OnTopStep ==
    /\ TypeOK /\ Sited /\ Known /\ Stacked /\ Nested /\ Hooked /\ Waiting /\ OnTop
    /\ [Next]_vars
    => OnTop'
<1> SUFFICES ASSUME TypeOK, Sited, Known, Stacked, Nested, Hooked, Waiting, OnTop,
                    [Next]_vars, Isolated', NEW h \in Thread
             PROVE  OnTopAt(h)'
    BY DEF OnTop
<1>1. Isolated
    BY StaysIsolated
<1>2. ASSUME NEW t \in Task, NEW x \in Context, NEW y \in Context,
             Entering(t, x, y), Calling(t, x, ctx[y])
      PROVE  OnTopAt(h)'
    BY <1>1, <1>2, OnTopCall
<1>3. ASSUME NEW t \in Task, Hooks(t) PROVE OnTopAt(h)'
    BY <1>1, <1>3, OnTopHooks
<1>4. ASSUME NEW t \in Task, Leave(t) \/ \E packed \in BOOLEAN : Exit(t, packed)
      PROVE  OnTopAt(h)'
    BY <1>1, <1>4, OnTopReturn
<1>5. CASE UNCHANGED vars
    BY <1>1, <1>5 DEF vars, given, callVars, stepVars, sessionVars, OnTop, OnTopAt, Depth
<1> QED
    BY <1>2, <1>3, <1>4, <1>5, Steps, Entries DEF Hooks

-----------------------------------------------------------------------------
(* Results.                                                                *)

\* The iteration a validator takes for the current one is that of its call, if
\* it has a record in a session that is not finalized.
LEMMA OwnIteration ==
    ASSUME TypeOK, Sited, Known, Stacked, Nested, Hooked, Recorded, Owned, OnTop, Isolated,
           NEW t \in Task, Validate(t)
    PROVE  IterationOf(t) = <<t, n[t]>>
<1> DEFINE l == list[context[t]]
           id == IterationOf(t)
           u == id[1]
           s == State(t)
<1>1. /\ open[t] /\ Runs(t) /\ s \in Task /\ ~finalized[s] /\ id \in DOMAIN records[s]
    BY ValidateRecord
<1>2. /\ id \in Id /\ open[u] /\ n[u] = id[2] /\ kind[u] = "sync" /\ hook[u] = s
  <2>1. id \in Id
      BY <1>1 DEF TypeOK
  <2> HIDE DEF id
  <2> QED
      BY <1>1, <2>1 DEF Recorded
<1>3. u \in Task /\ id = <<u, n[u]>>
    BY <1>2 DEF Id
<1>4. l \in Context \cup {None} /\ ids[l] \in Seq(Id)
    BY DEF TypeOK
<1>5. ids[l] # <<>>
    BY <1>2 DEF IterationOf, List, Id
<1>6. Len(ids[l]) \in 1 .. Len(ids[l]) /\ id = ids[l][Len(ids[l])]
  <2>1. id = Last(ids[l])
      BY <1>5 DEF IterationOf, List
  <2>2. Len(ids[l]) \in Nat \ {0} /\ Last(ids[l]) = ids[l][Len(ids[l])]
      BY <1>4, <1>5, Tops
  <2> QED
      BY <2>1, <2>2
<1>7. l # None /\ list[context[u]] = l
    BY <1>4, <1>6 DEF Owned
<1>8. pc[u] = "run" /\ hook[u] = home[u]
    BY <1>2, <1>3 DEF Hooked
<1> SUFFICES ASSUME u # t PROVE FALSE
    BY <1>3
<1>9. thread[u] = thread[t] /\ kind[t] # "stream"
    BY <1>3, <1>7, Unmixed
<1> DEFINE h == thread[t]
           c == calls[h]
           k == Len(c)
<1>10. c \in Seq(Task) /\ h \in Thread
    BY DEF TypeOK
<1>11. PICK i \in 1 .. k : c[i] = u
  <2>1. u \in Task /\ thread[u] = h /\ kind[u] # "async" /\ pc[u] = "run"
      BY <1>2, <1>3, <1>8, <1>9
  <2> HIDE DEF u
  <2> QED
      BY <1>10, <2>1 DEF Stacked, StackedAt
<1>12. c # <<>> /\ k \in Nat \ {0} /\ 1 \in 1 .. k /\ k \in 1 .. k
  <2>1. c # <<>>
      BY <1>10, <1>11
  <2>2. k \in Nat \ {0}
      BY <1>10, <2>1, Tops
  <2> QED
      BY <2>1, <2>2
<1>13. kind[t] = "sync"
  <2>1. kind[t] # "async"
      BY <1>1, <1>12, OthersRun
  <2> QED
      BY <1>9, <2>1 DEF TypeOK
<1>14. c[k] = t
  <2>1. pc[t] = "run"
      BY <1>1, <1>13 DEF Hooked
  <2> QED
      BY <1>1, <1>13, <2>1, TopRuns
<1>15. Depth(h) = k
    BY <1>1, <1>14 DEF Depth
<1>16. home[c[1]] = s /\ context[c[1]] = context[t]
    BY <1>2, <1>8, <1>10, <1>11, <1>12, <1>14 DEF Nested, NestedAt
<1>17. EndsWith(ids[l], k, c, n)
    BY <1>1, <1>7, <1>10, <1>12, <1>15, <1>16 DEF OnTop, OnTopAt
<1>18. ids[l][Len(ids[l]) - k + k] = <<c[k], n[c[k]]>>
    BY <1>12, <1>17 DEF EndsWith
<1>19. ids[l][Len(ids[l])] = <<t, n[t]>>
  <2>1. Len(ids[l]) \in Nat
      BY <1>4
  <2>2. Len(ids[l]) - k + k = Len(ids[l])
      BY <1>12, <2>1
  <2> QED
      BY <1>14, <1>18, <2>2
<1> QED
    BY <1>3, <1>6, <1>19

LEMMA ResultsStep ==
    /\ TypeOK /\ Sited /\ Known /\ Stacked /\ Nested /\ Hooked /\ Recorded /\ Owned /\ OnTop
    /\ ResultsStayHome /\ [Next]_vars
    => ResultsStayHome'
<1> SUFFICES ASSUME TypeOK, Sited, Known, Stacked, Nested, Hooked, Recorded, Owned, OnTop,
                    ResultsStayHome, [Next]_vars, Isolated', NEW s \in Task
             PROVE  /\ \A id \in DOMAIN records'[s] : records'[s][id] \subseteq {id}
                    /\ \A step \in steps'[s] : step.results \subseteq {step.of}
    BY DEF ResultsStayHome
<1> DEFINE Good == /\ \A id \in DOMAIN records'[s] : records'[s][id] \subseteq {id}
                   /\ \A step \in steps'[s] : step.results \subseteq {step.of}
<1>0. /\ Isolated
      /\ \A v \in Task :
            /\ \A id \in DOMAIN records[v] : records[v][id] \subseteq {id}
            /\ \A step \in steps[v] : step.results \subseteq {step.of}
  <2>1. Isolated
      BY StaysIsolated
  <2> QED
      BY <2>1 DEF ResultsStayHome
<1>1. ASSUME NEW v \in Session, NEW step, Emit(v, step), step.results \subseteq {step.of}
      PROVE  \A st \in steps'[s] : st.results \subseteq {st.of}
  <2>1. \A st \in steps'[s] : st \in steps[s] \/ st = step
      BY <1>1, Emits DEF TypeOK
  <2> QED
      BY <1>0, <1>1, <2>1
<1>2. ASSUME NEW t \in Task, NEW x \in Context, NEW y \in Context,
             Entering(t, x, y), Calling(t, x, ctx[y])
      PROVE  Good
  <2>1. records' = records
      BY <1>2 DEF Calling
  <2>2. PICK v \in Session : Emit(v, Start(t))
    <3>1. ctx[y] \in Session /\ thread[t] \in Thread /\ t \in Session
        BY DEF TypeOK, Session
    <3>2. Found(ctx[y], thread[t]) \in Session
        BY <3>1, FoundTyped
    <3> QED
        BY <1>2, <3>1, <3>2 DEF Calling, Joining, Opening
  <2>3. Start(t).results \subseteq {Start(t).of}
      BY DEF Start
  <2> QED
      BY <1>0, <1>1, <2>1, <2>2, <2>3
<1>3. ASSUME NEW t \in Task, BeginStep(t) PROVE Good
    BY <1>0, <1>3, BeginRecord
<1>4. ASSUME NEW t \in Task, BeginStream(t) PROVE Good
    BY <1>0, <1>4 DEF BeginStream, BeginsStep
<1>5. ASSUME NEW t \in Task, Validate(t) PROVE Good
  <2>1. IterationOf(t) = <<t, n[t]>>
      BY <1>0, <1>5, OwnIteration
  <2> QED
      BY <1>0, <1>5, <2>1, ValidateRecord
<1>6. ASSUME NEW t \in Task, EndStep(t) PROVE Good
  <2> DEFINE id == <<t, n[t]>>
             v == hook[t]
  <2>1. CASE UNCHANGED <<steps, records>>
      BY <1>0, <2>1
  <2>2. CASE ~UNCHANGED <<steps, records>>
    <3>1. /\ v # None /\ id \in DOMAIN records[v] /\ Emit(v, Step(id, records[v][id]))
          /\ DOMAIN records'[v] = DOMAIN records[v] \ {id}
          /\ \A i \in DOMAIN records'[v] : records'[v][i] = records[v][i]
          /\ \A w \in Task : w # v => records'[w] = records[w]
        BY <1>6, <2>2, EndRecord
    <3>2. v \in Session /\ v \in Task
        BY <3>1 DEF TypeOK, Session
    <3> HIDE DEF v, id
    <3>3. Step(id, records[v][id]).results \subseteq {Step(id, records[v][id]).of}
        BY <1>0, <3>1, <3>2 DEF Step
    <3>4. \A st \in steps'[s] : st.results \subseteq {st.of}
        BY <1>1, <3>1, <3>2, <3>3
    <3>5. \A i \in DOMAIN records'[s] : records'[s][i] \subseteq {i}
        BY <1>0, <3>1, <3>2
    <3> QED
        BY <3>4, <3>5
  <2> QED
      BY <2>1, <2>2
<1>7. ASSUME NEW t \in Task, EndStream(t) PROVE Good
  <2>1. records' = records /\ Emit(hook[t], Step(<<t, n[t]>>, {})) /\ hook[t] \in Session
      BY <1>7 DEF EndStream, TypeOK
  <2>2. Step(<<t, n[t]>>, {}).results \subseteq {Step(<<t, n[t]>>, {}).of}
      BY DEF Step
  <2> QED
      BY <1>0, <1>1, <2>1, <2>2
<1>8. ASSUME NEW t \in Task, Leave(t) \/ \E packed \in BOOLEAN : Exit(t, packed)
      PROVE  Good
  <2>1. steps' = steps /\ (records' = records \/ records' = [records EXCEPT ![t] = NoRecords])
      BY <1>8, ReturnEffect
  <2>2. records'[s] = records[s] \/ records'[s] = NoRecords
      BY <2>1 DEF TypeOK
  <2>3. DOMAIN NoRecords = {}
      BY DEF NoRecords
  <2> QED
      BY <1>0, <2>1, <2>2, <2>3
<1>9. UNCHANGED vars => Good
    BY <1>0 DEF vars, stepVars
<1> HIDE DEF Good
<1>10. Good
    BY <1>2, <1>3, <1>4, <1>5, <1>6, <1>7, <1>8, <1>9, Steps, Entries
<1> QED
    BY <1>10 DEF Good

-----------------------------------------------------------------------------
(* What a context holds when no plain call is in progress in it.           *)

\* While a plain call that opened a session is in progress, its token holds
\* the value.
Rest(x, h) ==
    IF calls[h] # <<>> /\ context[calls[h][1]] = x /\ home[calls[h][1]] = calls[h][1]
    THEN prior[calls[h][1]] ELSE ctx[x]

LEMMA RestCall ==
    ASSUME TypeOK, Sited, Known, Stacked, Nested,
           NEW t \in Task, NEW x \in Context, NEW y \in Context,
           Entering(t, x, y), Calling(t, x, ctx[y]),
           NEW h \in Thread, NEW z \in Context, ThreadOf(z) = h, z # t
    PROVE  Rest(z, h)' = Rest(z, h)
<1> DEFINE c == calls[h]
           d == calls'[h]
<1>1. c \in Seq(Task) /\ Len(c) \in Nat /\ t \notin Begun
    BY EntrySite DEF TypeOK, Begun
<1>2. \A i \in 1 .. Len(c) : /\ c[i] # t /\ c[i] \in Task
                             /\ home'[c[i]] = home[c[i]] /\ context'[c[i]] = context[c[i]]
                             /\ prior'[c[i]] = prior[c[i]]
  <2>1. \A i \in 1 .. Len(c) : c[i] # t /\ c[i] \in Task
      BY <1>1 DEF Stacked, StackedAt, Begun
  <2> QED
      BY <2>1, EntrySite
<1>3. c # <<>> => 1 \in 1 .. Len(c)
    BY <1>1
<1>4. CASE h # thread[t]
  <2>1. d = c /\ ctx'[z] = ctx[z]
      BY <1>4, EntrySite
  <2> QED
      BY <1>2, <1>3, <2>1 DEF Rest
<1>5. CASE h = thread[t] /\ c # <<>>
  <2>1. Directly(t, x) /\ x = y /\ kind[t] # "async"
      BY <1>5, EntrySite DEF Entering, InCopy, Directly, Plain
  <2>2. d = Append(c, t)
      BY <1>5, <2>1, EntrySite
  <2>3. d # <<>> /\ d[1] = c[1]
      BY <1>1, <1>3, <1>5, <2>2, Pushes
  <2>4. ctx' = ctx
      BY <1>5, <2>1, Inside
  <2> QED
      BY <1>2, <1>3, <1>5, <2>3, <2>4 DEF Rest
<1>6. CASE h = thread[t] /\ c = <<>>
  <2>1. Rest(z, h) = ctx[z]
      BY <1>6 DEF Rest
  <2>2. d = <<>> \/ (d # <<>> /\ d[1] = t)
      BY <1>6, EntrySite
  <2>3. context'[t] = x /\ prior'[t] = ctx[y] /\ (z # x => ctx'[z] = ctx[z])
      BY EntrySite
  <2>4. z = x => x = y
      BY DEF Entering
  <2>5. CASE z # x
      BY <2>1, <2>2, <2>3, <2>5 DEF Rest
  <2>6. CASE z = x /\ home'[t] = t
    <3>1. d # <<>>
      <4>1. Directly(t, x)
          BY <2>6 DEF Entering
      <4> QED
          BY <1>6, <4>1, EntrySite DEF Directly, Plain
    <3> QED
        BY <2>1, <2>2, <2>3, <2>4, <2>6, <3>1 DEF Rest
  <2>7. CASE z = x /\ home'[t] # t
    <3>1. Joining(t, x, ctx[y])
        BY <2>7 DEF Calling, Opening, TypeOK
    <3>2. ctx'[z] = ctx[z]
        BY <2>4, <2>7, <3>1 DEF Joining, TypeOK
    <3> QED
        BY <2>1, <2>2, <2>7, <3>2 DEF Rest
  <2> QED
      BY <2>5, <2>6, <2>7
<1> QED
    BY <1>4, <1>5, <1>6

LEMMA RestReturn ==
    ASSUME TypeOK, Sited, Stacked, Nested, NEW t \in Task,
           Leave(t) \/ \E packed \in BOOLEAN : Exit(t, packed),
           NEW h \in Thread, NEW z \in Context, ThreadOf(z) = h,
           kind[t] = "async" => z # t
    PROVE  Rest(z, h)' = Rest(z, h)
<1> DEFINE c == calls[h]
           d == calls'[h]
<1>1. /\ pc[t] = "run" /\ Runs(t) /\ UNCHANGED <<home, context, prior>>
      /\ calls' = IF kind[t] # "async" THEN [calls EXCEPT ![thread[t]] = Pop(@)] ELSE calls
      /\ \/ home[t] # t /\ ctx' = ctx
         \/ home[t] = t /\ ctx' = [ctx EXCEPT ![context[t]] = prior[t]]
    BY ReturnEffect DEF Plain
<1>2. ThreadOf(context[t]) = thread[t] /\ (kind[t] = "async" => context[t] = t)
    BY DEF Sited
<1>3. CASE h # thread[t]
    BY <1>1, <1>2, <1>3 DEF Rest, TypeOK
<1>4. CASE h = thread[t] /\ kind[t] = "async"
  <2>1. ctx'[z] = ctx[z]
      BY <1>1, <1>2, <1>4 DEF TypeOK
  <2> QED
      BY <1>1, <1>4, <2>1 DEF Rest
<1>5. CASE h = thread[t] /\ kind[t] # "async"
  <2> DEFINE k == Len(c)
  <2>1. d = Pop(c)
      BY <1>1, <1>5 DEF TypeOK
  <2>2. /\ k \in Nat \ {0} /\ c # <<>> /\ c[k] = t /\ d \in Seq(Task) /\ Len(d) = k - 1
        /\ \A i \in 1 .. k - 1 : d[i] = c[i]
    <3>1. /\ k \in Nat \ {0} /\ c # <<>> /\ c[k] = t
          /\ Pop(c) \in Seq(Task) /\ Len(Pop(c)) = k - 1
          /\ \A i \in 1 .. k - 1 : Pop(c)[i] = c[i]
        BY <1>1, <1>5, TopRuns
    <3> QED
        BY <2>1, <3>1
  <2>3. CASE k = 1
    <3>1. d = <<>> /\ c[1] = t
        BY <2>2, <2>3
    <3> QED
        BY <1>1, <2>2, <3>1 DEF Rest, TypeOK
  <2>4. CASE k # 1
    <3>1. k \in Nat \ {0}
        BY <2>2
    <3> HIDE DEF k
    <3>2. 1 \in 1 .. k - 1 /\ k \in 1 .. k /\ k - 1 # 0
        BY <2>4, <3>1
    <3>3. d[1] = c[1] /\ d # <<>>
        BY <2>2, <3>2
    <3> USE DEF k
    <3>4. home[t] # t
        BY <2>2, <2>4, <3>2 DEF Nested, NestedAt
    <3> QED
        BY <1>1, <2>2, <3>3, <3>4 DEF Rest
  <2> QED
      BY <2>3, <2>4
<1> QED
    BY <1>3, <1>4, <1>5

\* A thread's own context is at rest without a session; an async call's context
\* holds its session until it is over, and none if its step found none.
Resting ==
    /\ \A h \in Thread : Rest(h, h) = None
    /\ \A t \in Task : kind[t] = "async" /\ pc[t] = "run" => ctx[t] = t
    /\ \A t \in Task : kind[t] = "async" /\ open[t] /\ list[t] = None
          => Rest(t, thread[t]) = None

LEMMA RestingStep ==
    TypeOK /\ Sited /\ Known /\ Stacked /\ Nested /\ Hooked /\ Resting /\ [Next]_vars
      => Resting'
<1> SUFFICES ASSUME TypeOK, Sited, Known, Stacked, Nested, Hooked, Resting, [Next]_vars
             PROVE  Resting'
    OBVIOUS
<1>1. /\ \A h \in Thread : h \in Context /\ ThreadOf(h) = h /\ h \notin Task
      /\ \A u \in Task : u \in Context /\ ThreadOf(u) = thread[u] /\ u # None
      /\ \A u \in Task : thread[u] \in Thread
    BY GuardAssumption DEF Context, ThreadOf, TypeOK
<1>2. ASSUME NEW u \in Task, kind'[u] = "async", open[u], list'[u] = None
      PROVE  /\ kind[u] = "async" /\ u \in Begun /\ list[u] = None
             /\ Rest(u, thread[u]) = None
  <2>1. kind[u] = "async" /\ u \in Begun /\ context[u] = u
      BY <1>2, ListStays DEF Sited
  <2>2. list[u] = None
      BY <1>2, <2>1, ListStays
  <2> QED
      BY <1>2, <2>1, <2>2 DEF Resting
<1>3. ASSUME NEW t \in Task, NEW x \in Context, NEW y \in Context,
             Entering(t, x, y), Calling(t, x, ctx[y])
      PROVE  Resting'
  <2>1. UNCHANGED <<kind, thread, open>> /\ pc[t] = "idle" /\ t \notin Begun
      BY <1>3, EntrySite DEF Calling, Begun
  <2>2. \A h \in Thread : Rest(h, h)' = None
      BY <1>1, <1>3, RestCall DEF Resting
  <2>3. ASSUME NEW u \in Task, kind[u] = "async", pc'[u] = "run" PROVE ctx'[u] = u
    <3>1. CASE u = t
      <4>1. Opening(t, x, ctx[y])
          BY <1>3, <2>3, <3>1 DEF Calling, Joining, Plain
      <4>2. x = t
          BY <1>3, <2>3, <3>1 DEF Entering, Directly, Plain
      <4> QED
          BY <3>1, <4>1, <4>2 DEF Opening, TypeOK
    <3>2. CASE u # t
      <4>1. ctx[u] = u
          BY <1>3, <2>3, <3>2, EntrySite DEF Resting
      <4>2. CASE x # u
          BY <1>1, <1>3, <4>1, <4>2, EntrySite
      <4>3. CASE x = u
        <5>1. x = y /\ Plain(t)
            BY <1>3, <3>2, <4>3 DEF Entering, Directly
        <5>2. Found(ctx[y], thread[t]) # None
            BY <1>1, <4>1, <4>3, <5>1 DEF Found
        <5>3. Joining(t, x, ctx[y])
            BY <1>3, <5>1, <5>2 DEF Calling, Opening
        <5> QED
            BY <4>1, <4>3, <5>1, <5>3 DEF Joining, TypeOK
      <4> QED
          BY <4>2, <4>3
    <3> QED
        BY <3>1, <3>2
  <2>4. ASSUME NEW u \in Task, kind'[u] = "async", open'[u], list'[u] = None
        PROVE  Rest(u, thread[u])' = None
    <3>1. u # t /\ Rest(u, thread[u]) = None
        BY <1>2, <2>1, <2>4
    <3>2. PICK h \in Thread : h = thread[u] /\ ThreadOf(u) = h /\ u \in Context
        BY <1>1
    <3>3. Rest(u, h)' = Rest(u, h)
        BY <1>3, <3>1, <3>2, RestCall
    <3> QED
        BY <2>1, <3>1, <3>2, <3>3 DEF Rest
  <2> QED
      BY <2>1, <2>2, <2>3, <2>4 DEF Resting
<1>4. ASSUME NEW t \in Task, Hooks(t) PROVE Resting'
  <2>1. UNCHANGED <<kind, thread, pc, home, context, ctx, prior, calls>>
      BY <1>4, HookEffect
  <2>2. \A z, h : Rest(z, h)' = Rest(z, h)
      BY <2>1 DEF Rest
  <2>3. ASSUME NEW u \in Task, kind'[u] = "async", open'[u], list'[u] = None
        PROVE  Rest(u, thread[u]) = None
    <3>1. CASE open[u]
        BY <1>2, <2>3, <3>1
    <3>2. CASE ~open[u]
      <4>1. u = t
          BY <1>4, <2>3, <3>2, HookEffect
      <4>2. BeginStream(u)
        <5>1. ~Validate(u) /\ ~EndStep(u) /\ ~EndStream(u)
            BY <3>2 DEF Validate, EndStep, EndStream, EndsStep
        <5> QED
            BY <1>4, <2>1, <2>3, <4>1, <5>1 DEF Hooks, BeginStep
      <4>3. BeginsStep(u, State(u)) /\ Runs(u) /\ kind[u] = "async" /\ context[u] = u
          BY <2>1, <2>3, <4>2 DEF BeginStream, BeginsStep, Sited
      <4>4. State(u) = None
          BY <2>3, <4>3, BeginEffect
      <4>5. calls[thread[u]] = <<>>
          BY <4>3, OthersRun
      <4>6. ctx[u] = None
          BY <4>3, <4>4 DEF State, Found
      <4> QED
          BY <4>5, <4>6 DEF Rest
    <3> QED
        BY <3>1, <3>2
  <2>4. \A u \in Task : Rest(u, thread[u])' = Rest(u, thread[u])
      BY <2>1 DEF Rest
  <2> QED
      BY <2>1, <2>2, <2>3, <2>4 DEF Resting
<1>5. ASSUME NEW t \in Task, Leave(t) \/ \E packed \in BOOLEAN : Exit(t, packed)
      PROVE  Resting'
  <2>1. /\ pc[t] = "run" /\ Runs(t) /\ pc' = [pc EXCEPT ![t] = "over"]
        /\ UNCHANGED <<kind, thread, home, context, list, prior, open>>
        /\ \/ home[t] # t /\ ctx' = ctx
           \/ home[t] = t /\ ctx' = [ctx EXCEPT ![context[t]] = prior[t]]
      BY <1>5, ReturnEffect
  <2>2. \A h \in Thread : Rest(h, h)' = None
      BY <1>1, <1>5, RestReturn DEF Resting
  <2>3. ASSUME NEW u \in Task, kind[u] = "async", pc'[u] = "run" PROVE ctx'[u] = u
    <3>1. u # t /\ pc[u] = "run"
        BY <2>1, <2>3 DEF TypeOK
    <3>2. ctx[u] = u
        BY <2>3, <3>1 DEF Resting
    <3>3. SUFFICES ASSUME home[t] = t, context[t] = u PROVE FALSE
        BY <1>1, <2>1, <3>2 DEF TypeOK
    <3>4. kind[t] # "async"
        BY <3>1, <3>3 DEF Sited
    <3>5. State(t) = home[t]
        BY <2>1, <3>4, TopFinds
    <3>6. State(t) = u
        BY <1>1, <3>2, <3>3 DEF State, Found
    <3> QED
        BY <3>1, <3>3, <3>5, <3>6
  <2>4. ASSUME NEW u \in Task, kind'[u] = "async", open'[u], list'[u] = None
        PROVE  Rest(u, thread[u])' = None
    <3>1. Rest(u, thread[u]) = None /\ kind[u] = "async"
        BY <1>2, <2>1, <2>4
    <3>2. u # t
      <4>1. SUFFICES ASSUME u = t PROVE FALSE
          OBVIOUS
      <4>2. calls[thread[u]] = <<>> /\ ctx[u] = u
          BY <2>1, <3>1, <4>1, OthersRun DEF Resting
      <4> QED
          BY <1>1, <3>1, <4>2 DEF Rest
    <3>3. PICK h \in Thread : h = thread[u] /\ ThreadOf(u) = h /\ u \in Context
        BY <1>1
    <3>4. Rest(u, h)' = Rest(u, h)
        BY <1>5, <3>2, <3>3, RestReturn
    <3> QED
        BY <2>1, <3>1, <3>3, <3>4 DEF Rest
  <2> QED
      BY <2>1, <2>2, <2>3, <2>4 DEF Resting
<1>6. CASE UNCHANGED vars
    BY <1>6 DEF vars, given, callVars, stepVars, Resting, Rest
<1> QED
    BY <1>3, <1>4, <1>5, <1>6, Steps, Entries DEF Hooks

-----------------------------------------------------------------------------
(* A thread that serves plain calls only.                                  *)

\* Its stack of sessions holds the one of the outermost call in progress, which
\* opened it, and its contexts are at rest without a session.
AloneAt(h) ==
    /\ calls[h] = <<>> => fallback[h] = <<>>
    /\ calls[h] # <<>> => /\ fallback[h] = <<calls[h][1]>>
                          /\ home[calls[h][1]] = calls[h][1]
    /\ \A t \in Begun : thread[t] = h => Rest(context[t], h) = None

Alone == \A h \in Thread : SyncOnly(h) /\ Isolated => AloneAt(h)

\* The first call on the stack of such a thread finds no session.
LEMMA NoneFound ==
    ASSUME TypeOK, Sited, Hooked, Resting, Isolated', NEW h \in Thread, SyncOnly(h), AloneAt(h),
           NEW t \in Task, NEW x \in Context, NEW y \in Context,
           Entering(t, x, y), Calling(t, x, ctx[y]), thread[t] = h, calls[h] = <<>>
    PROVE  ctx[y] = None
<1>1. t \notin Begun /\ \A u \in Task : u # t => context'[u] = context[u]
    BY EntrySite DEF Begun
<1>2. CASE Directly(t, x) /\ y = x
  <2>1. CASE x = h
      BY <1>2, <2>1 DEF Resting, Rest
  <2>2. ASSUME NEW p \in Task, thread[p] = h, open[p], context[p] = x
        PROVE  ctx[y] = None
    <3>1. p \in Begun
        BY <2>2 DEF Sited
    <3> QED
        BY <1>2, <2>2, <3>1 DEF AloneAt, Rest
  <2> QED
      BY <1>2, <2>1, <2>2 DEF Directly
<1>3. CASE InCopy(t, y) /\ x = t
  <2>1. CASE y \in Thread /\ calls[y] = <<>>
      BY <2>1 DEF Resting, Rest
  <2>2. ASSUME NEW p \in Task \ {t}, open[p], Runs(p), context[p] = y
        PROVE  ctx[y] = None
    <3>1. p \in Begun /\ y # t
        BY <1>1, <2>2 DEF Sited, Begun
    <3>2. CASE list[y] # None
      <4>1. list' = [list EXCEPT ![t] = list[y]] /\ UNCHANGED <<kind, thread>>
          BY <1>3 DEF InCopy, Calling
      <4>2. list'[context'[t]] = list[y] /\ list'[context'[p]] = list[y]
          BY <1>1, <1>3, <2>2, <3>1, <4>1, EntrySite DEF TypeOK
      <4>3. thread[p] = h /\ kind[p] # "stream"
          BY <2>2, <3>2, <4>1, <4>2, UnmixedAfter
      <4>4. kind[p] # "async"
          BY <4>3 DEF SyncOnly, Plain
      <4>5. kind[p] = "sync"
          BY <4>3, <4>4 DEF TypeOK
      <4>6. pc[p] = "run"
          BY <2>2, <4>5 DEF Hooked
      <4> QED
          BY <2>2, <4>3, <4>4, <4>6, TopRuns
    <3>3. CASE list[y] = None
      <4>1. kind[p] = "async"
          BY <2>2, <3>3 DEF Hooked
      <4>2. calls[thread[p]] = <<>> /\ context[p] = p
          BY <2>2, <4>1, OthersRun DEF Sited
      <4> QED
          BY <2>2, <3>3, <4>1, <4>2 DEF Resting, Rest
    <3> QED
        BY <3>2, <3>3
  <2> QED
      BY <1>3, <2>1, <2>2 DEF InCopy
<1> QED
    BY <1>2, <1>3 DEF Entering

LEMMA AloneCall ==
    ASSUME TypeOK, Sited, Known, Stacked, Nested, Hooked, Resting, Isolated',
           NEW h \in Thread, SyncOnly(h), AloneAt(h),
           NEW t \in Task, NEW x \in Context, NEW y \in Context,
           Entering(t, x, y), Calling(t, x, ctx[y])
    PROVE  AloneAt(h)'
<1> DEFINE c == calls[h]
           d == calls'[h]
<1>1. /\ t \notin Begun /\ \A u \in Begun' : u # t => u \in Begun
      /\ \A u \in Begun : context'[u] = context[u] /\ home'[u] = home[u]
      /\ UNCHANGED thread
    BY EntrySite DEF Begun, Calling
<1>2. c \in Seq(Task) /\ Len(c) \in Nat /\ (c # <<>> => 1 \in 1 .. Len(c))
    BY DEF TypeOK
<1>3. c # <<>> => c[1] \in Begun /\ thread[c[1]] = h
    BY <1>2 DEF Stacked, StackedAt, Begun
<1>4. ASSUME NEW u \in Begun, thread[u] = h PROVE Rest(context[u], h)' = None
  <2>1. PICK z \in Context : z = context[u]
      BY DEF TypeOK, Begun
  <2>2. ThreadOf(z) = h /\ z # t
      BY <1>1, <1>4, <2>1 DEF Sited, Begun
  <2>3. Rest(z, h)' = Rest(z, h)
      BY <2>2, RestCall
  <2>4. Rest(z, h) = None
      BY <1>4, <2>1 DEF AloneAt
  <2> QED
      BY <1>1, <2>1, <2>3, <2>4 DEF Rest
<1>5. CASE h # thread[t]
  <2>1. d = c /\ fallback'[h] = fallback[h]
      BY <1>5, EntrySite
  <2>2. c # <<>> => home'[c[1]] = home[c[1]]
      BY <1>1, <1>3
  <2>3. \A u \in Begun' : thread'[u] = h => Rest(context[u], h)' = None
      BY <1>1, <1>4, <1>5
  <2> QED
      BY <2>1, <2>2, <2>3 DEF AloneAt
<1>6. CASE h = thread[t]
  <2>1. kind[t] # "async" /\ d = Append(c, t)
    <3>1. kind[t] # "async"
        BY <1>6 DEF SyncOnly, Plain
    <3> QED
        BY <1>6, <3>1, EntrySite
  <2>2. CASE c # <<>>
    <3>1. d # <<>> /\ d[1] = c[1]
        BY <1>2, <2>1, <2>2, Pushes
    <3>2. Directly(t, x) /\ y = x
        BY <1>6, <2>2, EntrySite DEF Entering, Directly, InCopy
    <3>3. x = context[c[1]] /\ fallback' = fallback
        BY <1>6, <2>2, <3>2, Inside
    <3>4. PICK u \in Begun : u = c[1] /\ thread[u] = h
        BY <1>3, <2>2
    <3>5. context'[u] = x /\ context'[t] = x
        BY <1>1, <3>3, <3>4, EntrySite
    <3>6. Rest(context[t], h)' = None
      <4>1. Rest(context[u], h)' = None
          BY <1>4, <3>4
      <4> QED
          BY <3>5, <4>1 DEF Rest
    <3>7. \A v \in Begun' : thread'[v] = h => Rest(context[v], h)' = None
        BY <1>1, <1>4, <3>6
    <3>8. home'[c[1]] = c[1] /\ fallback'[h] = <<c[1]>>
        BY <1>1, <1>3, <2>2, <3>3 DEF AloneAt
    <3> QED
        BY <3>1, <3>7, <3>8 DEF AloneAt
  <2>3. CASE c = <<>>
    <3>1. d = <<t>> /\ d # <<>> /\ d[1] = t
        BY <2>1, <2>3
    <3>2. ctx[y] = None
        BY <1>6, <2>3, NoneFound
    <3>3. fallback[h] = <<>>
        BY <2>3 DEF AloneAt
    <3>4. Found(ctx[y], thread[t]) = None
        BY <1>6, <3>2, <3>3 DEF Found, Current
    <3>5. Opening(t, x, ctx[y])
        BY <3>4 DEF Calling, Joining
    <3>6. home'[t] = t /\ fallback'[h] = <<t>>
        BY <1>6, <3>3, <3>5 DEF Opening, TypeOK
    <3>7. context'[t] = x /\ prior'[t] = None
        BY <3>2, EntrySite
    <3>8. Rest(context[t], h)' = None
        BY <3>1, <3>6, <3>7 DEF Rest
    <3>9. \A u \in Begun' : thread'[u] = h => Rest(context[u], h)' = None
        BY <1>1, <1>4, <3>8
    <3> QED
        BY <3>1, <3>6, <3>9 DEF AloneAt
  <2> QED
      BY <2>2, <2>3
<1> QED
    BY <1>5, <1>6

LEMMA AloneReturn ==
    ASSUME TypeOK, Sited, Known, Stacked, Nested,
           NEW h \in Thread, SyncOnly(h), AloneAt(h),
           NEW t \in Task, Leave(t) \/ \E packed \in BOOLEAN : Exit(t, packed)
    PROVE  AloneAt(h)'
<1> DEFINE c == calls[h]
           d == calls'[h]
<1>1. /\ pc[t] = "run" /\ Runs(t) /\ pc' = [pc EXCEPT ![t] = "over"]
      /\ UNCHANGED <<kind, thread, home, context>>
      /\ calls' = IF kind[t] # "async" THEN [calls EXCEPT ![thread[t]] = Pop(@)] ELSE calls
      /\ \/ home[t] # t /\ fallback' = fallback
         \/ home[t] = t /\ fallback' = [fallback EXCEPT ![thread[t]] = Pop(@)]
    BY ReturnEffect DEF Plain
<1>2. Begun' = Begun
    BY <1>1 DEF Begun, TypeOK
<1>3. ASSUME NEW u \in Begun, thread[u] = h PROVE Rest(context[u], h)' = None
  <2>1. PICK z \in Context : z = context[u]
      BY DEF TypeOK, Begun
  <2>2. ThreadOf(z) = h
      BY <1>3, <2>1 DEF Sited, Begun
  <2>3. kind[t] = "async" => z # t
    <3>1. SUFFICES ASSUME kind[t] = "async", z = t PROVE FALSE
        OBVIOUS
    <3>2. thread[t] = h
        BY <2>2, <3>1, GuardAssumption DEF ThreadOf
    <3> QED
        BY <3>1, <3>2 DEF SyncOnly, Plain
  <2>4. Rest(z, h)' = Rest(z, h)
      BY <2>2, <2>3, RestReturn
  <2>5. Rest(z, h) = None
      BY <1>3, <2>1 DEF AloneAt
  <2> QED
      BY <1>1, <2>1, <2>4, <2>5 DEF Rest
<1>4. \A u \in Begun' : thread'[u] = h => Rest(context[u], h)' = None
    BY <1>1, <1>2, <1>3
<1>5. CASE h # thread[t]
  <2>1. d = c /\ fallback'[h] = fallback[h]
      BY <1>1, <1>5 DEF TypeOK
  <2> QED
      BY <1>1, <1>4, <2>1 DEF AloneAt
<1>6. CASE h = thread[t]
  <2> DEFINE k == Len(c)
  <2>1. kind[t] # "async"
      BY <1>6 DEF SyncOnly, Plain
  <2>2. d = Pop(c)
      BY <1>1, <1>6, <2>1 DEF TypeOK
  <2>3. /\ k \in Nat \ {0} /\ c # <<>> /\ c[k] = t /\ d \in Seq(Task) /\ Len(d) = k - 1
        /\ \A i \in 1 .. k - 1 : d[i] = c[i]
    <3>1. /\ k \in Nat \ {0} /\ c # <<>> /\ c[k] = t
          /\ Pop(c) \in Seq(Task) /\ Len(Pop(c)) = k - 1
          /\ \A i \in 1 .. k - 1 : Pop(c)[i] = c[i]
        BY <1>1, <1>6, <2>1, TopRuns
    <3> QED
        BY <2>2, <3>1
  <2>4. CASE k = 1
    <3>1. d = <<>> /\ c[1] = t
        BY <2>3, <2>4
    <3>2. fallback[h] = <<t>> /\ home[t] = t
        BY <2>3, <3>1 DEF AloneAt
    <3>3. fallback'[h] = Pop(<<t>>)
        BY <1>1, <1>6, <3>2 DEF TypeOK
    <3>4. Pop(<<t>>) = <<>>
      <4> DEFINE s == <<t>>
      <4>1. s \in Seq(Task) /\ s # <<>> /\ Len(s) = 1
          OBVIOUS
      <4> HIDE DEF s
      <4>2. Pop(s) \in Seq(Task) /\ Len(Pop(s)) = 1 - 1
          BY <4>1, Tops
      <4>3. Pop(s) = <<>>
          BY <4>2
      <4> QED
          BY <4>3 DEF s
    <3> QED
        BY <1>4, <3>1, <3>3, <3>4 DEF AloneAt
  <2>5. CASE k # 1
    <3>1. k \in Nat \ {0}
        BY <2>3
    <3> HIDE DEF k
    <3>2. 1 \in 1 .. k - 1 /\ k \in 1 .. k /\ k - 1 # 0
        BY <2>5, <3>1
    <3>3. d[1] = c[1] /\ d # <<>>
        BY <2>3, <3>2
    <3> USE DEF k
    <3>4. home[t] # t
        BY <2>3, <2>5, <3>2 DEF Nested, NestedAt
    <3>5. fallback' = fallback
        BY <1>1, <3>4
    <3> QED
        BY <1>1, <1>4, <2>3, <3>3, <3>5 DEF AloneAt
  <2> QED
      BY <2>4, <2>5
<1> QED
    BY <1>5, <1>6

LEMMA AloneStep ==
    /\ TypeOK /\ Sited /\ Known /\ Stacked /\ Nested /\ Hooked /\ Resting /\ Alone
    /\ [Next]_vars
    => Alone'
<1> SUFFICES ASSUME TypeOK, Sited, Known, Stacked, Nested, Hooked, Resting, Alone,
                    [Next]_vars, NEW h \in Thread, SyncOnly(h)', Isolated'
             PROVE  AloneAt(h)'
    BY DEF Alone
<1>1. UNCHANGED <<kind, thread>> /\ Isolated
    BY ListStays, StaysIsolated
<1>2. SyncOnly(h)
    BY <1>1 DEF SyncOnly, Plain
<1>3. AloneAt(h)
    BY <1>1, <1>2 DEF Alone
<1>4. ASSUME NEW t \in Task, NEW x \in Context, NEW y \in Context,
             Entering(t, x, y), Calling(t, x, ctx[y])
      PROVE  AloneAt(h)'
    BY <1>2, <1>3, <1>4, AloneCall
<1>5. ASSUME NEW t \in Task, Hooks(t) PROVE AloneAt(h)'
  <2>1. UNCHANGED <<thread, pc, home, context, ctx, prior, calls, fallback>>
      BY <1>5, HookEffect
  <2> QED
      BY <1>3, <2>1 DEF AloneAt, Rest, Begun
<1>6. ASSUME NEW t \in Task, Leave(t) \/ \E packed \in BOOLEAN : Exit(t, packed)
      PROVE  AloneAt(h)'
    BY <1>2, <1>3, <1>6, AloneReturn
<1>7. CASE UNCHANGED vars
    BY <1>3, <1>7 DEF vars, given, callVars, sessionVars, AloneAt, Rest, Begun
<1> QED
    BY <1>4, <1>5, <1>6, <1>7, Steps, Entries DEF Hooks

-----------------------------------------------------------------------------
(* What a session has of the calls in it.                                  *)

Told(s, id) == \E step \in steps[s] : step.of = id

\* Until its session is finalized, a plain call has left its start and every
\* step but the one it is in there, and that one has a record.
WrittenBy(t) ==
    kind[t] = "sync" /\ pc[t] = "run" /\ ~finalized[home[t]] =>
        /\ \A i \in 0 .. n[t] : (open[t] /\ i = n[t]) \/ Told(home[t], <<t, i>>)
        /\ open[t] => <<t, n[t]>> \in DOMAIN records[home[t]]

Written == \A t \in Task : WrittenBy(t)

LEMMA StepsGrow ==
    ASSUME TypeOK, [Next]_vars
    PROVE  \A s \in Task : steps[s] \subseteq steps'[s]
<1>1. ASSUME NEW t \in Task, NEW x \in Context, NEW y \in Context,
             Entering(t, x, y), Calling(t, x, ctx[y])
      PROVE  \A s \in Task : steps[s] \subseteq steps'[s]
  <2>1. PICK v \in Session : Emit(v, Start(t))
    <3>1. ctx[y] \in Session /\ thread[t] \in Thread /\ t \in Session
        BY DEF TypeOK, Session
    <3>2. Found(ctx[y], thread[t]) \in Session
        BY <3>1, FoundTyped
    <3> QED
        BY <1>1, <3>1, <3>2 DEF Calling, Joining, Opening
  <2> QED
      BY <2>1, Emits DEF TypeOK
<1>2. ASSUME NEW t \in Task, Hooks(t) PROVE \A s \in Task : steps[s] \subseteq steps'[s]
  <2>1. hook[t] \in Session /\ DOMAIN steps = Task
      BY DEF TypeOK
  <2>2. steps' = steps \/ \E step : Emit(hook[t], step)
    <3>1. BeginStep(t) => steps' = steps
        BY BeginRecord
    <3>2. BeginStream(t) => steps' = steps
        BY DEF BeginStream, BeginsStep
    <3>3. Validate(t) => steps' = steps
        BY DEF Validate
    <3>4. EndStep(t) => steps' = steps \/ \E step : Emit(hook[t], step)
        BY EndRecord
    <3>5. EndStream(t) => \E step : Emit(hook[t], step)
        BY DEF EndStream
    <3> QED
        BY <1>2, <3>1, <3>2, <3>3, <3>4, <3>5 DEF Hooks
  <2> QED
      BY <2>1, <2>2, Emits
<1>3. ASSUME NEW t \in Task, Leave(t) \/ \E packed \in BOOLEAN : Exit(t, packed)
      PROVE  \A s \in Task : steps[s] \subseteq steps'[s]
  <2>1. steps' = steps
      BY <1>3, ReturnEffect
  <2> QED
      BY <2>1
<1>4. UNCHANGED vars => steps' = steps
    BY DEF vars
<1> QED
    BY <1>1, <1>2, <1>3, <1>4, Steps, Entries DEF Hooks

\* A call to which nothing happens.
LEMMA WrittenKept ==
    ASSUME TypeOK, Known, Written, [Next]_vars, NEW u \in Task,
           pc'[u] = "run" => pc[u] = "run", home'[u] = home[u],
           open'[u] = open[u], n'[u] = n[u], kind' = kind,
           home[u] \in Task /\ ~finalized'[home[u]] =>
              /\ ~finalized[home[u]]
              /\ <<u, n[u]>> \in DOMAIN records[home[u]]
                    => <<u, n[u]>> \in DOMAIN records'[home[u]]
    PROVE  WrittenBy(u)'
<1> SUFFICES ASSUME kind[u] = "sync", pc'[u] = "run", ~finalized'[home[u]]
             PROVE  /\ \A i \in 0 .. n[u] : (open[u] /\ i = n[u]) \/ \E step \in steps'[home[u]] : step.of = <<u, i>>
                    /\ open[u] => <<u, n[u]>> \in DOMAIN records'[home[u]]
    BY DEF WrittenBy, Told
<1>1. home[u] \in Task
    BY DEF Known, Begun
<1>2. WrittenBy(u) /\ ~finalized[home[u]]
    BY <1>1 DEF Written
<1>3. \A i \in 0 .. n[u] : (open[u] /\ i = n[u]) \/ Told(home[u], <<u, i>>)
    BY <1>2 DEF WrittenBy
<1>4. steps[home[u]] \subseteq steps'[home[u]]
    BY <1>1, StepsGrow
<1> QED
    BY <1>1, <1>2, <1>3, <1>4 DEF WrittenBy, Told

LEMMA WrittenCall ==
    ASSUME TypeOK, Sited, Known, Written, [Next]_vars, NEW u \in Task,
           NEW t \in Task, NEW x \in Context, NEW y \in Context,
           Entering(t, x, y), Calling(t, x, ctx[y])
    PROVE  WrittenBy(u)'
<1>1. UNCHANGED <<open, n, kind, finalized, records>> /\ pc[t] = "idle"
    BY DEF Calling
<1>2. CASE u # t
  <2>1. pc'[u] = pc[u] /\ home'[u] = home[u]
      BY <1>2, EntrySite
  <2> QED
      BY <1>1, <2>1, WrittenKept
<1>3. CASE u = t
  <2>1. ~open[t] /\ n[t] = 0
      BY <1>1 DEF Sited, Begun
  <2>2. PICK v \in Session : Emit(v, Start(t)) /\ home'[t] = v /\ v # None
    <3>1. /\ ctx[y] \in Session /\ thread[t] \in Thread /\ t \in Session /\ t # None
        BY GuardAssumption DEF TypeOK, Session
    <3>2. Found(ctx[y], thread[t]) \in Session
        BY <3>1, FoundTyped
    <3>3. CASE Joining(t, x, ctx[y])
        BY <3>2, <3>3 DEF Joining, TypeOK
    <3>4. CASE Opening(t, x, ctx[y])
        BY <3>1, <3>4 DEF Opening, TypeOK
    <3> QED
        BY <3>3, <3>4 DEF Calling
  <2>3. ~finalized[v] => Start(t) \in steps'[v]
      BY <2>2, Emits DEF TypeOK
  <2>4. Start(t).of = <<t, 0>>
      BY DEF Start
  <2>5. ~finalized[v] => \E step \in steps'[v] : step.of = <<t, 0>>
      BY <2>3, <2>4
  <2>6. \A i \in 0 .. 0 : i = 0
      OBVIOUS
  <2> QED
      BY <1>1, <1>3, <2>1, <2>2, <2>5, <2>6 DEF WrittenBy, Told
<1> QED
    BY <1>2, <1>3

LEMMA WrittenHooks ==
    ASSUME TypeOK, Sited, Known, Stacked, Nested, Hooked, Written, [Next]_vars, NEW u \in Task,
           NEW t \in Task, Hooks(t)
    PROVE  WrittenBy(u)'
<1>1. /\ UNCHANGED <<kind, pc, home, finalized>>
      /\ u # t => open'[u] = open[u] /\ n'[u] = n[u]
      /\ n[u] \in Nat
    BY HookEffect DEF TypeOK
<1>2. ASSUME u # t, home[u] \in Task, <<u, n[u]>> \in DOMAIN records[home[u]]
      PROVE  <<u, n[u]>> \in DOMAIN records'[home[u]]
  <2>1. BeginStep(t) => DOMAIN records[home[u]] \subseteq DOMAIN records'[home[u]]
    <3>1. SUFFICES ASSUME BeginStep(t)
                   PROVE  DOMAIN records[home[u]] \subseteq DOMAIN records'[home[u]]
        OBVIOUS
    <3>2. CASE State(t) = home[u]
        BY <1>2, <3>1, <3>2, BeginRecord, GuardAssumption
    <3>3. CASE State(t) # home[u]
        BY <1>2, <3>1, <3>3, BeginRecord
    <3> QED
        BY <3>2, <3>3
  <2>2. BeginStream(t) \/ EndStream(t) => records' = records
      BY DEF BeginStream, EndStream
  <2>3. Validate(t) => DOMAIN records'[home[u]] = DOMAIN records[home[u]]
      BY <1>2, ValidateRecord
  <2>4. EndStep(t) => <<u, n[u]>> \in DOMAIN records'[home[u]]
    <3>1. <<u, n[u]>> # <<t, n[t]>>
        BY <1>2
    <3> QED
        BY <1>2, <3>1, EndRecord
  <2> QED
      BY <1>2, <2>1, <2>2, <2>3, <2>4 DEF Hooks
<1>3. CASE u # t
    BY <1>1, <1>2, <1>3, WrittenKept
<1>4. CASE u = t
  <2> SUFFICES ASSUME kind[t] = "sync", pc[t] = "run", ~finalized[home[t]]
               PROVE  WrittenBy(t)'
      BY <1>1, <1>4 DEF WrittenBy
  <2>1. /\ \A i \in 0 .. n[t] : (open[t] /\ i = n[t]) \/ Told(home[t], <<t, i>>)
        /\ open[t] => <<t, n[t]>> \in DOMAIN records[home[t]]
      BY DEF Written, WrittenBy
  <2>2. home[t] \in Task /\ steps[home[t]] \subseteq steps'[home[t]]
    <3>1. home[t] \in Task
        BY DEF Known, Begun
    <3> QED
        BY <3>1, StepsGrow
  <2>3. \A i \in 0 .. n[t] : (open[t] /\ i = n[t])
                             \/ \E step \in steps'[home[t]] : step.of = <<t, i>>
      BY <2>1, <2>2 DEF Told
  <2>4. CASE BeginStep(t)
    <3>1. /\ BeginsStep(t, State(t)) /\ Runs(t)
        BY <2>4, BeginRecord
    <3>2. State(t) = home[t] /\ State(t) # None
      <4>1. State(t) = home[t]
          BY <3>1, TopFinds
      <4> QED
          BY <2>2, <4>1, GuardAssumption
    <3>3. ~open[t] /\ open'[t] /\ n'[t] = n[t] + 1
        BY <3>1, BeginEffect
    <3>4. <<t, n[t] + 1>> \in DOMAIN records'[home[t]]
        BY <2>4, <3>2, BeginRecord
    <3>5. \A i \in 0 .. n[t] + 1 : i = n[t] + 1 \/ i \in 0 .. n[t]
        BY <1>1, <1>4
    <3> QED
        BY <1>1, <2>3, <3>3, <3>4, <3>5 DEF WrittenBy, Told
  <2>5. CASE Validate(t)
    <3>1. UNCHANGED <<open, n>> /\ DOMAIN records'[home[t]] = DOMAIN records[home[t]]
        BY <2>2, <2>5, ValidateRecord
    <3> QED
        BY <1>1, <2>1, <2>3, <3>1 DEF WrittenBy, Told
  <2>6. CASE EndStep(t)
    <3>1. open[t] /\ ~open'[t] /\ n' = n
        BY <2>6, EndRecord, EndEffect
    <3>2. hook[t] = home[t] /\ hook[t] # None
        BY <2>2, <3>1, GuardAssumption DEF Hooked
    <3>3. Emit(home[t], Step(<<t, n[t]>>, records[home[t]][<<t, n[t]>>]))
        BY <2>1, <2>6, <3>1, <3>2, EndRecord
    <3> DEFINE step == Step(<<t, n[t]>>, records[home[t]][<<t, n[t]>>])
    <3>4. step.of = <<t, n[t]>>
        BY DEF Step
    <3> HIDE DEF step
    <3>5. step \in steps'[home[t]]
      <4>1. home[t] \in Session /\ home[t] # None /\ DOMAIN steps = Task
          BY <2>2, <3>2 DEF Session, TypeOK
      <4>2. Emit(home[t], step)
          BY <3>3 DEF step
      <4> QED
          BY <4>1, <4>2, Emits
    <3>6. \E st \in steps'[home[t]] : st.of = <<t, n[t]>>
        BY <3>4, <3>5
    <3> QED
        BY <1>1, <2>3, <3>1, <3>6 DEF WrittenBy, Told
  <2>7. ~BeginStream(t) /\ ~EndStream(t)
      BY DEF BeginStream, EndStream
  <2> QED
      BY <2>4, <2>5, <2>6, <2>7 DEF Hooks
<1> QED
    BY <1>3, <1>4

LEMMA WrittenStep ==
    TypeOK /\ Sited /\ Known /\ Stacked /\ Nested /\ Hooked /\ Written /\ [Next]_vars
      => Written'
<1> SUFFICES ASSUME TypeOK, Sited, Known, Stacked, Nested, Hooked, Written, [Next]_vars,
                    NEW u \in Task
             PROVE  WrittenBy(u)'
    BY DEF Written
<1>1. ASSUME NEW t \in Task, NEW x \in Context, NEW y \in Context,
             Entering(t, x, y), Calling(t, x, ctx[y])
      PROVE  WrittenBy(u)'
    BY <1>1, WrittenCall
<1>2. ASSUME NEW t \in Task, Hooks(t) PROVE WrittenBy(u)'
    BY <1>2, WrittenHooks
<1>3. ASSUME NEW t \in Task, Leave(t) \/ \E packed \in BOOLEAN : Exit(t, packed)
      PROVE  WrittenBy(u)'
  <2>1. /\ pc[t] = "run" /\ pc' = [pc EXCEPT ![t] = "over"]
        /\ UNCHANGED <<kind, home, open, n>>
        /\ \/ UNCHANGED <<finalized, records>>
           \/ /\ finalized' = [finalized EXCEPT ![t] = TRUE]
              /\ records' = records \/ records' = [records EXCEPT ![t] = NoRecords]
      BY <1>3, ReturnEffect
  <2>2. pc'[u] = "run" => pc[u] = "run"
      BY <2>1 DEF TypeOK
  <2>3. ASSUME home[u] \in Task, ~finalized'[home[u]]
        PROVE  ~finalized[home[u]] /\ records'[home[u]] = records[home[u]]
      BY <2>1, <2>3 DEF TypeOK
  <2> QED
      BY <2>1, <2>2, <2>3, WrittenKept
<1>4. CASE UNCHANGED vars
    BY <1>4, WrittenKept DEF vars, given, callVars, stepVars, sessionVars
<1> QED
    BY <1>1, <1>2, <1>3, <1>4, Steps, Entries DEF Hooks

\* The artifact of a call is written at its end.
Packed == \A t \in Task : pc[t] # "over" => artifact[t] = Absent

LEMMA PackedStep == TypeOK /\ Packed /\ [Next]_vars => Packed'
<1> SUFFICES ASSUME TypeOK, Packed, [Next]_vars PROVE Packed'
    OBVIOUS
<1>1. ASSUME NEW t \in Task, NEW x \in Context, NEW y \in Context,
             Entering(t, x, y), Calling(t, x, ctx[y])
      PROVE  Packed'
  <2>1. artifact' = artifact /\ pc[t] = "idle" /\ pc' = [pc EXCEPT ![t] = "run"]
      BY <1>1 DEF Calling
  <2> QED
      BY <2>1 DEF Packed, TypeOK
<1>2. ASSUME NEW t \in Task, Hooks(t) PROVE Packed'
  <2>1. UNCHANGED <<pc, artifact>>
      BY <1>2, HookEffect
  <2> QED
      BY <2>1 DEF Packed
<1>3. ASSUME NEW t \in Task, Leave(t) \/ \E packed \in BOOLEAN : Exit(t, packed)
      PROVE  Packed'
  <2>1. /\ pc[t] = "run" /\ pc' = [pc EXCEPT ![t] = "over"]
        /\ artifact' = artifact \/ artifact' = [artifact EXCEPT ![t] = steps[t]]
      BY <1>3, ReturnEffect
  <2> QED
      BY <2>1 DEF Packed, TypeOK
<1>4. CASE UNCHANGED vars
    BY <1>4 DEF vars, callVars, sessionVars, Packed
<1> QED
    BY <1>1, <1>2, <1>3, <1>4, Steps, Entries DEF Hooks

LEMMA TellsAll ==
    ASSUME NEW t, NEW kept, n[t] \in Nat,
           \A i \in 0 .. n[t] : \E step \in kept : step.of = <<t, i>>
    PROVE  Has(kept, t)
BY DEF Has

LEMMA UnrecordedStep ==
    /\ TypeOK /\ Sited /\ Known /\ Stacked /\ Nested /\ Alone /\ Written /\ Packed
    /\ NoCallUnrecorded /\ [Next]_vars
    => NoCallUnrecorded'
<1> SUFFICES ASSUME TypeOK, Sited, Known, Stacked, Nested, Alone, Written, Packed,
                    NoCallUnrecorded, [Next]_vars, NEW u \in Task, pc'[u] = "over",
                    kind'[u] = "sync"
             PROVE  IF home'[u] = u THEN artifact'[u] = Absent \/ Has(artifact[u], u)'
                    ELSE SyncOnly(thread[u])' /\ Isolated' => Has(steps[home[u]], u)'
    BY DEF NoCallUnrecorded
<1> DEFINE Good == IF home'[u] = u THEN artifact'[u] = Absent \/ Has(artifact[u], u)'
                   ELSE SyncOnly(thread[u])' /\ Isolated' => Has(steps[home[u]], u)'
<1>0. /\ UNCHANGED <<kind, thread>> /\ kind[u] = "sync" /\ (Isolated' => Isolated)
      /\ SyncOnly(thread[u])' => SyncOnly(thread[u])
  <2>1. UNCHANGED <<kind, thread>> /\ (Isolated' => Isolated)
      BY ListStays, StaysIsolated
  <2> QED
      BY <2>1 DEF SyncOnly, Plain
\* It was over.
<1>1. ASSUME pc[u] = "over", home'[u] = home[u], n'[u] = n[u], artifact'[u] = artifact[u]
      PROVE  Good
  <2>1. IF home[u] = u THEN artifact[u] = Absent \/ Has(artifact[u], u)
        ELSE SyncOnly(thread[u]) /\ Isolated => Has(steps[home[u]], u)
      BY <1>0, <1>1 DEF NoCallUnrecorded
  <2>2. home[u] \in Task
      BY <1>1 DEF Known, Begun
  <2>3. steps[home[u]] \subseteq steps'[home[u]]
      BY <2>2, StepsGrow
  <2> QED
      BY <1>0, <1>1, <2>1, <2>3 DEF Has
<1>2. ASSUME NEW t \in Task, NEW x \in Context, NEW y \in Context,
             Entering(t, x, y), Calling(t, x, ctx[y])
      PROVE  Good
  <2>1. u # t /\ pc[u] = "over" /\ home'[u] = home[u]
      BY <1>2, EntrySite
  <2>2. UNCHANGED <<n, artifact>>
      BY <1>2 DEF Calling
  <2> QED
      BY <1>1, <2>1, <2>2
<1>3. ASSUME NEW t \in Task, Hooks(t) PROVE Good
  <2>1. UNCHANGED <<pc, home, artifact>> /\ (u # t => n'[u] = n[u])
      BY <1>3, HookEffect
  <2>2. u = t => n'[u] = n[u]
    <3>1. pc[u] = "over" /\ kind[u] = "sync"
        BY <1>0, <2>1
    <3>2. ~BeginStep(u) /\ ~BeginStream(u) /\ ~EndStream(u)
        BY <3>1 DEF BeginStep, BeginStream, EndStream
    <3> QED
        BY <1>3, <3>2, EndEffect, ValidateRecord DEF Hooks, EndStep
  <2> QED
      BY <1>1, <2>1, <2>2
<1>4. ASSUME NEW t \in Task, Leave(t) \/ \E packed \in BOOLEAN : Exit(t, packed)
      PROVE  Good
  <2>1. /\ pc[t] = "run" /\ Runs(t) /\ (kind[t] = "sync" => ~open[t])
        /\ pc' = [pc EXCEPT ![t] = "over"]
        /\ UNCHANGED <<home, n, steps>>
        /\ \/ home[t] # t /\ artifact' = artifact
           \/ /\ home[t] = t
              /\ artifact' = artifact \/ artifact' = [artifact EXCEPT ![t] = steps[t]]
      BY <1>4, ReturnEffect
  <2>2. CASE u # t
    <3>1. pc[u] = "over" /\ artifact'[u] = artifact[u]
        BY <2>1, <2>2 DEF TypeOK
    <3> QED
        BY <1>1, <2>1, <3>1
  <2>3. CASE u = t
    <3>1. ASSUME ~finalized[home[u]] PROVE Has(steps[home[u]], u)
      <4>1. \A i \in 0 .. n[u] : Told(home[u], <<u, i>>)
          BY <1>0, <2>1, <2>3, <3>1 DEF Written, WrittenBy
      <4>2. n[u] \in Nat
          BY DEF TypeOK
      <4>3. \A i \in 0 .. n[u] : \E step \in steps[home[u]] : step.of = <<u, i>>
          BY <4>1 DEF Told
      <4> QED
          BY <4>2, <4>3, TellsAll
    <3>2. CASE home[u] = u
      <4>1. ~finalized[u] /\ artifact[u] = Absent
          BY <2>1, <2>3 DEF Known, Packed
      <4>2. artifact'[u] = Absent \/ artifact'[u] = steps[u]
          BY <2>1, <2>3, <4>1 DEF TypeOK
      <4> QED
          BY <2>1, <3>1, <3>2, <4>1, <4>2 DEF Has
    <3>3. CASE home[u] # u
      <4> SUFFICES ASSUME SyncOnly(thread[u]), Isolated PROVE Has(steps[home[u]], u)'
          BY <1>0, <2>1, <3>3
      <4> DEFINE h == thread[u]
                 c == calls[h]
      <4>1. h \in Thread /\ c # <<>> /\ Len(c) \in Nat \ {0} /\ home[u] = home[c[1]]
          BY <1>0, <2>1, <2>3, TopRuns, TopFinds DEF TypeOK
      <4>2. home[c[1]] = c[1]
          BY <4>1 DEF Alone, AloneAt
      <4>3. 1 \in 1 .. Len(c)
          BY <4>1
      <4>4. pc[c[1]] = "run" /\ c[1] \in Task
          BY <4>1, <4>3 DEF Stacked, StackedAt, TypeOK
      <4>5. ~finalized[home[u]]
          BY <4>1, <4>2, <4>4 DEF Known
      <4> QED
          BY <2>1, <3>1, <4>5 DEF Has
    <3> QED
        BY <3>2, <3>3
  <2> QED
      BY <2>2, <2>3
<1>5. UNCHANGED vars => UNCHANGED <<pc, home, n, artifact>>
    BY DEF vars, callVars, stepVars, sessionVars
<1>6. UNCHANGED vars => Good
    BY <1>1, <1>5
<1> HIDE DEF Good
<1>7. Good
    BY <1>2, <1>3, <1>4, <1>6, Steps, Entries DEF Hooks
<1> QED
    BY <1>7 DEF Good

-----------------------------------------------------------------------------
(* The theorems.                                                           *)

GuardInv ==
    /\ TypeOK /\ Sited /\ Known /\ Stacked /\ Nested /\ Hooked /\ Recorded /\ Owned
    /\ Waiting /\ OnTop /\ Resting /\ Alone /\ Written /\ Packed
    /\ ResultsStayHome /\ NoCallUnrecorded

LEMMA InitGuard == Init => GuardInv
<1> SUFFICES ASSUME Init PROVE GuardInv
    OBVIOUS
<1>1. TypeOK
    BY InitTyped
<1>2. /\ Begun = {} /\ \A h \in Thread : calls[h] = <<>> /\ fallback[h] = <<>> /\ Len(calls[h]) = 0
      /\ \A t \in Task : pc[t] = "idle" /\ ~open[t] /\ n[t] = 0 /\ hook[t] = None
    BY DEF Init, Begun
<1>3. /\ \A x \in Context : ctx[x] = None /\ list[x] = None
      /\ \A t \in Task : /\ t \in Context /\ context[t] = t /\ home[t] = None
                         /\ prior[t] = None /\ ~finalized[t]
                         /\ artifact[t] = Absent /\ steps[t] = {} /\ DOMAIN records[t] = {}
      /\ \A h \in Thread : h \in Context
    BY DEF Init, Context, NoRecords
<1>4. Sited
    BY <1>2, <1>3, GuardAssumption DEF Sited, ThreadOf
<1>5. Known
  <2>1. <<>> \in Seq(Begun)
      OBVIOUS
  <2>2. fallback \in [Thread -> Seq(Begun)]
      BY <2>1, Zenon DEF Init
  <2> QED
      BY <1>2, <1>3, <2>2 DEF Known, Init
<1>6. Stacked /\ Nested /\ Waiting
    BY <1>2 DEF Stacked, StackedAt, Nested, NestedAt, Waiting, WaitingAt
<1>7. Hooked /\ Recorded
    BY <1>2, <1>3 DEF Hooked, Recorded
<1>8. Owned
  <2>1. \A l \in Context \cup {None} : Len(ids[l]) = 0
      BY DEF Init
  <2> QED
      BY <2>1 DEF Owned
<1>9. OnTop
    BY <1>2 DEF OnTop, OnTopAt
<1>10. Resting /\ Alone
    BY <1>2, <1>3 DEF Resting, Rest, Alone, AloneAt
<1>11. Written /\ Packed /\ NoCallUnrecorded
    BY <1>2, <1>3 DEF Written, WrittenBy, Packed, NoCallUnrecorded
<1>12. ResultsStayHome
    BY <1>3 DEF ResultsStayHome
<1> QED
    BY <1>1, <1>4, <1>5, <1>6, <1>7, <1>8, <1>9, <1>10, <1>11, <1>12 DEF GuardInv

LEMMA GuardInvStep == GuardInv /\ [Next]_vars => GuardInv'
<1> SUFFICES ASSUME GuardInv, [Next]_vars PROVE GuardInv'
    OBVIOUS
<1>1. /\ TypeOK /\ Sited /\ Known /\ Stacked /\ Nested /\ Hooked /\ Recorded /\ Owned
      /\ Waiting /\ OnTop /\ Resting /\ Alone /\ Written /\ Packed
      /\ ResultsStayHome /\ NoCallUnrecorded
    BY DEF GuardInv
<1>2. TypeOK' /\ Sited' /\ Known' /\ Stacked'
    BY <1>1, TypedStep, SitedStep, KnownStep, StackedStep
<1>3. Nested' /\ Hooked' /\ Recorded' /\ Owned'
    BY <1>1, NestedStep, HookedStep, RecordedStep, OwnedStep
<1>4. Waiting' /\ OnTop' /\ ResultsStayHome'
    BY <1>1, WaitingStep, OnTopStep, ResultsStep
<1>5. Resting' /\ Alone' /\ Written' /\ Packed' /\ NoCallUnrecorded'
    BY <1>1, RestingStep, AloneStep, WrittenStep, PackedStep, UnrecordedStep
<1> QED
    BY <1>2, <1>3, <1>4, <1>5 DEF GuardInv

LEMMA GuardInvHolds == Spec => []GuardInv
<1>1. GuardInv /\ [Next]_vars => GuardInv'
    BY GuardInvStep
<1> QED
    BY <1>1, InitGuard, PTL DEF Spec

\* Every variable of the guard sessions keeps its type: what contexts, threads
\* and lists refer to are sessions, calls and steps that exist.
THEOREM GuardTypeCorrect == Spec => []TypeOK
<1>1. GuardInv => TypeOK
    BY DEF GuardInv
<1> QED
    BY <1>1, GuardInvHolds, PTL

\* A validator's result is written to the step it belongs to and to no other,
\* while calls that interleave have lists of their own: whoever validates is
\* the innermost call of its thread, and its list ends with its own id.
THEOREM ResultsAreHome == Spec => []ResultsStayHome
<1>1. GuardInv => ResultsStayHome
    BY DEF GuardInv
<1> QED
    BY <1>1, GuardInvHolds, PTL

\* No plain call that is over went unrecorded: its artifact, or the session it
\* joined, has its start and all its steps.
THEOREM CallsAreRecorded == Spec => []NoCallUnrecorded
<1>1. GuardInv => NoCallUnrecorded
    BY DEF GuardInv
<1> QED
    BY <1>1, GuardInvHolds, PTL
=============================================================================
