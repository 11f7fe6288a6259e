--------------------------- MODULE GuardSessions ---------------------------
(***************************************************************************)
(* epi_guardrails: session.py, state.py and the wrappers of                *)
(* instrumentor.py.                                                        *)
(*                                                                         *)
(* Every call of a guard is a task: a plain call ("sync"), a plain call    *)
(* that returns a stream ("stream") or a call of the async guard           *)
(* ("async").  The wrapper of the call opens a session or joins the one it *)
(* finds; the hooks of the runner's step and of the validators write to    *)
(* the session they find.  What they find depends on two places: the       *)
(* context the code runs in and a stack per thread.  A plain call keeps    *)
(* its thread to its end, the async calls of a thread take turns.          *)
(*                                                                         *)
(* Code that calls a plain guard directly shares its context with it.  An  *)
(* asyncio task, or a function run by asyncio.to_thread, has a copy of     *)
(* its creator's; the copy holds the same list of open iterations.         *)
(*                                                                         *)
(* Emitting a step is one action here.  The check of _finalized and the    *)
(* locked append are two pieces of code, between which another thread may  *)
(* finalize the session; the properties do not speak of such a caller.     *)
(***************************************************************************)
EXTENDS Integers, Sequences, SequencesExt

CONSTANTS
    Task,      \* calls of a guard; a call's session and the context made for
               \* it have its name
    Thread,    \* a thread's own context has its name
    None,      \* no session, no list
    MaxSteps,  \* bound: steps of one call
    MaxFaults  \* bound: packs that raise

ASSUME GuardAssumption ==
    /\ Task \cap Thread = {} /\ None \notin Task \cup Thread
    /\ MaxSteps \in Nat /\ MaxFaults \in Nat

VARIABLES
    kind,      \* of every call
    thread,    \* it runs on
    pc,        \* "idle", "run" or "over"
    open,      \* whether the call is inside a step
    n,         \* steps the call has begun
    home,      \* the session the call opened or joined
    context,   \* the context the call runs in
    ctx,       \* _guardrails_state_var of a context
    list,      \* the list _iteration_stack_var of a context refers to, by the
               \* context it was made in, or None
    prior,     \* the value of ctx a session's token restores
    hook,      \* the session the hook of the open step found
    calls,     \* plain calls in progress on a thread, innermost last
    fallback,  \* _thread_local_state.stack of a thread
    ids,       \* the lists of iteration ids
    finalized, \* _finalized of a session
    records,   \* _step_records of a session: iteration id to its results
    steps,     \* _steps of a session
    artifact,  \* the file of a session
    faults     \* packs that raised so far

given == <<kind, thread>>
callVars == <<pc, home, context, ctx, prior, calls>>
stepVars == <<open, n, hook, ids, records>>
sessionVars == <<finalized, fallback, artifact, faults>>
vars == <<given, callVars, stepVars, list, sessionVars, steps>>

Context == Task \cup Thread

Absent == {}      \* no file: a file has the start at least

NoRecords == [id \in {} |-> {}]

Init ==
    /\ kind \in [Task -> {"sync", "stream", "async"}]
    /\ thread \in [Task -> Thread]
    /\ pc = [t \in Task |-> "idle"]
    /\ open = [t \in Task |-> FALSE] /\ n = [t \in Task |-> 0]
    /\ home = [t \in Task |-> None] /\ hook = [t \in Task |-> None]
    /\ context = [t \in Task |-> t] /\ prior = [t \in Task |-> None]
    /\ ctx = [x \in Context |-> None] /\ list = [x \in Context |-> None]
    /\ calls = [h \in Thread |-> <<>>] /\ fallback = [h \in Thread |-> <<>>]
    /\ ids = [l \in Context \cup {None} |-> <<>>]
    /\ finalized = [s \in Task |-> FALSE]
    /\ records = [s \in Task |-> NoRecords]
    /\ steps = [s \in Task |-> {}] /\ artifact = [s \in Task |-> Absent]
    /\ faults = 0

-----------------------------------------------------------------------------
(* Finding a session.                                                      *)

Current(s) == IF s = <<>> THEN None ELSE Last(s)

\* guardrails_epi_state: what the context holds, else the top of the
\* thread's stack.
Found(value, h) == IF value # None THEN value ELSE Current(fallback[h])

State(t) == Found(ctx[context[t]], thread[t])

List(t) == list[context[t]]

\* Mutant: the outermost iteration is taken for the current one.
IterationOf_Outermost(t) ==
    LET l == ids[List(t)] IN IF l = <<>> THEN <<>> ELSE Head(l)

\* current_iteration_id.
IterationOf(t) ==
    LET l == ids[List(t)] IN IF l = <<>> THEN <<>> ELSE Last(l)

Pop(s) == IF s = <<>> THEN s ELSE Front(s)

\* The steps of a session that matter here; the one that marks the end of a
\* call is left out.
Start(t) == [of |-> <<t, 0>>, results |-> {}]
Step(id, results) == [of |-> id, results |-> results]

\* _emit_step writes nothing to a session that is finalized, or to none.
Emit(s, step) ==
    steps' = IF s = None \/ finalized[s] THEN steps
             ELSE [steps EXCEPT ![s] = @ \cup {step}]

-----------------------------------------------------------------------------
(* A call.                                                                 *)

Plain(t) == kind[t] # "async"

\* A plain call in progress runs while no other is inside it.  Any other code
\* of a thread runs when no plain call is in progress; a stream may also be
\* consumed by the call in progress, in the context they share.
Runs(t) ==
    LET inner == Current(calls[thread[t]]) IN
    IF Plain(t) /\ pc[t] = "run" THEN inner = t
    ELSE inner # None => Plain(t) /\ context[inner] = context[t]

\* A plain call joins the session it finds and tells it of its start.
Joins(t, s) ==
    /\ home' = [home EXCEPT ![t] = s]
    /\ Emit(s, Start(t))
    /\ UNCHANGED fallback

\* Otherwise a session is opened: it is pushed on the thread's stack, and its
\* first step is the start.
Opens(t) ==
    /\ home' = [home EXCEPT ![t] = t]
    /\ fallback' = [fallback EXCEPT ![thread[t]] = Append(@, t)]
    /\ Emit(t, Start(t))

\* The wrapper of the call, in context x with the value the variable has
\* there; a session that is opened is set in the context.
Execute(t, x, value) ==
    /\ pc[t] = "idle"
    /\ pc' = [pc EXCEPT ![t] = "run"]
    /\ context' = [context EXCEPT ![t] = x]
    /\ calls' = IF Plain(t) THEN [calls EXCEPT ![thread[t]] = Append(@, t)]
                            ELSE calls
    /\ LET s == Found(value, thread[t])
           joins == Plain(t) /\ s # None
       IN /\ IF joins THEN Joins(t, s) ELSE Opens(t)
          /\ ctx' = [ctx EXCEPT ![x] = IF joins THEN value ELSE t]
          /\ prior' = [prior EXCEPT ![t] = value]
    /\ UNCHANGED <<given, stepVars, finalized, artifact, faults>>

\* A thread's own code calls a plain guard, or a step of p does (a validator,
\* the model's callable).
CallDirectly(t) ==
    /\ Plain(t)
    /\ \/ calls[thread[t]] = <<>> /\ Execute(t, thread[t], ctx[thread[t]])
       \/ \E p \in Task \ {t} :
            /\ thread[p] = thread[t] /\ open[p] /\ Runs(p)
            /\ Execute(t, context[p], ctx[context[p]])
    /\ UNCHANGED list

\* A guard is called in a task or a thread that is given a copy of context x,
\* by a thread's own code or in a step.
CallInCopy(t, x) ==
    /\ calls[thread[t]] = <<>>
    /\ \/ x \in Thread /\ calls[x] = <<>>
       \/ \E p \in Task \ {t} : open[p] /\ Runs(p) /\ context[p] = x
    /\ list' = [list EXCEPT ![t] = list[x]]
    /\ Execute(t, t, ctx[x])

\* Mutant: the stack of the thread is left as it is.
Unstacked_Not(t) == fallback

\* reset_guardrails_epi_state pops the stack of the thread, whatever is on
\* top.
Unstacked(t) == [fallback EXCEPT ![thread[t]] = Pop(@)]

Returns(t) ==
    /\ pc[t] = "run" /\ Runs(t)
    /\ kind[t] = "sync" => ~open[t]
    /\ pc' = [pc EXCEPT ![t] = "over"]
    /\ calls' = IF Plain(t) THEN [calls EXCEPT ![thread[t]] = Pop(@)] ELSE calls
    /\ UNCHANGED <<given, home, context, list, prior, open, n, hook, ids>>

\* A call that joined a session leaves it to the call that opened it.
Leave(t) ==
    /\ home[t] # t
    /\ Returns(t)
    /\ UNCHANGED <<ctx, records, sessionVars, steps>>

\* The session's call returns or raises: _finalized is set, the orphan steps
\* are emitted in vain, the artifact is packed or the pack raises, and the
\* state is reset either way.
Exit(t, packed) ==
    /\ home[t] = t
    /\ Returns(t)
    /\ finalized' = [finalized EXCEPT ![t] = TRUE]
    /\ ctx' = [ctx EXCEPT ![context[t]] = prior[t]]
    /\ fallback' = Unstacked(t)
    /\ IF packed
       THEN /\ artifact' = [artifact EXCEPT ![t] = steps[t]]
            /\ records' = [records EXCEPT ![t] = NoRecords]
            /\ UNCHANGED faults
       ELSE /\ faults < MaxFaults /\ faults' = faults + 1
            /\ UNCHANGED <<artifact, records>>
    /\ UNCHANGED steps

-----------------------------------------------------------------------------
(* The steps of a call.                                                    *)

BeginsStep(t, s) ==
    /\ pc[t] # "idle" /\ Runs(t) /\ ~open[t] /\ n[t] < MaxSteps
    /\ open' = [open EXCEPT ![t] = TRUE]
    /\ n' = [n EXCEPT ![t] = @ + 1]
    /\ hook' = [hook EXCEPT ![t] = s]
    /\ list' = IF s # None /\ List(t) = None
               THEN [list EXCEPT ![context[t]] = context[t]] ELSE list
    /\ UNCHANGED <<given, callVars, sessionVars, steps>>

\* In the list of the context, which is made at its first use.
Pushed(t) == [ids EXCEPT ![list'[context[t]]] = Append(@, <<t, n[t] + 1>>)]

\* begin_iteration of a session that is not finalized makes a record and
\* pushes the id.
BeginStep(t) ==
    /\ kind[t] = "sync" /\ pc[t] = "run"
    /\ LET s == State(t) IN
       /\ BeginsStep(t, s)
       /\ IF s = None \/ finalized[s] THEN UNCHANGED <<ids, records>>
          ELSE /\ ids' = Pushed(t)
               /\ records' = [records EXCEPT ![s] =
                     [id \in DOMAIN @ \cup {<<t, n[t] + 1>>} |->
                        IF id \in DOMAIN @ THEN @[id] ELSE {}]]

\* A streaming step pushes its id, if there is a session, and makes no record.
\* The generator of an async guard runs when it is consumed, during the call
\* or after it.
BeginStream(t) ==
    /\ kind[t] = "stream" => pc[t] = "run"
    /\ kind[t] # "sync"
    /\ BeginsStep(t, State(t))
    /\ ids' = IF State(t) = None THEN ids ELSE Pushed(t)
    /\ UNCHANGED records

\* A validator's result goes to the record of the current iteration in the
\* session its hook finds, if there is one.
Validate(t) ==
    /\ open[t] /\ Runs(t)
    /\ LET s == State(t)
           id == IterationOf(t)
       IN /\ s # None /\ ~finalized[s] /\ id \in DOMAIN records[s]
          /\ records' = [records EXCEPT ![s][id] = @ \cup {<<t, n[t]>>}]
    /\ UNCHANGED <<given, callVars, open, n, hook, ids, list, sessionVars,
                   steps>>

EndsStep(t) ==
    /\ open[t] /\ Runs(t)
    /\ open' = [open EXCEPT ![t] = FALSE]
    /\ hook' = [hook EXCEPT ![t] = None]
    /\ ids' = IF hook[t] = None THEN ids ELSE [ids EXCEPT ![List(t)] = Pop(@)]
    /\ UNCHANGED <<given, callVars, n, list, sessionVars>>

\* end_iteration takes the record out of the session and emits it; the
\* wrapper pops the list whatever begin_iteration did.
EndStep(t) ==
    /\ kind[t] = "sync"
    /\ EndsStep(t)
    /\ LET s == hook[t]
           id == <<t, n[t]>>
       IN IF s # None /\ ~finalized[s] /\ id \in DOMAIN records[s]
          THEN /\ Emit(s, Step(id, records[s][id]))
               /\ records' = [records EXCEPT ![s] =
                     [i \in DOMAIN @ \ {id} |-> @[i]]]
          ELSE UNCHANGED <<steps, records>>

\* The stream ends, is closed or raises.
EndStream(t) ==
    /\ kind[t] # "sync"
    /\ EndsStep(t)
    /\ Emit(hook[t], Step(<<t, n[t]>>, {}))
    /\ UNCHANGED records

-----------------------------------------------------------------------------

Next == \E t \in Task :
    \/ CallDirectly(t) \/ \E x \in Context : CallInCopy(t, x)
    \/ BeginStep(t) \/ BeginStream(t) \/ Validate(t)
    \/ EndStep(t) \/ EndStream(t)
    \/ Leave(t) \/ \E packed \in BOOLEAN : Exit(t, packed)

Spec == Init /\ [][Next]_vars
-----------------------------------------------------------------------------
(* Properties.                                                             *)

\* A session has the name of the call that opened it; an iteration is a call's
\* n-th step.
Session == Task \cup {None}

Id == Task \X Nat

TypeOK ==
    /\ kind \in [Task -> {"sync", "stream", "async"}] /\ thread \in [Task -> Thread]
    /\ pc \in [Task -> {"idle", "run", "over"}]
    /\ open \in [Task -> BOOLEAN] /\ n \in [Task -> Nat]
    /\ home \in [Task -> Session] /\ hook \in [Task -> Session]
    /\ prior \in [Task -> Session]
    /\ context \in [Task -> Context]
    /\ ctx \in [Context -> Session] /\ list \in [Context -> Context \cup {None}]
    /\ calls \in [Thread -> Seq(Task)] /\ fallback \in [Thread -> Seq(Task)]
    /\ ids \in [Context \cup {None} -> Seq(Id)]
    /\ finalized \in [Task -> BOOLEAN]
    /\ DOMAIN records = Task /\ \A s \in Task : DOMAIN records[s] \subseteq Id
    /\ DOMAIN steps = Task /\ DOMAIN artifact = Task

\* Calls with one list of iterations do not interleave: they run on one thread,
\* and of two of them neither is a stream, which is consumed at any time, and
\* not both are async.
Isolated == \A t, u \in Task :
    t # u /\ List(t) = List(u) /\ List(t) # None
    => /\ thread[t] = thread[u] /\ "stream" \notin {kind[t], kind[u]}
       /\ Plain(t) \/ Plain(u)

\* A validator's result is in the step it belongs to and in no other, in the
\* records of the sessions and in what they emitted, as long as calls that
\* interleave have lists of their own.
ResultsStayHome == Isolated =>
    \A s \in Task :
        /\ \A id \in DOMAIN records[s] : records[s][id] \subseteq {id}
        /\ \A step \in steps[s] : step.results \subseteq {step.of}

\* The steps t took, its start included, are in kept.
Has(kept, t) == {<<t, i>> : i \in 0..n[t]} \subseteq {step.of : step \in kept}

SyncOnly(h) == \A t \in Task : thread[t] = h => Plain(t)

\* No plain call that is over went unrecorded: its start and every step it took
\* are in its artifact, unless the pack raised, whatever ran beside it.  A
\* call that joined a session left them in that session's steps before the
\* session was finalized, if its thread serves no async guard and no thread
\* has a copy of its context.  Streams end behind their session and are not
\* meant.
NoCallUnrecorded == \A t \in Task :
    pc[t] = "over" /\ kind[t] = "sync"
    => IF home[t] = t THEN artifact[t] = Absent \/ Has(artifact[t], t)
       ELSE SyncOnly(thread[t]) /\ Isolated => Has(steps[home[t]], t)
=============================================================================
