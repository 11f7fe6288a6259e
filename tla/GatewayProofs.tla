--------------------------- MODULE GatewayProofs ---------------------------
(***************************************************************************)
(* Theorems about what the gateway keeps for people to decide on: the row  *)
(* of a case (CaseWorkflow), and approvals, those a person gives through a *)
(* link of the gateway (ApprovalFlow) and those an agent waits for in its  *)
(* own process (ApprovalGate).  They hold for any events, changes,         *)
(* tickets, actions, reviewers, policies and bounds, and any order in      *)
(* which requests, reviewers, timers and posts come.  The three share no   *)
(* state.                                                                  *)
(*                                                                         *)
(* Cases.  Neither property of a case is inductive, since both speak of    *)
(* quiet states only.  FreshInv says what an operation that runs alone has *)
(* in hand; ToldInv says which of the drafts, the row and the goal of a    *)
(* review already tell what the activity says, and which wait for the      *)
(* server to write.                                                        *)
(*                                                                         *)
(* Approvals.  FlowInv says where steps can be and what a click rests on:  *)
(* no two steps have the same time, no post claims to come from the        *)
(* gateway, and behind every click stands an earlier request, stored, for  *)
(* the same action.                                                        *)
(***************************************************************************)
EXTENDS CaseWorkflow, ApprovalFlow, ApprovalGate, WellFoundedInduction, TLAPS

-----------------------------------------------------------------------------
(* Cases: types, and who does what.                                        *)

Rebuilding == {"events", "review", "existing", "current", "comments", "write"}

\* The worker only rebuilds; a review has a goal until it is applied, and
\* changes the status alone.
Served ==
    /\ note["worker"] = {} /\ pc["worker"] \in Rebuilding \cup {"idle"}
    /\ pc["server"] = "idle" => note["server"] = {} /\ goal = "none"
    /\ goal # "none" =>
         /\ note["server"] \subseteq {"status"}
         /\ pc["server"] \in Rebuilding \cup {"insert review", "log status", "apply"}
    /\ pc["server"] \in {"insert review", "log status", "apply"} =>
         note["server"] \subseteq {"status"}
    /\ pc["server"] = "log status" => note["server"] = {"status"}
    /\ pc["server"] = "insert comment" => note["server"] = {}

CaseInv == CaseTypeOK /\ Served

LEMMA NoCaseTyped == NoCase \in Payload
BY DEF NoCase, Payload, Assignee

LEMMA InitCaseInv == CaseInit => CaseInv
<1> SUFFICES ASSUME CaseInit PROVE CaseInv
    OBVIOUS
<1>1. row \in Payload /\ draft \in [Thread -> Payload]
    BY NoCaseTyped DEF CaseInit
<1>2. logged \in [status : Status \cup {"none"}, assignee : Assignee]
    BY DEF CaseInit, Assignee
<1>3. CaseTypeOK
    BY <1>1, <1>2 DEF CaseInit, CaseTypeOK
<1> QED
    BY <1>3 DEF CaseInit, CaseInv, Served, Thread

\* Where the threads are after one of them has moved.
LEMMA Moved ==
    ASSUME CaseTypeOK, NEW t \in Thread, NEW p, GoTo(t, p)
    PROVE  /\ pc'[t] = p
           /\ \A u \in Thread : u # t => pc'[u] = pc[u]
BY DEF CaseTypeOK, GoTo

LEMMA NextCaseInv == CaseInv /\ [CaseNext]_caseVars => CaseInv'
<1> SUFFICES ASSUME CaseInv, [CaseNext]_caseVars PROVE CaseInv'
    OBVIOUS
<1>t. "worker" \in Thread /\ "server" \in Thread /\ "worker" # "server"
    BY DEF Thread
<1>m. reviews \in Nat /\ comments \in Nat /\ patches \in Nat
    BY DEF CaseInv, CaseTypeOK
<1>n. reviews + 1 \in Nat /\ comments + 1 \in Nat /\ patches + 1 \in Nat
    BY <1>m
<1> USE DEF CaseInv, Served, CaseTypeOK, tables, local
<1>1. ASSUME NEW t \in Thread, NEW S \in SUBSET (Event \ events), Store(t, S) PROVE CaseInv'
    <2>1. CaseTypeOK'
        BY <1>1 DEF Store, GoTo
    <2>2. Served'
        BY <1>1, <1>t DEF Store, GoTo, Rebuilding, Busy, Thread
    <2> QED
        BY <2>1, <2>2
<1>2. ASSUME NEW t \in Thread, ReadEvents(t) PROVE CaseInv'
    <2>1. CaseTypeOK'
        BY <1>2 DEF ReadEvents, GoTo, Payload
    <2>2. Served'
        BY <1>2, <1>t DEF ReadEvents, GoTo, Rebuilding, Thread
    <2> QED
        BY <2>1, <2>2
<1>3. ASSUME NEW t \in Thread, ReadReview(t) PROVE CaseInv'
    <2>1. CaseTypeOK'
        BY <1>3 DEF ReadReview, GoTo, Payload
    <2>2. Served'
        BY <1>3, <1>t DEF ReadReview, GoTo, Rebuilding, Thread
    <2> QED
        BY <2>1, <2>2
<1>4. ASSUME NEW t \in Thread, Build(t) PROVE CaseInv'
    <2> DEFINE built == IF draft[t].steps \cap Recovery # {} THEN "blocked"
                       ELSE IF Exists THEN row.status
                       ELSE FirstStatus(draft[t].steps, draft[t].review)
    <2>4. built \in Status \cup {"none"} /\ row.assignee \in Assignee
        BY DEF FirstStatus, Status, Payload
    <2>5. draft' = [draft EXCEPT ![t] = [draft[t] EXCEPT !.status = built, !.assignee = row.assignee]]
        BY <1>4 DEF Build
    <2> HIDE DEF built
    <2>1. draft' \in [Thread -> Payload]
        BY <2>4, <2>5 DEF Payload
    <2>2. CaseTypeOK'
        BY <1>4, <2>1 DEF Build, GoTo
    <2>3. Served'
        BY <1>4, <1>t DEF Build, GoTo, Rebuilding, Thread
    <2> QED
        BY <2>2, <2>3
<1>5. ASSUME NEW t \in Thread, Preserve(t) PROVE CaseInv'
    <2>1. CaseTypeOK'
        BY <1>5 DEF Preserve, GoTo, Payload
    <2>2. Served'
        BY <1>5, <1>t DEF Preserve, GoTo, Rebuilding, Thread
    <2> QED
        BY <2>1, <2>2
<1>6. ASSUME NEW t \in Thread, ListComments(t) PROVE CaseInv'
    <2>1. CaseTypeOK'
        BY <1>6 DEF ListComments, GoTo, Payload
    <2>2. Served'
        BY <1>6, <1>t DEF ListComments, GoTo, Rebuilding, Thread
    <2> QED
        BY <2>1, <2>2
<1>7. ASSUME NEW t \in Thread, Write(t) PROVE CaseInv'
    <2>1. CaseTypeOK'
        BY <1>7, NoCaseTyped DEF Write, GoTo, Busy
    <2>2. Served'
        BY <1>7, <1>t DEF Write, GoTo, Rebuilding, Thread
    <2> QED
        BY <2>1, <2>2
<1>8. ASSUME NEW o \in Outcome, SaveReview(o) PROVE CaseInv'
    <2>1. goal' \in Status \cup {"none"}
        BY <1>8 DEF SaveReview, AfterReview, Payload, Status
    <2>4. note' = [note EXCEPT !["server"] = {}] \/ note' = [note EXCEPT !["server"] = {"status"}]
        BY <1>8 DEF SaveReview
    <2>2. CaseTypeOK'
        BY <1>8, <2>1, <2>4 DEF SaveReview, GoTo
    <2>3. Served'
        BY <1>8, <2>4, <1>t DEF SaveReview, GoTo, Rebuilding, Thread
    <2> QED
        BY <2>2, <2>3
<1>9. CASE InsertReview
    <2>3. reviews' \in Nat
        BY <1>9, <1>n DEF InsertReview
    <2>5. GoTo("server", "log status") \/ GoTo("server", "events")
        BY <1>9 DEF InsertReview
    <2>1. CaseTypeOK'
        BY <1>9, <2>3, <2>5, <1>t DEF InsertReview, GoTo
    <2>6. note["server"] = {} \/ note["server"] = {"status"}
        BY <1>9 DEF InsertReview
    <2>7. GoTo("server", IF note["server"] = {"status"} THEN "log status" ELSE "events")
        BY <1>9, <2>6 DEF InsertReview
    <2>2. Served'
        BY <1>9, <2>6, <2>7, <1>t DEF InsertReview, GoTo, Rebuilding, Thread
    <2> QED
        BY <2>1, <2>2
<1>10. CASE LogStatus
    <2>4. "status" \in note["server"] /\ "assignee" \notin note["server"]
        BY <1>10 DEF LogStatus
    <2>5. logged' = [status |-> goal, assignee |-> logged.assignee]
        BY <1>10, <2>4 DEF LogStatus, LoggedOf
    <2>1. logged' \in [status : Status \cup {"none"}, assignee : Assignee]
        BY <2>5
    <2>2. CaseTypeOK'
        BY <1>10, <2>1 DEF LogStatus, GoTo
    <2>3. Served'
        BY <1>10, <1>t DEF LogStatus, GoTo, Rebuilding, Thread
    <2> QED
        BY <2>2, <2>3
<1>11. CASE ApplyOutcome
    <2>1. CaseTypeOK'
        BY <1>11 DEF ApplyOutcome, GoTo, Payload
    <2>2. Served'
        BY <1>11, <1>t DEF ApplyOutcome, GoTo, Rebuilding, Thread
    <2> QED
        BY <2>1, <2>2
<1>12. ASSUME NEW c \in Change, Patch(c) PROVE CaseInv'
    <2>1. Updated(c) \in Payload
        BY WorkflowAssumption DEF Updated, Payload, Status, Assignee
    <2>4. draft' \in [Thread -> Payload]
        BY <1>12, <2>1 DEF Patch
    <2>5. note' \in [Thread -> SUBSET {"status", "assignee"}]
        BY <1>12 DEF Patch
    <2>6. patches' \in Nat
        BY <1>12, <1>n DEF Patch
    <2>2. CaseTypeOK'
        BY <1>12, <2>4, <2>5, <2>6 DEF Patch, GoTo
    <2>3. Served'
        BY <1>12, <1>t DEF Patch, GoTo, CaseRequest, Busy, Rebuilding, Thread
    <2> QED
        BY <2>2, <2>3
<1>13. CASE LogPatch
    <2>1. logged' \in [status : Status \cup {"none"}, assignee : Assignee]
        BY <1>13, <1>t DEF LogPatch, LoggedOf, Payload
    <2>2. CaseTypeOK'
        BY <1>13, <2>1 DEF LogPatch, GoTo
    <2>3. Served'
        BY <1>13, <1>t DEF LogPatch, GoTo, Rebuilding, Thread
    <2> QED
        BY <2>2, <2>3
<1>14. CASE Comment
    <2>1. CaseTypeOK'
        BY <1>14 DEF Comment, GoTo
    <2>2. Served'
        BY <1>14, <1>t DEF Comment, GoTo, CaseRequest, Busy, Rebuilding, Thread
    <2> QED
        BY <2>1, <2>2
<1>15. CASE InsertComment
    <2>3. comments' \in Nat
        BY <1>15, <1>n DEF InsertComment
    <2>1. CaseTypeOK'
        BY <1>15, <2>3, <1>t DEF InsertComment, GoTo
    <2>2. Served'
        BY <1>15, <1>t DEF InsertComment, GoTo, Rebuilding, Thread
    <2> QED
        BY <2>1, <2>2
<1>16. CASE CaseCrash
    <2>1. CaseTypeOK'
        BY <1>16, NoCaseTyped DEF CaseCrash
    <2>2. Served'
        BY <1>16, <1>t DEF CaseCrash, Rebuilding
    <2> QED
        BY <2>1, <2>2
<1>17. CASE UNCHANGED caseVars
    BY <1>17 DEF caseVars
<1> QED
    BY <1>1, <1>2, <1>3, <1>4, <1>5, <1>6, <1>7, <1>8, <1>9, <1>10, <1>11, <1>12,
       <1>13, <1>14, <1>15, <1>16, <1>17 DEF CaseNext, Rebuild, ServeRequest

\* Every record of a case, in the store or in hand, is well formed, whatever
\* was requested in whatever order.
THEOREM CaseTypeCorrect == CaseSpec => []CaseTypeOK
<1>1. CaseInv => CaseTypeOK
    BY DEF CaseInv
<1> QED
    BY <1>1, InitCaseInv, NextCaseInv, PTL DEF CaseSpec
-----------------------------------------------------------------------------
(* The row shows the tables.                                               *)

Shows(d) == d.steps = events /\ d.review = reviews

\* What an operation has read so far is what the tables hold.
InStep(t) ==
    /\ pc[t] = "review" => draft[t].steps = events
    /\ pc[t] \in {"existing", "current", "comments", "log patch", "insert comment"}
         => Shows(draft[t])
    /\ pc[t] = "write" => Shows(draft[t]) /\ draft[t].comments = comments
    /\ pc[t] = "apply" => Shows(row)

\* That holds of an operation that is alone, unless a row was written beside
\* another one and no rebuild began alone since.
AloneInStep ==
    ~stale => \A t \in Thread : Busy(t) /\ ~Busy(Other(t)) => InStep(t)

FreshInv == AloneInStep /\ RowShowsTables

LEMMA InitFreshInv == CaseInit => FreshInv
BY DEF CaseInit, FreshInv, AloneInStep, RowShowsTables, NoCase, Busy

\* The two threads.
LEMMA Two ==
    /\ "worker" \in Thread /\ "server" \in Thread /\ "worker" # "server"
    /\ \A t \in Thread : /\ Other(t) \in Thread /\ Other(t) # t /\ Other(Other(t)) = t
                         /\ \A u \in Thread : u = t \/ u = Other(t)
BY DEF Thread, Other

\* When a thread goes on, only what it has in hand matters, and only if it is
\* alone.
LEMMA GoesOn ==
    ASSUME CaseInv, NEW t \in Thread, NEW p, GoTo(t, p), p # "idle",
           ~stale' /\ ~Busy(Other(t)) => InStep(t)'
    PROVE  FreshInv'
<1>1. pc'[t] = p /\ pc'[Other(t)] = pc[Other(t)]
    BY Moved, Two DEF CaseInv
<1>2. ~Quiet'
    BY <1>1 DEF Quiet, Busy
<1>3. ASSUME ~stale', NEW u \in Thread, Busy(u)', ~Busy(Other(u))' PROVE InStep(u)'
    <2>1. u = t
        BY <1>1, <1>3, Two DEF Busy
    <2> QED
        BY <1>1, <1>3, <2>1 DEF Busy
<1> QED
    BY <1>2, <1>3 DEF FreshInv, AloneInStep, RowShowsTables

LEMMA NextFreshInv == CaseInv /\ FreshInv /\ [CaseNext]_caseVars => FreshInv'
<1> SUFFICES ASSUME CaseInv, FreshInv, [CaseNext]_caseVars PROVE FreshInv'
    OBVIOUS
<1>d. /\ draft \in [Thread -> [steps : SUBSET Event, review : Nat, comments : Nat,
                              status : Status \cup {"none"}, assignee : Assignee]]
      /\ row \in [steps : SUBSET Event, review : Nat, comments : Nat,
                  status : Status \cup {"none"}, assignee : Assignee]
    BY DEF CaseInv, CaseTypeOK, Payload
<1>1. ASSUME NEW t \in Thread, NEW S \in SUBSET (Event \ events), Store(t, S) PROVE FreshInv'
    <2>1. GoTo(t, "events")
        BY <1>1 DEF Store
    <2>2. pc'[t] = "events"
        BY <2>1, Moved, Two DEF CaseInv
    <2>3. ~stale' /\ ~Busy(Other(t)) => InStep(t)'
        BY <1>1, <2>2, <1>d, Two DEF InStep, Shows, Store, tables, local
    <2> QED
        BY <2>1, <2>3, GoesOn
<1>2. ASSUME NEW t \in Thread, ReadEvents(t) PROVE FreshInv'
    <2>1. GoTo(t, "review")
        BY <1>2 DEF ReadEvents
    <2>2. pc'[t] = "review"
        BY <2>1, Moved, Two DEF CaseInv
    <2>3. ~stale' /\ ~Busy(Other(t)) => InStep(t)'
        BY <1>2, <2>2, <1>d, Two DEF InStep, Shows, ReadEvents, tables, local
    <2> QED
        BY <2>1, <2>3, GoesOn
<1>3. ASSUME NEW t \in Thread, ReadReview(t) PROVE FreshInv'
    <2>1. GoTo(t, "existing")
        BY <1>3 DEF ReadReview
    <2>2. pc'[t] = "existing"
        BY <2>1, Moved, Two DEF CaseInv
    <2>3. ~stale' /\ ~Busy(Other(t)) => InStep(t)'
        BY <1>3, <2>2, <1>d, Two DEF InStep, Shows, ReadReview, tables, local,
                                     FreshInv, AloneInStep, Busy
    <2> QED
        BY <2>1, <2>3, GoesOn
<1>4. ASSUME NEW t \in Thread, Build(t) PROVE FreshInv'
    <2>1. GoTo(t, "current")
        BY <1>4 DEF Build
    <2>2. pc'[t] = "current"
        BY <2>1, Moved, Two DEF CaseInv
    <2>3. ~stale' /\ ~Busy(Other(t)) => InStep(t)'
        BY <1>4, <2>2, <1>d, Two DEF InStep, Shows, Build, tables, local, FreshInv,
                                     AloneInStep, Busy
    <2> QED
        BY <2>1, <2>3, GoesOn
<1>5. ASSUME NEW t \in Thread, Preserve(t) PROVE FreshInv'
    <2>1. GoTo(t, "comments")
        BY <1>5 DEF Preserve
    <2>2. pc'[t] = "comments"
        BY <2>1, Moved, Two DEF CaseInv
    <2>3. ~stale' /\ ~Busy(Other(t)) => InStep(t)'
        BY <1>5, <2>2, <1>d, Two DEF InStep, Shows, Preserve, tables, local, FreshInv,
                                     AloneInStep, Busy
    <2> QED
        BY <2>1, <2>3, GoesOn
<1>6. ASSUME NEW t \in Thread, ListComments(t) PROVE FreshInv'
    <2>1. GoTo(t, "write")
        BY <1>6 DEF ListComments
    <2>2. pc'[t] = "write"
        BY <2>1, Moved, Two DEF CaseInv
    <2>3. ~stale' /\ ~Busy(Other(t)) => InStep(t)'
        BY <1>6, <2>2, <1>d, Two DEF InStep, Shows, ListComments, tables, local,
                                     FreshInv, AloneInStep, Busy
    <2> QED
        BY <2>1, <2>3, GoesOn
<1>7. ASSUME NEW t \in Thread, Write(t) PROVE FreshInv'
    <2>1. ~stale' => /\ ~stale /\ ~Busy(Other(t))
                     /\ row'.steps = events' /\ row'.review = reviews' /\ row'.comments = comments'
        BY <1>7, Two DEF Write, FreshInv, AloneInStep, Busy, InStep, Shows, tables
    <2>2. CASE GoTo(t, "apply")
        <3>2. pc'[t] = "apply"
            BY <2>2, Moved DEF CaseInv
        <3>1. ~stale' /\ ~Busy(Other(t)) => InStep(t)'
            BY <2>1, <3>2 DEF InStep, Shows
        <3> QED
            BY <2>2, <3>1, GoesOn
    <2>3. CASE GoTo(t, "idle")
        <3>1. pc'[t] = "idle" /\ pc'[Other(t)] = pc[Other(t)]
            BY <2>3, Moved, Two DEF CaseInv
        <3>2. ~stale' => \A u \in Thread : ~Busy(u)'
            BY <2>1, <3>1, Two DEF Busy
        <3> QED
            BY <2>1, <3>2 DEF FreshInv, AloneInStep, RowShowsTables
    <2> QED
        BY <1>7, <2>2, <2>3 DEF Write
<1>8. ASSUME NEW o \in Outcome, SaveReview(o) PROVE FreshInv'
    <2>1. GoTo("server", "insert review")
        BY <1>8 DEF SaveReview
    <2>2. pc'["server"] = "insert review"
        BY <2>1, Moved, Two DEF CaseInv
    <2>3. ~stale' /\ ~Busy(Other("server")) => InStep("server")'
        BY <1>8, <2>2, <1>d, Two DEF InStep, Shows, SaveReview, tables, local
    <2> QED
        BY <2>1, <2>3, GoesOn, Two
<1>9. CASE InsertReview
    <2> DEFINE p == IF note["server"] # {} THEN "log status" ELSE "events"
    <2>1. GoTo("server", p)
        BY <1>9 DEF InsertReview
    <2>2. pc'["server"] = p
        BY <2>1, Moved, Two DEF CaseInv
    <2>3. InStep("server")'
        BY <2>2 DEF InStep
    <2> QED
        BY <2>1, <2>3, GoesOn, Two
<1>10. CASE LogStatus
    <2>1. GoTo("server", "events")
        BY <1>10 DEF LogStatus
    <2>2. pc'["server"] = "events"
        BY <2>1, Moved, Two DEF CaseInv
    <2>3. ~stale' /\ ~Busy(Other("server")) => InStep("server")'
        BY <1>10, <2>2, <1>d, Two DEF InStep, Shows, LogStatus, tables, local
    <2> QED
        BY <2>1, <2>3, GoesOn, Two
<1>11. CASE ApplyOutcome
    <2>1. GoTo("server", "comments")
        BY <1>11 DEF ApplyOutcome
    <2>2. pc'["server"] = "comments"
        BY <2>1, Moved, Two DEF CaseInv
    <2>3. ~stale' /\ ~Busy(Other("server")) => InStep("server")'
        BY <1>11, <2>2, <1>d, Two DEF InStep, Shows, ApplyOutcome, tables, local,
                                      FreshInv, AloneInStep, Busy
    <2> QED
        BY <2>1, <2>3, GoesOn, Two
<1>12. ASSUME NEW c \in Change, Patch(c) PROVE FreshInv'
    <2>1. GoTo("server", "log patch")
        BY <1>12 DEF Patch
    <2>2. pc'["server"] = "log patch"
        BY <2>1, Moved, Two DEF CaseInv
    <2>4. Updated(c).steps = row.steps /\ Updated(c).review = row.review
        BY <1>d DEF Updated
    <2>5. draft'["server"] = Updated(c)
        BY <1>12, <1>d, Two DEF Patch
    <2>6. ~stale' /\ ~Busy(Other("server")) => row.steps = events /\ row.review = reviews
        BY <1>12, Two DEF Patch, CaseRequest, FreshInv, RowShowsTables, Quiet
    <2>3. ~stale' /\ ~Busy(Other("server")) => InStep("server")'
        BY <1>12, <2>2, <2>4, <2>5, <2>6 DEF InStep, Shows, Patch, tables
    <2> QED
        BY <2>1, <2>3, GoesOn, Two
<1>13. CASE LogPatch
    <2>1. GoTo("server", "comments")
        BY <1>13 DEF LogPatch
    <2>2. pc'["server"] = "comments"
        BY <2>1, Moved, Two DEF CaseInv
    <2>3. ~stale' /\ ~Busy(Other("server")) => InStep("server")'
        BY <1>13, <2>2, <1>d, Two DEF InStep, Shows, LogPatch, tables, local, FreshInv,
                                      AloneInStep, Busy
    <2> QED
        BY <2>1, <2>3, GoesOn, Two
<1>14. CASE Comment
    <2>1. GoTo("server", "insert comment")
        BY <1>14 DEF Comment
    <2>2. pc'["server"] = "insert comment"
        BY <2>1, Moved, Two DEF CaseInv
    <2>3. ~stale' /\ ~Busy(Other("server")) => InStep("server")'
        BY <1>14, <2>2, <1>d, Two DEF InStep, Shows, Comment, tables, local, FreshInv,
                                      RowShowsTables, Quiet, Busy, CaseRequest
    <2> QED
        BY <2>1, <2>3, GoesOn, Two
<1>15. CASE InsertComment
    <2>1. GoTo("server", "comments")
        BY <1>15 DEF InsertComment
    <2>2. pc'["server"] = "comments"
        BY <2>1, Moved, Two DEF CaseInv
    <2>3. ~stale' /\ ~Busy(Other("server")) => InStep("server")'
        BY <1>15, <2>2, <1>d, Two DEF InStep, Shows, InsertComment, tables, local,
                                      FreshInv, AloneInStep, Busy
    <2> QED
        BY <2>1, <2>3, GoesOn, Two
<1>16. CASE CaseCrash
    BY <1>16 DEF CaseCrash, FreshInv, AloneInStep, RowShowsTables
<1>17. CASE UNCHANGED caseVars
    BY <1>17 DEF caseVars, tables, local, FreshInv, AloneInStep, RowShowsTables, InStep,
                 Shows, Busy, Quiet
<1> QED
    BY <1>1, <1>2, <1>3, <1>4, <1>5, <1>6, <1>7, <1>8, <1>9, <1>10, <1>11, <1>12,
       <1>13, <1>14, <1>15, <1>16, <1>17 DEF CaseNext, Rebuild, ServeRequest

\* When nothing is in progress the row shows every event, the latest review
\* and all comments, unless operations overlapped and no rebuild ran alone
\* since: each piece a write puts into the row was read after the last change
\* of its table.
THEOREM RowIsFresh == CaseSpec => []RowShowsTables
<1>1. FreshInv => RowShowsTables
    BY DEF FreshInv
<1> QED
    BY <1>1, InitCaseInv, NextCaseInv, InitFreshInv, NextFreshInv, PTL DEF CaseSpec
-----------------------------------------------------------------------------
(* What is in hand, and what there is before the first row.                *)

Drafted == {"review", "existing", "current", "comments", "write",
            "log patch", "insert comment"}

\* A draft shows steps, all of them stored, and from Build on a status.
InHand(t) ==
    /\ pc[t] \in Drafted \cup {"events"} => events # {}
    /\ pc[t] \in Drafted => draft[t].steps # {}
    /\ pc[t] \in {"review", "existing"} => draft[t].steps \subseteq events
    /\ pc[t] \in Drafted \ {"review", "existing"} => draft[t].status # "none"

RowInHand == Exists => events # {} /\ row.status # "none"

\* A review has its goal from the start, and a rebuild without a goal decides
\* nothing.
GoalInHand ==
    /\ pc["server"] \in {"insert review", "log status", "apply"} => goal # "none"
    /\ pc["server"] \in {"events", "review", "existing", "current"} /\ goal = "none"
         => note["server"] = {}

\* A case without a row was never decided.
Unborn ==
    ~Exists => /\ row = NoCase /\ logged = [status |-> "none", assignee |-> "nobody"]
               /\ note["server"] = {} /\ goal = "none"
               /\ pc["server"] \in Rebuilding \cup {"idle"}

HandInv == (\A t \in Thread : InHand(t)) /\ RowInHand /\ GoalInHand /\ Unborn

LEMMA InitHandInv == CaseInit => HandInv
BY Two DEF CaseInit, HandInv, InHand, Drafted, RowInHand, GoalInHand, Unborn, Exists,
           NoCase, Rebuilding

\* The thread that does not move has in hand what it had.
LEMMA KeepsInHand ==
    ASSUME NEW u \in Thread, InHand(u), pc'[u] = pc[u], draft'[u] = draft[u],
           events \subseteq events'
    PROVE  InHand(u)'
BY DEF InHand

\* A step of a rebuild, or the storing of an event, that leaves the row alone.
LEMMA RebuildInHand ==
    ASSUME CaseInv, HandInv, NEW t \in Thread, NEW p \in Rebuilding, GoTo(t, p),
           pc[t] \in Rebuilding \cup {"idle"}, p = "events" \/ pc[t] # "idle",
           pc[t] # "write", pc[t] = "comments" => p = "write",
           events \subseteq events', UNCHANGED <<row, logged, note, goal>>,
           draft'[Other(t)] = draft[Other(t)], InHand(t)'
    PROVE  HandInv'
<1>1. pc'[t] = p /\ pc'[Other(t)] = pc[Other(t)]
    BY Moved, Two DEF CaseInv
<1>2. \A u \in Thread : InHand(u)'
    BY <1>1, KeepsInHand, Two DEF HandInv
<1>3. RowInHand' /\ Unborn'
  <2>1. pc'["server"] \in Rebuilding \cup {"idle"} \/ pc'["server"] = pc["server"]
      BY <1>1, Two
  <2> QED
      BY <2>1 DEF HandInv, RowInHand, Unborn, Exists
<1>4. GoalInHand'
  <2>1. CASE t = "worker"
      BY <1>1, <2>1, Two DEF HandInv, GoalInHand, Other
  <2>2. CASE t = "server"
      BY <1>1, <2>2 DEF HandInv, GoalInHand, CaseInv, Served, Rebuilding
  <2> QED
      BY <2>1, <2>2 DEF Thread
<1> QED
    BY <1>2, <1>3, <1>4 DEF HandInv

LEMMA NextHandInv == CaseInv /\ HandInv /\ [CaseNext]_caseVars => HandInv'
<1> SUFFICES ASSUME CaseInv, HandInv, [CaseNext]_caseVars PROVE HandInv'
    OBVIOUS
<1>d. /\ draft \in [Thread -> [steps : SUBSET Event, review : Nat, comments : Nat,
                              status : Status \cup {"none"}, assignee : Assignee]]
      /\ row \in [steps : SUBSET Event, review : Nat, comments : Nat,
                  status : Status \cup {"none"}, assignee : Assignee]
    BY DEF CaseInv, CaseTypeOK, Payload
<1>n. "none" \notin Status
    BY DEF Status
<1>1. ASSUME NEW t \in Thread, NEW S \in SUBSET (Event \ events), Store(t, S) PROVE HandInv'
    <2>1. GoTo(t, "events")
        BY <1>1 DEF Store
    <2>2. pc'[t] = "events"
        BY <2>1, Moved DEF CaseInv
    <2>6. events' # {}
        BY <1>1 DEF Store
    <2>3. InHand(t)'
        BY <2>2, <2>6 DEF InHand, Drafted
    <2>4. /\ events \subseteq events' /\ UNCHANGED <<row, logged, note, goal>>
          /\ draft'[Other(t)] = draft[Other(t)]
        BY <1>1, <1>d, Two DEF Store, tables, local
    <2>5. pc[t] = "idle" /\ "events" \in Rebuilding
        BY <1>1 DEF Store, Busy, Rebuilding
    <2> QED
        BY <2>1, <2>3, <2>4, <2>5, RebuildInHand DEF Rebuilding
<1>2. ASSUME NEW t \in Thread, ReadEvents(t) PROVE HandInv'
    <2>1. GoTo(t, "review")
        BY <1>2 DEF ReadEvents
    <2>2. pc'[t] = "review"
        BY <2>1, Moved DEF CaseInv
    <2>3. InHand(t)'
        BY <1>2, <1>d, <2>2, Two DEF HandInv, InHand, Drafted, ReadEvents, tables
    <2>4. /\ events \subseteq events' /\ UNCHANGED <<row, logged, note, goal>>
          /\ draft'[Other(t)] = draft[Other(t)]
        BY <1>2, <1>d, Two DEF ReadEvents, tables, local
    <2>5. pc[t] = "events" /\ "review" \in Rebuilding
        BY <1>2 DEF ReadEvents, Busy, Rebuilding
    <2> QED
        BY <2>1, <2>3, <2>4, <2>5, RebuildInHand DEF Rebuilding
<1>3. ASSUME NEW t \in Thread, ReadReview(t) PROVE HandInv'
    <2>1. GoTo(t, "existing")
        BY <1>3 DEF ReadReview
    <2>2. pc'[t] = "existing"
        BY <2>1, Moved DEF CaseInv
    <2>3. InHand(t)'
        BY <1>3, <1>d, <2>2, Two DEF HandInv, InHand, Drafted, ReadReview, tables
    <2>4. /\ events \subseteq events' /\ UNCHANGED <<row, logged, note, goal>>
          /\ draft'[Other(t)] = draft[Other(t)]
        BY <1>3, <1>d, Two DEF ReadReview, tables, local
    <2>5. pc[t] = "review" /\ "existing" \in Rebuilding
        BY <1>3 DEF ReadReview, Busy, Rebuilding
    <2> QED
        BY <2>1, <2>3, <2>4, <2>5, RebuildInHand DEF Rebuilding
<1>4. ASSUME NEW t \in Thread, Build(t) PROVE HandInv'
    <2>1. GoTo(t, "current")
        BY <1>4 DEF Build
    <2>2. pc'[t] = "current"
        BY <2>1, Moved DEF CaseInv
    <2>3. InHand(t)'
        BY <1>4, <1>d, <2>2, Two DEF HandInv, InHand, Drafted, Build, FirstStatus,
                                     RowInHand, tables
    <2>4. /\ events \subseteq events' /\ UNCHANGED <<row, logged, note, goal>>
          /\ draft'[Other(t)] = draft[Other(t)]
        BY <1>4, <1>d, Two DEF Build, tables, local
    <2>5. pc[t] = "existing" /\ "current" \in Rebuilding
        BY <1>4 DEF Build, Busy, Rebuilding
    <2> QED
        BY <2>1, <2>3, <2>4, <2>5, RebuildInHand DEF Rebuilding
<1>5. ASSUME NEW t \in Thread, Preserve(t) PROVE HandInv'
    <2>1. GoTo(t, "comments")
        BY <1>5 DEF Preserve
    <2>2. pc'[t] = "comments"
        BY <2>1, Moved DEF CaseInv
    <2>3. InHand(t)'
        BY <1>5, <1>d, <2>2, Two DEF HandInv, RowInHand, InHand, Drafted, Preserve, tables
    <2>4. /\ events \subseteq events' /\ UNCHANGED <<row, logged, note, goal>>
          /\ draft'[Other(t)] = draft[Other(t)]
        BY <1>5, <1>d, Two DEF Preserve, tables, local
    <2>5. pc[t] = "current" /\ "comments" \in Rebuilding
        BY <1>5 DEF Preserve, Busy, Rebuilding
    <2> QED
        BY <2>1, <2>3, <2>4, <2>5, RebuildInHand DEF Rebuilding
<1>6. ASSUME NEW t \in Thread, ListComments(t) PROVE HandInv'
    <2>1. GoTo(t, "write")
        BY <1>6 DEF ListComments
    <2>2. pc'[t] = "write"
        BY <2>1, Moved DEF CaseInv
    <2>3. InHand(t)'
        BY <1>6, <1>d, <2>2, Two DEF HandInv, InHand, Drafted, ListComments, tables
    <2>4. /\ events \subseteq events' /\ UNCHANGED <<row, logged, note, goal>>
          /\ draft'[Other(t)] = draft[Other(t)]
        BY <1>6, <1>d, Two DEF ListComments, tables, local
    <2>5. pc[t] = "comments" /\ "write" \in Rebuilding
        BY <1>6 DEF ListComments, Busy, Rebuilding
    <2> QED
        BY <2>1, <2>3, <2>4, <2>5, RebuildInHand DEF Rebuilding
<1>7. ASSUME NEW t \in Thread, Write(t) PROVE HandInv'
    <2>1. /\ row' = draft[t] /\ UNCHANGED <<events, logged, goal>>
          /\ draft'[Other(t)] = draft[Other(t)]
        BY <1>7, <1>d, Two DEF Write, tables
    <2>2. draft[t].steps # {} /\ draft[t].status # "none" /\ events # {}
        BY <1>7, <1>d DEF Write, HandInv, InHand, Drafted
    <2>3. RowInHand' /\ Unborn'
        BY <2>1, <2>2 DEF RowInHand, Unborn, Exists
    <2>4. /\ GoTo(t, "apply") /\ t = "server" /\ goal # "none"
          \/ GoTo(t, "idle")
        BY <1>7 DEF Write
    <2>5. /\ pc'[t] \in {"apply", "idle"} /\ pc'[Other(t)] = pc[Other(t)]
          /\ pc'[t] = "apply" => t = "server" /\ goal # "none"
        BY <2>4, Moved, Two DEF CaseInv
    <2>6. \A u \in Thread : InHand(u)'
        <3>1. InHand(t)'
            BY <2>5 DEF InHand, Drafted
        <3>2. InHand(Other(t))'
            BY <2>1, <2>5, KeepsInHand, Two DEF HandInv
        <3> QED
            BY <3>1, <3>2, Two
    <2>7. GoalInHand'
        <3>1. CASE t = "worker"
            <4>1. note'["server"] = note["server"]
                BY <1>7, <2>5, <3>1 DEF Write, CaseInv, CaseTypeOK, Thread
            <4> QED
                BY <2>1, <2>5, <3>1, <4>1, Two DEF HandInv, GoalInHand, Other
        <3>2. CASE t = "server"
            BY <2>1, <2>5, <3>2 DEF GoalInHand
        <3> QED
            BY <3>1, <3>2 DEF Thread
    <2> QED
        BY <2>3, <2>6, <2>7 DEF HandInv
<1>8. ASSUME NEW o \in Outcome, SaveReview(o) PROVE HandInv'
    <2>1. GoTo("server", "insert review")
        BY <1>8 DEF SaveReview
    <2>2. pc'["server"] = "insert review" /\ pc'["worker"] = pc["worker"]
        BY <2>1, Moved, Two DEF CaseInv
    <2>7. goal' # "none" /\ Exists
        BY <1>8 DEF SaveReview, AfterReview, CaseRequest, HandInv, RowInHand
    <2>3. InHand("server")'
        BY <1>8, <2>2 DEF HandInv, InHand, Drafted, SaveReview
    <2>4. InHand("worker")'
        BY <1>8, <1>d, <2>2, KeepsInHand, Two DEF SaveReview, HandInv, tables, local
    <2>5. RowInHand' /\ Unborn'
        BY <1>8, <2>2 DEF HandInv, RowInHand, Unborn, Exists, tables, local, SaveReview, CaseRequest
    <2>6. GoalInHand'
        BY <1>8, <2>2, <2>7 DEF GoalInHand, SaveReview
    <2> QED
        BY <2>3, <2>4, <2>5, <2>6 DEF HandInv, Thread
<1>9. CASE InsertReview
    <2>1. GoTo("server", (IF note["server"] # {} THEN "log status" ELSE "events"))
        BY <1>9 DEF InsertReview
    <2>2. pc'["server"] = (IF note["server"] # {} THEN "log status" ELSE "events") /\ pc'["worker"] = pc["worker"]
        BY <2>1, Moved, Two DEF CaseInv
    <2>7. events # {}
        BY <1>9 DEF InsertReview, HandInv, RowInHand, Unborn, Rebuilding
    <2>3. InHand("server")'
        BY <1>9, <2>2, <2>7 DEF HandInv, InHand, Drafted, InsertReview
    <2>4. InHand("worker")'
        BY <1>9, <1>d, <2>2, KeepsInHand, Two DEF InsertReview, HandInv, tables, local
    <2>5. RowInHand' /\ Unborn'
        BY <1>9, <2>2 DEF HandInv, RowInHand, Unborn, Exists, tables, local,
                          InsertReview, Rebuilding
    <2>6. GoalInHand'
        BY <1>9, <2>2 DEF GoalInHand, InsertReview, HandInv, local, tables
    <2> QED
        BY <2>3, <2>4, <2>5, <2>6 DEF HandInv, Thread
<1>10. CASE LogStatus
    <2>1. GoTo("server", "events")
        BY <1>10 DEF LogStatus
    <2>2. pc'["server"] = "events" /\ pc'["worker"] = pc["worker"]
        BY <2>1, Moved, Two DEF CaseInv
    <2>7. events # {} /\ Exists
        BY <1>10 DEF LogStatus, HandInv, RowInHand, Unborn, Rebuilding
    <2>3. InHand("server")'
        BY <1>10, <2>2, <2>7 DEF HandInv, InHand, Drafted, LogStatus, tables
    <2>4. InHand("worker")'
        BY <1>10, <1>d, <2>2, KeepsInHand, Two DEF LogStatus, HandInv, tables, local
    <2>5. RowInHand' /\ Unborn'
        BY <1>10, <2>7 DEF HandInv, RowInHand, Unborn, Exists, local, LogStatus
    <2>6. GoalInHand'
        BY <1>10, <2>2, <2>7 DEF GoalInHand, LogStatus, HandInv, local, tables
    <2> QED
        BY <2>3, <2>4, <2>5, <2>6 DEF HandInv, Thread
<1>11. CASE ApplyOutcome
    <2>1. GoTo("server", "comments")
        BY <1>11 DEF ApplyOutcome
    <2>2. pc'["server"] = "comments" /\ pc'["worker"] = pc["worker"]
        BY <2>1, Moved, Two DEF CaseInv
    <2>7. Exists /\ goal # "none"
        BY <1>11 DEF ApplyOutcome, HandInv, Unborn, Rebuilding, GoalInHand
    <2>8. draft'["server"] = [row EXCEPT !.status = goal] /\ UNCHANGED tables
        BY <1>11, <1>d, Two DEF ApplyOutcome
    <2>9. draft'["server"].steps # {} /\ draft'["server"].status # "none" /\ events' # {}
        BY <1>d, <2>7, <2>8 DEF HandInv, RowInHand, Exists, tables
    <2>3. InHand("server")'
        BY <2>2, <2>9 DEF InHand, Drafted
    <2>4. InHand("worker")'
        BY <1>11, <1>d, <2>2, KeepsInHand, Two DEF ApplyOutcome, HandInv, tables, local
    <2>5. RowInHand' /\ Unborn'
        BY <1>11, <2>7 DEF HandInv, RowInHand, Unborn, Exists, tables, ApplyOutcome
    <2>6. GoalInHand'
        BY <1>11, <2>2 DEF GoalInHand, ApplyOutcome
    <2> QED
        BY <2>3, <2>4, <2>5, <2>6 DEF HandInv, Thread
<1>12. ASSUME NEW c \in Change, Patch(c) PROVE HandInv'
    <2>1. GoTo("server", "log patch")
        BY <1>12 DEF Patch
    <2>2. pc'["server"] = "log patch" /\ pc'["worker"] = pc["worker"]
        BY <2>1, Moved, Two DEF CaseInv
    <2>7. Updated(c).steps = row.steps
        BY <1>d DEF Updated
    <2>8. Exists /\ events # {} /\ row.status # "none"
        BY <1>12 DEF Patch, CaseRequest, HandInv, RowInHand
    <2>9. Updated(c).status # "none"
        BY <1>d, <1>n, <2>8, WorkflowAssumption DEF Updated
    <2>10. draft'["server"] = Updated(c) /\ UNCHANGED tables
        BY <1>12, <1>d, Two DEF Patch
    <2>3. InHand("server")'
        BY <1>12, <2>2, <2>7, <2>8, <2>9, <2>10 DEF HandInv, InHand, Drafted, Patch,
                                        Exists, tables
    <2>4. InHand("worker")'
        BY <1>12, <1>d, <2>2, KeepsInHand, Two DEF Patch, HandInv, tables, local
    <2>5. RowInHand' /\ Unborn'
        BY <1>12, <2>8 DEF RowInHand, Unborn, Exists, tables, Patch
    <2>6. GoalInHand'
        BY <1>12, <2>2 DEF GoalInHand, Patch, CaseRequest, Busy
    <2> QED
        BY <2>3, <2>4, <2>5, <2>6 DEF HandInv, Thread
<1>13. CASE LogPatch
    <2>1. GoTo("server", "comments")
        BY <1>13 DEF LogPatch
    <2>2. pc'["server"] = "comments" /\ pc'["worker"] = pc["worker"]
        BY <2>1, Moved, Two DEF CaseInv
    <2>7. Exists /\ events' = events /\ draft' = draft
        BY <1>13 DEF LogPatch, HandInv, Unborn, Rebuilding, local
    <2>3. InHand("server")'
        BY <1>13, <2>2, <2>7, Two DEF HandInv, InHand, Drafted, LogPatch
    <2>4. InHand("worker")'
        BY <1>13, <1>d, <2>2, KeepsInHand, Two DEF LogPatch, HandInv, tables, local
    <2>5. RowInHand' /\ Unborn'
        BY <1>13, <2>7 DEF HandInv, RowInHand, Unborn, Exists, LogPatch
    <2>6. GoalInHand'
        BY <1>13, <2>2 DEF GoalInHand, LogPatch, CaseInv, Served
    <2> QED
        BY <2>3, <2>4, <2>5, <2>6 DEF HandInv, Thread
<1>14. CASE Comment
    <2>1. GoTo("server", "insert comment")
        BY <1>14 DEF Comment
    <2>2. pc'["server"] = "insert comment" /\ pc'["worker"] = pc["worker"]
        BY <2>1, Moved, Two DEF CaseInv
    <2>7. Exists /\ UNCHANGED tables /\ draft'["server"] = row
        BY <1>14, <1>d, Two DEF Comment, CaseRequest
    <2>3. InHand("server")'
        BY <1>14, <2>2, <2>7 DEF HandInv, InHand, Drafted, Comment, RowInHand, Exists, tables
    <2>4. InHand("worker")'
        BY <1>14, <1>d, <2>2, KeepsInHand, Two DEF Comment, HandInv, tables, local
    <2>5. RowInHand' /\ Unborn'
        BY <1>14, <2>7 DEF HandInv, RowInHand, Unborn, Exists, tables, Comment
    <2>6. GoalInHand'
        BY <1>14, <2>2 DEF GoalInHand, Comment
    <2> QED
        BY <2>3, <2>4, <2>5, <2>6 DEF HandInv, Thread
<1>15. CASE InsertComment
    <2>1. GoTo("server", "comments")
        BY <1>15 DEF InsertComment
    <2>2. pc'["server"] = "comments" /\ pc'["worker"] = pc["worker"]
        BY <2>1, Moved, Two DEF CaseInv
    <2>7. Exists /\ events' = events /\ draft' = draft
        BY <1>15 DEF InsertComment, HandInv, Unborn, Rebuilding, local
    <2>3. InHand("server")'
        BY <1>15, <2>2, <2>7, Two DEF HandInv, InHand, Drafted, InsertComment
    <2>4. InHand("worker")'
        BY <1>15, <1>d, <2>2, KeepsInHand, Two DEF InsertComment, HandInv, tables, local
    <2>5. RowInHand' /\ Unborn'
        BY <1>15, <2>7 DEF HandInv, RowInHand, Unborn, Exists, InsertComment
    <2>6. GoalInHand'
        BY <1>15, <2>2 DEF GoalInHand, InsertComment, CaseInv, Served
    <2> QED
        BY <2>3, <2>4, <2>5, <2>6 DEF HandInv, Thread
<1>16. CASE CaseCrash
    <2>1. \A t \in Thread : pc'[t] = "idle"
        BY <1>16 DEF CaseCrash
    <2>2. \A t \in Thread : InHand(t)'
        BY <2>1 DEF InHand, Drafted
    <2>3. RowInHand' /\ Unborn' /\ GoalInHand'
        BY <1>16, <2>1, Two DEF CaseCrash, HandInv, RowInHand, Unborn, GoalInHand, Exists, tables
    <2> QED
        BY <2>2, <2>3 DEF HandInv
<1>17. CASE UNCHANGED caseVars
    BY <1>17 DEF caseVars, tables, local, HandInv, InHand, RowInHand, GoalInHand, Unborn, Exists
<1> QED
    BY <1>1, <1>2, <1>3, <1>4, <1>5, <1>6, <1>7, <1>8, <1>9, <1>10, <1>11, <1>12,
       <1>13, <1>14, <1>15, <1>16, <1>17 DEF CaseNext, Rebuild, ServeRequest
-----------------------------------------------------------------------------
(* The row tells what was decided.                                         *)

\* Status v is the one the activity says, or it needs no activity.
StatusTold(v) ==
    \/ v = logged.status
    \/ logged.status = "none" /\ v \in {"unassigned", "resolved"}
    \/ v = "blocked" /\ events \cap Recovery # {}

\* The server has logged a change of field f that it has still to write.
Pending(f) ==
    f \in note["server"] /\ pc["server"] \notin {"insert review", "log status", "log patch"}

RowTold ==
    /\ Exists /\ ~Pending("status") => StatusTold(row.status)
    /\ ~Pending("assignee") => row.assignee = logged.assignee

\* A draft that the second look at the row will not change.
LookTold(t) ==
    pc[t] = "current" =>
        /\ ~Pending("status") /\ (draft[t].status = "blocked" \/ ~Exists)
             => StatusTold(draft[t].status)
        /\ ~Pending("assignee") /\ draft[t].assignee = "somebody"
             => logged.assignee = "somebody"

\* A draft about to be written; the server's last one holds the change itself.
DraftTold(t) ==
    pc[t] \in {"comments", "write"} =>
        /\ ~Pending("status") \/ (t = "server" /\ goal = "none")
             => StatusTold(draft[t].status)
        /\ ~Pending("assignee") \/ (t = "server" /\ goal = "none")
             => draft[t].assignee = logged.assignee

\* The draft of a request, in the fields it leaves alone, and the goal of a
\* review that is logged or changes nothing.
RequestTold ==
    /\ pc["server"] \in {"log patch", "insert comment"} =>
         /\ "status" \notin note["server"] => StatusTold(draft["server"].status)
         /\ "assignee" \notin note["server"] => draft["server"].assignee = logged.assignee
    /\ goal # "none" /\ (note["server"] = {} \/ Pending("status")) => StatusTold(goal)

Told == RowTold /\ (\A t \in Thread : LookTold(t) /\ DraftTold(t)) /\ RequestTold

ToldInv == ~raced => Told

LEMMA InitToldInv == CaseInit => ToldInv
BY Two DEF CaseInit, ToldInv, Told, RowTold, LookTold, DraftTold, RequestTold, Exists, NoCase

\* A step of a rebuild, or the storing of an event, that leaves the row alone.
LEMMA RebuildTold ==
    ASSUME CaseInv, Told, NEW t \in Thread, NEW p \in Rebuilding, GoTo(t, p),
           pc[t] \in Rebuilding \cup {"idle"},
           events \subseteq events', UNCHANGED <<row, logged, note, goal>>,
           draft'[Other(t)] = draft[Other(t)], LookTold(t)', DraftTold(t)'
    PROVE  Told'
<1>1. pc'[t] = p /\ pc'[Other(t)] = pc[Other(t)]
    BY Moved, Two DEF CaseInv
<1>2. \A f : Pending(f)' <=> Pending(f)
  <2>1. CASE t = "worker"
      BY <1>1, <2>1, Two DEF Pending, Other
  <2>2. CASE t = "server"
      BY <1>1, <2>2 DEF Pending, CaseInv, Served, Rebuilding
  <2> QED
      BY <2>1, <2>2 DEF Thread
<1>3. \A v : StatusTold(v) =>
          \/ v = logged.status
          \/ logged.status = "none" /\ v \in {"unassigned", "resolved"}
          \/ v = "blocked" /\ events' \cap Recovery # {}
    BY DEF StatusTold
<1>4. RowTold'
    BY <1>2, <1>3 DEF Told, RowTold, StatusTold, Exists
<1>5. LookTold(Other(t))' /\ DraftTold(Other(t))'
  <2>1. LookTold(Other(t)) /\ DraftTold(Other(t))
      BY Two DEF Told
  <2> QED
      BY <1>1, <1>2, <1>3, <2>1 DEF LookTold, DraftTold, StatusTold, Exists
<1>6. RequestTold'
  <2>1. pc'["server"] \in {"log patch", "insert comment"} =>
            pc'["server"] = pc["server"] /\ draft'["server"] = draft["server"]
      BY <1>1, Two DEF Rebuilding
  <2> QED
      BY <1>2, <1>3, <2>1 DEF Told, RequestTold, StatusTold
<1> QED
    BY <1>4, <1>5, <1>6, Two DEF Told

LEMMA NextToldInv == CaseInv /\ HandInv /\ ToldInv /\ [CaseNext]_caseVars => ToldInv'
<1> SUFFICES ASSUME CaseInv, HandInv, ToldInv, [CaseNext]_caseVars, ~raced' PROVE Told'
    BY DEF ToldInv
<1>d. /\ draft \in [Thread -> [steps : SUBSET Event, review : Nat, comments : Nat,
                              status : Status \cup {"none"}, assignee : Assignee]]
      /\ row \in [steps : SUBSET Event, review : Nat, comments : Nat,
                  status : Status \cup {"none"}, assignee : Assignee]
      /\ note \in [Thread -> SUBSET {"status", "assignee"}]
    BY DEF CaseInv, CaseTypeOK, Payload
<1>n. "none" \notin Status /\ Assignee = {"nobody", "somebody"}
    BY DEF Status, Assignee
<1>1. ASSUME NEW t \in Thread, NEW S \in SUBSET (Event \ events), Store(t, S) PROVE Told'
    <2>1. GoTo(t, "events") /\ pc[t] = "idle" /\ "events" \in Rebuilding
        BY <1>1 DEF Store, Busy, Rebuilding
    <2>2. pc'[t] = "events"
        BY <2>1, Moved DEF CaseInv
    <2>3. Told
        BY <1>1 DEF Store, ToldInv
    <2>4. /\ events \subseteq events' /\ UNCHANGED <<row, logged, note, goal>>
          /\ draft'[Other(t)] = draft[Other(t)]
        BY <1>1, <1>d, Two DEF Store, tables, local
    <2>5. LookTold(t)' /\ DraftTold(t)'
        BY <2>2 DEF LookTold, DraftTold
    <2> QED
        BY <2>1, <2>3, <2>4, <2>5, RebuildTold DEF Rebuilding
<1>2. ASSUME NEW t \in Thread, ReadEvents(t) PROVE Told'
    <2>1. GoTo(t, "review") /\ pc[t] = "events" /\ "review" \in Rebuilding
        BY <1>2 DEF ReadEvents, Busy, Rebuilding
    <2>2. pc'[t] = "review"
        BY <2>1, Moved DEF CaseInv
    <2>3. Told
        BY <1>2 DEF ReadEvents, ToldInv
    <2>4. /\ events \subseteq events' /\ UNCHANGED <<row, logged, note, goal>>
          /\ draft'[Other(t)] = draft[Other(t)]
        BY <1>2, <1>d, Two DEF ReadEvents, tables, local
    <2>5. LookTold(t)' /\ DraftTold(t)'
        BY <2>2 DEF LookTold, DraftTold
    <2> QED
        BY <2>1, <2>3, <2>4, <2>5, RebuildTold DEF Rebuilding
<1>3. ASSUME NEW t \in Thread, ReadReview(t) PROVE Told'
    <2>1. GoTo(t, "existing") /\ pc[t] = "review" /\ "existing" \in Rebuilding
        BY <1>3 DEF ReadReview, Busy, Rebuilding
    <2>2. pc'[t] = "existing"
        BY <2>1, Moved DEF CaseInv
    <2>3. Told
        BY <1>3 DEF ReadReview, ToldInv
    <2>4. /\ events \subseteq events' /\ UNCHANGED <<row, logged, note, goal>>
          /\ draft'[Other(t)] = draft[Other(t)]
        BY <1>3, <1>d, Two DEF ReadReview, tables, local
    <2>5. LookTold(t)' /\ DraftTold(t)'
        BY <2>2 DEF LookTold, DraftTold
    <2> QED
        BY <2>1, <2>3, <2>4, <2>5, RebuildTold DEF Rebuilding
<1>4. ASSUME NEW t \in Thread, Build(t) PROVE Told'
    <2>1. GoTo(t, "current") /\ pc[t] = "existing" /\ "current" \in Rebuilding
        BY <1>4 DEF Build, Busy, Rebuilding
    <2>2. pc'[t] = "current"
        BY <2>1, Moved DEF CaseInv
    <2>3. Told
        BY <1>4 DEF Build, ToldInv
    <2>4. /\ events \subseteq events' /\ UNCHANGED <<row, logged, note, goal>>
          /\ draft'[Other(t)] = draft[Other(t)]
        BY <1>4, <1>d, Two DEF Build, tables, local
    <2>6. \A f : Pending(f) => Pending(f)'
      <3>1. pc'["server"] = pc["server"] \/ pc'["server"] = "current"
          BY <2>1, <2>2, Moved, Two DEF CaseInv
      <3> QED
          BY <2>4, <3>1 DEF Pending
    <2> DEFINE built == IF draft[t].steps \cap Recovery # {} THEN "blocked"
                       ELSE IF Exists THEN row.status
                       ELSE FirstStatus(draft[t].steps, draft[t].review)
    <2>7. draft' = [draft EXCEPT ![t] = [draft[t] EXCEPT !.status = built, !.assignee = row.assignee]]
        BY <1>4 DEF Build
    <2>8. ~Pending("status") /\ (built = "blocked" \/ ~Exists) => StatusTold(built)
        <3>1. draft[t].steps \subseteq events
            BY <2>1 DEF HandInv, InHand
        <3>2. ~Exists => logged.status = "none"
            BY DEF HandInv, Unborn
        <3> QED
            BY <2>3, <3>1, <3>2 DEF Told, RowTold, StatusTold, FirstStatus
    <2> HIDE DEF built
    <2>9. draft'[t].status = built /\ draft'[t].assignee = row.assignee
        BY <1>d, <2>7
    <2>10. UNCHANGED <<events, logged>> /\ (Exists' <=> Exists)
        BY <1>4, <2>4 DEF Build, tables, Exists
    <2>11. /\ ~Pending("status")' /\ (built = "blocked" \/ ~Exists) => StatusTold(built)
           /\ ~Pending("assignee")' => row.assignee = logged.assignee
        BY <2>3, <2>6, <2>8 DEF Told, RowTold
    <2>5. LookTold(t)' /\ DraftTold(t)'
        BY <2>2, <2>6, <2>9, <2>10, <2>11 DEF LookTold, DraftTold, StatusTold
    <2> QED
        BY <2>1, <2>3, <2>4, <2>5, RebuildTold DEF Rebuilding
<1>5. ASSUME NEW t \in Thread, Preserve(t) PROVE Told'
    <2>1. GoTo(t, "comments") /\ pc[t] = "current" /\ "comments" \in Rebuilding
        BY <1>5 DEF Preserve, Busy, Rebuilding
    <2>2. pc'[t] = "comments"
        BY <2>1, Moved DEF CaseInv
    <2>3. Told
        BY <1>5 DEF Preserve, ToldInv
    <2>4. /\ events \subseteq events' /\ UNCHANGED <<row, logged, note, goal>>
          /\ draft'[Other(t)] = draft[Other(t)]
        BY <1>5, <1>d, Two DEF Preserve, tables, local
    <2>6. \A f : Pending(f) => Pending(f)'
      <3>1. pc'["server"] = pc["server"] \/ pc'["server"] = "comments"
          BY <2>1, <2>2, Moved, Two DEF CaseInv
      <3> QED
          BY <2>4, <3>1 DEF Pending
    <2>7. /\ draft'[t].status = (IF Exists /\ draft[t].status # "blocked"
                                 THEN row.status ELSE draft[t].status)
          /\ draft'[t].assignee = (IF row.assignee = "somebody"
                                   THEN row.assignee ELSE draft[t].assignee)
        BY <1>5, <1>d DEF Preserve
    <2>8. LookTold(t) /\ RowTold
        BY <2>3 DEF Told
    <2>9. row.assignee \in {"nobody", "somebody"} /\ draft[t].assignee \in {"nobody", "somebody"}
        BY <1>d, <1>n
    <2>10. UNCHANGED <<events, logged, goal>>
        BY <1>5 DEF Preserve, tables
    <2>11. ~Pending("status") => StatusTold(draft'[t].status)
        BY <2>1, <2>7, <2>8 DEF LookTold, RowTold
    <2>12. ~Pending("assignee") => draft'[t].assignee = logged.assignee
        BY <2>1, <2>7, <2>8, <2>9 DEF LookTold, RowTold
    <2>13. t = "server" /\ goal = "none" => ~Pending("status") /\ ~Pending("assignee")
        BY <2>1 DEF HandInv, GoalInHand, Pending
    <2>5. LookTold(t)' /\ DraftTold(t)'
        BY <2>2, <2>6, <2>10, <2>11, <2>12, <2>13 DEF LookTold, DraftTold, StatusTold
    <2> QED
        BY <2>1, <2>3, <2>4, <2>5, RebuildTold DEF Rebuilding
<1>6. ASSUME NEW t \in Thread, ListComments(t) PROVE Told'
    <2>1. GoTo(t, "write") /\ pc[t] = "comments" /\ "write" \in Rebuilding
        BY <1>6 DEF ListComments, Busy, Rebuilding
    <2>2. pc'[t] = "write"
        BY <2>1, Moved DEF CaseInv
    <2>3. Told
        BY <1>6 DEF ListComments, ToldInv
    <2>4. /\ events \subseteq events' /\ UNCHANGED <<row, logged, note, goal>>
          /\ draft'[Other(t)] = draft[Other(t)]
        BY <1>6, <1>d, Two DEF ListComments, tables, local
    <2>6. \A f : Pending(f) => Pending(f)'
      <3>1. pc'["server"] = pc["server"] \/ pc'["server"] = "write"
          BY <2>1, <2>2, Moved, Two DEF CaseInv
      <3> QED
          BY <2>4, <3>1 DEF Pending
    <2>7. /\ draft'[t].status = draft[t].status /\ draft'[t].assignee = draft[t].assignee
          /\ UNCHANGED <<events, logged, goal>>
        BY <1>6, <1>d DEF ListComments, tables
    <2>8. DraftTold(t) /\ pc[t] = "comments"
        BY <2>1, <2>3 DEF Told
    <2>5. LookTold(t)' /\ DraftTold(t)'
        BY <2>2, <2>6, <2>7, <2>8 DEF LookTold, DraftTold, StatusTold
    <2> QED
        BY <2>1, <2>3, <2>4, <2>5, RebuildTold DEF Rebuilding
<1>7. ASSUME NEW t \in Thread, Write(t) PROVE Told'
    <2>1. /\ row' = draft[t] /\ UNCHANGED <<events, logged, goal>> /\ Exists'
          /\ draft'[Other(t)] = draft[Other(t)] /\ pc[t] = "write"
        BY <1>7, <1>d, Two DEF Write, tables, HandInv, InHand, Drafted, Exists
    <2>2. Told
        BY <1>7 DEF Write, ToldInv
    <2>3. DraftTold(t) /\ LookTold(Other(t)) /\ DraftTold(Other(t)) /\ RequestTold
        BY <2>2, Two DEF Told
    <2>4. CASE GoTo(t, "apply") \/ t = "worker"
        <3>1. pc'[Other(t)] = pc[Other(t)] /\ pc'[t] \in {"apply", "idle"}
            BY <1>7, <2>4, Moved, Two DEF Write, CaseInv
        <3>2. note'["server"] = note["server"]
            BY <1>7, <2>4, <1>d, Moved, Two DEF Write, CaseInv
        <3>3. pc'["server"] = pc["server"] \/ (pc["server"] = "write" /\ pc'["server"] = "apply")
            BY <1>7, <2>1, <2>4, <3>1, Moved, Two DEF Write, CaseInv
        <3>4. \A f : Pending(f)' <=> Pending(f)
            BY <3>2, <3>3 DEF Pending
        <3>5. RowTold'
            BY <2>1, <2>3, <3>4 DEF RowTold, DraftTold, StatusTold
        <3>6. LookTold(t)' /\ DraftTold(t)'
            BY <3>1 DEF LookTold, DraftTold
        <3>7. LookTold(Other(t))' /\ DraftTold(Other(t))'
            BY <2>1, <2>3, <3>1, <3>4 DEF LookTold, DraftTold, StatusTold
        <3>8. RequestTold'
            <4>1. pc'["server"] \in {"log patch", "insert comment"} =>
                      pc'["server"] = pc["server"] /\ draft'["server"] = draft["server"]
                BY <2>1, <3>3, Two
            <4> QED
                BY <2>1, <2>3, <3>2, <3>4, <4>1 DEF RequestTold, StatusTold
        <3> QED
            BY <3>5, <3>6, <3>7, <3>8, Two DEF Told
    <2>5. CASE t = "server" /\ goal = "none"
        <3>1. pc'["server"] = "idle" /\ pc'["worker"] = pc["worker"] /\ note'["server"] = {}
            BY <1>7, <2>5, <1>d, Moved, Two DEF Write, CaseInv
        <3>2. \A f : ~Pending(f)'
            BY <3>1 DEF Pending
        <3>3. RowTold'
            BY <2>1, <2>3, <2>5 DEF RowTold, DraftTold, StatusTold
        <3>4. (\A f : ~Pending(f)) \/ ~PastLooking
            BY <1>7, <2>5 DEF Write, Pending
        <3>5. Other(t) = "worker"
            BY <2>5 DEF Other
        <3>6. LookTold("worker")' /\ DraftTold("worker")'
            <4>1. CASE \A f : ~Pending(f)
                BY <2>1, <2>3, <3>1, <3>5, <4>1 DEF LookTold, DraftTold, StatusTold
            <4>2. CASE ~PastLooking
                BY <2>1, <3>1, <3>5, <4>2 DEF LookTold, DraftTold, PastLooking
            <4> QED
                BY <3>4, <4>1, <4>2
        <3>7. LookTold("server")' /\ DraftTold("server")' /\ RequestTold'
            BY <2>1, <2>5, <3>1 DEF LookTold, DraftTold, RequestTold
        <3> QED
            BY <3>3, <3>6, <3>7, Two DEF Told, Thread
    <2> QED
        BY <1>7, <2>4, <2>5 DEF Write, Thread
<1>8. ASSUME NEW o \in Outcome, SaveReview(o) PROVE Told'
    <2>1. /\ pc["server"] = "idle" /\ note["server"] = {} /\ Exists
          /\ UNCHANGED <<row, draft, events, logged>>
        BY <1>8 DEF SaveReview, CaseRequest, Busy, CaseInv, Served, tables
    <2>2. pc'["server"] = "insert review" /\ pc'["worker"] = pc["worker"]
        BY <1>8, Moved, Two DEF SaveReview, CaseInv
    <2>3. (\A f : ~Pending(f)) /\ (\A f : ~Pending(f)')
        BY <2>1, <2>2 DEF Pending
    <2>4. Told
        BY <1>8 DEF SaveReview, ToldInv
    <2>5. note'["server"] = {} => goal' = row.status
      <3>1. ASSUME goal' # row.status PROVE note'["server"] = {"status"}
        <4>1. note' = [note EXCEPT !["server"] = {"status"}]
            BY <1>8, <3>1 DEF SaveReview
        <4> QED
            BY <1>d, <4>1, Two
      <3> QED
          BY <3>1
    <2> QED
        BY <2>1, <2>2, <2>3, <2>4, <2>5
        DEF Told, RowTold, LookTold, DraftTold, RequestTold, StatusTold, Exists, Thread
<1>9. CASE InsertReview
    <2>1. UNCHANGED <<row, draft, note, goal, events, logged>> /\ pc["server"] = "insert review"
        BY <1>9 DEF InsertReview, local
    <2>2. /\ pc'["worker"] = pc["worker"]
          /\ \/ pc'["server"] = "log status"
             \/ pc'["server"] = "events" /\ note["server"] = {}
        BY <1>9, Moved, Two DEF InsertReview, CaseInv
    <2>3. (\A f : ~Pending(f)) /\ (\A f : ~Pending(f)')
        BY <2>1, <2>2 DEF Pending
    <2>4. Told
        BY <1>9 DEF InsertReview, ToldInv
    <2> QED
        BY <2>1, <2>2, <2>3, <2>4
        DEF Told, RowTold, LookTold, DraftTold, RequestTold, StatusTold, Exists, Thread
<1>10. CASE LogStatus
    <2>1. UNCHANGED <<row, draft, note, goal, events>> /\ pc["server"] = "log status"
        BY <1>10 DEF LogStatus, local
    <2>2. pc'["worker"] = pc["worker"] /\ pc'["server"] = "events"
        BY <1>10, Moved, Two DEF LogStatus, CaseInv
    <2>3. note["server"] = {"status"}
        BY <2>1 DEF CaseInv, Served
    <2>4. logged'.status = goal /\ logged'.assignee = logged.assignee
        BY <1>10, <2>3 DEF LogStatus, LoggedOf
    <2>5. (\A f : ~Pending(f)) /\ Pending("status")' /\ ~Pending("assignee")'
        BY <2>1, <2>2, <2>3 DEF Pending
    <2>6. Told
        BY <1>10 DEF LogStatus, ToldInv
    <2>7. RowTold' /\ RequestTold'
        BY <2>1, <2>2, <2>4, <2>5, <2>6 DEF Told, RowTold, RequestTold, StatusTold
    <2>8. LookTold("server")' /\ DraftTold("server")'
        BY <2>2 DEF LookTold, DraftTold
    <2>9. LookTold("worker")' /\ DraftTold("worker")'
        BY <2>1, <2>2, <2>4, <2>5, <2>6, Two DEF Told, LookTold, DraftTold
    <2> QED
        BY <2>7, <2>8, <2>9 DEF Told, Thread
<1>11. CASE ApplyOutcome
    <2>1. /\ UNCHANGED <<row, note, events, logged>> /\ pc["server"] = "apply"
          /\ goal # "none" /\ goal' = "none" /\ Exists
        BY <1>11 DEF ApplyOutcome, tables, HandInv, GoalInHand, Unborn, Rebuilding
    <2>2. pc'["worker"] = pc["worker"] /\ pc'["server"] = "comments"
        BY <1>11, Moved, Two DEF ApplyOutcome, CaseInv
    <2>3. /\ draft'["server"].status = goal /\ draft'["server"].assignee = row.assignee
          /\ draft'["worker"] = draft["worker"]
        BY <1>11, <1>d, Two DEF ApplyOutcome
    <2>4. \A f : Pending(f)' <=> Pending(f)
        BY <2>1, <2>2 DEF Pending
    <2>5. Told
        BY <1>11 DEF ApplyOutcome, ToldInv
    <2>6. ~Pending("assignee") /\ (note["server"] = {} \/ Pending("status"))
        BY <2>1 DEF Pending, CaseInv, Served
    <2>7. StatusTold(goal) /\ row.assignee = logged.assignee
        BY <2>1, <2>5, <2>6 DEF Told, RequestTold, RowTold
    <2>8. LookTold("server")' /\ DraftTold("server")'
        BY <2>1, <2>2, <2>3, <2>7 DEF LookTold, DraftTold, StatusTold
    <2>9. LookTold("worker")' /\ DraftTold("worker")'
        BY <2>1, <2>2, <2>3, <2>4, <2>5, Two DEF Told, LookTold, DraftTold, StatusTold, Exists
    <2>10. RowTold' /\ RequestTold'
        BY <2>1, <2>2, <2>4, <2>5 DEF Told, RowTold, RequestTold, StatusTold, Exists
    <2> QED
        BY <2>8, <2>9, <2>10 DEF Told, Thread
<1>12. ASSUME NEW c \in Change, Patch(c) PROVE Told'
    <2>1. /\ pc["server"] = "idle" /\ note["server"] = {} /\ goal = "none" /\ Exists
          /\ UNCHANGED <<row, events, logged, goal>>
        BY <1>12 DEF Patch, CaseRequest, Busy, CaseInv, Served, tables
    <2>2. pc'["server"] = "log patch" /\ pc'["worker"] = pc["worker"]
        BY <1>12, Moved, Two DEF Patch, CaseInv
    <2>3. (\A f : ~Pending(f)) /\ (\A f : ~Pending(f)')
        BY <2>1, <2>2 DEF Pending
    <2>4. Told
        BY <1>12 DEF Patch, ToldInv
    <2>5. /\ "status" \notin note'["server"] => draft'["server"].status = row.status
          /\ "assignee" \notin note'["server"] => draft'["server"].assignee = row.assignee
        <3>1. note'["server"] = {f \in {"status", "assignee"} : draft'["server"][f] # row[f]}
            BY <1>12, <1>d, Two DEF Patch
        <3> QED
            BY <3>1
    <2>6. draft'["worker"] = draft["worker"]
        BY <1>12, <1>d, Two DEF Patch
    <2>7. RowTold' /\ RequestTold'
        BY <2>1, <2>3, <2>4, <2>5 DEF Told, RowTold, RequestTold, StatusTold, Exists
    <2>8. LookTold("server")' /\ DraftTold("server")'
        BY <2>2 DEF LookTold, DraftTold
    <2>9. LookTold("worker")' /\ DraftTold("worker")'
        BY <2>1, <2>2, <2>3, <2>4, <2>6, Two DEF Told, LookTold, DraftTold, StatusTold, Exists
    <2> QED
        BY <2>7, <2>8, <2>9 DEF Told, Thread
<1>13. CASE LogPatch
    <2>1. /\ UNCHANGED <<row, draft, note, goal, events>> /\ pc["server"] = "log patch"
          /\ goal = "none"
        BY <1>13 DEF LogPatch, local, CaseInv, Served, Rebuilding
    <2>2. pc'["worker"] = pc["worker"] /\ pc'["server"] = "comments"
        BY <1>13, Moved, Two DEF LogPatch, CaseInv
    <2>3. /\ logged'.status = IF "status" \in note["server"] THEN draft["server"].status
                              ELSE logged.status
          /\ logged'.assignee = IF "assignee" \in note["server"] THEN draft["server"].assignee
                                ELSE logged.assignee
        BY <1>13 DEF LogPatch, LoggedOf
    <2>4. (\A f : ~Pending(f)) /\ (\A f : Pending(f)' <=> f \in note["server"])
        BY <2>1, <2>2 DEF Pending
    <2>5. Told
        BY <1>13 DEF LogPatch, ToldInv
    <2>6. RowTold' /\ RequestTold'
        BY <2>1, <2>2, <2>3, <2>4, <2>5 DEF Told, RowTold, RequestTold, StatusTold, Exists
    <2>7. LookTold("server")' /\ DraftTold("server")'
        BY <2>1, <2>2, <2>3, <2>5 DEF Told, RequestTold, LookTold, DraftTold, StatusTold
    <2>8. LookTold("worker")' /\ DraftTold("worker")'
        BY <2>1, <2>2, <2>3, <2>4, <2>5, Two DEF Told, LookTold, DraftTold, StatusTold, Exists
    <2> QED
        BY <2>6, <2>7, <2>8 DEF Told, Thread
<1>14. CASE Comment
    <2>1. /\ pc["server"] = "idle" /\ note["server"] = {} /\ goal = "none" /\ Exists
          /\ UNCHANGED <<row, note, events, logged, goal>>
        BY <1>14 DEF Comment, CaseRequest, Busy, CaseInv, Served, tables
    <2>2. pc'["server"] = "insert comment" /\ pc'["worker"] = pc["worker"]
        BY <1>14, Moved, Two DEF Comment, CaseInv
    <2>3. (\A f : ~Pending(f)) /\ (\A f : ~Pending(f)')
        BY <2>1, <2>2 DEF Pending
    <2>4. Told
        BY <1>14 DEF Comment, ToldInv
    <2>5. draft'["server"] = row /\ draft'["worker"] = draft["worker"]
        BY <1>14, <1>d, Two DEF Comment
    <2>6. RowTold' /\ RequestTold'
        BY <2>1, <2>3, <2>4, <2>5 DEF Told, RowTold, RequestTold, StatusTold, Exists
    <2>7. LookTold("server")' /\ DraftTold("server")'
        BY <2>2 DEF LookTold, DraftTold
    <2>8. LookTold("worker")' /\ DraftTold("worker")'
        BY <2>1, <2>2, <2>3, <2>4, <2>5, Two DEF Told, LookTold, DraftTold, StatusTold, Exists
    <2> QED
        BY <2>6, <2>7, <2>8 DEF Told, Thread
<1>15. CASE InsertComment
    <2>1. /\ UNCHANGED <<row, draft, note, goal, events, logged>>
          /\ pc["server"] = "insert comment" /\ note["server"] = {}
        BY <1>15 DEF InsertComment, local, CaseInv, Served
    <2>2. pc'["worker"] = pc["worker"] /\ pc'["server"] = "comments"
        BY <1>15, Moved, Two DEF InsertComment, CaseInv
    <2>3. (\A f : ~Pending(f)) /\ (\A f : ~Pending(f)')
        BY <2>1, <2>2 DEF Pending
    <2>4. Told
        BY <1>15 DEF InsertComment, ToldInv
    <2> QED
        BY <2>1, <2>2, <2>3, <2>4
        DEF Told, RowTold, LookTold, DraftTold, RequestTold, StatusTold, Exists, Thread
<1>16. CASE CaseCrash
    <2>1. \A t \in Thread : pc'[t] = "idle"
        BY <1>16 DEF CaseCrash
    <2>2. /\ UNCHANGED <<row, events, logged>> /\ goal' = "none"
          /\ ~raced /\ note["server"] = {}
        BY <1>16 DEF CaseCrash, tables
    <2>3. RowTold'
        BY <2>2 DEF ToldInv, Told, RowTold, Pending, StatusTold, Exists
    <2> QED
        BY <2>1, <2>2, <2>3, Two DEF Told, LookTold, DraftTold, RequestTold
<1>17. CASE UNCHANGED caseVars
    <2>1. Told
        BY <1>17 DEF caseVars, ToldInv
    <2> QED
        BY <1>17, <2>1
        DEF caseVars, tables, local, Told, RowTold, LookTold, DraftTold, RequestTold,
            StatusTold, Pending, Exists
<1> QED
    BY <1>1, <1>2, <1>3, <1>4, <1>5, <1>6, <1>7, <1>8, <1>9, <1>10, <1>11, <1>12,
       <1>13, <1>14, <1>15, <1>16, <1>17 DEF CaseNext, Rebuild, ServeRequest

\* When nothing is in progress the row has the status and the assignee that the
\* activity says the case was given, unless the decision was written while a
\* rebuild was past its second look at the row: up to there a rebuild takes up
\* what it finds, and a status it computes itself needs no activity.
THEOREM DecisionIsKept == CaseSpec => []DecisionKept
<1>1. CaseInv /\ ToldInv => DecisionKept
  <2> SUFFICES ASSUME CaseInv, ToldInv, Quiet, ~raced, Exists PROVE ActivityTellsState
      BY DEF DecisionKept, ActivityTellsState
  <2>1. \A f : ~Pending(f)
      BY Two DEF Pending, Quiet, Busy, CaseInv, Served
  <2> QED
      BY <2>1 DEF ToldInv, Told, RowTold, StatusTold, ActivityTellsState
<1> QED
    BY <1>1, InitCaseInv, NextCaseInv, InitHandInv, NextHandInv, InitToldInv, NextToldInv,
       PTL DEF CaseSpec

-----------------------------------------------------------------------------
(* Approvals: steps.                                                       *)

All == net \cup spool \cup stored

\* A response that only the gateway may record.
Clicked(e) == e.kind = "response" /\ e.source = "gateway_human"

LEMMA StepFields ==
    ASSUME NEW e \in Step
    PROVE  /\ e.kind \in {"request", "call", "response"}
           /\ e.action \in Action /\ e.at \in Nat
BY DEF Step

FlowTyped ==
    /\ clock \in Nat
    /\ All \subseteq Step
    /\ fresh \subseteq stored
    /\ sending \cup inbox \cup gaveUp \subseteq Requests(stored)

Timely ==
    /\ \A e \in All : e.at \in 1 .. clock
    /\ \A e, f \in All : e.at = f.at => e = f

NoPostClicks == \A e \in net \cup spool : ~Clicked(e)

\* Behind every click stands a request.
ClicksAnswer ==
    \A e \in Clicks : \E r \in Requests(stored) : r.action = e.action /\ r.at < e.at

FlowInv == FlowTyped /\ Timely /\ NoPostClicks /\ ClicksAnswer

LEMMA InitFlowInv == Init => FlowInv
BY DEF Init, FlowInv, FlowTyped, Timely, NoPostClicks, ClicksAnswer, All, Clicks,
       Requests, Responses

\* Steps that only change place keep the invariant.
LEMMA StepsMove ==
    ASSUME FlowInv, clock' = clock, All' \subseteq All, stored \subseteq stored',
           net' \cup spool' \subseteq net \cup spool,
           stored' \subseteq stored \cup spool,
           fresh' \subseteq stored',
           sending' \cup inbox' \cup gaveUp' \subseteq Requests(stored')
    PROVE  FlowInv'
<1>1. FlowTyped' /\ Timely' /\ NoPostClicks'
    BY DEF FlowInv, FlowTyped, Timely, NoPostClicks
<1>2. Clicks' = Clicks
    BY DEF FlowInv, NoPostClicks, Clicks, Clicked, Responses
<1>3. Requests(stored) \subseteq Requests(stored')
    BY DEF Requests
<1>4. ClicksAnswer'
    BY <1>2, <1>3 DEF FlowInv, ClicksAnswer
<1> QED
    BY <1>1, <1>4 DEF FlowInv

\* So does a new step that is later than all others.
LEMMA StepComes ==
    ASSUME FlowInv, NEW e \in Step, e.at = clock + 1, clock' = clock + 1,
           All' = All \cup {e}
    PROVE  clock' \in Nat /\ All' \subseteq Step /\ Timely'
<1>1. clock \in Nat /\ clock' \in Nat
    BY DEF FlowInv, FlowTyped
<1>2. e.at \in 1 .. clock'
    BY <1>1
<1>3. ASSUME NEW f \in All PROVE f.at \in 1 .. clock' /\ f.at # e.at
  <2>1. f.at \in 1 .. clock
      BY DEF FlowInv, Timely
  <2> QED
      BY <1>1, <2>1
<1>4. Timely'
    BY <1>2, <1>3 DEF FlowInv, Timely
<1> QED
    BY <1>1, <1>4 DEF FlowInv, FlowTyped

\* A post is no click.
LEMMA PostComes ==
    ASSUME FlowInv, NEW e \in Step, e.at = clock + 1, ~Clicked(e), Post(e)
    PROVE  FlowInv'
<1>1. All' = All \cup {e}
    BY DEF Post, All
<1>2. clock' \in Nat /\ All' \subseteq Step /\ Timely'
    BY <1>1, StepComes DEF Post
<1>3. FlowTyped'
    BY <1>2 DEF Post, memory, FlowInv, FlowTyped
<1>4. NoPostClicks' /\ ClicksAnswer'
    BY DEF Post, FlowInv, NoPostClicks, ClicksAnswer, Clicks
<1> QED
    BY <1>2, <1>3, <1>4 DEF FlowInv

LEMMA NextFlowInv == FlowInv /\ [Next]_vars => FlowInv'
<1> SUFFICES ASSUME FlowInv, [Next]_vars PROVE FlowInv'
    OBVIOUS
<1>0. clock + 1 \in Nat
    BY DEF FlowInv, FlowTyped
<1>1. ASSUME NEW a \in Action, AgentRequests(a) PROVE FlowInv'
  <2> DEFINE e == [kind |-> "request", action |-> a, at |-> clock + 1]
  <2>1. e \in Step /\ e.at = clock + 1 /\ ~Clicked(e)
      BY <1>0 DEF Step, Clicked
  <2> QED
      BY <1>1, <2>1, PostComes DEF AgentRequests
<1>2. ASSUME NEW a \in Action, AgentCalls(a) PROVE FlowInv'
  <2> DEFINE e == [kind |-> "call", action |-> a, at |-> clock + 1]
  <2>1. e \in Step /\ e.at = clock + 1 /\ ~Clicked(e)
      BY <1>0 DEF Step, Clicked
  <2> QED
      BY <1>2, <2>1, PostComes DEF AgentCalls
<1>3. ASSUME NEW a \in Action, AgentReports(a) PROVE FlowInv'
  <2> DEFINE e == [kind |-> "response", action |-> a, at |-> clock + 1, approved |-> TRUE,
                   who |-> {Self}, source |-> "raw_api_unverified"]
  <2>1. e \in Step /\ e.at = clock + 1 /\ ~Clicked(e)
      BY <1>0, FlowAssumption DEF Step, Clicked
  <2> QED
      BY <1>3, <2>1, PostComes DEF AgentReports
<1>4. ASSUME NEW S \in SUBSET net, WriteFile(S) PROVE FlowInv'
    BY <1>4, StepsMove DEF WriteFile, WorkerIdle, memory, All, FlowInv, FlowTyped
<1>5. CASE CommitBatch
  <2>1. Requests(stored) \subseteq Requests(stored')
      BY <1>5 DEF CommitBatch, Requests
  <2> QED
      BY <1>5, <2>1, StepsMove DEF CommitBatch, All, FlowInv, FlowTyped
<1>6. CASE RunHook
  <2>1. Requests(fresh) \subseteq Requests(stored)
      BY DEF Requests, FlowInv, FlowTyped
  <2> QED
      BY <1>6, <2>1, StepsMove DEF RunHook, All, FlowInv, FlowTyped
<1>7. ASSUME NEW r \in sending, Announce(r) \/ GiveUp(r) PROVE FlowInv'
    BY <1>7, StepsMove DEF Announce, GiveUp, All, FlowInv, FlowTyped
<1>8. ASSUME NEW r \in inbox, NEW who \in Reviewer, NEW yes \in BOOLEAN, Click(r, who, yes)
      PROVE FlowInv'
  <2>1. r \in Requests(stored) /\ r \in stored /\ r \in Step
      BY DEF FlowInv, FlowTyped, Requests, All
  <2>2. r.action \in Action /\ r.at \in 1 .. clock
      BY <2>1, StepFields DEF FlowInv, Timely, All
  <2> DEFINE e == [kind |-> "response", action |-> r.action, at |-> clock + 1,
                   approved |-> yes, who |-> {who}, source |-> "gateway_human"]
  <2>3. e \in Step /\ e.at = clock + 1 /\ e.action = r.action /\ e.kind = "response"
      BY <1>0, <2>2, FlowAssumption DEF Step
  <2>4. stored' = stored \cup {e}
      BY <1>8, <2>1 DEF Click
  <2> HIDE DEF e
  <2>5. UNCHANGED <<net, fresh, sending, spool, inbox, gaveUp>> /\ clock' = clock + 1
      BY <1>8 DEF Click, memory
  <2>6. clock' \in Nat /\ All' \subseteq Step /\ Timely'
      BY <2>3, <2>4, <2>5, StepComes DEF All
  <2>7. Requests(stored) \subseteq Requests(stored')
      BY <2>4 DEF Requests
  <2>8. FlowTyped' /\ NoPostClicks'
      BY <2>4, <2>5, <2>6, <2>7 DEF FlowInv, FlowTyped, NoPostClicks
  <2>9. ClicksAnswer'
    <3>1. ASSUME NEW f \in Clicks' PROVE f \in Clicks \/ f = e
        BY <2>4 DEF Clicks, Responses
    <3>2. r.at < e.at
        BY <2>2, <2>3 DEF FlowInv, FlowTyped
    <3> QED
        BY <2>1, <2>3, <2>7, <3>1, <3>2 DEF FlowInv, ClicksAnswer
  <2> QED
      BY <2>6, <2>8, <2>9 DEF FlowInv
<1>9. CASE Crash
    BY <1>9, StepsMove DEF Crash, All, FlowInv, FlowTyped
<1>10. CASE Boot
  <2>1. Requests(stored) \subseteq Requests(stored')
      BY <1>10 DEF Boot, Requests
  <2> QED
      BY <1>10, <2>1, StepsMove DEF Boot, memory, All, FlowInv, FlowTyped
<1>11. CASE UNCHANGED vars
    BY <1>11, StepsMove DEF vars, memory, All, FlowInv, FlowTyped
<1> QED
    BY <1>1, <1>2, <1>3, <1>4, <1>5, <1>6, <1>7, <1>8, <1>9, <1>10, <1>11
    DEF Next, Agent, Worker, Notifier

\* Every variable of the approval flow keeps its type: what is announced, on its
\* way or given up is a stored request.
THEOREM FlowTypeCorrect == Spec => []TypeOK
<1>1. FlowInv => TypeOK
    BY DEF FlowInv, FlowTyped, All, TypeOK
<1> QED
    BY <1>1, InitFlowInv, NextFlowInv, PTL DEF Spec

\* A response recorded through a link names the action of a request, for any
\* number of requests and clicks, crashes and lost posts: links go out behind
\* the commit, so the request is there when the link is clicked.
THEOREM LinksFindRequests == Spec => []LinkFindsRequest
<1>1. FlowInv => LinkFindsRequest
    BY StepFields DEF FlowInv, FlowTyped, LinkFindsRequest, Clicks, Responses, All
<1> QED
    BY <1>1, InitFlowInv, NextFlowInv, PTL DEF Spec

-----------------------------------------------------------------------------
(* What the analysis says of the stored steps.                             *)

\* An action that needs approval and ran before a click approved it is flagged
\* by its rule: of the responses before the call only clicks come from the
\* gateway, and one of them would have to approve it.
THEOREM UnapprovedAreFlagged == Spec => []UnapprovedIsFlagged
<1>1. FlowInv => UnapprovedIsFlagged
  <2> SUFFICES ASSUME FlowInv, NEW c \in Triggers(stored), NEW a \in Within[c.action],
                      \A e \in Clicks : e.at < c.at /\ e.approved => ~Matches(e, a)
               PROVE  PolicyFlags(stored, c, a)
      BY DEF UnapprovedIsFlagged
  <2>1. ASSUME NEW e \in Approvals(stored, c, a), e.source = "gateway_human" PROVE FALSE
    <3>1. /\ e \in Clicks /\ e \in All /\ e.kind = "response" /\ e.at <= c.at
          /\ Matches(e, a) /\ e.approved
        BY <2>1 DEF Approvals, Responses, Before, Clicks, All
    <3>2. c \in All /\ c.kind = "call"
        BY DEF Triggers, All
    <3>3. e.at \in Nat /\ c.at \in Nat /\ e.at # c.at
        BY <3>1, <3>2, StepFields DEF FlowInv, FlowTyped, Timely
    <3>4. e.at < c.at
        BY <3>1, <3>3
    <3> QED
        BY <3>1, <3>4
  <2> QED
      BY <2>1 DEF PolicyFlags, Matches, Satisfied
<1> QED
    BY <1>1, InitFlowInv, NextFlowInv, PTL DEF Spec

-----------------------------------------------------------------------------
(* The last of a set of steps.                                             *)

Less == {p \in Nat \X Nat : p[1] < p[2]}

LEMMA LessWellFounded == IsWellFoundedOn(Less, Nat)
BY NatLessThanWellFounded DEF OpToRel, Less

LEMMA Least ==
    ASSUME NEW T, T \subseteq Nat, T # {}
    PROVE  \E i \in T : \A j \in T : i <= j
<1>1. PICK i \in T : \A j \in T : ~(<<j, i>> \in Less)
    BY LessWellFounded, WFMin, Zenon
<1>2. ASSUME NEW j \in T PROVE i <= j
  <2>1. i \in Nat /\ j \in Nat
      OBVIOUS
  <2>2. <<j, i>> \in Less <=> j < i
      BY <2>1 DEF Less
  <2> QED
      BY <1>1, <2>1, <2>2
<1> QED
    BY <1>2

\* Stored steps have a last one: the clock bounds their times.
LEMMA LastIs ==
    ASSUME FlowInv, NEW S, S \subseteq stored, S # {}
    PROVE  Last(S) \in S /\ \A f \in S : f.at <= Last(S).at
<1>1. clock \in Nat /\ \A e \in S : e.at \in Nat /\ e.at <= clock
    BY DEF FlowInv, FlowTyped, Timely, All
<1> DEFINE T == {clock - e.at : e \in S}
<1>2. T \subseteq Nat /\ T # {}
    BY <1>1
<1>3. PICK i \in T : \A j \in T : i <= j
    BY <1>2, Least
<1>4. PICK e \in S : i = clock - e.at
    OBVIOUS
<1>5. ASSUME NEW f \in S PROVE f.at <= e.at
  <2>1. clock - e.at <= clock - f.at
      BY <1>3, <1>4
  <2> QED
      BY <1>1, <2>1
<1> QED
    BY <1>5 DEF Last

\* An action that ran although the last click for it said no does not look
\* approved: the request behind that click was asked before the call, and the
\* last answer to the latest request is no click or is that one.
THEOREM DeniedAreReported == Spec => []DeniedIsReported
<1>1. FlowInv => DeniedIsReported
  <2> DEFINE clicked(c) == {e \in Clicks : e.at < c.at /\ Akin(e, c)}
  <2> SUFFICES ASSUME FlowInv, NEW c \in Triggers(stored), clicked(c) # {},
                      ~Last(clicked(c)).approved, Gap(stored, c) = "none"
               PROVE  FALSE
      BY DEF DeniedIsReported
  <2> DEFINE e == Last(clicked(c))
             asked == Asked(stored, c)
             answers == Answers(stored, c)
             w == Last(answers)
  <2>1. clicked(c) \subseteq stored /\ asked \subseteq stored /\ answers \subseteq stored
      BY DEF Clicks, Asked, Answers, Requests, Responses, Before
  <2>2. e \in clicked(c) /\ \A f \in clicked(c) : f.at <= e.at
      BY <2>1, LastIs
  <2>3. \A f \in stored : f.at \in Nat
      BY StepFields DEF FlowInv, FlowTyped, All
  <2>4. c \in stored /\ c.kind = "call"
      BY DEF Triggers
  <2>5. asked # {}
    <3>1. PICK r \in Requests(stored) : r.action = e.action /\ r.at < e.at
        BY <2>2 DEF FlowInv, ClicksAnswer
    <3>2. e.at < c.at /\ Akin(e, c) /\ e \in stored /\ r \in stored
        BY <2>1, <2>2, <3>1 DEF Requests
    <3>3. r.at <= c.at
        BY <2>3, <2>4, <3>1, <3>2
    <3>4. r \in asked
        BY <3>1, <3>2, <3>3 DEF Asked, Requests, Before, Akin
    <3> QED
        BY <3>4
  <2>6. answers # {} /\ w.approved /\ w.source = "gateway_human"
      BY <2>5 DEF Gap
  <2>7. w \in answers /\ \A f \in answers : f.at <= w.at
      BY <2>1, <2>6, LastIs
  <2>8. /\ w \in stored /\ w.kind = "response" /\ w.at <= c.at /\ Akin(w, c)
        /\ w.at > Last(asked).at
      BY <2>7 DEF Answers, Responses, Before
  <2>9. w.at # c.at
      BY <2>4, <2>8 DEF FlowInv, Timely, All
  <2>10. w.at < c.at
      BY <2>3, <2>4, <2>8, <2>9
  <2>11. w \in clicked(c)
      BY <2>6, <2>8, <2>10 DEF Clicks, Responses
  <2>12. w.at <= e.at
      BY <2>2, <2>11
  <2>13. e \in stored /\ e.kind = "response" /\ e.at < c.at /\ Akin(e, c)
      BY <2>2 DEF Clicks, Responses
  <2>14. Last(asked) \in stored
      BY <2>1, <2>5, LastIs
  <2>15. e.at > Last(asked).at /\ e.at <= c.at
      BY <2>3, <2>4, <2>8, <2>12, <2>13, <2>14
  <2>16. e \in answers
      BY <2>13, <2>15 DEF Answers, Responses, Before
  <2>17. e.at = w.at
      BY <2>3, <2>7, <2>8, <2>12, <2>13, <2>16
  <2>18. e = w
      BY <2>8, <2>13, <2>17 DEF FlowInv, Timely, All
  <2> QED
      BY <2>6, <2>18
<1> QED
    BY <1>1, InitFlowInv, NextFlowInv, PTL DEF Spec

-----------------------------------------------------------------------------
(* The gate.                                                               *)

\* An agent that waits, or whose timer fired, has a ticket; an event is set
\* with the decision, which stands until the agent's own timer overrules it.
GInv ==
    /\ GateTypeOK
    /\ AgentAgreesWithTicket
    /\ \A k \in Ticket :
          /\ request[k] = "idle" <=> status[k] = "none"
          /\ status[k] = "pending" => request[k] \in {"waiting", "timed out"}
          /\ k \in signalled => status[k] \notin {"none", "pending"}

LEMMA GateAnswer ==
    ASSUME NEW S, NEW k
    PROVE  Answer[(k \in S)] = IF k \in S THEN "yes" ELSE "no"
<1>1. Answer[TRUE] = "yes" /\ Answer[FALSE] = "no"
    BY DEF Answer
<1>2. CASE k \in S
  <2>1. (k \in S) = TRUE
      BY <1>2
  <2> QED
      BY <1>1, <1>2, <2>1, Zenon
<1>3. CASE k \notin S
  <2>1. (k \in S) = FALSE
      BY <1>3
  <2> QED
      BY <1>1, <1>3, <2>1, Zenon
<1> QED
    BY <1>2, <1>3

LEMMA GInvStep == GInv /\ [GateNext]_gateVars => GInv'
<1> SUFFICES ASSUME GInv, [GateNext]_gateVars PROVE GInv'
    OBVIOUS
<1> USE DEF GInv, GateTypeOK, AgentAgreesWithTicket, Place, Answer
<1>1. ASSUME NEW k \in Ticket, Request(k) PROVE GInv'
  <2>1. CASE k \in AutoApprove
    <3>1. /\ status' = [status EXCEPT ![k] = "approved"]
          /\ decided' = [decided EXCEPT ![k] = {"approved"}]
          /\ signalled' = signalled \cup {k}
          /\ request' = [request EXCEPT ![k] = "yes"]
          /\ UNCHANGED <<overdue, on, wait>>
        BY <1>1, <2>1 DEF Request
    <3>2. {"approved"} \in SUBSET {"approved", "denied"}
        OBVIOUS
    <3>3. decided' \in [Ticket -> SUBSET {"approved", "denied"}]
        BY <3>1, <3>2
    <3> QED
        BY <3>1, <3>3
  <2>2. CASE k \notin AutoApprove
      BY <1>1, <2>2 DEF Request
  <2> QED
      BY <2>1, <2>2
<1>2. ASSUME NEW k \in Ticket, TimePasses(k) PROVE GInv'
    BY <1>2 DEF TimePasses
<1>3. ASSUME NEW k \in Ticket, RequestTimesOut(k) PROVE GInv'
    BY <1>3 DEF RequestTimesOut
<1>4. ASSUME NEW k \in Ticket, Expire(k) PROVE GInv'
  <2>1. Answer[(k \in AutoAfterTimeout)] =
            IF k \in AutoAfterTimeout THEN "yes" ELSE "no"
      BY GateAnswer
  <2>2. /\ request[k] = "timed out"
        /\ status' = [status EXCEPT ![k] = IF k \in AutoAfterTimeout
                                           THEN "approved" ELSE "expired"]
        /\ request' = [request EXCEPT ![k] = IF k \in AutoAfterTimeout
                                             THEN "yes" ELSE "no"]
        /\ UNCHANGED <<signalled, overdue, on, wait, decided>>
      BY <1>4, <2>1, Zenon DEF Expire
  <2> QED
      BY <2>2
<1>5. ASSUME NEW k \in Ticket, RequestAnswered(k) PROVE GInv'
    BY <1>5 DEF RequestAnswered
<1>6. ASSUME NEW k \in Ticket, NEW d \in {"approved", "denied"}, Resolve(k, d)
      PROVE  GInv'
    BY <1>6 DEF Resolve
<1>7. ASSUME NEW k \in Ticket, NEW w \in Waiter, WaitFor(w, k) PROVE GInv'
    BY <1>7 DEF WaitFor
<1>8. ASSUME NEW w \in Waiter, WaitEnds(w) PROVE GInv'
    BY <1>8 DEF WaitEnds
<1>9. CASE UNCHANGED gateVars
    BY <1>9 DEF gateVars
<1> QED
    BY <1>1, <1>2, <1>3, <1>4, <1>5, <1>6, <1>7, <1>8, <1>9 DEF GateNext, AgentGoesOn

LEMMA GInvHolds == GateSpec => []GInv
<1>1. GateInit => GInv
    BY DEF GateInit, GInv, GateTypeOK, Place, AgentAgreesWithTicket
<1> QED
    BY <1>1, GInvStep, PTL DEF GateSpec

\* Every variable of the gate keeps its type.
THEOREM GateTypeCorrect == GateSpec => []GateTypeOK
<1>1. GInv => GateTypeOK
    BY DEF GInv
<1> QED
    BY <1>1, GInvHolds, PTL

\* However reviewers, timers and other waiters race, an agent that was told yes
\* holds a ticket that is and stays approved, and one that was told no a ticket
\* that is and stays denied or expired.
THEOREM AgentsAgreeWithTickets == GateSpec => []AgentAgreesWithTicket
<1>1. GInv => AgentAgreesWithTicket
    BY DEF GInv
<1> QED
    BY <1>1, GInvHolds, PTL
=============================================================================
