---------------------------- MODULE CaseWorkflow ----------------------------
(***************************************************************************)
(* One case of the shared case store (epi_core/case_store.py): its events, *)
(* reviews, comments and activity are appended to tables of their own,     *)
(* and its row in table cases is a projection of them that also holds the  *)
(* workflow state (status, assignee) and is written as a whole.            *)
(*                                                                         *)
(* The gateway's event loop, thread "server", runs one request at a time:  *)
(* a review, a change of the workflow state, a comment, a record it        *)
(* stores.  The worker thread rebuilds the row after each batch.  Every    *)
(* step below is a connection of its own, so the other thread, or a crash, *)
(* can come in between.                                                    *)
(*                                                                         *)
(* Due date and priority are treated like the assignee; a projection that  *)
(* raises is in EvidenceWorker.                                            *)
(***************************************************************************)
EXTENDS Naturals

CONSTANTS
    Routine,       \* events that ask for no review
    Alarm,         \* errors and failed policy checks
    Recovery,      \* "agent.run.recovered" events
    Change,        \* the changes of the workflow state that clients ask for
    Crashes,       \* whether the process may crash
    MaxReviews,    \* bound: reviews
    MaxPatches,    \* bound: changes of the workflow state
    MaxComments    \* bound: comments

Event == Routine \cup Alarm \cup Recovery

Thread == {"worker", "server"}

Other(t) == IF t = "worker" THEN "server" ELSE "worker"

Status == {"unassigned", "assigned", "in_review", "blocked", "resolved"}

Assignee == {"nobody", "somebody"}

ASSUME WorkflowAssumption ==
    /\ Routine \cap (Alarm \cup Recovery) = {} /\ Alarm \cap Recovery = {}
    /\ Change \subseteq [assignee : Assignee \cup {"same"},
                        status : Status \cup {"same"}]
    /\ Crashes \in BOOLEAN
    /\ {MaxReviews, MaxPatches, MaxComments} \subseteq Nat

Outcome == {"confirmed_fault", "dismissed", "skipped", "other"}

VARIABLES
    events,    \* the case's rows in table events
    reviews,   \* how many rows of table case_reviews
    comments,  \* how many rows of table case_comments
    logged,    \* what the last activities say: the status set ("none" if never)
               \* and the assignee
    row,       \* the row in table cases; there is none while it shows no steps
    pc,        \* pc[t]: t's place in its operation
    draft,     \* draft[t]: the payload t is assembling
    note,      \* note[t]: the fields whose change t's transaction logs
    goal,      \* the status a review leads to, while it is being saved
    patches,   \* changes of the workflow state so far
    stale,     \* ghost: a row was written beside another operation, or a crash
               \* left one unwritten, and no rebuild began alone since
    raced      \* ghost: a decision was written while a rebuild was past the
               \* point where it looks for one, or a crash left it unwritten

tables == <<events, reviews, comments, logged>>
local  == <<draft, note, goal>>
caseVars   == <<tables, row, pc, local, patches, stale, raced>>

Busy(t) == pc[t] # "idle"

Quiet == \A t \in Thread : ~Busy(t)

Exists == row.steps # {}

NoCase == [steps |-> {}, review |-> 0, comments |-> 0,
           status |-> "none", assignee |-> "nobody"]

CaseInit ==
    /\ events = {} /\ reviews = 0 /\ comments = 0
    /\ logged = [status |-> "none", assignee |-> "nobody"]
    /\ row = NoCase
    /\ pc = [t \in Thread |-> "idle"]
    /\ draft = [t \in Thread |-> NoCase]
    /\ note = [t \in Thread |-> {}] /\ goal = "none"
    /\ patches = 0 /\ stale = FALSE /\ raced = FALSE

GoTo(t, p) == pc' = [pc EXCEPT ![t] = p]

-----------------------------------------------------------------------------
(* Storing an event and rebuilding the row.                                *)

\* apply_batch commits the events S of a batch that were not stored before.
Store(t, S) ==
    /\ ~Busy(t) /\ S # {}
    /\ events' = events \cup S
    /\ GoTo(t, "events")
    /\ UNCHANGED <<reviews, comments, logged, row, local, patches, stale, raced>>

\* rebuild_case reads the events ...
ReadEvents(t) ==
    /\ pc[t] = "events"
    /\ draft' = [draft EXCEPT ![t].steps = events]
    /\ stale' = (stale /\ Busy(Other(t)))
    /\ GoTo(t, "review")
    /\ UNCHANGED <<tables, row, note, goal, patches, raced>>

\* Mutant: the rebuild keeps the review the row has.
ReadReview_OfRow(t) ==
    /\ pc[t] = "review"
    /\ draft' = [draft EXCEPT ![t].review = row.review]
    /\ GoTo(t, "existing")
    /\ UNCHANGED <<tables, row, note, goal, patches, stale, raced>>

\* ... the latest review ...
ReadReview(t) ==
    /\ pc[t] = "review"
    /\ draft' = [draft EXCEPT ![t].review = reviews]
    /\ GoTo(t, "existing")
    /\ UNCHANGED <<tables, row, note, goal, patches, stale, raced>>

\* _normalize_workflow_status of a case that has none yet.
FirstStatus(steps, review) ==
    IF review = 0 /\ steps \cap (Alarm \cup Recovery) # {}
    THEN "unassigned" ELSE "resolved"

\* ... and the row as it is: build_case_payload_from_events takes the workflow
\* state over from it, but a recovered run is blocked.
Build(t) ==
    /\ pc[t] = "existing"
    /\ LET d == draft[t] IN
       draft' = [draft EXCEPT
           ![t].status = IF d.steps \cap Recovery # {} THEN "blocked"
                         ELSE IF Exists THEN row.status
                         ELSE FirstStatus(d.steps, d.review),
           ![t].assignee = row.assignee]
    /\ GoTo(t, "current")
    /\ UNCHANGED <<tables, row, note, goal, patches, stale, raced>>

\* Mutant: no second look at the row.
Preserve_Nothing(t) ==
    /\ pc[t] = "current"
    /\ GoTo(t, "comments")
    /\ UNCHANGED <<tables, row, local, patches, stale, raced>>

\* _refresh_case_payload looks again, for what was decided meanwhile: a status,
\* unless the draft says blocked, and an assignee, but not that there is none.
Preserve(t) ==
    /\ pc[t] = "current"
    /\ draft' = [draft EXCEPT
           ![t].status = IF Exists /\ @ # "blocked" THEN row.status ELSE @,
           ![t].assignee = IF row.assignee = "somebody" THEN row.assignee ELSE @]
    /\ GoTo(t, "comments")
    /\ UNCHANGED <<tables, row, note, goal, patches, stale, raced>>

\* The comments are counted in the table ...
ListComments(t) ==
    /\ pc[t] = "comments"
    /\ draft' = [draft EXCEPT ![t].comments = comments]
    /\ GoTo(t, "write")
    /\ UNCHANGED <<tables, row, note, goal, patches, stale, raced>>

\* The worker's draft can no longer take up what is decided now: it is past its
\* second look at the row, or will not be moved by it.
PastLooking ==
    \/ pc["worker"] \in {"comments", "write"}
    \/ /\ pc["worker"] = "current"
       /\ \/ draft["worker"].status = "blocked"
          \/ draft["worker"].assignee = "somebody"

\* ... and the row is written as a whole.  The rebuild inside save_review is
\* followed by the status the review leads to.
Write(t) ==
    /\ pc[t] = "write"
    /\ row' = draft[t]
    /\ draft' = [draft EXCEPT ![t] = NoCase]
    /\ stale' = (stale \/ Busy(Other(t)))
    /\ IF t = "server" /\ goal # "none"
       THEN GoTo(t, "apply") /\ UNCHANGED <<note, raced>>
       ELSE /\ GoTo(t, "idle")
            /\ note' = [note EXCEPT ![t] = {}]
            /\ raced' = (raced \/ (note[t] # {} /\ PastLooking))
    /\ UNCHANGED <<tables, goal, patches>>

-----------------------------------------------------------------------------
(* Requests about a case that exists.                                      *)

CaseRequest == ~Busy("server") /\ Exists

\* What a transaction logs of the new values n.
LoggedOf(n) ==
    [status   |-> IF "status" \in note["server"] THEN n.status ELSE logged.status,
     assignee |-> IF "assignee" \in note["server"] THEN n.assignee
                  ELSE logged.assignee]

\* _review_outcome_to_status.
AfterReview(outcome, status) ==
    CASE outcome \in {"confirmed_fault", "dismissed"} -> "resolved"
      [] outcome = "skipped" -> "blocked"
      [] OTHER -> status

\* save_review loads the row ...
SaveReview(outcome) ==
    /\ CaseRequest /\ reviews < MaxReviews
    /\ goal' = AfterReview(outcome, row.status)
    /\ note' = [note EXCEPT !["server"] = IF goal' # row.status THEN {"status"} ELSE {}]
    /\ GoTo("server", "insert review")
    /\ UNCHANGED <<tables, row, draft, patches, stale, raced>>

\* ... stores the review ...
InsertReview ==
    /\ pc["server"] = "insert review"
    /\ reviews' = reviews + 1
    /\ GoTo("server", IF note["server"] # {} THEN "log status" ELSE "events")
    /\ UNCHANGED <<events, comments, logged, row, local, patches, stale, raced>>

\* ... logs a change of the status, in a transaction of its own, rebuilds ...
LogStatus ==
    /\ pc["server"] = "log status"
    /\ logged' = LoggedOf([status |-> goal])
    /\ GoTo("server", "events")
    /\ UNCHANGED <<events, reviews, comments, row, local, patches, stale, raced>>

\* ... and calls update_case_workflow, which loads the row again.
ApplyOutcome ==
    /\ pc["server"] = "apply"
    /\ draft' = [draft EXCEPT !["server"] = [row EXCEPT !.status = goal]]
    /\ goal' = "none"
    /\ GoTo("server", "comments")
    /\ UNCHANGED <<tables, row, note, patches, stale, raced>>

\* The row with change c made to it; "same" is what the request leaves out.
Updated(c) ==
    LET new == IF c.assignee = "same" THEN row.assignee ELSE c.assignee IN
    [row EXCEPT
        !.assignee = new,
        !.status = IF c.status # "same" THEN c.status
                   ELSE IF new = row.assignee THEN @
                   ELSE IF new = "somebody" /\ @ = "unassigned" THEN "assigned"
                   ELSE IF new = "nobody" /\ @ = "assigned" THEN "unassigned"
                   ELSE @]

\* update_case_workflow loads the row ...
Patch(c) ==
    /\ CaseRequest /\ patches < MaxPatches
    /\ draft' = [draft EXCEPT !["server"] = Updated(c)]
    /\ note' = [note EXCEPT !["server"] =
                   {f \in {"status", "assignee"} : draft'["server"][f] # row[f]}]
    /\ patches' = patches + 1
    /\ GoTo("server", "log patch")
    /\ UNCHANGED <<tables, row, goal, stale, raced>>

\* ... logs what changes, counts the comments and writes the row.
LogPatch ==
    /\ pc["server"] = "log patch"
    /\ logged' = LoggedOf(draft["server"])
    /\ GoTo("server", "comments")
    /\ UNCHANGED <<events, reviews, comments, row, local, patches, stale, raced>>

\* add_comment loads the row ...
Comment ==
    /\ CaseRequest /\ comments < MaxComments
    /\ draft' = [draft EXCEPT !["server"] = row]
    /\ GoTo("server", "insert comment")
    /\ UNCHANGED <<tables, row, note, goal, patches, stale, raced>>

\* ... stores the comment, counts the comments and writes the row.
InsertComment ==
    /\ pc["server"] = "insert comment"
    /\ comments' = comments + 1
    /\ GoTo("server", "comments")
    /\ UNCHANGED <<events, reviews, logged, row, local, patches, stale, raced>>

\* The process crashes and starts again; what is committed stays, and replay
\* skips the batches that are.
CaseCrash ==
    /\ Crashes /\ ~Quiet
    /\ pc' = [t \in Thread |-> "idle"]
    /\ draft' = [t \in Thread |-> NoCase]
    /\ note' = [t \in Thread |-> {}] /\ goal' = "none"
    /\ stale' = TRUE
    /\ raced' = (raced \/ note["server"] # {})
    /\ UNCHANGED <<tables, row, patches>>

-----------------------------------------------------------------------------

Rebuild(t) == \/ ReadEvents(t) \/ ReadReview(t) \/ Build(t) \/ Preserve(t)
              \/ ListComments(t) \/ Write(t)

ServeRequest ==
    \/ \E o \in Outcome : SaveReview(o)
    \/ InsertReview \/ LogStatus \/ ApplyOutcome
    \/ \E c \in Change : Patch(c)
    \/ LogPatch \/ Comment \/ InsertComment

CaseNext ==
    \/ \E t \in Thread :
          Rebuild(t) \/ \E S \in SUBSET (Event \ events) : Store(t, S)
    \/ ServeRequest \/ CaseCrash

CaseSpec == CaseInit /\ [][CaseNext]_caseVars
-----------------------------------------------------------------------------
(* Properties.                                                             *)

Payload == [steps : SUBSET Event, review : Nat, comments : Nat,
            status : Status \cup {"none"}, assignee : Assignee]

CaseTypeOK ==
    /\ events \subseteq Event /\ reviews \in Nat /\ comments \in Nat
    /\ logged \in [status : Status \cup {"none"}, assignee : Assignee]
    /\ row \in Payload
    /\ pc \in [Thread -> {"idle", "events", "review", "existing", "current",
                          "comments", "write", "insert review", "log status",
                          "apply", "log patch", "insert comment"}]
    /\ draft \in [Thread -> Payload]
    /\ note \in [Thread -> SUBSET {"status", "assignee"}]
    /\ goal \in Status \cup {"none"}
    /\ patches \in Nat /\ stale \in BOOLEAN /\ raced \in BOOLEAN

\* The row shows every stored event, the latest review and all comments,
\* whatever was requested in whatever order.  Operations that overlap, or a
\* crash, may break this, but any rebuild that runs alone repairs it.
RowShowsTables ==
    Quiet /\ ~stale => /\ row.steps = events
                       /\ row.review = reviews
                       /\ row.comments = comments

\* The case has the assignee and the status its activity says it was given,
\* or none was given yet, or a recovery blocked it again.
ActivityTellsState ==
    Exists => /\ row.assignee = logged.assignee
              /\ \/ row.status = logged.status
                 \/ logged.status = "none" /\ row.status \in {"unassigned", "resolved"}
                 \/ row.status = "blocked" /\ events \cap Recovery # {}

\* A rebuild beside a request never takes a decision back, unless it had
\* already looked for one when the decision was written.
DecisionKept == Quiet /\ ~raced => ActivityTellsState
=============================================================================
