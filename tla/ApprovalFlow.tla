---------------------------- MODULE ApprovalFlow ----------------------------
(***************************************************************************)
(* Approvals through the gateway (epi_gateway/main.py, worker.py): an      *)
(* agent's events are posted, queued, written to the spool and committed;  *)
(* the post-persist hook then announces each approval request with a       *)
(* webhook or a mail that holds a link to approve and one to deny; a click *)
(* stores an approval response.  At any moment somebody may analyze the    *)
(* stored events (ApprovalAnalysis).                                       *)
(*                                                                         *)
(* The ingest path is the one of EvidenceWorker, reduced to where an event *)
(* is.  A post may be late or lost.  A crash loses the announcements on    *)
(* their way; the replay of a spool file at the next start runs no hook.   *)
(* Clocks agree, and clients stamp their events.                           *)
(***************************************************************************)
EXTENDS ApprovalAnalysis

CONSTANTS
    Reviewer,      \* names that reviewers give in the link, labels
    Self,          \* the name under which an agent reports an approval itself
    Horizon,       \* bound: the number of events
    MaxClicks,     \* bound: clicks on links
    MaxBoots       \* bound: starts of the gateway

ASSUME FlowAssumption ==
    /\ Reviewer \subseteq Label /\ Self \in Label
    /\ {Horizon, MaxClicks, MaxBoots} \subseteq Nat

VARIABLES
    clock,     \* the time, one step for every event
    net,       \* posts that are on their way, or lost
    spool,     \* the batch that has a file and is not committed
    stored,    \* table events
    fresh,     \* the batch whose hook is about to run
    sending,   \* requests that a thread is announcing
    inbox,     \* requests whose links the reviewers have
    gaveUp,    \* requests whose announcement failed every time
    clicks,    \* clicks so far
    up,        \* the gateway runs
    boot       \* starts so far

memory == <<fresh, sending>>
vars == <<clock, net, memory, spool, stored, inbox, gaveUp, clicks, up, boot>>

Init ==
    /\ clock = 0 /\ net = {} /\ spool = {} /\ stored = {}
    /\ fresh = {} /\ sending = {} /\ inbox = {} /\ gaveUp = {}
    /\ clicks = 0 /\ up = TRUE /\ boot = 1

-----------------------------------------------------------------------------
(* The agent and its posts.                                                *)

Post(e) ==
    /\ clock < Horizon /\ clock' = clock + 1
    /\ net' = net \cup {e}
    /\ UNCHANGED <<memory, spool, stored, inbox, gaveUp, clicks, up, boot>>

AgentRequests(a) ==
    Post([kind |-> "request", action |-> a, at |-> clock + 1])

\* The agent waits for nothing: it may act before it is allowed to.
AgentCalls(a) ==
    Post([kind |-> "call", action |-> a, at |-> clock + 1])

AgentReports(a) ==
    Post([kind |-> "response", action |-> a, at |-> clock + 1, approved |-> TRUE,
          who |-> {Self}, source |-> "raw_api_unverified"])

-----------------------------------------------------------------------------
(* The worker.                                                             *)

WorkerIdle == up /\ spool = {} /\ fresh = {}

\* The posts S have arrived, been queued and make up a batch, which gets its
\* file.  One that stays in net is late, or lost on its way or in the queue.
WriteFile(S) ==
    /\ WorkerIdle /\ S # {}
    /\ net' = net \ S /\ spool' = S
    /\ UNCHANGED <<clock, memory, stored, inbox, gaveUp, clicks, up, boot>>

\* Mutant: the hook runs when the file is written.
CommitBatch_HookFirst ==
    /\ up /\ spool # {}
    /\ \/ fresh = {} /\ fresh' = spool /\ UNCHANGED <<spool, stored>>
       \/ stored' = stored \cup spool /\ spool' = {} /\ UNCHANGED fresh
    /\ UNCHANGED <<clock, net, sending, inbox, gaveUp, clicks, up, boot>>

\* apply_batch
CommitBatch ==
    /\ up /\ spool # {}
    /\ stored' = stored \cup spool /\ fresh' = spool /\ spool' = {}
    /\ UNCHANGED <<clock, net, sending, inbox, gaveUp, clicks, up, boot>>

\* Mutant: only the first request of a batch is announced.
RunHook_First ==
    /\ up /\ fresh # {}
    /\ sending' = sending \cup {e \in Requests(fresh) : \A f \in Requests(fresh) : e.at <= f.at}
    /\ fresh' = {}
    /\ UNCHANGED <<clock, net, spool, stored, inbox, gaveUp, clicks, up, boot>>

\* The hook starts a thread for each request of the batch, new or not.
RunHook ==
    /\ up /\ fresh # {}
    /\ sending' = sending \cup Requests(fresh)
    /\ fresh' = {}
    /\ UNCHANGED <<clock, net, spool, stored, inbox, gaveUp, clicks, up, boot>>

-----------------------------------------------------------------------------
(* Announcements and clicks.                                               *)

\* send_signed_webhook: one of four attempts succeeds ...
Announce(r) ==
    /\ r \in sending
    /\ sending' = sending \ {r} /\ inbox' = inbox \cup {r}
    /\ UNCHANGED <<clock, net, fresh, spool, stored, gaveUp, clicks, up, boot>>

\* ... or all of them fail, which only the log shows.
GiveUp(r) ==
    /\ r \in sending
    /\ sending' = sending \ {r} /\ gaveUp' = gaveUp \cup {r}
    /\ UNCHANGED <<clock, net, fresh, spool, stored, inbox, clicks, up, boot>>

\* A link is clicked (record_approval_decision): the response takes its action
\* from the stored request and is stored before the browser is answered.
\* Nothing asks whether the request was answered before.
Click(r, who, yes) ==
    /\ up /\ r \in inbox /\ clicks < MaxClicks /\ clock < Horizon
    /\ clock' = clock + 1 /\ clicks' = clicks + 1
    /\ LET found == r \in stored
       IN stored' = stored \cup
            {[kind |-> "response", action |-> IF found THEN r.action ELSE "unknown",
              at |-> clock + 1, approved |-> yes, who |-> {who},
              source |-> "gateway_human"]}
    /\ UNCHANGED <<net, memory, spool, inbox, gaveUp, up, boot>>

-----------------------------------------------------------------------------
(* The life of the gateway.                                                *)

Crash ==
    /\ up /\ boot < MaxBoots
    /\ up' = FALSE /\ fresh' = {} /\ sending' = {}
    /\ UNCHANGED <<clock, net, spool, stored, inbox, gaveUp, clicks, boot>>

\* replay_spool commits a batch that has a complete file, and runs no hook.
Boot ==
    /\ ~up /\ up' = TRUE /\ boot' = boot + 1
    /\ stored' = stored \cup spool /\ spool' = {}
    /\ UNCHANGED <<clock, net, memory, inbox, gaveUp, clicks>>

Agent == \E a \in Action : AgentRequests(a) \/ AgentCalls(a) \/ AgentReports(a)

Worker == (\E S \in SUBSET net : WriteFile(S)) \/ CommitBatch \/ RunHook

\* The threads that announce the request captured at t.
Notifier(t) == \E r \in sending : r.at = t /\ (Announce(r) \/ GiveUp(r))

Next ==
    \/ Agent \/ Worker \/ Crash \/ Boot
    \/ \E t \in 1 .. Horizon : Notifier(t)
    \/ \E r \in inbox, who \in Reviewer, yes \in BOOLEAN : Click(r, who, yes)

\* Threads go on, and a gateway that is down is started again.
Fairness ==
    /\ WF_vars(CommitBatch) /\ WF_vars(RunHook) /\ WF_vars(Boot)
    /\ \A t \in 1 .. Horizon : WF_vars(Notifier(t))

Spec == Init /\ [][Next]_vars /\ Fairness

-----------------------------------------------------------------------------

TypeOK ==
    /\ net \cup spool \cup stored \cup fresh \subseteq Step
    /\ sending \cup inbox \cup gaveUp \subseteq Requests(stored)

Clicks == {e \in Responses(stored) : e.source = "gateway_human"}

\* A response recorded through a link names the action of the request that was
\* announced, so the analysis can match the two: links go out behind the commit
\* (worker.py:292), and a replay comes before the first click.
LinkFindsRequest == \A e \in Clicks : e.action \in Action

\* An action that needs approval and ran before anybody had clicked "approve" is
\* flagged by its approval_guard (one with an approval policy), in whatever order
\* the posts arrived, whatever the agent reported itself, and however much of
\* the run a crash has lost.
UnapprovedIsFlagged ==
    \A c \in Triggers(stored) : \A a \in Within[c.action] :
        (\A e \in Clicks : e.at < c.at /\ e.approved => ~Matches(e, a))
            => PolicyFlags(stored, c, a)

\* An action that ran although the last click on a request for it said no does
\* not look approved to pass 6, whatever was asked or reported since.
DeniedIsReported ==
    \A c \in Triggers(stored) :
        LET clicked == {e \in Clicks : e.at < c.at /\ Akin(e, c)}
        IN clicked # {} /\ ~Last(clicked).approved => Gap(stored, c) # "none"

\* When the agents have stopped posting, every stored request is announced in the
\* end, in whatever batches the requests came, unless each attempt fails or the
\* gateway has crashed.
RequestIsAnnounced ==
    <>[](boot = 1 /\ up => Requests(stored) \subseteq inbox \cup gaveUp)

=============================================================================
