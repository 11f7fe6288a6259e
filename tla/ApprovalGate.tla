---------------------------- MODULE ApprovalGate ----------------------------
(***************************************************************************)
(* epi_recorder/trust/approval.py: ApprovalGate.                           *)
(*                                                                         *)
(* An agent asks for approval (request) and waits for the ticket's event;  *)
(* other coroutines may wait for the same ticket (wait_for); a reviewer    *)
(* decides it (resolve).  All run on one event loop: the code between two  *)
(* awaits is an action.  When an agent's time is up asyncio.wait_for       *)
(* cancels its wait, and the agent goes on in a later turn of the loop,    *)
(* cancelled even if the event was set: a reviewer may decide in between.  *)
(* Its specification has a name of its own, so that ApprovalProofs can     *)
(* speak of the gate beside ApprovalFlow.                                  *)
(***************************************************************************)
CONSTANTS
    Ticket,            \* tickets; each is requested once
    Waiter,            \* coroutines that call wait_for, each once
    AutoAfterTimeout,  \* those of a gate with auto_approve_after_timeout
    AutoApprove        \* those requested while EPI_AUTO_APPROVE is set

ASSUME GateAssumption ==
    AutoAfterTimeout \subseteq Ticket /\ AutoApprove \subseteq Ticket

VARIABLES
    status,    \* status[k]: "none", "pending", "approved", "denied", "expired"
    signalled, \* tickets whose event is set and popped from _events
    overdue,   \* tickets whose timeout_seconds have passed
    request,   \* request[k]: place of its request(): "idle", "waiting",
               \* "timed out", "yes" or "no"
    on,        \* on[w]: the ticket w waits for, as a set
    wait,      \* wait[w]: place of w's wait_for(), likewise
    decided    \* ghost: decided[k]: the decision resolve accepted, as a set

gateVars == <<status, signalled, overdue, request, on, wait, decided>>

Answer == [b \in BOOLEAN |-> IF b THEN "yes" ELSE "no"]

GateInit ==
    /\ status = [k \in Ticket |-> "none"] /\ signalled = {} /\ overdue = {}
    /\ request = [k \in Ticket |-> "idle"]
    /\ on = [w \in Waiter |-> {}] /\ wait = [w \in Waiter |-> "idle"]
    /\ decided = [k \in Ticket |-> {}]

-----------------------------------------------------------------------------

\* request creates the ticket and waits; with EPI_AUTO_APPROVE it resolves
\* the ticket itself.
Request(k) ==
    /\ request[k] = "idle"
    /\ IF k \in AutoApprove
       THEN /\ status' = [status EXCEPT ![k] = "approved"]
            /\ decided' = [decided EXCEPT ![k] = {"approved"}]
            /\ signalled' = signalled \cup {k}
            /\ request' = [request EXCEPT ![k] = "yes"]
       ELSE /\ status' = [status EXCEPT ![k] = "pending"]
            /\ request' = [request EXCEPT ![k] = "waiting"]
            /\ UNCHANGED <<decided, signalled>>
    /\ UNCHANGED <<overdue, on, wait>>

\* Mutant: the event is not set.
Resolve_NoSignal(k, decision) ==
    /\ status[k] = "pending"
    /\ status' = [status EXCEPT ![k] = decision]
    /\ decided' = [decided EXCEPT ![k] = {decision}]
    /\ UNCHANGED <<signalled, overdue, request, on, wait>>

\* A reviewer decides a pending ticket; its waiters are signalled.
Resolve(k, decision) ==
    /\ status[k] = "pending"
    /\ status' = [status EXCEPT ![k] = decision]
    /\ decided' = [decided EXCEPT ![k] = {decision}]
    /\ signalled' = signalled \cup {k}
    /\ UNCHANGED <<overdue, request, on, wait>>

\* timeout_seconds pass.
TimePasses(k) ==
    /\ status[k] # "none" /\ k \notin overdue
    /\ overdue' = overdue \cup {k}
    /\ UNCHANGED <<status, signalled, request, on, wait, decided>>

-----------------------------------------------------------------------------
(* request(), after its await.                                             *)

\* The timer fires.
RequestTimesOut(k) ==
    /\ request[k] = "waiting" /\ k \in overdue
    /\ request' = [request EXCEPT ![k] = "timed out"]
    /\ UNCHANGED <<status, signalled, overdue, on, wait, decided>>

\* The handler: the ticket is expired, or approved by "auto_timeout".
Expire(k) ==
    /\ request[k] = "timed out"
    /\ status' = [status EXCEPT ![k] = IF k \in AutoAfterTimeout
                                      THEN "approved" ELSE "expired"]
    /\ request' = [request EXCEPT ![k] = Answer[(k \in AutoAfterTimeout)]]
    /\ UNCHANGED <<signalled, overdue, on, wait, decided>>

\* Mutant: the answer is yes as soon as somebody answered.
RequestAnswered_Any(k) ==
    /\ request[k] = "waiting" /\ k \in signalled
    /\ request' = [request EXCEPT ![k] = "yes"]
    /\ UNCHANGED <<status, signalled, overdue, on, wait, decided>>

\* The event is set: the status is the answer.
RequestAnswered(k) ==
    /\ request[k] = "waiting" /\ k \in signalled
    /\ request' = [request EXCEPT ![k] = Answer[status[k] = "approved"]]
    /\ UNCHANGED <<status, signalled, overdue, on, wait, decided>>

-----------------------------------------------------------------------------
(* wait_for().                                                             *)

\* An unknown or a decided ticket is answered at once, a pending one awaited.
WaitFor(w, k) ==
    /\ wait[w] = "idle"
    /\ on' = [on EXCEPT ![w] = {k}]
    /\ wait' = [wait EXCEPT ![w] = IF status[k] = "pending" THEN "waiting"
                                   ELSE Answer[status[k] = "approved"]]
    /\ UNCHANGED <<status, signalled, overdue, request, decided>>

\* Whether signalled or out of time (its own timeout, of any length), the
\* status is the answer.
WaitEnds(w) ==
    /\ wait[w] = "waiting"
    /\ \E k \in on[w] :
          wait' = [wait EXCEPT ![w] = Answer[status[k] = "approved"]]
    /\ UNCHANGED <<status, signalled, overdue, request, on, decided>>

-----------------------------------------------------------------------------

AgentGoesOn(k) == RequestTimesOut(k) \/ Expire(k) \/ RequestAnswered(k)

GateNext ==
    \/ \E k \in Ticket : \/ Request(k) \/ TimePasses(k) \/ AgentGoesOn(k)
                         \/ Resolve(k, "approved") \/ Resolve(k, "denied")
                         \/ \E w \in Waiter : WaitFor(w, k)
    \/ \E w \in Waiter : WaitEnds(w)

GateSpec == GateInit /\ [][GateNext]_gateVars

\* The loop runs an agent that is ready.  Nobody has to review, and a timeout
\* may be as long as it likes.
FairGateSpec == GateSpec /\ \A k \in Ticket : WF_gateVars(AgentGoesOn(k))
-----------------------------------------------------------------------------
(* Properties.                                                             *)

Place == {"idle", "waiting", "timed out", "yes", "no"}

GateTypeOK ==
    /\ status \in [Ticket -> {"none", "pending", "approved", "denied", "expired"}]
    /\ signalled \subseteq Ticket /\ overdue \subseteq Ticket
    /\ request \in [Ticket -> Place] /\ wait \in [Waiter -> Place]
    /\ on \in [Waiter -> SUBSET Ticket]
    /\ decided \in [Ticket -> SUBSET {"approved", "denied"}]

\* The agent and its ticket agree for good: it goes ahead only on a ticket
\* that is and stays approved, and one that was told no holds a ticket that is
\* and stays denied or expired, however reviewers and timers race.
AgentAgreesWithTicket ==
    \A k \in Ticket :
        /\ request[k] = "yes" => status[k] = "approved"
        /\ request[k] = "no" => status[k] \in {"denied", "expired"}

\* An agent whose ticket is decided or overdue gets its answer.
RequestEnds ==
    \A k \in Ticket :
        decided[k] # {} \/ k \in overdue ~> request[k] \in {"yes", "no"}
=============================================================================
