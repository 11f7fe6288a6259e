-------------------------- MODULE ApprovalAnalysis --------------------------
(***************************************************************************)
(* What the fault analyzer (epi_core/fault_analyzer.py) says of approvals  *)
(* in a recorded run: pass 6, which needs no policy, and pass 7, the       *)
(* approval_guard rules of a policy that name an approval policy.          *)
(*                                                                         *)
(* A log is a set of steps, each with the time at which it was captured;   *)
(* the analyzer reads them in that order.  No two steps have the same      *)
(* time.  An action is known by its name, and the analyzer looks for one   *)
(* name within another: Within[a] holds the names that occur in a's.       *)
(*                                                                         *)
(* A rule's approved_by works like a required role.  A link always gives a *)
(* reason, so reason_required is left out.                                 *)
(***************************************************************************)
EXTENDS FiniteSets, Naturals

CONSTANTS
    Action,       \* what agents do that may need an approval
    Within,       \* Within[a]: the actions whose name occurs in the name of a
    Decisive,     \* the actions whose call the analyzer takes for a trigger
    Label,        \* names and roles under which somebody answers
    Roles,        \* required_roles of the approval policy
    Minimum       \* minimum_approvers of the approval policy

ASSUME AnalysisAssumption ==
    /\ Within \in [Action -> SUBSET Action]
    /\ \A a \in Action : a \in Within[a]
    /\ Decisive \subseteq Action /\ Roles \subseteq Label
    /\ Minimum \in Nat

Step ==
    [kind : {"request", "call"}, action : Action, at : Nat]
    \cup [kind : {"response"}, action : Action, at : Nat, approved : BOOLEAN,
          who : SUBSET Label, source : {"gateway_human", "raw_api_unverified"}]

\* _matches_named_action
Matches(e, a) == a \in Within[e.action]

Requests(log)  == {e \in log : e.kind = "request"}
Responses(log) == {e \in log : e.kind = "response"}

\* _is_action_trigger_step
Triggers(log) == {e \in log : e.kind = "call" /\ e.action \in Decisive}

\* The steps up to the one captured at t.
Before(log, t) == {e \in log : e.at <= t}

Last(S) == CHOOSE e \in S : \A f \in S : f.at <= e.at

-----------------------------------------------------------------------------
(* Pass 6: the latest request for the action, and the latest answer to it. *)

\* One name occurs in the other.
Akin(e, c) == e.action \in Within[c.action] \/ c.action \in Within[e.action]

Asked(log, c) == {e \in Requests(Before(log, c.at)) : Akin(e, c)}

Answers(log, c) ==
    {e \in Responses(Before(log, c.at)) : Akin(e, c) /\ e.at > Last(Asked(log, c)).at}

\* Mutant: one approval among the answers is enough.
Gap_AnyApproval(log, c) ==
    IF Asked(log, c) = {} THEN "none"
    ELSE IF Answers(log, c) = {} THEN "pending"
    ELSE IF \A e \in Answers(log, c) : ~e.approved THEN "rejected"
    ELSE IF Last(Answers(log, c)).source # "gateway_human" THEN "self-reported"
    ELSE "none"

\* "pending", "rejected" or "self-reported"; "none" if there is nothing to say.
Gap(log, c) ==
    IF Asked(log, c) = {} THEN "none"
    ELSE IF Answers(log, c) = {} THEN "pending"
    ELSE IF ~Last(Answers(log, c)).approved THEN "rejected"
    ELSE IF Last(Answers(log, c)).source # "gateway_human" THEN "self-reported"
    ELSE "none"

-----------------------------------------------------------------------------
(* Pass 7: a rule of type approval_guard for action a.                     *)

\* The approved answers that come from a required role.
Approvals(log, c, a) ==
    {e \in Responses(Before(log, c.at)) :
        /\ Matches(e, a) /\ e.approved
        /\ Roles = {} \/ e.who \cap Roles # {}}

\* Mutant: a self-reported approval is enough.
Satisfied_SelfReported(log, c, a) ==
    LET approvals == Approvals(log, c, a)
    IN /\ approvals # {}
       /\ Minimum > 1 => Cardinality({e.who : e \in approvals} \ {{}}) >= Minimum

\* _approval_responses_satisfy_policy: answers under different names are taken
\* for those of different approvers, and one must come from the gateway.
Satisfied(log, c, a) ==
    LET approvals == Approvals(log, c, a)
    IN /\ Minimum > 1 => Cardinality({e.who : e \in approvals} \ {{}}) >= Minimum
       /\ \E e \in approvals : e.source = "gateway_human"

\* A rule with an approval policy fails at call c.
PolicyFlags(log, c, a) ==
    c \in Triggers(log) /\ Matches(c, a) /\ ~Satisfied(log, c, a)

=============================================================================
