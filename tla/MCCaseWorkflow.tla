--------------------------- MODULE MCCaseWorkflow ---------------------------
(* CaseWorkflow on small instances: assign somebody, assign nobody, take a  *)
(* case in review, do both, resolve it.                                     *)
EXTENDS CaseWorkflow

Asked(assignee, status) == [assignee |-> assignee, status |-> status]

Changes == {Asked("somebody", "same"), Asked("nobody", "same"),
            Asked("same", "in_review"), Asked("somebody", "in_review"),
            Asked("same", "resolved")}
=============================================================================
