--------------------------- MODULE MCApprovalGate ---------------------------
(* ApprovalGate on small instances: a ticket a timeout expires, one that a *)
(* timeout approves, one EPI_AUTO_APPROVE approves; one or no waiter.      *)
EXTENDS ApprovalGate
=============================================================================
