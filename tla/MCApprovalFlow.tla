--------------------------- MODULE MCApprovalFlow ---------------------------
(* ApprovalFlow on small instances.                                        *)
EXTENDS ApprovalFlow

\* Two actions, one of whose names occurs in the other's: pay and prepay.
PayWithin == [a \in {"pay", "prepay"} |-> IF a = "pay" THEN {"pay"} ELSE {"pay", "prepay"}]
=============================================================================
