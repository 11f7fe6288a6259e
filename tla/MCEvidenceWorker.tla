-------------------------- MODULE MCEvidenceWorker --------------------------
(* EvidenceWorker on small instances: the events each run lets clients and *)
(* the server thread produce.                                              *)
EXTENDS EvidenceWorker

CONSTANTS r1, r2

Ev(r, k) == [run |-> r, kind |-> k, no |-> 0]

\* One run that starts and ends; and two runs with an event each, of which one
\* never ends.
OneRun == {Ev(r1, "start"), Ev(r1, "end")}
TwoRuns == {Ev(r1, "end"), Ev(r2, "step")}

\* An approval of the first run, recorded by the server thread.
Approval == {Ev(r1, "response")}
NoDirect == {}
=============================================================================
