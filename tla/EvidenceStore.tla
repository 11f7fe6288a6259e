---------------------------- MODULE EvidenceStore ----------------------------
(***************************************************************************)
(* What the gateway's ingest path promises about evidence, with no queue,  *)
(* thread, file or crash in sight (epi_gateway/worker.py:18-25): batches   *)
(* are written once to an append-only spool, and each is committed to the  *)
(* case store as a whole, only after it was written, and never undone.     *)
(* EvidenceWorker implements this specification.                           *)
(***************************************************************************)
CONSTANTS Event, BatchId

VARIABLES
    log,        \* log[b]: the events of batch b in the spool, {} if not written
    committed,  \* the batches applied to the case store
    stored      \* the events in the case store

vars == <<log, committed, stored>>

Init == /\ log = [b \in BatchId |-> {}]
        /\ committed = {}
        /\ stored = {}

\* A batch reaches the disk: all of its events at once, under an unused id.
Write(b) == /\ log[b] = {}
            /\ log'[b] # {} /\ log'[b] \subseteq Event
            /\ log' = [log EXCEPT ![b] = log'[b]]
            /\ UNCHANGED <<committed, stored>>

\* A written batch is committed: all of its events, and its id, at once.
Commit(b) == /\ log[b] # {} /\ b \notin committed
             /\ committed' = committed \cup {b}
             /\ stored' = stored \cup log[b]
             /\ UNCHANGED log

Next == \E b \in BatchId : Write(b) \/ Commit(b)

Spec == Init /\ [][Next]_vars

\* Every batch that was written is committed in the end.
FairSpec == Spec /\ \A b \in BatchId : WF_vars(Commit(b))
=============================================================================
