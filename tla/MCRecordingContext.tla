------------------------- MODULE MCRecordingContext -------------------------
(* RecordingContext on small instances: one or two logging threads, as     *)
(* the configurations name them.                                           *)
EXTENDS RecordingContext
=============================================================================
