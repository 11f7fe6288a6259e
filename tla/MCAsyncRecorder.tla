-------------------------- MODULE MCAsyncRecorder --------------------------
(* AsyncRecorder on small instances; the constants need no definitions.    *)
EXTENDS AsyncRecorder
=============================================================================
