------------------------------ MODULE StepLog ------------------------------
(***************************************************************************)
(* What the asynchronous recorder promises (epi_recorder/async_api.py),    *)
(* with no queue, task or thread in sight: the steps it accepts are stored *)
(* one by one, in the order they were accepted and without a gap, and the  *)
(* recording is sealed only when all of them are.  What is accepted behind *)
(* the seal is stored nowhere.                                             *)
(***************************************************************************)
EXTENDS Naturals

VARIABLES
    accepted,  \* how many steps were accepted
    stored,    \* how many of them are stored: the first ones
    asked,     \* whether somebody asked for the seal
    sealed     \* whether the recording is sealed

vars == <<accepted, stored, asked, sealed>>

Init == accepted = 0 /\ stored = 0 /\ asked = FALSE /\ sealed = FALSE

Accept == /\ accepted' = accepted + 1
          /\ UNCHANGED <<stored, asked, sealed>>

Store == /\ stored < accepted /\ ~sealed
         /\ stored' = stored + 1
         /\ UNCHANGED <<accepted, asked, sealed>>

Ask == /\ asked' = TRUE
       /\ UNCHANGED <<accepted, stored, sealed>>

Seal == /\ asked /\ ~sealed /\ stored = accepted
        /\ sealed' = TRUE
        /\ UNCHANGED <<accepted, stored, asked>>

Next == Accept \/ Store \/ Ask \/ Seal

Spec == Init /\ [][Next]_vars
=============================================================================
