-------------------------- MODULE MCGuardSessions --------------------------
(* Three calls of guards on two threads. *)
EXTENDS GuardSessions, TLC

Symmetry == Permutations(Task) \cup Permutations(Thread)
=============================================================================
