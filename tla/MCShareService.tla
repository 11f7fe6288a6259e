--------------------------- MODULE MCShareService ---------------------------
(* ShareService on small instances.                                        *)
EXTENDS ShareService, TLC

Symmetry == Permutations(Share)
=============================================================================
