---------------------------- MODULE MCAPIServer ----------------------------
(***************************************************************************)
(* An instance of APIServer for TLC: no symmetry, it checks liveness.      *)
(***************************************************************************)
EXTENDS APIServer

CONSTANTS r1, r2, w1, w2, c1, c2
=============================================================================
