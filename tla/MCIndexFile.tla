---------------------------- MODULE MCIndexFile ----------------------------
(***************************************************************************)
(* Instances of IndexFile for TLC.                                         *)
(***************************************************************************)
EXTENDS IndexFile

CONSTANTS p1, p2
=============================================================================
