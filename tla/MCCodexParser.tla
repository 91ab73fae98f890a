---------------------------- MODULE MCCodexParser ----------------------------
(***************************************************************************)
(* Instances of CodexParser for TLC.                                       *)
(***************************************************************************)
EXTENDS CodexParser

CONSTANTS k1, k2, s1
=============================================================================
