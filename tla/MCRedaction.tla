----------------------------- MODULE MCRedaction -----------------------------
(***************************************************************************)
(* Instances of Redaction for TLC.                                         *)
(***************************************************************************)
EXTENDS Redaction, TLC

CONSTANTS p1, p2

\* What agents write: secrets in the window, in text, in a field and aside, before
\* it and at its edge, and lines that are not JSON.
WrittenKinds ==
  {<<"recent", "token">>, <<"recent", "field">>, <<"recent", "aside">>,
   <<"old", "token">>, <<"edge", "url">>, <<"recent", "malformed">>}

Symmetry == Permutations({p1, p2})
=============================================================================
