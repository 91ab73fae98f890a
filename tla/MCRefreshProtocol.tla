------------------------ MODULE MCRefreshProtocol ------------------------
(***************************************************************************)
(* Instances of RefreshProtocol for TLC.                                   *)
(***************************************************************************)
EXTENDS RefreshProtocol, TLC

CONSTANTS c1, c2, w1, w2, f1, f2, r1, narrow

\* One root holds both files.
OneRootOf == [f \in Files |-> r1]
OneRootsOf == [pr \in {narrow} |-> {r1}]

Symmetry == Permutations({c1, c2}) \union Permutations({f1, f2})
=============================================================================
