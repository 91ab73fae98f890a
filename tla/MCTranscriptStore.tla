------------------------- MODULE MCTranscriptStore -------------------------
(***************************************************************************)
(* Instances of TranscriptStore for TLC: a parent transcript A, and a      *)
(* transcript B that may be compressed to Z.                               *)
(***************************************************************************)
EXTENDS TranscriptStore, TLC

CONSTANTS A, B, Z, None

ThreePaths == {A, B, Z}
WalkOrder == (A :> 1) @@ (B :> 2) @@ (Z :> 3)
PlainSibling == (A :> None) @@ (B :> None) @@ (Z :> B)

Transcript(records, session, attached, marks) ==
  [records |-> records, session |-> session, attached |-> attached, activities |-> marks]

\* Record ids repeated within a transcript and shared by transcripts.
SharedRecords ==
  {Transcript(r, "s", FALSE, <<>>) : r \in {<<"x">>, <<"y">>, <<"x", "x">>, <<"y", "x">>}}

\* Activities that claim the same child, under one id or two; an attached
\* session whose id is that of an activity; one that marks itself.
SharedActivities ==
  {Transcript(<<>>, "s", TRUE, <<>>),
   Transcript(<<>>, "t", TRUE, <<[id |-> "i", child |-> B]>>),
   Transcript(<<>>, "j", FALSE, <<[id |-> "i", child |-> B], [id |-> "j", child |-> B]>>),
   Transcript(<<>>, "t", TRUE, <<[id |-> "s", child |-> None]>>)}

AllContents == SharedRecords \union SharedActivities
=============================================================================
