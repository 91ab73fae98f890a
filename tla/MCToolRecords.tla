---------------------------- MODULE MCToolRecords ----------------------------
(***************************************************************************)
(* Instances of ToolRecords for TLC: two transcripts of sessions s and t.  *)
(***************************************************************************)
EXTENDS ToolRecords

CONSTANTS A, B

Call(s, time, tool, name) ==
  [session |-> s, time |-> time, calls |-> <<[tool |-> tool, name |-> name]>>, results |-> <<>>]
Result(s, time, tool, name, text) ==
  [session |-> s, time |-> time, calls |-> <<>>,
   results |-> <<[tool |-> tool, name |-> name, text |-> text]>>]

\* Calls that take a result over from another transcript or leave it to one;
\* the same id in another session; calls and results without id, more than the
\* window; two results of one call; a call and its result in one message.
Transcripts == {
  <<>>,
  <<Call("s", 1, "k", "bash"), Result("s", 3, "k", NoName, "one")>>,
  <<Call("s", 2, "k", "edit")>>,
  <<Call("t", 2, "k", "bash"), Result("s", 2, "k", NoName, "two")>>,
  <<Call("s", 1, NoTool, "bash"), Call("s", 2, NoTool, "edit"), Call("s", 2, NoTool, NoName)>>,
  <<Result("s", 2, NoTool, "edit", "three"), Result("s", 2, NoTool, NoName, "four")>>,
  <<[Call("t", 1, NoTool, "bash") EXCEPT
       !.results = <<[tool |-> NoTool, name |-> "bash", text |-> NoText]>>]>>}
=============================================================================
