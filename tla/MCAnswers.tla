------------------------------ MODULE MCAnswers ------------------------------
(* A small instance of Answers for TLC.                                    *)
EXTENDS Answers

Message(session, time, terms, prose, noise, body) ==
  [session |-> session, time |-> time, terms |-> terms, prose |-> prose, spoken |-> prose # {},
   scoped |-> TRUE, typed |-> TRUE, noise |-> noise, body |-> body]

Long == [raw |-> 7, flat |-> 7]
Folded == [raw |-> 6, flat |-> 4]
Short == [raw |-> 2, flat |-> 2]

\* Messages of two sessions: with both terms, with one, as output only, a copied
\* one, one of another type, and one out of scope.
MessageKinds ==
  {Message(1, 1, {"a", "b"}, {"a", "b"}, FALSE, Long),
   Message(1, 2, {"a"}, {"a"}, TRUE, Folded),
   Message(1, 1, {"a", "b"}, {}, FALSE, Short),
   Message(2, 1, {"b"}, {"b"}, FALSE, Long),
   [Message(2, 1, {"a", "b"}, {"a"}, FALSE, Short) EXCEPT !.typed = FALSE],
   [Message(2, 2, {"a"}, {"a"}, FALSE, Long) EXCEPT !.scoped = FALSE]}

RowIds == <<<<1>>, <<1, 1>>, <<2, 1>>, <<2, 2>>>>

NoSession == 0
Query(for, terms, mode) ==
  [for |-> for, terms |-> terms, mode |-> mode, all |-> FALSE, limit |-> 1, perSession |-> 0,
   windowMessages |-> 0, session |-> NoSession, exclude |-> NoSession, reduceNoise |-> FALSE]

Both == {"a", "b"}
RequestKinds ==
  {Query("search", {}, "all"), Query("search", {"a"}, "all"), Query("search", Both, "any"),
   Query("search", Both, "raw"),
   [Query("search", Both, "all") EXCEPT !.limit = 0, !.all = TRUE],
   [Query("search", {"a"}, "any") EXCEPT !.limit = 2, !.perSession = 1, !.reduceNoise = TRUE],
   [Query("search", Both, "all") EXCEPT !.windowMessages = 2, !.all = TRUE],
   [Query("search", Both, "any") EXCEPT !.limit = 2, !.exclude = 2],
   [Query("context", {"a"}, "raw") EXCEPT !.limit = 2],
   [Query("context", Both, "all") EXCEPT !.limit = 2, !.all = TRUE, !.session = 1, !.exclude = 1],
   [Query("context", Both, "any") EXCEPT !.limit = 0, !.perSession = 1],
   Query("last", {}, "all"), [Query("last", {}, "all") EXCEPT !.limit = 0, !.all = TRUE, !.session = 1],
   Query("read", {}, "all"), [Query("read", {}, "all") EXCEPT !.all = TRUE]}

OptionKinds ==
  {[budget |-> b, full |-> f, length |-> 5] : b \in {0, 2, 7, 9}, f \in BOOLEAN}
=============================================================================
