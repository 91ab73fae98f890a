-------------------------- MODULE CodexParser_proofs --------------------------
(***************************************************************************)
(* Proofs about CodexParser: which records become messages, when the two   *)
(* forms of an utterance become one, and that no text is lost, for any     *)
(* texts and rollouts of any length.                                       *)
(*                                                                         *)
(* The invariant says what the two sets of the parser mean in terms of the *)
(* lines so far (SetsInv), and how the lines of an utterance are related   *)
(* (FormsInv, OwedInv).                                                    *)
(***************************************************************************)
EXTENDS CodexParser, TLAPS

Line == [form : {"item", "text", "event", "tool", "meta"}, key : Keys \union {None},
         stamped : BOOLEAN, session : Sessions \union {None}, of : Nat]

Spoken(line) == line.form \in {"item", "text", "event"}

\* canonical holds the keys so far, events those that came as an event first, and
\* each key so far has a first line.
SetsInv ==
  /\ \A k \in Keys : k \in canonical <=> \E i \in Numbers : lines[i].key = k
  /\ \A k \in Keys : k \in events <=>
       \E i \in Numbers : lines[i].key = k /\ lines[i].form = "event" /\ First(i)
  /\ \A i \in Numbers : lines[i].key # None =>
       \E f \in 1 .. i : lines[f].key = lines[i].key /\ First(f)

\* A message is that of its line.
MessagesInv ==
  /\ \A m \in messages : m.whole = lines[m.line].stamped
  /\ \A m, n \in messages : m.line = n.line => m = n

\* Lines of one utterance are its two forms, of which one is an event.
FormsInv ==
  /\ \A i \in Numbers : Spoken(lines[i]) <=> lines[i].key # None
  /\ \A i \in Numbers : lines[i].of \in Numbers
  /\ \A i, j \in Numbers : lines[i].of = lines[j].of /\ i # j =>
       /\ Spoken(lines[i]) /\ Spoken(lines[j])
       /\ lines[i].key = lines[j].key
       /\ lines[i].form = "event" <=> lines[j].form # "event"

\* What an agent still writes is the other form of an utterance with one line.
OwedInv ==
  /\ \A o \in owed : \A i \in Numbers : lines[i].of = o.of =>
       Spoken(lines[i]) /\ lines[i].key = o.key /\ (lines[i].form = "event" <=> o.form # "event")
  /\ \A o, q \in owed : o.of = q.of => o = q

IInv == TypeOK /\ SetsInv /\ MessagesInv /\ FormsInv /\ OwedInv /\ FirstFormDecides

-----------------------------------------------------------------------------
\* One line more: the others stay, and so does which of them is the first.
LEMMA Appended ==
  ASSUME NEW line \in Line, lines \in Seq(Line), lines' = Append(lines, line),
         NEW n, n = Next1
  PROVE  /\ lines' \in Seq(Line)
         /\ Len(lines) \in Nat
         /\ Len(lines') = Len(lines) + 1
         /\ Numbers' = Numbers \union {n}
         /\ n \notin Numbers
         /\ lines'[n] = line
         /\ \A i \in Numbers : lines'[i] = lines[i] /\ lines[i] \in Line
         /\ \A i \in Numbers : First(i)' <=> First(i)
         /\ First(n)' <=> \A i \in Numbers : lines[i].key # line.key
<1>1. /\ lines' \in Seq(Line) /\ Len(lines) \in Nat /\ Len(lines') = Len(lines) + 1
      /\ \A i \in 1 .. Len(lines) : lines'[i] = lines[i] /\ lines[i] \in Line
      /\ lines'[Len(lines) + 1] = line
  OBVIOUS
<1>2. /\ Numbers' = Numbers \union {n} /\ n \notin Numbers
      /\ Numbers = 1 .. Len(lines) /\ n = Len(lines) + 1
  BY <1>1 DEF Numbers, Next1
<1>3. \A i \in Numbers : First(i)' <=> First(i)
  BY <1>1, <1>2 DEF First
<1>4. First(n)' <=> \A i \in Numbers : lines[i].key # line.key
  BY <1>1, <1>2 DEF First
<1> QED BY <1>1, <1>2, <1>3, <1>4

\* What a step does, whoever takes it.
Parses(line) ==
  /\ ParseLine(line)
  /\ line \in Line
  /\ Spoken(line) <=> line.key # None

\* The sets keep their meaning.
LEMMA SetsStep ==
  ASSUME TypeOK, SetsInv, FormsInv, NEW line, Parses(line)
  PROVE  SetsInv'
<1> lines \in Seq(Line)
  BY DEF TypeOK, Line
<1> lines' = Append(lines, line) /\ line \in Line
  BY DEF Parses, ParseLine
<1> USE CodexConstants
<1> PICK n : n = Next1
  OBVIOUS
<1>0. /\ Numbers' = Numbers \union {n} /\ n \notin Numbers
      /\ Numbers = 1 .. Len(lines) /\ n = Next1 /\ n = Len(lines) + 1 /\ Len(lines) \in Nat
      /\ lines'[n] = line
      /\ \A i \in Numbers : lines'[i] = lines[i] /\ lines[i] \in Line
      /\ \A i \in Numbers : First(i)' <=> First(i)
      /\ First(n)' <=> \A i \in Numbers : lines[i].key # line.key
  BY Appended DEF Numbers, Next1
<1>1. \A k \in Keys : k \in canonical' <=> k \in canonical \/ k = line.key
  <2>1. CASE line.form = "item"
    BY <2>1 DEF Parses, ParseLine, Item, Emit, Mirrored, TypeOK, Line
  <2>2. CASE line.form = "event"
    BY <2>2 DEF Parses, ParseLine, Event, Emit, Seen, TypeOK, Line
  <2>3. CASE line.form = "tool"
    BY <2>3 DEF Parses, ParseLine, Tool, Emit, Spoken, Line
  <2>4. CASE line.form = "meta"
    BY <2>4 DEF Parses, ParseLine, SessionMeta, Spoken, Line
  <2>5. CASE line.form = "text"
    BY <2>5 DEF Parses, ParseLine, Text, Emit, TypeOK, Line
  <2> QED BY <2>1, <2>2, <2>3, <2>4, <2>5 DEF Line
<1>2. \A k \in Keys : k \in events' <=>
        k \in events \/ (k = line.key /\ line.form = "event" /\ k \notin canonical)
  <2>1. CASE line.form = "item"
    BY <2>1 DEF Parses, ParseLine, Item
  <2>2. CASE line.form = "event"
    BY <2>2 DEF Parses, ParseLine, Event, Seen, TypeOK
  <2>3. CASE line.form = "tool"
    BY <2>3 DEF Parses, ParseLine, Tool
  <2>4. CASE line.form = "meta"
    BY <2>4 DEF Parses, ParseLine, SessionMeta
  <2>5. CASE line.form = "text"
    BY <2>5 DEF Parses, ParseLine, Text
  <2> QED BY <2>1, <2>2, <2>3, <2>4, <2>5 DEF Line
<1>3. \A k \in Keys : k \in canonical' <=> \E i \in Numbers' : lines'[i].key = k
  BY <1>0, <1>1 DEF SetsInv
<1>4. ASSUME NEW k \in Keys
      PROVE  k \in events' <=>
               \E i \in Numbers' : lines'[i].key = k /\ lines'[i].form = "event" /\ First(i)'
  <2>1. k \notin canonical <=> \A i \in Numbers : lines[i].key # k
    BY DEF SetsInv
  <2>2. k \in events <=>
          \E i \in Numbers : lines'[i].key = k /\ lines'[i].form = "event" /\ First(i)'
    BY <1>0 DEF SetsInv
  <2> QED BY <1>0, <1>2, <2>1, <2>2
<1>5. ASSUME NEW i \in Numbers', lines'[i].key # None
      PROVE  \E f \in 1 .. i : lines'[f].key = lines'[i].key /\ First(f)'
  <2>1. CASE i \in Numbers
    <3>1. PICK f \in 1 .. i : lines[f].key = lines[i].key /\ First(f)
      BY <1>0, <1>5, <2>1 DEF SetsInv
    <3>2. f \in Numbers
      BY <1>0, <2>1, <3>1
    <3> QED BY <1>0, <2>1, <3>1, <3>2
  <2>2. CASE i = n /\ \E j \in Numbers : lines[j].key = line.key
    <3>1. PICK j \in Numbers : lines[j].key = line.key
      BY <2>2
    <3>2. PICK f \in 1 .. j : lines[f].key = lines[j].key /\ First(f)
      BY <1>0, <1>5, <2>2, <3>1 DEF SetsInv
    <3>3. f \in Numbers /\ f \in 1 .. i
      BY <1>0, <2>2, <3>1, <3>2
    <3> QED BY <1>0, <2>2, <3>1, <3>2, <3>3
  <2>3. CASE i = n /\ \A j \in Numbers : lines[j].key # line.key
    <3>1. First(i)' /\ i \in 1 .. i
      BY <1>0, <2>3
    <3> QED BY <3>1
  <2> QED BY <1>0, <1>5, <2>1, <2>2, <2>3
<1> QED BY <1>3, <1>4, <1>5 DEF SetsInv

\* A line of a text is kept as FirstFormDecides has it: the sets say whether the
\* text has come before, and in which form first.
LEMMA KeptStep ==
  ASSUME IInv, NEW line, Parses(line)
  PROVE  FirstFormDecides' /\ MessagesInv' /\ messages' \subseteq
           [line : Numbers', session : Sessions \union {None}, whole : BOOLEAN]
<1> lines \in Seq(Line)
  BY DEF IInv, TypeOK, Line
<1> lines' = Append(lines, line) /\ line \in Line
  BY DEF Parses, ParseLine
<1> USE CodexConstants
<1> PICK n : n = Next1
  OBVIOUS
<1>0. /\ Numbers' = Numbers \union {n} /\ n \notin Numbers
      /\ Numbers = 1 .. Len(lines) /\ n = Next1 /\ n = Len(lines) + 1 /\ Len(lines) \in Nat
      /\ lines'[n] = line
      /\ \A i \in Numbers : lines'[i] = lines[i] /\ lines[i] \in Line
      /\ \A i \in Numbers : First(i)' <=> First(i)
      /\ First(n)' <=> \A i \in Numbers : lines[i].key # line.key
  BY Appended DEF Numbers, Next1
<1> DEFINE Keeps == \/ line.form \in {"tool", "text"}
                    \/ line.form = "item" /\ line.key \notin events
                    \/ line.form = "event" /\ line.key \notin canonical
<1>1. messages' = IF Keeps THEN messages \union {Message(line.stamped)} ELSE messages
  BY DEF IInv, TypeOK, Parses, ParseLine, Item, Text, Event, Tool, SessionMeta, Emit, Mirrored, Seen, Line
<1>2. \A m \in messages : m.line \in Numbers
  BY DEF IInv, TypeOK
<1>3. /\ Message(line.stamped).line = n
      /\ Message(line.stamped).whole = line.stamped
      /\ Message(line.stamped) \in [line : Numbers', session : Sessions \union {None}, whole : BOOLEAN]
  BY <1>0 DEF Message, IInv, TypeOK, Line
<1>4. /\ \A i \in Numbers : Kept(i)' <=> Kept(i)
      /\ Kept(n)' <=> Keeps
  BY <1>0, <1>1, <1>2, <1>3 DEF Kept
<1>5. MessagesInv'
  BY <1>0, <1>1, <1>2, <1>3 DEF MessagesInv, IInv
<1>6. messages' \subseteq [line : Numbers', session : Sessions \union {None}, whole : BOOLEAN]
  BY <1>0, <1>1, <1>3 DEF IInv, TypeOK
<1> DEFINE ByEvent(i) == \E j \in 1 .. i : lines[j].key = lines[i].key /\ lines[j].form = "event" /\ First(j)
<1>7. \A i \in Numbers : ByEvent(i)' <=> ByEvent(i)
  <2>1. \A i \in Numbers : 1 .. i \subseteq Numbers
    BY <1>0
  <2> QED BY <1>0, <2>1
<1>8. ASSUME NEW i \in Numbers
      PROVE  Kept(i)' <=> \/ lines'[i].form \in {"tool", "text"}
                          \/ lines'[i].form = "item" /\ ~ByEvent(i)'
                          \/ lines'[i].form = "event" /\ First(i)'
  <2>1. Kept(i) <=> \/ lines[i].form \in {"tool", "text"}
                    \/ lines[i].form = "item" /\ ~ByEvent(i)
                    \/ lines[i].form = "event" /\ First(i)
    BY DEF IInv, FirstFormDecides
  <2> HIDE DEF ByEvent
  <2> QED BY <1>0, <1>4, <1>7, <2>1
<1>9. Keeps <=> \/ line.form \in {"tool", "text"}
                \/ line.form = "item" /\ ~ByEvent(n)'
                \/ line.form = "event" /\ First(n)'
  <2>1. CASE line.form = "event"
    <3>1. line.key \in Keys
      BY <2>1 DEF Parses, Spoken, Line
    <3>2. line.key \notin canonical <=> First(n)'
      BY <1>0, <3>1 DEF IInv, SetsInv
    <3> QED BY <2>1, <3>1, <3>2
  <2>2. CASE line.form = "item"
    <3>1. line.key \in Keys
      BY <2>2 DEF Parses, Spoken, Line
    <3>2. ByEvent(n)' <=>
            \E j \in Numbers : lines[j].key = line.key /\ lines[j].form = "event" /\ First(j)
      <4>1. 1 .. n = Numbers \union {n}
        BY <1>0
      <4> QED BY <1>0, <2>2, <4>1
    <3>3. line.key \in events <=> ByEvent(n)'
      BY <3>1, <3>2 DEF IInv, SetsInv
    <3> HIDE DEF ByEvent
    <3> QED BY <2>2, <3>3
  <2>3. CASE line.form \notin {"item", "event"}
    BY <2>3
  <2> QED BY <2>1, <2>2, <2>3
<1>10. FirstFormDecides'
  <2>1. ASSUME NEW i \in Numbers'
        PROVE  Kept(i)' <=> \/ lines'[i].form \in {"tool", "text"}
                            \/ lines'[i].form = "item" /\ ~ByEvent(i)'
                            \/ lines'[i].form = "event" /\ First(i)'
    <3> HIDE DEF ByEvent, Keeps
    <3>1. CASE i \in Numbers
      BY <1>8, <3>1
    <3>2. CASE i = n
      BY <1>0, <1>4, <1>9, <3>2
    <3> QED BY <1>0, <2>1, <3>1, <3>2
  <2> QED BY <2>1 DEF FirstFormDecides
<1> QED BY <1>5, <1>6, <1>10

-----------------------------------------------------------------------------
\* The parser leaves types alone.
LEMMA ParseTypes ==
  ASSUME IInv, NEW line, Parses(line)
  PROVE  /\ canonical' \subseteq Keys /\ events' \subseteq canonical'
         /\ session' \in Sessions \union {None}
         /\ lines' \in Seq(Line)
<1> lines \in Seq(Line) /\ line \in Line
  BY DEF IInv, TypeOK, Line, Parses
<1>1. lines' \in Seq(Line)
  BY DEF Parses, ParseLine
<1>2. CASE line.form = "item"
  BY <1>1, <1>2 DEF IInv, TypeOK, Parses, ParseLine, Item, Emit, Line, Spoken
<1>3. CASE line.form = "event"
  BY <1>1, <1>3 DEF IInv, TypeOK, Parses, ParseLine, Event, Emit, Line, Spoken
<1>4. CASE line.form = "tool"
  BY <1>1, <1>4 DEF IInv, TypeOK, Parses, ParseLine, Tool, Emit, Line, Spoken
<1>5. CASE line.form = "meta"
  BY <1>1, <1>5 DEF IInv, TypeOK, Parses, ParseLine, SessionMeta, Line
<1>6. CASE line.form = "text"
  BY <1>1, <1>6 DEF IInv, TypeOK, Parses, ParseLine, Text, Emit, Line, Spoken
<1> QED BY <1>2, <1>3, <1>4, <1>5, <1>6 DEF Line

\* A line of its own, or the other form of one utterance.
LEMMA FormsStep ==
  ASSUME IInv, NEW line, Parses(line), NEW o,
         \/ line.of = Next1 /\ owed' \subseteq owed \union {o}
            /\ o.key = line.key /\ o.of = Next1
            /\ (o \in owed' => Spoken(line) /\ (line.form = "event" <=> o.form # "event"))
         \/ o \in owed /\ owed' = owed \ {o}
            /\ line.of = o.of /\ line.form = o.form /\ line.key = o.key
  PROVE  FormsInv' /\ OwedInv'
<1> lines \in Seq(Line)
  BY DEF IInv, TypeOK, Line
<1> lines' = Append(lines, line) /\ line \in Line
  BY DEF Parses, ParseLine
<1> PICK n : n = Next1
  OBVIOUS
<1>0. /\ Numbers' = Numbers \union {n} /\ n \notin Numbers
      /\ Numbers = 1 .. Len(lines) /\ n = Next1 /\ n = Len(lines) + 1 /\ Len(lines) \in Nat
      /\ lines'[n] = line
      /\ \A i \in Numbers : lines'[i] = lines[i] /\ lines[i] \in Line
  BY Appended DEF Numbers, Next1
<1>1. /\ \A i \in Numbers : lines[i].of \in Numbers
      /\ \A q \in owed : q.of \in Numbers /\ q.form \in {"item", "text", "event"} /\ q.key \in Keys
  BY DEF IInv, TypeOK, FormsInv
<1>2. CASE line.of = n
  <2>1. \A i \in Numbers : lines[i].of # n
    BY <1>0, <1>1
  <2>2. FormsInv'
    BY <1>0, <1>1, <1>2, <2>1 DEF FormsInv, IInv, Parses, Spoken
  <2>3. owed' \subseteq owed \union {o} /\ (o \in owed' /\ o \notin owed =>
          /\ o.of = n /\ o.key = line.key
          /\ Spoken(line) /\ (line.form = "event" <=> o.form # "event"))
    BY <1>0, <1>1, <1>2
  <2>4. \A q \in owed : q.of # n
    BY <1>0, <1>1
  <2>5. OwedInv'
    BY <1>0, <1>1, <1>2, <2>1, <2>3, <2>4 DEF OwedInv, IInv
  <2> QED BY <2>2, <2>5
<1>3. CASE /\ o \in owed /\ owed' = owed \ {o}
           /\ line.of = o.of /\ line.form = o.form /\ line.key = o.key
  <2>1. \A i \in Numbers : lines[i].of = line.of =>
          /\ Spoken(lines[i]) /\ Spoken(line)
          /\ lines[i].key = line.key /\ (lines[i].form = "event" <=> line.form # "event")
    BY <1>1, <1>3 DEF OwedInv, IInv, Spoken
  <2>2. line.of \in Numbers
    BY <1>1, <1>3
  <2>3. FormsInv'
    BY <1>0, <1>1, <2>1, <2>2 DEF FormsInv, IInv, Parses, Spoken
  <2>4. \A q \in owed' : q \in owed /\ q.of # line.of
    BY <1>3 DEF OwedInv, IInv
  <2>5. OwedInv'
    BY <1>0, <2>4 DEF OwedInv, IInv
  <2> QED BY <2>3, <2>5
<1> QED BY <1>0, <1>2, <1>3

\* One line of any kind preserves the invariant.
LEMMA LineStep ==
  ASSUME IInv, NEW line, Parses(line), FormsInv', OwedInv',
         owed' \subseteq [form : {"item", "text", "event"}, key : Keys, of : Numbers']
  PROVE  IInv'
<1>1. SetsInv'
  BY SetsStep DEF IInv
<1>2. FirstFormDecides' /\ MessagesInv' /\ messages' \subseteq
           [line : Numbers', session : Sessions \union {None}, whole : BOOLEAN]
  BY KeptStep
<1>3. TypeOK'
  BY <1>2, ParseTypes DEF TypeOK, Line
<1> QED BY <1>1, <1>2, <1>3 DEF IInv

LEMMA InitInv == Init => IInv
<1> SUFFICES ASSUME Init PROVE IInv
  OBVIOUS
<1>1. Numbers = {} /\ lines = <<>>
  BY DEF Init, Numbers
<1> QED BY <1>1 DEF Init, IInv, TypeOK, SetsInv, MessagesInv, FormsInv, OwedInv, FirstFormDecides

LEMMA NextInv == IInv /\ [Next]_vars => IInv'
<1> SUFFICES ASSUME IInv, [Next]_vars PROVE IInv'
  OBVIOUS
<1> USE CodexConstants
<1>0. /\ Len(lines) \in Nat /\ Next1 \in Nat
      /\ \A line \in Line : ParseLine(line) => Numbers' = Numbers \union {Next1}
  <2>1. lines \in Seq(Line)
    BY DEF IInv, TypeOK, Line
  <2>2. ASSUME NEW line \in Line, ParseLine(line)
        PROVE  Numbers' = Numbers \union {Next1}
    <3>1. lines' = Append(lines, line)
      BY <2>2 DEF ParseLine
    <3> QED BY <2>1, <3>1, Appended
  <2>3. Len(lines) \in Nat /\ Next1 \in Nat
    BY <2>1 DEF Next1
  <2> QED BY <2>2, <2>3
<1>1. CASE Utter
  <2>1. PICK key \in Keys, stamped \in BOOLEAN : \E form \in Forms(key) :
          /\ ParseLine([form |-> form, key |-> key, stamped |-> stamped, session |-> None,
                        of |-> Next1])
          /\ \/ UNCHANGED owed
             \/ \E other \in Others(form, key) :
                  owed' = owed \union {[form |-> other, key |-> key, of |-> Next1]}
    BY <1>1 DEF Utter
  <2>2. PICK form \in Forms(key) : \E other \in Others(form, key) :
          /\ ParseLine([form |-> form, key |-> key, stamped |-> stamped, session |-> None,
                        of |-> Next1])
          /\ owed' \subseteq owed \union {[form |-> other, key |-> key, of |-> Next1]}
    <3>1. \A form \in Forms(key) : Others(form, key) # {}
      BY DEF Others, Forms
    <3> QED BY <2>1, <3>1
  <2>3. PICK other \in Others(form, key) :
          owed' \subseteq owed \union {[form |-> other, key |-> key, of |-> Next1]}
    BY <2>2
  <2>4. /\ form \in {"item", "text", "event"} /\ other \in {"item", "text", "event"}
        /\ form = "event" <=> other # "event"
    BY <2>3 DEF Others, Forms
  <2> DEFINE line == [form |-> form, key |-> key, stamped |-> stamped, session |-> None, of |-> Next1]
             o == [form |-> other, key |-> key, of |-> Next1]
  <2>5. line \in Line
    BY <1>0, <2>4 DEF Line
  <2>6. Parses(line) /\ line.of = Next1 /\ o.key = line.key /\ o.of = Next1
    BY <2>2, <2>4, <2>5 DEF Parses, Spoken
  <2>7. /\ owed' \subseteq owed \union {o}
        /\ Spoken(line) /\ (line.form = "event" <=> o.form # "event")
    BY <2>3, <2>4 DEF Spoken
  <2>8. o \in [form : {"item", "text", "event"}, key : Keys, of : Numbers'] /\ Numbers \subseteq Numbers'
    BY <1>0, <2>2, <2>3, <2>4, <2>5
  <2>9. owed' \subseteq [form : {"item", "text", "event"}, key : Keys, of : Numbers']
    BY <2>7, <2>8 DEF IInv, TypeOK
  <2> HIDE DEF line, o
  <2>10. FormsInv' /\ OwedInv'
    BY <2>6, <2>7, FormsStep
  <2> QED BY <2>6, <2>9, <2>10, LineStep
<1>2. CASE Mirror
  <2>1. PICK o \in owed, stamped \in BOOLEAN :
          /\ ParseLine([form |-> o.form, key |-> o.key, stamped |-> stamped, session |-> None,
                        of |-> o.of])
          /\ owed' = owed \ {o}
    BY <1>2 DEF Mirror
  <2> DEFINE line == [form |-> o.form, key |-> o.key, stamped |-> stamped, session |-> None, of |-> o.of]
  <2>2. o.form \in {"item", "text", "event"} /\ o.key \in Keys /\ o.of \in Nat
    BY DEF IInv, TypeOK, Numbers
  <2>3. line \in Line
    BY <2>2 DEF Line
  <2>4. Parses(line) /\ line.of = o.of /\ line.form = o.form /\ line.key = o.key
    BY <2>1, <2>2, <2>3 DEF Parses, Spoken
  <2>5. Numbers \subseteq Numbers'
    BY <1>0, <2>1, <2>3
  <2>6. owed' \subseteq [form : {"item", "text", "event"}, key : Keys, of : Numbers']
    BY <2>1, <2>5 DEF IInv, TypeOK
  <2> HIDE DEF line
  <2>7. FormsInv' /\ OwedInv'
    BY <2>1, <2>4, FormsStep
  <2> QED BY <2>4, <2>6, <2>7, LineStep
<1>3. CASE Log
  <2>1. PICK form \in {"tool", "meta"}, stamped \in BOOLEAN, named \in Sessions \union {None} :
          /\ ParseLine([form |-> form, key |-> None, stamped |-> stamped, session |-> named,
                        of |-> Next1])
          /\ owed' = owed
    BY <1>3 DEF Log
  <2> DEFINE line == [form |-> form, key |-> None, stamped |-> stamped, session |-> named, of |-> Next1]
             o == [form |-> "event", key |-> None, of |-> Next1]
  <2>2. line \in Line
    BY <1>0 DEF Line
  <2>3. Parses(line) /\ line.of = Next1 /\ o.key = line.key /\ o.of = Next1
    BY <2>1, <2>2 DEF Parses, Spoken
  <2>4. owed' \subseteq owed \union {o} /\ o \notin owed'
    BY <2>1 DEF IInv, TypeOK
  <2>5. Numbers \subseteq Numbers'
    BY <1>0, <2>1, <2>2
  <2>6. owed' \subseteq [form : {"item", "text", "event"}, key : Keys, of : Numbers']
    BY <2>1, <2>5 DEF IInv, TypeOK
  <2> HIDE DEF line, o
  <2>7. FormsInv' /\ OwedInv'
    BY <2>3, <2>4, FormsStep
  <2> QED BY <2>3, <2>6, <2>7, LineStep
<1>4. CASE UNCHANGED vars
  BY <1>4 DEF vars, IInv, TypeOK, SetsInv, MessagesInv, FormsInv, OwedInv, FirstFormDecides,
     First, Kept, Numbers
<1> QED BY <1>1, <1>2, <1>3, <1>4 DEF Next

\* The inductive invariant: what the parser's two sets say of the lines so far.
THEOREM Invariance == Spec => []IInv
BY InitInv, NextInv, PTL DEF Spec

\* The parser's state is well typed, and what was seen as an event is canonical.
THEOREM TypeCorrect == Spec => []TypeOK
<1>1. IInv => TypeOK
  BY DEF IInv
<1> QED BY <1>1, Invariance, PTL

\* The first record of a text decides which of its records are messages.
THEOREM FirstFormDecidesAlways == Spec => []FirstFormDecides
<1>1. IInv => FirstFormDecides
  BY DEF IInv
<1> QED BY <1>1, Invariance, PTL

\* Two messages of an utterance are its event, which came first of its text, and an
\* older item: an item that is compared with events has a text that none spoke first,
\* and an event that is kept comes before the other form.
LEMMA TwoMessages ==
  ASSUME IInv, NEW m \in messages, NEW n \in messages, lines[m.line].of = lines[n.line].of,
         m.line <= n.line, m # n
  PROVE  lines[m.line].form = "event" /\ First(m.line) /\ lines[n.line].form = "text"
<1> PICK i, j : i = m.line /\ j = n.line
  OBVIOUS
<1>1. i \in Numbers /\ j \in Numbers /\ i \in Nat /\ j \in Nat
  BY DEF IInv, TypeOK, Numbers
<1>2. Kept(i) /\ Kept(j)
  BY DEF Kept
<1>3. i < j
  <2>1. i # j
    BY DEF IInv, MessagesInv
  <2> QED BY <1>1, <2>1
<1>4. /\ Spoken(lines[i]) /\ Spoken(lines[j]) /\ lines[i].key = lines[j].key
      /\ lines[i].form = "event" <=> lines[j].form # "event"
  BY <1>1, <1>3 DEF IInv, FormsInv
<1>5. lines[j].form # "event"
  <2>1. i \in 1 .. j - 1
    BY <1>1, <1>3 DEF Numbers
  <2>2. ~First(j)
    BY <1>4, <2>1 DEF First
  <2> QED BY <1>1, <1>2, <2>2 DEF IInv, FirstFormDecides
<1>6. lines[i].form = "event" /\ First(i)
  BY <1>1, <1>2, <1>4, <1>5 DEF IInv, FirstFormDecides
<1>7. lines[j].form # "item"
  <2>1. i \in 1 .. j
    BY <1>1, <1>3 DEF Numbers
  <2> QED BY <1>1, <1>2, <1>4, <1>6, <2>1 DEF IInv, FirstFormDecides
<1> QED BY <1>4, <1>5, <1>6, <1>7 DEF Spoken

\* The two forms of an utterance become one message, but for an event and an older
\* item.
THEOREM MirrorsAreOneAlways == Spec => []MirrorsAreOne
<1>1. IInv => MirrorsAreOne
  BY TwoMessages DEF MirrorsAreOne
<1> QED BY <1>1, Invariance, PTL

\* Each text spoken so far is in the message of its first record.
THEOREM NoTextIsLostAlways == Spec => []NoTextIsLost
<1>1. ASSUME IInv, NEW i \in Numbers, lines[i].key # None
      PROVE  \E m \in messages :
               /\ lines[m.line].key = lines[i].key
               /\ m.whole \/ (m.line <= i /\ ~lines[m.line].stamped /\ First(m.line))
  <2>1. PICK f \in 1 .. i : lines[f].key = lines[i].key /\ First(f)
    BY <1>1 DEF IInv, SetsInv
  <2>2. f \in Numbers /\ f <= i
    BY <1>1, <2>1 DEF Numbers
  <2>3. Kept(f)
    <3>1. Spoken(lines[f])
      BY <1>1, <2>1, <2>2 DEF IInv, FormsInv
    <3>2. \A j \in 1 .. f : lines[j].key = lines[f].key /\ First(j) => j = f
      BY <2>1, <2>2 DEF First, Numbers
    <3>3. lines[f].form = "item" =>
            ~\E j \in 1 .. f : lines[j].key = lines[f].key /\ lines[j].form = "event" /\ First(j)
      BY <3>2
    <3>4. FirstFormDecides
      BY <1>1 DEF IInv
    <3> QED BY <2>1, <2>2, <3>1, <3>3, <3>4 DEF FirstFormDecides, Spoken
  <2>4. PICK m \in messages : m.line = f
    BY <2>3 DEF Kept
  <2>5. m.whole = lines[f].stamped
    BY <1>1, <2>4 DEF IInv, MessagesInv
  <2>6. lines[f].stamped \in BOOLEAN /\ m.whole \in BOOLEAN
    <3>1. lines \in Seq(Line) /\ f \in 1 .. Len(lines)
      BY <1>1, <2>2 DEF IInv, TypeOK, Line, Numbers
    <3>2. lines[f] \in Line
      BY <3>1
    <3>3. m \in [line : Numbers, session : Sessions \union {None}, whole : BOOLEAN]
      BY <1>1 DEF IInv, TypeOK
    <3> QED BY <3>2, <3>3 DEF Line
  <2> QED BY <2>1, <2>2, <2>4, <2>5, <2>6
<1>2. IInv => NoTextIsLost
  BY <1>1 DEF NoTextIsLost
<1> QED BY <1>2, Invariance, PTL
=============================================================================
