------------------------- MODULE ToolRecords_proofs -------------------------
(***************************************************************************)
(* Proofs about ToolRecords, for every set of paths, sessions, tools and   *)
(* names, every transcript and every window: pairing and search content    *)
(* are current after every commit, and an upgrade keeps the answers.       *)
(***************************************************************************)
EXTENDS ToolRecords, Integers, WellFoundedInduction, FiniteSetTheorems, TLAPS

-----------------------------------------------------------------------------
(* Row ids.                                                                *)

\* A set of numbers has a least one.
LEMMA Least ==
  ASSUME NEW T \in SUBSET Nat, T # {}
  PROVE  \E x \in T : \A y \in T : x <= y
<1> DEFINE R == OpToRel(<, Nat)
<1>1. IsWellFoundedOn(R, Nat)
  BY NatLessThanWellFounded
<1>2. \A x, y \in Nat : <<x, y>> \in R <=> x < y
  BY DEF OpToRel
<1> HIDE DEF R
<1>3. PICK x \in T : \A y \in T : ~(<<y, x>> \in R)
  BY <1>1, WFMin
<1>4. \A y \in T : x \in Nat /\ y \in Nat /\ ~(y < x)
  BY <1>2, <1>3
<1> QED BY <1>4

\* A bounded set of numbers has a largest one, and Max is it.
LEMMA MaxIs ==
  ASSUME NEW S \in SUBSET Nat, S # {}, NEW n \in Nat, \A s \in S : s <= n
  PROVE  Max(S) \in S /\ \A s \in S : s <= Max(S)
<1> DEFINE U == {u \in Nat : \A s \in S : s <= u}
<1>1. PICK u \in U : \A v \in U : u <= v
  <2>1. n \in U OBVIOUS
  <2>2. U \in SUBSET Nat /\ U # {} BY <2>1
  <2> HIDE DEF U
  <2> QED BY <2>2, Least
<1>2. u \in S
  <2> SUFFICES ASSUME u \notin S PROVE FALSE OBVIOUS
  <2>1. u \in Nat /\ \A s \in S : s \in Nat /\ s < u BY <1>1
  <2>2. PICK s \in S : s < u BY <2>1
  <2>3. u - 1 \in U BY <2>1, <2>2
  <2> QED BY <1>1, <2>1, <2>3
<1> QED BY <1>1, <1>2 DEF Max

\* The next ids of a table are above those it has.
LEMMA LastIdBounds ==
  ASSUME NEW table, Keyed(table), \A a \in table : a.id \in Nat
  PROVE  LastId(table) \in Nat /\ \A a \in table : a.id <= LastId(table)
<1> DEFINE S == {0} \union Ids(table)
<1>1. S \in SUBSET Nat /\ S # {} BY DEF Ids
<1>2. PICK n \in Nat : \A a \in table : a.id <= n BY DEF Keyed
<1>3. \A s \in S : s <= n BY <1>2 DEF Ids
<1>4. \A a \in table : a.id \in S BY DEF Ids
<1> HIDE DEF S
<1>5. Max(S) \in S /\ \A s \in S : s <= Max(S) BY <1>1, <1>3, MaxIs
<1>6. Max(S) \in Nat BY <1>1, <1>5
<1> QED BY <1>4, <1>5, <1>6 DEF LastId, S

\* Some rows of a table with keys have keys.
LEMMA KeyedSubset ==
  ASSUME NEW table, NEW part \in SUBSET table, Keyed(table)
  PROVE  Keyed(part)
  BY DEF Keyed

\* Rows with the next ids leave the ids keys.
LEMMA KeyedAppend ==
  ASSUME NEW table, Keyed(table), \A a \in table : a.id \in Nat,
         NEW n \in Nat, NEW new,
         \A a \in new : \E i \in 1 .. n : a.id = LastId(table) + i,
         \A a, b \in new : a.id = b.id => a = b
  PROVE  Keyed(table \union new)
<1> DEFINE k == LastId(table)
<1>1. k \in Nat /\ \A a \in table : a.id <= k BY LastIdBounds
<1> HIDE DEF k
<1>2. \A a \in new : a.id \in Nat /\ a.id > k /\ a.id <= k + n
  <2> SUFFICES ASSUME NEW a \in new PROVE a.id \in Nat /\ a.id > k /\ a.id <= k + n
    OBVIOUS
  <2>1. PICK i \in 1 .. n : a.id = k + i BY DEF k
  <2> QED BY <1>1, <2>1
<1>3. \A a \in table \union new : a.id <= k + n
  BY <1>1, <1>2
<1>4. k + n \in Nat BY <1>1
<1>5. \A a \in table, b \in new : a.id # b.id
  BY <1>1, <1>2
<1>6. \A a, b \in table \union new : a.id = b.id => a = b
  BY <1>5 DEF Keyed
<1> QED BY <1>3, <1>4, <1>6 DEF Keyed

-----------------------------------------------------------------------------
(* Search content.                                                         *)

\* Outside of the upgrade the triggers keep the search content of a statement
\* that leaves the tables cs and rs: a call that no changed result is or was
\* linked to has the output it had, and a new call has none.
LEMMA WriteKeepsSearch ==
  ASSUME SearchIsCurrent, stage # "upgrade", RefsInv,
         NEW cs, NEW rs, 0 \notin Ids(cs), Write(cs, rs)
  PROVE  search' = Populated(cs, rs)
<1>1. search = [i \in Ids(calls) |-> [arguments |-> Arguments(calls, i), output |-> Output(results, i)]]
  BY DEF SearchIsCurrent, Populated
<1>2. DOMAIN search = Ids(calls) /\ \A i \in Ids(calls) : search[i].output = Output(results, i)
  BY <1>1
<1>3. ASSUME NEW i \in Ids(cs), i \notin Touched(rs)
      PROVE  Output(rs, i) = IF i \in DOMAIN search THEN search[i].output ELSE {}
  <2>1. {q \in rs : q.link = i /\ q.text # NoText} = {q \in results : q.link = i /\ q.text # NoText}
    <3>1. \A q \in results \ rs : q.link # i BY <1>3 DEF Touched
    <3>2. \A q \in rs \ results : q.link # i BY <1>3 DEF Touched
    <3> QED BY <3>1, <3>2
  <2>2. Output(rs, i) = Output(results, i) BY <2>1 DEF Output
  <2>3. CASE i \in Ids(calls) BY <1>2, <2>2, <2>3
  <2>4. CASE i \notin Ids(calls)
    <3>1. i # 0 OBVIOUS
    <3>2. \A q \in results : q.link # i
      BY <3>1, <2>4 DEF RefsInv, Ids
    <3>3. Output(results, i) = {} BY <3>2 DEF Output
    <3> QED BY <1>2, <2>2, <2>4, <3>3
  <2> QED BY <2>3, <2>4
<1>4. search' = [i \in Ids(cs) |->
                   [arguments |-> Arguments(cs, i),
                    output |-> IF i \in Touched(rs) THEN Output(rs, i)
                               ELSE IF i \in DOMAIN search THEN search[i].output ELSE {}]]
  BY DEF Write
<1> QED BY <1>3, <1>4 DEF Populated

\* A statement keeps SearchIsCurrent.
LEMMA WriteSearch ==
  ASSUME SearchIsCurrent, RefsInv, NEW cs, NEW rs, 0 \notin Ids(cs), Write(cs, rs),
         stage = "upgrade" => stage' = "upgrade"
  PROVE  SearchIsCurrent'
<1>1. CASE stage = "upgrade" BY <1>1 DEF SearchIsCurrent
<1>2. CASE stage # "upgrade"
  <2>1. search' = Populated(cs, rs) BY <1>2, WriteKeepsSearch
  <2>2. calls' = cs /\ results' = rs BY DEF Write
  <2> QED BY <2>1, <2>2 DEF SearchIsCurrent
<1> QED BY <1>1, <1>2

-----------------------------------------------------------------------------
(* Pairing.                                                                *)

\* Before orders rows strictly.
LEMMA BeforeOrder ==
  ASSUME NEW a, NEW b, NEW c,
         a.time \in Nat, a.row \in Nat, a.id \in Nat,
         b.time \in Nat, b.row \in Nat, b.id \in Nat,
         c.time \in Nat, c.row \in Nat, c.id \in Nat
  PROVE  /\ ~Before(a, a)
         /\ Before(a, b) /\ Before(b, c) => Before(a, c)
  BY DEF Before

\* A result is linked to nothing or to a call it may answer.
LEMMA LinkIsAnswerable ==
  ASSUME NEW r
  PROVE  LinkOf(r) = 0 \/ \E c \in Answerable(r) : LinkOf(r) = c.id
<1>1. CASE Latest(Answerable(r)) = {} BY <1>1 DEF LinkOf
<1>2. CASE Latest(Answerable(r)) # {}
  <2>1. PICK c : c = CHOOSE d \in Latest(Answerable(r)) : TRUE OBVIOUS
  <2>2. c \in Latest(Answerable(r)) BY <1>2, <2>1
  <2>3. c \in Answerable(r) BY <2>2 DEF Latest
  <2> QED BY <1>2, <2>1, <2>3 DEF LinkOf
<1> QED BY <1>1, <1>2

\* That call is of the session, and one without id was not taken before.
LEMMA LinkOfSession ==
  ASSUME NEW r
  PROVE  \/ LinkOf(r) = 0
         \/ \E c \in calls : /\ LinkOf(r) = c.id
                             /\ c.session = r.session
                             /\ r.tool = NoTool => c.id \notin Used(r)
<1>1. Answerable(r) \subseteq Prior(r)
  <2>1. CASE r.tool = NoTool BY <2>1 DEF Answerable
  <2>2. CASE r.tool # NoTool BY <2>2 DEF Answerable
  <2> QED BY <2>1, <2>2
<1>2. r.tool = NoTool => \A c \in Answerable(r) : c.id \notin Used(r)
  BY DEF Answerable
<1>3. \A c \in Prior(r) : c \in calls /\ c.session = r.session BY DEF Prior
<1> QED BY <1>1, <1>2, <1>3, LinkIsAnswerable

\* The link of a result depends on the calls before it and on those taken.
LEMMA LinkOfSame ==
  ASSUME NEW r, Prior(r)' = Prior(r), Used(r)' = Used(r)
  PROVE  LinkOf(r)' = LinkOf(r)
<1>1. Answerable(r)' = Answerable(r) BY DEF Answerable
<1> QED BY <1>1 DEF LinkOf

\* Calls and results of other sessions do not matter.
LEMMA LinkOfFrame ==
  ASSUME NEW r,
         {c \in calls' : c.session = r.session} = {c \in calls : c.session = r.session},
         {q \in results' : q.session = r.session} = {q \in results : q.session = r.session}
  PROVE  LinkOf(r)' = LinkOf(r)
<1>1. \A c : c \in calls' /\ c.session = r.session <=> c \in calls /\ c.session = r.session
  OBVIOUS
<1>2. \A q : q \in results' /\ q.session = r.session <=> q \in results /\ q.session = r.session
  OBVIOUS
<1>3. Prior(r)' = Prior(r) BY <1>1 DEF Prior
<1>4. {d \in results' : d.session = r.session /\ d.tool = NoTool /\ Before(d, r)} =
      {d \in results : d.session = r.session /\ d.tool = NoTool /\ Before(d, r)}
  BY <1>2
<1>5. Used(r)' = Used(r) BY <1>4 DEF Used
<1> QED BY <1>3, <1>5, LinkOfSame

\* Nor does the link a result has: an update of it leaves the other fields.
LEMMA Updated ==
  ASSUME NEW r \in ResultType, NEW l \in Nat, NEW u, u = [r EXCEPT !.link = l]
  PROVE  /\ u \in ResultType
         /\ u.link = l /\ u.id = r.id /\ u.row = r.row /\ u.session = r.session
         /\ u.time = r.time /\ u.tool = r.tool /\ u.name = r.name /\ u.text = r.text
  BY DEF ResultType

\* So a result and its update are linked alike.
LEMMA LinkOfUpdated ==
  ASSUME NEW r, NEW u,
         u.id = r.id, u.row = r.row, u.session = r.session, u.time = r.time,
         u.tool = r.tool, u.name = r.name
  PROVE  LinkOf(u) = LinkOf(r)
<1>1. \A d : Before(d, u) <=> Before(d, r) BY DEF Before
<1>2. \A c : Precedes(c, u) <=> Precedes(c, r) BY DEF Precedes
<1>3. \A c : SameName(c, u) <=> SameName(c, r) BY DEF SameName
<1>4. Prior(u) = Prior(r) BY <1>2 DEF Prior
<1>5. {d \in results : d.session = u.session /\ d.tool = NoTool /\ Before(d, u)} =
      {d \in results : d.session = r.session /\ d.tool = NoTool /\ Before(d, r)}
  BY <1>1
<1>6. Used(u) = Used(r) BY <1>5 DEF Used
<1>7. Answerable(u) = Answerable(r)
  <2>1. CASE r.tool = NoTool BY <1>3, <1>4, <1>6, <2>1 DEF Answerable
  <2>2. CASE r.tool # NoTool BY <1>4, <2>2 DEF Answerable
  <2> QED BY <2>1, <2>2
<1> QED BY <1>7 DEF LinkOf

-----------------------------------------------------------------------------
(* The invariant: how it begins.                                           *)

\* An empty index satisfies it.
LEMMA InitInv == Init => IInv
<1> SUFFICES ASSUME Init PROVE IInv OBVIOUS
<1> USE DEF Init
<1>1. TypeOK BY DEF TypeOK
<1>2. KeysInv /\ RefsInv /\ StageInv /\ PairInv /\ AnonymousCallsAnswerOnce
  BY DEF KeysInv, Keyed, RefsInv, StageInv, PairInv, AnonymousCallsAnswerOnce
<1>3. SearchIsCurrent BY DEF SearchIsCurrent, Populated, Ids
<1> QED BY <1>1, <1>2, <1>3 DEF IInv

-----------------------------------------------------------------------------
(* The invariant: Replace.                                                 *)

\* The ids of an empty table are keys.
LEMMA KeyedEmpty == Keyed({})
  BY DEF Keyed

\* The results that stay, without the links to calls that go.
LEMMA ReplaceRows ==
  ASSUME IInv, NEW p \in Paths, NEW c \in Contents, Replace(p, c)
  PROVE  /\ calls' \subseteq calls
         /\ \A d \in calls : d \in calls' <=> ~ \E m \in messages : m.source = p /\ m.id = d.row
         /\ \A u \in results' : \E r \in results :
              /\ ~ \E m \in messages : m.source = p /\ m.id = r.row
              /\ \/ /\ u = [r EXCEPT !.link = 0]
                    /\ u.link = 0
                    /\ \E d \in calls : d.id = r.link /\ d \notin calls'
                 \/ /\ u = r
                    /\ ~ \E d \in calls : d.id = r.link /\ d \notin calls'
         /\ \A r \in results :
              (~ \E m \in messages : m.source = p /\ m.id = r.row) =>
                IF \E d \in calls : d.id = r.link /\ d \notin calls'
                THEN [r EXCEPT !.link = 0] \in results' ELSE r \in results'
<1> DEFINE gone == {m \in messages : m.source = p}
           dead == {d.id : d \in {e \in calls : e.row \in Ids(gone)}}
<1>1. /\ calls' = {d \in calls : d.row \notin Ids(gone)}
      /\ results' = {IF r.link \in dead THEN [r EXCEPT !.link = 0] ELSE r :
                       r \in {q \in results : q.row \notin Ids(gone)}}
  BY DEF Replace, Write
<1>2. \A i : i \in Ids(gone) <=> \E m \in messages : m.source = p /\ m.id = i
  BY DEF Ids
<1>3. \A i : i \in dead <=> \E d \in calls : d.id = i /\ d \notin calls'
  BY <1>1
<1>4. \A r \in results : [r EXCEPT !.link = 0].link = 0
  BY Updated DEF IInv, TypeOK
<1> HIDE DEF gone, dead
<1>5. \A d \in calls : d \in calls' <=> ~ \E m \in messages : m.source = p /\ m.id = d.row
  BY <1>1, <1>2
<1>6. ASSUME NEW u \in results'
      PROVE  \E r \in results :
              /\ ~ \E m \in messages : m.source = p /\ m.id = r.row
              /\ \/ /\ u = [r EXCEPT !.link = 0]
                    /\ u.link = 0
                    /\ \E d \in calls : d.id = r.link /\ d \notin calls'
                 \/ /\ u = r
                    /\ ~ \E d \in calls : d.id = r.link /\ d \notin calls'
  <2>1. PICK r \in {q \in results : q.row \notin Ids(gone)} :
          u = IF r.link \in dead THEN [r EXCEPT !.link = 0] ELSE r
    BY <1>1
  <2>2. ~ \E m \in messages : m.source = p /\ m.id = r.row BY <1>2, <2>1
  <2>3. CASE r.link \in dead BY <1>3, <1>4, <2>1, <2>2, <2>3
  <2>4. CASE r.link \notin dead BY <1>3, <2>1, <2>2, <2>4
  <2> QED BY <2>3, <2>4
<1>7. ASSUME NEW r \in results, ~ \E m \in messages : m.source = p /\ m.id = r.row
      PROVE  IF \E d \in calls : d.id = r.link /\ d \notin calls'
             THEN [r EXCEPT !.link = 0] \in results' ELSE r \in results'
  <2>1. r \in {q \in results : q.row \notin Ids(gone)} BY <1>2, <1>7
  <2>2. (IF r.link \in dead THEN [r EXCEPT !.link = 0] ELSE r) \in results' BY <1>1, <2>1
  <2>3. CASE r.link \in dead BY <1>3, <2>2, <2>3
  <2>4. CASE r.link \notin dead BY <1>3, <2>2, <2>4
  <2> QED BY <2>3, <2>4
<1> QED BY <1>1, <1>5, <1>6, <1>7

\* What the messages that come are.
LEMMA ReplaceMessages ==
  ASSUME IInv, NEW p \in Paths, NEW c \in Contents, Replace(p, c)
  PROVE  /\ todo = {} /\ affected = {} /\ unpaired = {} /\ unpaired' = {}
         /\ messages' = {m \in messages : m.source # p}
         /\ todo' \subseteq RowType
         /\ Keyed(messages' \union todo')
<1>1. /\ todo = {} /\ affected = {} /\ unpaired = {} /\ unpaired' = {}
      /\ messages' = {m \in messages : m.source # p}
      /\ todo' = {[id |-> LastId(messages') + i, source |-> p, message |-> c[i]] : i \in DOMAIN c}
  BY DEF Replace, IInv, StageInv
<1>2. /\ c \in Seq(MessageType) /\ DOMAIN c = 1 .. Len(c) /\ Len(c) \in Nat
      /\ \A i \in DOMAIN c : c[i] \in MessageType
  BY ToolConstants
<1>3. Keyed(messages)
  BY <1>1 DEF IInv, KeysInv
<1>4. Keyed(messages') /\ \A m \in messages' : m.id \in Nat
  <2>1. \A m \in messages : m.id \in Nat BY DEF IInv, TypeOK, RowType
  <2> QED BY <1>1, <1>3, <2>1, KeyedSubset
<1>5. LastId(messages') \in Nat BY <1>4, LastIdBounds
<1>6. todo' \subseteq RowType
  BY <1>1, <1>2, <1>5 DEF RowType
<1>7. \A m \in todo' : \E i \in 1 .. Len(c) : m.id = LastId(messages') + i
  BY <1>1, <1>2
<1>8. \A m, n \in todo' : m.id = n.id => m = n
  BY <1>1, <1>2, <1>5
<1>9. Keyed(messages' \union todo')
  BY <1>2, <1>4, <1>7, <1>8, KeyedAppend
<1> QED BY <1>1, <1>6, <1>9

\* A replacement leaves calls and results of sessions it does not affect alone.
LEMMA ReplaceFrame ==
  ASSUME IInv, NEW p \in Paths, NEW c \in Contents, Replace(p, c),
         NEW s, s \notin affected'
  PROVE  /\ {d \in calls' : d.session = s} = {d \in calls : d.session = s}
         /\ {r \in results' : r.session = s} = {r \in results : r.session = s}
<1>1. \A m \in messages : m.source = p => m.message.session # s
  BY DEF Replace, Affected
<1>2. \A m, n \in messages : m.id = n.id => m = n
  BY DEF IInv, KeysInv, Keyed
<1>3. \A d \in calls : d.session = s => ~ \E m \in messages : m.source = p /\ m.id = d.row
  BY <1>1, <1>2 DEF IInv, RefsInv
<1>4. \A r \in results : r.session = s => ~ \E m \in messages : m.source = p /\ m.id = r.row
  BY <1>1, <1>2 DEF IInv, RefsInv
<1>5. calls' \subseteq calls /\ \A d \in calls : d.session = s => d \in calls'
  BY <1>3, ReplaceRows
<1>6. ASSUME NEW r \in results, r.session = s PROVE ~ \E d \in calls : d.id = r.link /\ d \notin calls'
  <2> SUFFICES ASSUME NEW d \in calls, d.id = r.link, d \notin calls' PROVE FALSE
    OBVIOUS
  <2>1. d.id # 0 BY DEF IInv, TypeOK, CallType
  <2>2. PICK e \in calls : e.id = r.link /\ e.session = r.session
    BY <2>1 DEF IInv, RefsInv
  <2>3. d = e BY <2>2 DEF IInv, KeysInv, Keyed
  <2> QED BY <1>5, <1>6, <2>2, <2>3
<1>7. ASSUME NEW r \in results, r.session = s PROVE r \in results'
  BY <1>4, <1>6, <1>7, ReplaceRows
<1>8. ASSUME NEW u \in results', u.session = s PROVE u \in results
  <2>1. PICK r \in results :
          \/ /\ u = [r EXCEPT !.link = 0]
             /\ \E d \in calls : d.id = r.link /\ d \notin calls'
          \/ u = r
    BY ReplaceRows
  <2>2. CASE u = r BY <2>2
  <2>3. CASE u = [r EXCEPT !.link = 0] /\ \E d \in calls : d.id = r.link /\ d \notin calls'
    <3>1. r \in ResultType BY DEF IInv, TypeOK
    <3>2. u.session = r.session BY <2>3, <3>1, Updated
    <3> QED BY <1>6, <1>8, <2>3, <3>2
  <2> QED BY <2>1, <2>2, <2>3
<1> QED BY <1>5, <1>7, <1>8

\* The types, keys and references after a replacement.
LEMMA ReplaceRefs ==
  ASSUME IInv, NEW p \in Paths, NEW c \in Contents, Replace(p, c)
  PROVE  TypeOK' /\ KeysInv' /\ RefsInv'
<1>1. ASSUME NEW u \in results'
      PROVE  \E r \in results :
               /\ r \in ResultType /\ u \in ResultType
               /\ u.id = r.id /\ u.row = r.row /\ u.session = r.session
               /\ ~ \E m \in messages : m.source = p /\ m.id = r.row
               /\ \/ u.link = 0
                  \/ u = r /\ ~ \E d \in calls : d.id = r.link /\ d \notin calls'
  <2>1. PICK r \in results :
              /\ ~ \E m \in messages : m.source = p /\ m.id = r.row
              /\ \/ /\ u = [r EXCEPT !.link = 0]
                    /\ u.link = 0
                 \/ /\ u = r
                    /\ ~ \E d \in calls : d.id = r.link /\ d \notin calls'
    BY <1>1, ReplaceRows
  <2>2. r \in ResultType BY DEF IInv, TypeOK
  <2>3. CASE u = [r EXCEPT !.link = 0] /\ u.link = 0
    <3>1. u \in ResultType /\ u.id = r.id /\ u.row = r.row /\ u.session = r.session
      BY <2>2, <2>3, Updated
    <3> QED BY <2>1, <2>2, <2>3, <3>1
  <2>4. CASE u = r /\ ~ \E d \in calls : d.id = r.link /\ d \notin calls'
    BY <2>1, <2>2, <2>4
  <2> QED BY <2>1, <2>3, <2>4
<1>2. TypeOK'
  <2>1. messages' \subseteq RowType /\ todo' \subseteq RowType
    BY ReplaceMessages DEF IInv, TypeOK
  <2>2. calls' \subseteq CallType BY ReplaceRows DEF IInv, TypeOK
  <2>3. results' \subseteq ResultType BY <1>1
  <2>4. affected' \subseteq Sessions
    BY DEF Replace, Affected, IInv, TypeOK, RowType, MessageType
  <2>5. stage' = "replace" BY DEF Replace
  <2>6. unpaired' \subseteq Nat BY ReplaceMessages
  <2> QED BY <2>1, <2>2, <2>3, <2>4, <2>5, <2>6 DEF TypeOK
<1>3. KeysInv'
  <2>1. Keyed(messages' \union todo') BY ReplaceMessages
  <2>2. Keyed(calls') BY ReplaceRows, KeyedSubset DEF IInv, KeysInv
  <2>3. Keyed(results')
    <3>1. PICK n \in Nat : \A r \in results : r.id <= n BY DEF IInv, KeysInv, Keyed
    <3>2. \A u \in results' : u.id <= n BY <1>1, <3>1
    <3>3. ASSUME NEW u \in results', NEW v \in results', u.id = v.id PROVE u = v
      <4>1. PICK r \in results :
              /\ ~ \E m \in messages : m.source = p /\ m.id = r.row
              /\ \/ /\ u = [r EXCEPT !.link = 0]
                    /\ \E d \in calls : d.id = r.link /\ d \notin calls'
                 \/ /\ u = r
                    /\ ~ \E d \in calls : d.id = r.link /\ d \notin calls'
        BY ReplaceRows
      <4>2. PICK q \in results :
              /\ ~ \E m \in messages : m.source = p /\ m.id = q.row
              /\ \/ /\ v = [q EXCEPT !.link = 0]
                    /\ \E d \in calls : d.id = q.link /\ d \notin calls'
                 \/ /\ v = q
                    /\ ~ \E d \in calls : d.id = q.link /\ d \notin calls'
        BY ReplaceRows
      <4>3. r \in ResultType /\ q \in ResultType BY DEF IInv, TypeOK
      <4>4. u.id = r.id BY <4>1, <4>3, Updated
      <4>5. v.id = q.id BY <4>2, <4>3, Updated
      <4>6. r = q BY <3>3, <4>4, <4>5 DEF IInv, KeysInv, Keyed
      <4> QED BY <4>1, <4>2, <4>6
    <3> QED BY <3>1, <3>2, <3>3 DEF Keyed
  <2> QED BY <2>1, <2>2, <2>3 DEF KeysInv
<1>4. RefsInv'
  <2>1. messages' = {m \in messages : m.source # p} BY ReplaceMessages
  <2>2. \A d \in calls' : \E m \in messages' : m.id = d.row /\ m.message.session = d.session
    <3> SUFFICES ASSUME NEW d \in calls'
                 PROVE  \E m \in messages' : m.id = d.row /\ m.message.session = d.session
      OBVIOUS
    <3>1. d \in calls /\ ~ \E m \in messages : m.source = p /\ m.id = d.row
      BY ReplaceRows
    <3>2. PICK m \in messages : m.id = d.row /\ m.message.session = d.session
      BY <3>1 DEF IInv, RefsInv
    <3> QED BY <2>1, <3>1, <3>2
  <2>3. \A u \in results' : \E m \in messages' : m.id = u.row /\ m.message.session = u.session
    <3> SUFFICES ASSUME NEW u \in results'
                 PROVE  \E m \in messages' : m.id = u.row /\ m.message.session = u.session
      OBVIOUS
    <3>1. PICK r \in results : /\ u.row = r.row /\ u.session = r.session
                               /\ ~ \E m \in messages : m.source = p /\ m.id = r.row
      BY <1>1
    <3>2. PICK m \in messages : m.id = r.row /\ m.message.session = r.session
      BY <3>1 DEF IInv, RefsInv
    <3> QED BY <2>1, <3>1, <3>2
  <2>4. \A u \in results' : u.link # 0 => \E d \in calls' : d.id = u.link /\ d.session = u.session
    <3> SUFFICES ASSUME NEW u \in results', u.link # 0
                 PROVE  \E d \in calls' : d.id = u.link /\ d.session = u.session
      OBVIOUS
    <3>1. u \in results /\ ~ \E d \in calls : d.id = u.link /\ d \notin calls' BY <1>1
    <3>2. PICK d \in calls : d.id = u.link /\ d.session = u.session BY <3>1 DEF IInv, RefsInv
    <3> QED BY <3>1, <3>2
  <2> QED BY <2>2, <2>3, <2>4 DEF RefsInv
<1> QED BY <1>2, <1>3, <1>4

\* Replace keeps the invariant: results that lose their call are of an affected
\* session.
LEMMA ReplaceInv ==
  ASSUME IInv, NEW p \in Paths, NEW c \in Contents, Replace(p, c)
  PROVE  IInv'
<1>1. TypeOK' /\ KeysInv' /\ RefsInv' BY ReplaceRefs
<1>2. StageInv' BY ReplaceMessages DEF StageInv, Replace
<1>3. PairInv'
  <2>1. unpaired = {} /\ affected = {} /\ unpaired' = {} BY ReplaceMessages
  <2>2. ASSUME NEW r \in results', r.session \notin affected' PROVE r.link = LinkOf(r)'
    <3>1. /\ {d \in calls' : d.session = r.session} = {d \in calls : d.session = r.session}
          /\ {q \in results' : q.session = r.session} = {q \in results : q.session = r.session}
      BY <2>2, ReplaceFrame
    <3>2. LinkOf(r)' = LinkOf(r) BY <3>1, LinkOfFrame
    <3>3. r \in results BY <3>1
    <3>4. r.link = LinkOf(r) BY <2>1, <3>3 DEF IInv, PairInv
    <3> QED BY <3>2, <3>4
  <2> QED BY <2>1, <2>2 DEF PairInv
<1>4. SearchIsCurrent'
  <2>1. PICK cs, rs : Write(cs, rs) BY DEF Replace
  <2>2. cs = calls' BY <2>1 DEF Write
  <2>3. 0 \notin Ids(cs) BY <1>1, <2>2 DEF TypeOK, CallType, Ids
  <2>4. stage = "idle" BY DEF Replace
  <2> QED BY <2>1, <2>3, <2>4, WriteSearch DEF IInv
<1>5. AnonymousCallsAnswerOnce'
  <2>1. \A u \in results' : u.link # 0 => u \in results
    BY ReplaceRows
  <2> QED BY <2>1 DEF IInv, AnonymousCallsAnswerOnce
<1> QED BY <1>1, <1>2, <1>3, <1>4, <1>5 DEF IInv

-----------------------------------------------------------------------------
(* The invariant: Store.                                                   *)

\* Store puts the calls and results of one message with its row: this much of it.
StoreOf(m) ==
  /\ m \in todo
  /\ messages' = messages \union {m}
  /\ Write(calls \union CallRows(m), results \union ResultRows(m))
  /\ todo' = todo \ {m}
  /\ affected' = affected \union {m.message.session}
  /\ UNCHANGED <<stage, unpaired, answered, changes>>

\* The elements of a sequence are of the set it is over.
LEMMA Elements ==
  ASSUME NEW S, NEW q \in Seq(S)
  PROVE  DOMAIN q = 1 .. Len(q) /\ Len(q) \in Nat /\ \A i \in 1 .. Len(q) : q[i] \in S
  OBVIOUS

\* The calls of a message, as rows with the next ids.
LEMMA CallRowsAre ==
  ASSUME IInv, NEW m \in todo
  PROVE  /\ CallRows(m) \subseteq CallType
         /\ \A d \in CallRows(m) : d.row = m.id /\ d.session = m.message.session
         /\ Keyed(calls \union CallRows(m))
<1>1. m \in RowType /\ m.message \in MessageType /\ m.id \in Nat BY DEF IInv, TypeOK, RowType
<1> DEFINE new == m.message.calls
           k == LastId(calls)
<1>2. /\ new \in Seq([tool : Tools, name : Names]) /\ DOMAIN new = 1 .. Len(new) /\ Len(new) \in Nat
      /\ m.message.session \in Sessions /\ m.message.time \in Nat
  BY <1>1 DEF MessageType
<1>3. \A i \in 1 .. Len(new) : new[i].tool \in Tools /\ new[i].name \in Names
  <2>1. \A i \in 1 .. Len(new) : new[i] \in [tool : Tools, name : Names]
    <3> HIDE DEF new
    <3> QED BY <1>2, Elements
  <2> QED BY <2>1
<1>4. Keyed(calls) /\ \A d \in calls : d.id \in Nat BY DEF IInv, KeysInv, TypeOK, CallType
<1>5. k \in Nat BY <1>4, LastIdBounds
<1>6. CallRows(m) = {[id |-> k + i, row |-> m.id, session |-> m.message.session, time |-> m.message.time,
                      tool |-> new[i].tool, name |-> new[i].name] : i \in 1 .. Len(new)}
  BY <1>2 DEF CallRows
<1> HIDE DEF new, k
<1>7. CallRows(m) \subseteq CallType BY <1>1, <1>2, <1>3, <1>5, <1>6 DEF CallType
<1>8. \A d \in CallRows(m) : d.row = m.id /\ d.session = m.message.session BY <1>6
<1>9. \A d \in CallRows(m) : \E i \in 1 .. Len(new) : d.id = LastId(calls) + i BY <1>6 DEF k
<1>10. \A d, e \in CallRows(m) : d.id = e.id => d = e
  <2> SUFFICES ASSUME NEW i \in 1 .. Len(new), NEW j \in 1 .. Len(new), k + i = k + j PROVE i = j
    BY <1>6
  <2> QED BY <1>5
<1>11. Keyed(calls \union CallRows(m)) BY <1>2, <1>4, <1>9, <1>10, KeyedAppend
<1> QED BY <1>7, <1>8, <1>11

\* Its results likewise, linked to nothing.
LEMMA ResultRowsAre ==
  ASSUME IInv, NEW m \in todo
  PROVE  /\ ResultRows(m) \subseteq ResultType
         /\ \A r \in ResultRows(m) : r.row = m.id /\ r.session = m.message.session /\ r.link = 0
         /\ Keyed(results \union ResultRows(m))
<1>1. m \in RowType /\ m.message \in MessageType /\ m.id \in Nat BY DEF IInv, TypeOK, RowType
<1> DEFINE new == m.message.results
           k == LastId(results)
<1>2. /\ new \in Seq([tool : Tools, name : Names, text : Texts])
      /\ DOMAIN new = 1 .. Len(new) /\ Len(new) \in Nat
      /\ m.message.session \in Sessions /\ m.message.time \in Nat
  BY <1>1 DEF MessageType
<1>3. \A i \in 1 .. Len(new) : new[i].tool \in Tools /\ new[i].name \in Names /\ new[i].text \in Texts
  <2>1. \A i \in 1 .. Len(new) : new[i] \in [tool : Tools, name : Names, text : Texts]
    <3> HIDE DEF new
    <3> QED BY <1>2, Elements
  <2> QED BY <2>1
<1>4. Keyed(results) /\ \A r \in results : r.id \in Nat BY DEF IInv, KeysInv, TypeOK, ResultType
<1>5. k \in Nat BY <1>4, LastIdBounds
<1>6. ResultRows(m) = {[id |-> k + i, row |-> m.id, session |-> m.message.session,
                        time |-> m.message.time, tool |-> new[i].tool, name |-> new[i].name,
                        text |-> new[i].text, link |-> 0] : i \in 1 .. Len(new)}
  BY <1>2 DEF ResultRows
<1> HIDE DEF new, k
<1>7. ResultRows(m) \subseteq ResultType BY <1>1, <1>2, <1>3, <1>5, <1>6 DEF ResultType
<1>8. \A r \in ResultRows(m) : r.row = m.id /\ r.session = m.message.session /\ r.link = 0 BY <1>6
<1>9. \A r \in ResultRows(m) : \E i \in 1 .. Len(new) : r.id = LastId(results) + i BY <1>6 DEF k
<1>10. \A q, r \in ResultRows(m) : q.id = r.id => q = r
  <2> SUFFICES ASSUME NEW i \in 1 .. Len(new), NEW j \in 1 .. Len(new), k + i = k + j PROVE i = j
    BY <1>6
  <2> QED BY <1>5
<1>11. Keyed(results \union ResultRows(m)) BY <1>2, <1>4, <1>9, <1>10, KeyedAppend
<1> QED BY <1>7, <1>8, <1>11

\* Store keeps the invariant: the session of the message is to be paired again.
LEMMA StoreInv ==
  ASSUME IInv, NEW m, StoreOf(m)
  PROVE  IInv'
<1>1. /\ m \in todo /\ messages' = messages \union {m} /\ todo' = todo \ {m}
      /\ calls' = calls \union CallRows(m) /\ results' = results \union ResultRows(m)
      /\ affected' = affected \union {m.message.session}
      /\ stage' = stage /\ unpaired' = unpaired /\ unpaired = {}
  BY DEF StoreOf, Write, IInv, StageInv
<1>2. TypeOK'
  <2>1. m \in RowType /\ m.message \in MessageType BY <1>1 DEF IInv, TypeOK, RowType
  <2>2. m.message.session \in Sessions BY <2>1 DEF MessageType
  <2>3. calls' \subseteq CallType /\ results' \subseteq ResultType
    BY <1>1, CallRowsAre, ResultRowsAre DEF IInv, TypeOK
  <2> QED BY <1>1, <2>1, <2>2, <2>3 DEF IInv, TypeOK
<1>3. KeysInv'
  <2>1. messages' \union todo' = messages \union todo BY <1>1
  <2>2. Keyed(messages' \union todo') BY <2>1 DEF IInv, KeysInv
  <2>3. Keyed(calls') BY <1>1, CallRowsAre
  <2>4. Keyed(results') BY <1>1, ResultRowsAre
  <2> QED BY <2>2, <2>3, <2>4 DEF KeysInv
<1>4. RefsInv'
  <2>1. \A d \in CallRows(m) : d.row = m.id /\ d.session = m.message.session
    BY <1>1, CallRowsAre
  <2>2. \A r \in ResultRows(m) : r.row = m.id /\ r.session = m.message.session /\ r.link = 0
    BY <1>1, ResultRowsAre
  <2>3. \A d \in calls' : \E n \in messages' : n.id = d.row /\ n.message.session = d.session
    BY <1>1, <2>1 DEF IInv, RefsInv
  <2>4. \A r \in results' : \E n \in messages' : n.id = r.row /\ n.message.session = r.session
    BY <1>1, <2>2 DEF IInv, RefsInv
  <2>5. \A r \in results' : r.link # 0 => \E d \in calls' : d.id = r.link /\ d.session = r.session
    BY <1>1, <2>2 DEF IInv, RefsInv
  <2> QED BY <2>3, <2>4, <2>5 DEF RefsInv
<1>5. StageInv' BY <1>1 DEF IInv, StageInv
<1>6. PairInv'
  <2>1. ASSUME NEW r \in results', r.session \notin affected' PROVE r.link = LinkOf(r)'
    <3>1. r.session # m.message.session /\ r.session \notin affected BY <1>1, <2>1
    <3>2. /\ {d \in calls' : d.session = r.session} = {d \in calls : d.session = r.session}
          /\ {q \in results' : q.session = r.session} = {q \in results : q.session = r.session}
      BY <1>1, <3>1, CallRowsAre, ResultRowsAre
    <3>3. LinkOf(r)' = LinkOf(r) BY <3>2, LinkOfFrame
    <3>4. r \in results BY <3>2
    <3>5. r.link = LinkOf(r) BY <1>1, <3>1, <3>4 DEF IInv, PairInv
    <3> QED BY <3>3, <3>5
  <2> QED BY <1>1, <2>1 DEF PairInv
<1>7. SearchIsCurrent'
  <2>1. 0 \notin Ids(calls') BY <1>2 DEF TypeOK, CallType, Ids
  <2>2. Write(calls', results') BY <1>1 DEF StoreOf
  <2> QED BY <1>1, <2>1, <2>2, WriteSearch DEF IInv
<1>8. AnonymousCallsAnswerOnce'
  BY <1>1, ResultRowsAre DEF IInv, AnonymousCallsAnswerOnce
<1> QED BY <1>2, <1>3, <1>4, <1>5, <1>6, <1>7, <1>8 DEF IInv

-----------------------------------------------------------------------------
(* The invariant: Unlink.                                                  *)

\* Unlink of one session: this much of it.
UnlinkOf(s) ==
  /\ stage # "idle"
  /\ todo = {} /\ unpaired = {}
  /\ s \in affected
  /\ affected' = affected \ {s}
  /\ unpaired' = {r.id : r \in {q \in results : q.session = s}}
  /\ Write(calls, {IF r.session = s THEN [r EXCEPT !.link = 0] ELSE r : r \in results})
  /\ UNCHANGED <<messages, stage, todo, answered, changes>>

\* Its results are those there were, of the session without their links.
LEMMA UnlinkRows ==
  ASSUME IInv, NEW s, UnlinkOf(s)
  PROVE  /\ calls' = calls
         /\ \A u \in results' : \E r \in results :
              /\ u \in ResultType /\ u.id = r.id /\ u.row = r.row /\ u.session = r.session
              /\ IF r.session = s THEN u = [r EXCEPT !.link = 0] /\ u.link = 0 ELSE u = r
         /\ \A r \in results : r.session # s => r \in results'
<1>1. /\ calls' = calls
      /\ results' = {IF r.session = s THEN [r EXCEPT !.link = 0] ELSE r : r \in results}
  BY DEF UnlinkOf, Write
<1>2. results \subseteq ResultType BY DEF IInv, TypeOK
<1>3. ASSUME NEW u \in results'
      PROVE  \E r \in results :
              /\ u \in ResultType /\ u.id = r.id /\ u.row = r.row /\ u.session = r.session
              /\ IF r.session = s THEN u = [r EXCEPT !.link = 0] /\ u.link = 0 ELSE u = r
  <2>1. PICK r \in results : u = IF r.session = s THEN [r EXCEPT !.link = 0] ELSE r
    BY <1>1
  <2>2. CASE r.session = s
    <3>1. u = [r EXCEPT !.link = 0] BY <2>1, <2>2
    <3>2. /\ u \in ResultType /\ u.link = 0
          /\ u.id = r.id /\ u.row = r.row /\ u.session = r.session
      BY <1>2, <3>1, Updated
    <3> QED BY <2>2, <3>1, <3>2
  <2>3. CASE r.session # s BY <1>2, <2>1, <2>3
  <2> QED BY <2>2, <2>3
<1>4. ASSUME NEW r \in results, r.session # s PROVE r \in results'
  BY <1>1, <1>4
<1> QED BY <1>1, <1>3, <1>4

\* Unlink keeps the invariant: a session is to be paired until its last result is.
LEMMA UnlinkInv ==
  ASSUME IInv, NEW s, UnlinkOf(s)
  PROVE  IInv'
<1>1. /\ todo = {} /\ unpaired = {} /\ s \in affected /\ affected' = affected \ {s}
      /\ unpaired' = {r.id : r \in {q \in results : q.session = s}}
      /\ messages' = messages /\ stage' = stage /\ todo' = todo /\ stage # "idle"
      /\ calls' = calls
  BY DEF UnlinkOf, Write
<1>2. \A u \in results' : \E r \in results :
              /\ u \in ResultType /\ u.id = r.id /\ u.row = r.row /\ u.session = r.session
              /\ IF r.session = s THEN u = [r EXCEPT !.link = 0] /\ u.link = 0 ELSE u = r
  BY UnlinkRows
<1>3. TypeOK'
  <2>1. results' \subseteq ResultType BY <1>2
  <2>2. unpaired' \subseteq Nat BY <1>1 DEF IInv, TypeOK, ResultType
  <2>3. /\ messages' \subseteq RowType /\ calls' \subseteq CallType
        /\ stage' \in {"idle", "replace", "upgrade"}
        /\ todo' \subseteq RowType /\ affected' \subseteq Sessions
    BY <1>1 DEF IInv, TypeOK
  <2> QED BY <2>1, <2>2, <2>3 DEF TypeOK
<1>4. Keyed(results')
  <2>1. PICK n \in Nat : \A r \in results : r.id <= n BY DEF IInv, KeysInv, Keyed
  <2>2. \A u \in results' : u.id <= n BY <1>2, <2>1
  <2>3. ASSUME NEW u \in results', NEW v \in results', u.id = v.id PROVE u = v
    <3>1. PICK r \in results : /\ u.id = r.id
                               /\ IF r.session = s THEN u = [r EXCEPT !.link = 0] ELSE u = r
      BY <1>2
    <3>2. PICK q \in results : /\ v.id = q.id
                               /\ IF q.session = s THEN v = [q EXCEPT !.link = 0] ELSE v = q
      BY <1>2
    <3>3. r = q BY <2>3, <3>1, <3>2 DEF IInv, KeysInv, Keyed
    <3>4. CASE r.session = s BY <3>1, <3>2, <3>3, <3>4
    <3>5. CASE r.session # s BY <3>1, <3>2, <3>3, <3>5
    <3> QED BY <3>4, <3>5
  <2> QED BY <2>1, <2>2, <2>3 DEF Keyed
<1>5. KeysInv' BY <1>1, <1>4 DEF IInv, KeysInv
<1>6. RefsInv' BY <1>1, <1>2 DEF IInv, RefsInv
<1>7. StageInv' BY <1>1 DEF StageInv
<1>8. PairInv'
  <2>1. \A u \in results' : u.session = s => u.link = 0 /\ u.id \in unpaired'
    BY <1>1, <1>2
  <2>2. \A u \in results' : u.id \in unpaired' => u.session = s
    <3> SUFFICES ASSUME NEW u \in results', NEW q \in results, q.session = s, u.id = q.id
                 PROVE  u.session = s
      BY <1>1
    <3>1. PICK r \in results : u.id = r.id /\ u.session = r.session BY <1>2
    <3> QED BY <3>1 DEF IInv, KeysInv, Keyed
  <2>3. ASSUME NEW u \in results', u.session \notin affected', u.id \notin unpaired'
        PROVE  u.link = LinkOf(u)'
    <3>1. u.session # s BY <2>1, <2>3
    <3>2. u.session \notin affected BY <1>1, <2>3, <3>1
    <3>3. \A q : q \in results' /\ q.session = u.session <=> q \in results /\ q.session = u.session
      BY <1>2, <3>1, UnlinkRows
    <3>4. {q \in results' : q.session = u.session} = {q \in results : q.session = u.session}
      BY <3>3
    <3>5. LinkOf(u)' = LinkOf(u) BY <1>1, <3>4, LinkOfFrame
    <3>6. u.link = LinkOf(u) BY <1>1, <3>2, <3>3 DEF IInv, PairInv
    <3> QED BY <3>5, <3>6
  <2>4. ASSUME NEW u \in results', u.id \in unpaired'
        PROVE  /\ u.link = 0
               /\ u.session \notin affected'
               /\ \A q \in results' : q.id \in unpaired' => q.session = u.session
               /\ \A q \in results' : q.session = u.session /\ q.id \notin unpaired' => Before(q, u)
    BY <1>1, <2>1, <2>2, <2>4
  <2> QED BY <2>3, <2>4 DEF PairInv
<1>9. SearchIsCurrent'
  <2>1. PICK rs : Write(calls, rs) BY DEF UnlinkOf
  <2>2. 0 \notin Ids(calls) BY DEF IInv, TypeOK, CallType, Ids
  <2> QED BY <1>1, <2>1, <2>2, WriteSearch DEF IInv
<1>10. AnonymousCallsAnswerOnce'
  <2>1. \A u \in results' : u.link # 0 => u \in results BY <1>2
  <2> QED BY <2>1 DEF IInv, AnonymousCallsAnswerOnce
<1> QED BY <1>3, <1>5, <1>6, <1>7, <1>8, <1>9, <1>10 DEF IInv

-----------------------------------------------------------------------------
(* The invariant: Pair.                                                    *)

\* Pair of one result: this much of it.
PairOf(r) ==
  /\ r \in results
  /\ r.id \in unpaired
  /\ \A q \in results : q.id \in unpaired /\ q # r => Before(r, q)
  /\ unpaired' = unpaired \ {r.id}
  /\ Write(calls, (results \ {r}) \union {[r EXCEPT !.link = LinkOf(r)]})
  /\ UNCHANGED <<messages, stage, todo, affected, answered, changes>>

\* A result is linked by a number.
LEMMA LinkOfType ==
  ASSUME IInv, NEW r
  PROVE  LinkOf(r) \in Nat
  BY LinkOfSession DEF IInv, TypeOK, CallType

\* The pairing of a result does not change what earlier ones, and it, are to be
\* linked to: only what later results find taken.
LEMMA PairFrame ==
  ASSUME IInv, NEW r, PairOf(r), NEW q \in ResultType, q.id = r.id \/ Before(q, r),
         q.id = r.id => q.time = r.time /\ q.row = r.row
  PROVE  LinkOf(q)' = LinkOf(q)
<1>1. PICK u : u = [r EXCEPT !.link = LinkOf(r)] OBVIOUS
<1>2. r \in results /\ r \in ResultType BY DEF PairOf, IInv, TypeOK
<1>3. results' = (results \ {r}) \union {u} /\ calls' = calls BY <1>1 DEF PairOf, Write
<1>4. u \in ResultType /\ u.id = r.id /\ u.row = r.row /\ u.time = r.time
  BY <1>1, <1>2, LinkOfType, Updated
<1>5. ~Before(r, q) /\ ~Before(u, q)
  BY <1>2, <1>4 DEF Before, ResultType
<1>6. {d \in results' : d.session = q.session /\ d.tool = NoTool /\ Before(d, q)} =
      {d \in results : d.session = q.session /\ d.tool = NoTool /\ Before(d, q)}
  BY <1>3, <1>5
<1>7. Used(q)' = Used(q) BY <1>6 DEF Used
<1>8. Prior(q)' = Prior(q) BY <1>3 DEF Prior
<1> QED BY <1>7, <1>8, LinkOfSame

\* A call without id that r takes was not taken by another result.
LEMMA PairTakesFree ==
  ASSUME IInv, NEW r, PairOf(r), NEW q \in results, q # r,
         q.tool = NoTool, r.tool = NoTool, q.link = LinkOf(r), LinkOf(r) # 0
  PROVE  FALSE
<1>1. r \in results /\ r.id \in unpaired BY DEF PairOf
<1>2. PICK c \in calls : c.id = LinkOf(r) /\ c.session = r.session /\ c.id \notin Used(r)
  BY LinkOfSession
<1>3. PICK d \in calls : d.id = q.link /\ d.session = q.session BY DEF IInv, RefsInv
<1>4. d = c BY <1>2, <1>3 DEF IInv, KeysInv, Keyed
<1>5. q.id \notin unpaired BY DEF IInv, PairInv
<1>6. Before(q, r) BY <1>1, <1>2, <1>3, <1>4, <1>5 DEF IInv, PairInv
<1>7. q.link \in Used(r) BY <1>2, <1>3, <1>4, <1>6 DEF Used
<1> QED BY <1>2, <1>7

\* Pair keeps the invariant: the results of a session are paired in their order.
LEMMA PairingInv ==
  ASSUME IInv, NEW r, PairOf(r)
  PROVE  IInv'
<1>1. PICK u : u = [r EXCEPT !.link = LinkOf(r)] OBVIOUS
<1>2. /\ r \in results /\ r.id \in unpaired /\ r \in ResultType
      /\ \A q \in results : q.id \in unpaired /\ q # r => Before(r, q)
      /\ unpaired' = unpaired \ {r.id} /\ calls' = calls
      /\ results' = (results \ {r}) \union {u}
      /\ messages' = messages /\ stage' = stage /\ todo' = todo /\ affected' = affected
  BY <1>1 DEF PairOf, Write, IInv, TypeOK
<1>3. /\ u \in ResultType /\ u.link = LinkOf(r) /\ u.id = r.id /\ u.row = r.row
      /\ u.session = r.session /\ u.time = r.time /\ u.tool = r.tool /\ u.name = r.name
  BY <1>1, <1>2, LinkOfType, Updated
<1>4. stage # "idle" /\ todo = {} BY <1>2 DEF IInv, StageInv
<1>5. \A p, q \in results : p.id = q.id => p = q BY DEF IInv, KeysInv, Keyed
<1>6. TypeOK' BY <1>2, <1>3 DEF IInv, TypeOK
<1>7. KeysInv'
  <2>1. PICK n \in Nat : \A q \in results : q.id <= n BY DEF IInv, KeysInv, Keyed
  <2>2. \A q \in results' : q.id <= n BY <1>2, <1>3, <2>1
  <2>3. \A p, q \in results' : p.id = q.id => p = q BY <1>2, <1>3, <1>5
  <2>4. Keyed(results') BY <2>1, <2>2, <2>3 DEF Keyed
  <2> QED BY <1>2, <2>4 DEF IInv, KeysInv
<1>8. RefsInv'
  <2>1. \A q \in results' : \E m \in messages' : m.id = q.row /\ m.message.session = q.session
    BY <1>2, <1>3 DEF IInv, RefsInv
  <2>2. u.link # 0 => \E c \in calls' : c.id = u.link /\ c.session = u.session
    BY <1>2, <1>3, LinkOfSession
  <2>3. \A q \in results' : q.link # 0 => \E c \in calls' : c.id = q.link /\ c.session = q.session
    BY <1>2, <2>2 DEF IInv, RefsInv
  <2> QED BY <1>2, <2>1, <2>3 DEF IInv, RefsInv
<1>9. StageInv' BY <1>2, <1>4 DEF StageInv
<1>10. PairInv'
  <2>1. ASSUME NEW q \in results', q.session \notin affected', q.id \notin unpaired'
        PROVE  q.link = LinkOf(q)'
    <3>1. CASE q = u
      <4>1. LinkOf(u)' = LinkOf(u) BY <1>3, PairFrame
      <4>2. LinkOf(u) = LinkOf(r) BY <1>3, LinkOfUpdated
      <4> QED BY <1>3, <3>1, <4>1, <4>2
    <3>2. CASE q # u /\ q.session = r.session
      <4>1. q \in results /\ q # r /\ q.id # r.id BY <1>2, <1>5, <3>2
      <4>2. q.id \notin unpaired BY <1>2, <2>1, <4>1
      <4>3. Before(q, r) BY <1>2, <3>2, <4>1, <4>2 DEF IInv, PairInv
      <4>4. q \in ResultType BY <4>1 DEF IInv, TypeOK
      <4>5. LinkOf(q)' = LinkOf(q) BY <4>1, <4>3, <4>4, PairFrame
      <4>6. q.link = LinkOf(q) BY <1>2, <2>1, <4>1, <4>2 DEF IInv, PairInv
      <4> QED BY <4>5, <4>6
    <3>3. CASE q # u /\ q.session # r.session
      <4>1. q \in results /\ q # r /\ q.id # r.id BY <1>2, <1>5, <3>3
      <4>2. {d \in results' : d.session = q.session} = {d \in results : d.session = q.session}
        BY <1>2, <1>3, <3>3
      <4>3. LinkOf(q)' = LinkOf(q) BY <1>2, <4>2, LinkOfFrame
      <4>4. q.link = LinkOf(q) BY <1>2, <2>1, <4>1 DEF IInv, PairInv
      <4> QED BY <4>3, <4>4
    <3> QED BY <3>1, <3>2, <3>3
  <2>2. ASSUME NEW q \in results', q.id \in unpaired'
        PROVE  /\ q.link = 0
               /\ q.session \notin affected'
               /\ \A p \in results' : p.id \in unpaired' => p.session = q.session
               /\ \A p \in results' : p.session = q.session /\ p.id \notin unpaired' => Before(p, q)
    <3>1. q \in results /\ q # r /\ q.id \in unpaired BY <1>2, <1>3, <2>2
    <3>2. q.link = 0 /\ q.session \notin affected' BY <1>2, <3>1 DEF IInv, PairInv
    <3>3. \A p \in results' : p.id \in unpaired' => p.session = q.session
      BY <1>2, <1>3, <3>1 DEF IInv, PairInv
    <3>4. Before(u, q)
      <4>1. Before(r, q) BY <1>2, <3>1
      <4> QED BY <1>3, <4>1 DEF Before
    <3>5. ASSUME NEW p \in results', p.session = q.session, p.id \notin unpaired' PROVE Before(p, q)
      <4>1. CASE p = u BY <3>4, <4>1
      <4>2. CASE p # u
        <5>1. p \in results /\ p.id # r.id BY <1>2, <1>5, <4>2
        <5>2. p.id \notin unpaired BY <1>2, <3>5, <5>1
        <5> QED BY <3>1, <3>5, <5>1, <5>2 DEF IInv, PairInv
      <4> QED BY <4>1, <4>2
    <3> QED BY <3>2, <3>3, <3>5
  <2> QED BY <2>1, <2>2 DEF PairInv
<1>11. SearchIsCurrent'
  <2>1. PICK rs : Write(calls, rs) BY DEF PairOf
  <2>2. 0 \notin Ids(calls) BY DEF IInv, TypeOK, CallType, Ids
  <2> QED BY <1>2, <2>1, <2>2, WriteSearch DEF IInv
<1>12. AnonymousCallsAnswerOnce'
  <2> SUFFICES ASSUME NEW p \in results', NEW q \in results',
                      p.tool = NoTool, q.tool = NoTool, p.link = q.link, p.link # 0
               PROVE  p = q
    BY DEF AnonymousCallsAnswerOnce
  <2>1. CASE p = u /\ q # u BY <1>2, <1>3, <2>1, PairTakesFree
  <2>2. CASE q = u /\ p # u BY <1>2, <1>3, <2>2, PairTakesFree
  <2>3. CASE p # u /\ q # u BY <1>2, <2>3 DEF IInv, AnonymousCallsAnswerOnce
  <2> QED BY <2>1, <2>2, <2>3
<1> QED BY <1>6, <1>7, <1>8, <1>9, <1>10, <1>11, <1>12 DEF IInv

-----------------------------------------------------------------------------
(* The invariant: the migrations.                                          *)

\* Upgrade, which begins with empty tables, keeps the invariant.
LEMMA UpgradeInv ==
  ASSUME IInv, Upgrade
  PROVE  IInv'
<1>1. /\ stage = "idle" /\ stage' = "upgrade" /\ calls' = {} /\ results' = {}
      /\ todo = {} /\ unpaired = {} /\ affected = {}
      /\ todo' = messages /\ messages' = messages
      /\ unpaired' = unpaired /\ affected' = affected
  BY DEF Upgrade, IInv, StageInv
<1>2. TypeOK' BY <1>1 DEF IInv, TypeOK
<1>3. KeysInv'
  <2>1. messages' \union todo' = messages \union todo BY <1>1
  <2>2. Keyed(messages' \union todo') BY <2>1 DEF IInv, KeysInv
  <2>3. Keyed(calls') /\ Keyed(results') BY <1>1, KeyedEmpty
  <2> QED BY <2>2, <2>3 DEF KeysInv
<1>4. RefsInv' /\ StageInv' /\ PairInv' /\ SearchIsCurrent' /\ AnonymousCallsAnswerOnce'
  BY <1>1 DEF RefsInv, StageInv, PairInv, SearchIsCurrent, AnonymousCallsAnswerOnce
<1> QED BY <1>2, <1>3, <1>4 DEF IInv

\* Commit, which ends the upgrade with the population of the search content, too.
LEMMA CommitInv ==
  ASSUME IInv, Commit
  PROVE  IInv'
<1>1. /\ stage # "idle" /\ stage' = "idle" /\ todo = {} /\ unpaired = {} /\ affected = {}
      /\ search' = IF stage = "upgrade" THEN Populated(calls, results) ELSE search
      /\ UNCHANGED <<messages, calls, results, todo, affected, unpaired>>
  BY DEF Commit
<1>2. SearchIsCurrent' BY <1>1 DEF IInv, SearchIsCurrent
<1>3. PairInv'
  <2>1. \A r : LinkOf(r)' = LinkOf(r)
    BY <1>1 DEF LinkOf, Answerable, Prior, Used
  <2> QED BY <1>1, <2>1 DEF IInv, PairInv
<1>4. TypeOK' /\ KeysInv' /\ RefsInv' /\ StageInv' /\ AnonymousCallsAnswerOnce'
  BY <1>1 DEF IInv, TypeOK, KeysInv, RefsInv, StageInv, AnonymousCallsAnswerOnce
<1> QED BY <1>2, <1>3, <1>4 DEF IInv

\* A step that changes no variable keeps it.
LEMMA StutterInv ==
  ASSUME IInv, UNCHANGED vars
  PROVE  IInv'
<1>1. UNCHANGED <<messages, calls, results, search, stage, todo, affected, unpaired>>
  BY DEF vars, tables
<1>2. SearchIsCurrent' BY <1>1 DEF IInv, SearchIsCurrent
<1>3. PairInv'
  <2>1. \A r : LinkOf(r)' = LinkOf(r)
    BY <1>1 DEF LinkOf, Answerable, Prior, Used
  <2> QED BY <1>1, <2>1 DEF IInv, PairInv
<1>4. TypeOK' /\ KeysInv' /\ RefsInv' /\ StageInv' /\ AnonymousCallsAnswerOnce'
  BY <1>1 DEF IInv, TypeOK, KeysInv, RefsInv, StageInv, AnonymousCallsAnswerOnce
<1> QED BY <1>2, <1>3, <1>4 DEF IInv

-----------------------------------------------------------------------------
(* Pairing as a function of the messages: calls and results by their       *)
(* places, whatever ids their rows have.  A place is the row of a message  *)
(* and a position in it.                                                   *)

CallPlaces(ms) == {p \in ms \X Nat : p[2] \in DOMAIN p[1].message.calls}
ResultPlaces(ms) == {p \in ms \X Nat : p[2] \in DOMAIN p[1].message.results}

CallIn(p) == p[1].message.calls[p[2]]
ResultIn(p) == p[1].message.results[p[2]]

\* The order of Before.
Sooner(a, b) ==
  \/ a[1].message.time < b[1].message.time
  \/ a[1].message.time = b[1].message.time /\ a[1].id < b[1].id
  \/ a[1].message.time = b[1].message.time /\ a[1].id = b[1].id /\ a[2] < b[2]

\* The calls a result may answer, and those of them that are taken when the
\* results answer what the pairs in A say.
PriorPlaces(ms, r) ==
  {c \in CallPlaces(ms) :
     /\ c[1].message.session = r[1].message.session
     /\ \/ c[1].message.time < r[1].message.time
        \/ c[1].message.time = r[1].message.time /\ c[1].id <= r[1].id
     /\ CallIn(c).tool = ResultIn(r).tool}
SoonerResults(ms, r) ==
  {q \in ResultPlaces(ms) :
     q[1].message.session = r[1].message.session /\ ResultIn(q).tool = NoTool /\ Sooner(q, r)}
Takes(ms, A, r, c) == \E q \in SoonerResults(ms, r) : <<c, q>> \in A
LaterPriors(ms, r, c) == {d \in PriorPlaces(ms, r) : Sooner(c, d)}

AnswerablePlaces(ms, A, r) ==
  IF ResultIn(r).tool # NoTool THEN PriorPlaces(ms, r)
  ELSE {c \in PriorPlaces(ms, r) :
          /\ Cardinality(LaterPriors(ms, r, c)) < Window
          /\ ~Takes(ms, A, r, c)
          /\ SameName(CallIn(c), ResultIn(r))}

\* c is the latest call that r may answer.
Answered(ms, A, r, c) ==
  /\ c \in AnswerablePlaces(ms, A, r)
  /\ \A d \in AnswerablePlaces(ms, A, r) \ {c} : Sooner(d, c)

\* A pairs the results of the messages as rebuildToolLinks does.
Matching(ms, A) ==
  /\ A \subseteq CallPlaces(ms) \X ResultPlaces(ms)
  /\ \A c \in CallPlaces(ms), r \in ResultPlaces(ms) : <<c, r>> \in A <=> Answered(ms, A, r, c)

\* What it answers, as Answers.
Said(A) ==
  {<<p[1][1].id, CallIn(p[1]).tool, CallIn(p[1]).name, p[2][1].id, ResultIn(p[2]).text>> : p \in A}

\* Some result place of a set comes before all others.
LEMMA FirstPlace ==
  ASSUME NEW ms \in SUBSET RowType, NEW S \in SUBSET (ms \X Nat), S # {}
  PROVE  \E p \in S : \A q \in S : ~Sooner(q, p)
<1>1. \A p \in S : p[1].message.time \in Nat /\ p[1].id \in Nat /\ p[2] \in Nat
  BY DEF RowType, MessageType
<1>2. PICK t \in {p[1].message.time : p \in S} : \A u \in {p[1].message.time : p \in S} : t <= u
  <2> DEFINE T == {p[1].message.time : p \in S}
  <2>1. T \in SUBSET Nat /\ T # {} BY <1>1
  <2> HIDE DEF T
  <2>2. \E x \in T : \A y \in T : x <= y BY <2>1, Least
  <2> QED BY <2>2 DEF T
<1> DEFINE S1 == {p \in S : p[1].message.time = t}
<1>3. PICK i \in {p[1].id : p \in S1} : \A u \in {p[1].id : p \in S1} : i <= u
  <2> DEFINE T == {p[1].id : p \in S1}
  <2>1. T \in SUBSET Nat /\ T # {} BY <1>1, <1>2
  <2> HIDE DEF T
  <2>2. \E x \in T : \A y \in T : x <= y BY <2>1, Least
  <2> QED BY <2>2 DEF T
<1> DEFINE S2 == {p \in S1 : p[1].id = i}
<1>4. PICK n \in {p[2] : p \in S2} : \A u \in {p[2] : p \in S2} : n <= u
  <2> DEFINE T == {p[2] : p \in S2}
  <2>1. T \in SUBSET Nat /\ T # {} BY <1>1, <1>3
  <2> HIDE DEF T
  <2>2. \E x \in T : \A y \in T : x <= y BY <2>1, Least
  <2> QED BY <2>2 DEF T
<1>5. PICK p \in S2 : p[2] = n BY <1>4
<1>6. p \in S /\ p[1].message.time = t /\ p[1].id = i /\ p[2] = n BY <1>5
<1>7. ASSUME NEW q \in S, Sooner(q, p) PROVE FALSE
  <2>0. /\ q[1].message.time \in Nat /\ q[1].id \in Nat /\ q[2] \in Nat
        /\ t \in Nat /\ i \in Nat /\ n \in Nat
    BY <1>1, <1>6
  <2>1. t <= q[1].message.time BY <1>2
  <2>2. q[1].message.time = t BY <1>6, <1>7, <2>0, <2>1 DEF Sooner
  <2>3. i <= q[1].id BY <1>3, <2>2
  <2>4. q[1].id = i /\ q[2] < n BY <1>6, <1>7, <2>0, <2>2, <2>3 DEF Sooner
  <2>5. n <= q[2] BY <1>4, <2>2, <2>4
  <2> QED BY <2>0, <2>4, <2>5
<1> QED BY <1>6, <1>7

\* The messages have one pairing only: where two differ first, they agree on all
\* that was taken before.
LEMMA MatchingUnique ==
  ASSUME NEW ms \in SUBSET RowType, NEW A, NEW B, Matching(ms, A), Matching(ms, B)
  PROVE  A = B
<1> DEFINE Bad == {r \in ResultPlaces(ms) : \E c \in CallPlaces(ms) : ~(<<c, r>> \in A <=> <<c, r>> \in B)}
<1>1. Bad = {}
  <2> SUFFICES ASSUME Bad # {} PROVE FALSE OBVIOUS
  <2>1. Bad \in SUBSET (ms \X Nat) BY DEF ResultPlaces
  <2>2. PICK r \in Bad : \A q \in Bad : ~Sooner(q, r)
    <3> HIDE DEF Bad
    <3> QED BY <2>1, FirstPlace
  <2>3. r \in ResultPlaces(ms) OBVIOUS
  <2>4. \A q \in SoonerResults(ms, r), c \in CallPlaces(ms) : <<c, q>> \in A <=> <<c, q>> \in B
    BY <2>2 DEF SoonerResults
  <2>5. \A c \in CallPlaces(ms) : Takes(ms, A, r, c) <=> Takes(ms, B, r, c)
    BY <2>4 DEF Takes
  <2>6. \A c \in PriorPlaces(ms, r) : c \in CallPlaces(ms) BY DEF PriorPlaces
  <2>7. AnswerablePlaces(ms, A, r) = AnswerablePlaces(ms, B, r)
    BY <2>5, <2>6 DEF AnswerablePlaces
  <2>8. \A c \in CallPlaces(ms) : <<c, r>> \in A <=> <<c, r>> \in B
    BY <2>3, <2>7 DEF Matching, Answered
  <2> QED BY <2>8
<1>2. \A x \in A \union B : x \in A <=> x \in B
  <2> SUFFICES ASSUME NEW x \in A \union B PROVE x \in A <=> x \in B OBVIOUS
  <2>1. x \in CallPlaces(ms) \X ResultPlaces(ms) BY DEF Matching
  <2>2. PICK c \in CallPlaces(ms), r \in ResultPlaces(ms) : x = <<c, r>> BY <2>1
  <2>3. r \notin Bad BY <1>1
  <2> QED BY <2>2, <2>3
<1> QED BY <1>2

-----------------------------------------------------------------------------
(* Rows and places.                                                        *)

\* The rows of a message have ids one after the other from k on, in the order of
\* their positions.
CallAt(m, k, i) ==
  [id |-> k + i, row |-> m.id, session |-> m.message.session, time |-> m.message.time,
   tool |-> m.message.calls[i].tool, name |-> m.message.calls[i].name]
ResultAt(m, k, i, link) ==
  [id |-> k + i, row |-> m.id, session |-> m.message.session, time |-> m.message.time,
   tool |-> m.message.results[i].tool, name |-> m.message.results[i].name,
   text |-> m.message.results[i].text, link |-> link]

CallsFrom(m, k) ==
  /\ \A c \in calls : c.row = m.id => \E i \in DOMAIN m.message.calls : c = CallAt(m, k, i)
  /\ \A i \in DOMAIN m.message.calls : CallAt(m, k, i) \in calls
ResultsFrom(m, k) ==
  /\ \A r \in results : r.row = m.id => \E i \in DOMAIN m.message.results : r = ResultAt(m, k, i, r.link)
  /\ \A i \in DOMAIN m.message.results : \E r \in results : r = ResultAt(m, k, i, r.link)

\* Every message that is stored has its calls and results, one that is not has none.
PlacesInv ==
  /\ \A m \in messages \ todo : (\E k \in Nat : CallsFrom(m, k)) /\ (\E k \in Nat : ResultsFrom(m, k))
  /\ \A m \in todo : /\ \A c \in calls : c.row # m.id
                     /\ \A r \in results : r.row # m.id
  /\ stage = "upgrade" => todo \subseteq messages

\* F has the call row of each place, G the result row, in the order of the places.
CallMap(F) ==
  /\ \A p \in CallPlaces(messages) :
       /\ F[p] \in calls
       /\ F[p].row = p[1].id /\ F[p].session = p[1].message.session
       /\ F[p].time = p[1].message.time
       /\ F[p].tool = CallIn(p).tool /\ F[p].name = CallIn(p).name
  /\ \A p, q \in CallPlaces(messages) : Before(F[p], F[q]) <=> Sooner(p, q)
  /\ \A p, q \in CallPlaces(messages) : F[p].id = F[q].id => p = q
  /\ \A c \in calls : \E p \in CallPlaces(messages) : c = F[p]
ResultMap(G) ==
  /\ \A p \in ResultPlaces(messages) :
       /\ G[p] \in results
       /\ G[p].row = p[1].id /\ G[p].session = p[1].message.session
       /\ G[p].time = p[1].message.time
       /\ G[p].tool = ResultIn(p).tool /\ G[p].name = ResultIn(p).name
       /\ G[p].text = ResultIn(p).text
  /\ \A p, q \in ResultPlaces(messages) : Before(G[p], G[q]) <=> Sooner(p, q)
  /\ \A r \in results : \E p \in ResultPlaces(messages) : r = G[p]

\* A call row, field by field.
LEMMA CallAtIs ==
  ASSUME NEW m, NEW k, NEW i
  PROVE  /\ CallAt(m, k, i).id = k + i /\ CallAt(m, k, i).row = m.id
         /\ CallAt(m, k, i).session = m.message.session /\ CallAt(m, k, i).time = m.message.time
         /\ CallAt(m, k, i).tool = m.message.calls[i].tool /\ CallAt(m, k, i).name = m.message.calls[i].name
  BY DEF CallAt

\* A result row, field by field.
LEMMA ResultAtIs ==
  ASSUME NEW m, NEW k, NEW i, NEW l
  PROVE  /\ ResultAt(m, k, i, l).id = k + i /\ ResultAt(m, k, i, l).row = m.id
         /\ ResultAt(m, k, i, l).session = m.message.session /\ ResultAt(m, k, i, l).time = m.message.time
         /\ ResultAt(m, k, i, l).tool = m.message.results[i].tool
         /\ ResultAt(m, k, i, l).name = m.message.results[i].name
         /\ ResultAt(m, k, i, l).text = m.message.results[i].text /\ ResultAt(m, k, i, l).link = l
  BY DEF ResultAt

\* Rows at two places compare as the places, if the rows of a message have one base.
LEMMA BeforeAtPlaces ==
  ASSUME NEW p, NEW q, NEW a, NEW b, NEW k \in Nat, NEW l \in Nat,
         p[2] \in Nat, q[2] \in Nat,
         a.time = p[1].message.time, a.row = p[1].id, a.id = k + p[2],
         b.time = q[1].message.time, b.row = q[1].id, b.id = l + q[2],
         p[1].id = q[1].id => k = l
  PROVE  Before(a, b) <=> Sooner(p, q)
<1>1. CASE p[1].id = q[1].id
  <2>1. a.id < b.id <=> p[2] < q[2] BY <1>1
  <2> QED BY <2>1, <1>1 DEF Before, Sooner
<1>2. CASE p[1].id # q[1].id BY <1>2 DEF Before, Sooner
<1> QED BY <1>1, <1>2

\* Once all messages are stored, the calls are those of the places.
LEMMA CallMapExists ==
  ASSUME IInv, PlacesInv, todo = {}
  PROVE  \E F : CallMap(F)
<1> DEFINE base == [m \in messages |-> CHOOSE k \in Nat : CallsFrom(m, k)]
<1>1. \A m \in messages : base[m] \in Nat /\ CallsFrom(m, base[m])
  BY DEF PlacesInv
<1> HIDE DEF base
<1> DEFINE F == [p \in CallPlaces(messages) |-> CallAt(p[1], base[p[1]], p[2])]
<1>2. \A m, n \in messages : m.id = n.id => m = n BY DEF IInv, KeysInv, Keyed
<1>3. \A p \in CallPlaces(messages) :
        /\ p[1] \in messages /\ p[2] \in Nat /\ p[2] \in DOMAIN p[1].message.calls
        /\ base[p[1]] \in Nat
  BY <1>1 DEF CallPlaces
<1>4. ASSUME NEW p \in CallPlaces(messages)
      PROVE  /\ F[p] \in calls /\ F[p].id = base[p[1]] + p[2]
             /\ F[p].row = p[1].id /\ F[p].session = p[1].message.session
             /\ F[p].time = p[1].message.time
             /\ F[p].tool = CallIn(p).tool /\ F[p].name = CallIn(p).name
  <2>1. F[p] = CallAt(p[1], base[p[1]], p[2]) OBVIOUS
  <2>2. F[p] \in calls BY <1>1, <1>3, <2>1 DEF CallsFrom
  <2> QED BY <2>1, <2>2, CallAtIs DEF CallIn
<1>5. ASSUME NEW c \in calls PROVE \E p \in CallPlaces(messages) : c = F[p]
  <2>1. PICK m \in messages : m.id = c.row BY DEF IInv, RefsInv
  <2>2. PICK i \in DOMAIN m.message.calls : c = CallAt(m, base[m], i)
    BY <1>1, <2>1 DEF CallsFrom
  <2>3. m.message.calls \in Seq([tool : Tools, name : Names])
    BY DEF IInv, TypeOK, RowType, MessageType
  <2>4. i \in Nat BY <2>2, <2>3
  <2>5. <<m, i>> \in CallPlaces(messages) BY <2>2, <2>4 DEF CallPlaces
  <2> QED BY <2>2, <2>5
<1> HIDE DEF F
<1>6. ASSUME NEW p \in CallPlaces(messages), NEW q \in CallPlaces(messages)
      PROVE  /\ Before(F[p], F[q]) <=> Sooner(p, q)
             /\ F[p].id = F[q].id => p = q
  <2>1. p[1].id = q[1].id => p[1] = q[1] BY <1>2, <1>3
  <2>2. /\ p[2] \in Nat /\ q[2] \in Nat /\ base[p[1]] \in Nat /\ base[q[1]] \in Nat
        /\ p[1].id = q[1].id => base[p[1]] = base[q[1]]
    BY <1>3, <2>1
  <2>3. /\ F[p].time = p[1].message.time /\ F[p].row = p[1].id /\ F[p].id = base[p[1]] + p[2]
        /\ F[q].time = q[1].message.time /\ F[q].row = q[1].id /\ F[q].id = base[q[1]] + q[2]
    BY <1>4
  <2>4. Before(F[p], F[q]) <=> Sooner(p, q)
    BY <2>2, <2>3, BeforeAtPlaces
  <2>5. ASSUME F[p].id = F[q].id PROVE p = q
    <3>1. F[p] = F[q] BY <1>4, <2>5 DEF IInv, KeysInv, Keyed
    <3>2. p[1] = q[1] BY <1>4, <2>1, <3>1
    <3>3. p[2] = q[2]
      <4>1. base[p[1]] + p[2] = base[p[1]] + q[2] BY <1>4, <2>5, <3>2
      <4> QED BY <1>3, <4>1
    <3>4. p = <<p[1], p[2]>> /\ q = <<q[1], q[2]>> BY DEF CallPlaces
    <3> QED BY <3>2, <3>3, <3>4
  <2> QED BY <2>4, <2>5
<1>7. CallMap(F) BY <1>4, <1>5, <1>6 DEF CallMap
<1> QED BY <1>7

\* So are the results.
LEMMA ResultMapExists ==
  ASSUME IInv, PlacesInv, todo = {}
  PROVE  \E G : ResultMap(G)
<1> DEFINE base == [m \in messages |-> CHOOSE k \in Nat : ResultsFrom(m, k)]
<1>1. \A m \in messages : base[m] \in Nat /\ ResultsFrom(m, base[m])
  BY DEF PlacesInv
<1> HIDE DEF base
<1> DEFINE At(p, r) == r = ResultAt(p[1], base[p[1]], p[2], r.link)
           G == [p \in ResultPlaces(messages) |-> CHOOSE r \in results : At(p, r)]
<1>2. \A m, n \in messages : m.id = n.id => m = n BY DEF IInv, KeysInv, Keyed
<1>3. \A p \in ResultPlaces(messages) :
        /\ p[1] \in messages /\ p[2] \in Nat /\ p[2] \in DOMAIN p[1].message.results
        /\ base[p[1]] \in Nat
  BY <1>1 DEF ResultPlaces
<1>4. ASSUME NEW p \in ResultPlaces(messages)
      PROVE  /\ G[p] \in results /\ At(p, G[p]) /\ G[p].id = base[p[1]] + p[2]
             /\ G[p].row = p[1].id /\ G[p].session = p[1].message.session
             /\ G[p].time = p[1].message.time
             /\ G[p].tool = ResultIn(p).tool /\ G[p].name = ResultIn(p).name
             /\ G[p].text = ResultIn(p).text
  <2>1. \E r \in results : At(p, r) BY <1>1, <1>3 DEF ResultsFrom
  <2>2. G[p] = CHOOSE r \in results : At(p, r) OBVIOUS
  <2>3. G[p] \in results /\ At(p, G[p])
    <3> HIDE DEF At, G
    <3> QED BY <2>1, <2>2
  <2>4. PICK l : G[p] = ResultAt(p[1], base[p[1]], p[2], l) BY <2>3
  <2> HIDE DEF G, At
  <2> QED BY <2>3, <2>4, ResultAtIs DEF ResultIn
<1>5. ASSUME NEW r \in results PROVE \E p \in ResultPlaces(messages) : r = G[p]
  <2>1. PICK m \in messages : m.id = r.row BY DEF IInv, RefsInv
  <2>2. PICK i \in DOMAIN m.message.results : r = ResultAt(m, base[m], i, r.link)
    BY <1>1, <2>1 DEF ResultsFrom
  <2>3. m.message.results \in Seq([tool : Tools, name : Names, text : Texts])
    BY DEF IInv, TypeOK, RowType, MessageType
  <2>4. i \in Nat BY <2>2, <2>3
  <2>5. PICK p : p = <<m, i>> OBVIOUS
  <2>6. p \in ResultPlaces(messages) /\ p[1] = m /\ p[2] = i BY <2>2, <2>4, <2>5 DEF ResultPlaces
  <2>7. r.id = base[m] + i BY <2>2, ResultAtIs
  <2>8. G[p] \in results /\ G[p].id = r.id
    <3> HIDE DEF G, At
    <3> QED BY <1>4, <2>6, <2>7
  <2>9. r = G[p]
    <3> HIDE DEF G
    <3> QED BY <2>8 DEF IInv, KeysInv, Keyed
  <2> QED BY <2>6, <2>9
<1> HIDE DEF G, At
<1>6. ASSUME NEW p \in ResultPlaces(messages), NEW q \in ResultPlaces(messages)
      PROVE  Before(G[p], G[q]) <=> Sooner(p, q)
  <2>1. p[1].id = q[1].id => p[1] = q[1] BY <1>2, <1>3
  <2>2. /\ p[2] \in Nat /\ q[2] \in Nat /\ base[p[1]] \in Nat /\ base[q[1]] \in Nat
        /\ p[1].id = q[1].id => base[p[1]] = base[q[1]]
    BY <1>3, <2>1
  <2>3. /\ G[p].time = p[1].message.time /\ G[p].row = p[1].id /\ G[p].id = base[p[1]] + p[2]
        /\ G[q].time = q[1].message.time /\ G[q].row = q[1].id /\ G[q].id = base[q[1]] + q[2]
    BY <1>4
  <2> QED BY <2>2, <2>3, BeforeAtPlaces
<1>7. ResultMap(G) BY <1>4, <1>5, <1>6 DEF ResultMap
<1> QED BY <1>7

-----------------------------------------------------------------------------
(* The links of the rows pair the places.                                  *)

Pairs(F, G) ==
  {x \in CallPlaces(messages) \X ResultPlaces(messages) : G[x[2]].link = F[x[1]].id}

\* The calls are finitely many.
LEMMA CallsFinite ==
  ASSUME IInv
  PROVE  IsFiniteSet(calls)
<1>1. PICK n \in Nat : \A c \in calls : c.id <= n BY DEF IInv, KeysInv, Keyed
<1>2. \A c \in calls : c.id \in 0 .. n BY <1>1 DEF IInv, TypeOK, CallType
<1> DEFINE f == [c \in calls |-> c.id]
<1>3. f \in Injection(calls, 0 .. n)
  <2>1. f \in [calls -> 0 .. n] BY <1>2
  <2>2. \A a, b \in calls : f[a] = f[b] => a = b BY DEF IInv, KeysInv, Keyed
  <2> QED BY <2>1, <2>2 DEF Injection, IsInjective
<1>4. IsFiniteSet(0 .. n) BY <1>1, FS_Interval
<1> HIDE DEF f
<1> QED BY <1>3, <1>4, FS_Injection

\* Calls before a result are those of the places before its place.
LEMMA PriorAtPlaces ==
  ASSUME IInv, NEW F, NEW G, CallMap(F), ResultMap(G),
         NEW r \in ResultPlaces(messages), NEW c \in CallPlaces(messages)
  PROVE  F[c] \in Prior(G[r]) <=> c \in PriorPlaces(messages, r)
<1>1. /\ F[c] \in calls /\ F[c].row = c[1].id /\ F[c].session = c[1].message.session
      /\ F[c].time = c[1].message.time /\ F[c].tool = CallIn(c).tool
  BY DEF CallMap
<1>2. /\ G[r].row = r[1].id /\ G[r].session = r[1].message.session
      /\ G[r].time = r[1].message.time /\ G[r].tool = ResultIn(r).tool
  BY DEF ResultMap
<1> QED BY <1>1, <1>2 DEF Prior, Precedes, PriorPlaces

\* As many calls come between.
LEMMA LaterAtPlaces ==
  ASSUME IInv, NEW F, NEW G, CallMap(F), ResultMap(G),
         NEW r \in ResultPlaces(messages), NEW c \in CallPlaces(messages)
  PROVE  Cardinality({d \in Prior(G[r]) : Before(F[c], d)}) = Cardinality(LaterPriors(messages, r, c))
<1> DEFINE S == LaterPriors(messages, r, c)
           T == {d \in Prior(G[r]) : Before(F[c], d)}
           f == [d \in S |-> F[d]]
<1>1. \A d \in S : d \in CallPlaces(messages) /\ d \in PriorPlaces(messages, r) /\ Sooner(c, d)
  BY DEF LaterPriors, PriorPlaces
<1>2. \A d \in S : F[d] \in T
  BY <1>1, PriorAtPlaces DEF CallMap
<1>3. \A d \in T : \E p \in S : F[p] = d
  <2> SUFFICES ASSUME NEW d \in T PROVE \E p \in S : F[p] = d OBVIOUS
  <2>1. d \in calls /\ d \in Prior(G[r]) /\ Before(F[c], d) BY DEF Prior
  <2>2. PICK p \in CallPlaces(messages) : d = F[p] BY <2>1 DEF CallMap
  <2>3. p \in PriorPlaces(messages, r) BY <2>1, <2>2, PriorAtPlaces
  <2>4. Sooner(c, p) BY <2>1, <2>2 DEF CallMap
  <2> QED BY <2>2, <2>3, <2>4 DEF LaterPriors
<1>4. \A p, q \in S : F[p] = F[q] => p = q BY <1>1 DEF CallMap
<1>5. IsFiniteSet(T)
  <2>1. T \in SUBSET calls BY DEF Prior
  <2> HIDE DEF T
  <2> QED BY <2>1, CallsFinite, FS_Subset
<1> HIDE DEF S, T
<1>6. f \in [S -> T] BY <1>2
<1>7. f \in Injection(S, T)
  BY <1>4, <1>6 DEF Injection, IsInjective
<1>8. f \in Surjection(S, T)
  BY <1>3, <1>6 DEF Surjection
<1>9. f \in Bijection(S, T) BY <1>7, <1>8 DEF Bijection
<1>10. ExistsBijection(S, T) BY <1>9 DEF ExistsBijection
<1>11. IsFiniteSet(S) BY <1>5, <1>7, FS_Injection
<1>12. Cardinality(T) = Cardinality(S) BY <1>10, <1>11, FS_Bijection
<1> QED BY <1>12 DEF S, T

\* The calls that earlier results have taken are those at the places taken.
LEMMA UsedAtPlaces ==
  ASSUME IInv, NEW F, NEW G, CallMap(F), ResultMap(G),
         NEW r \in ResultPlaces(messages), NEW c \in CallPlaces(messages)
  PROVE  F[c].id \in Used(G[r]) <=> Takes(messages, Pairs(F, G), r, c)
<1>1. \A q \in ResultPlaces(messages) :
        q \in SoonerResults(messages, r) <=>
          G[q].session = G[r].session /\ G[q].tool = NoTool /\ Before(G[q], G[r])
  BY DEF ResultMap, SoonerResults
<1>2. \A q \in ResultPlaces(messages) : <<c, q>> \in Pairs(F, G) <=> G[q].link = F[c].id
  BY DEF Pairs
<1>3. ASSUME F[c].id \in Used(G[r]) PROVE Takes(messages, Pairs(F, G), r, c)
  <2>1. PICK d \in results : /\ d.session = G[r].session /\ d.tool = NoTool /\ Before(d, G[r])
                             /\ d.link = F[c].id
    BY <1>3 DEF Used
  <2>2. PICK q \in ResultPlaces(messages) : d = G[q] BY DEF ResultMap
  <2> QED BY <1>1, <1>2, <2>1, <2>2 DEF Takes
<1>4. ASSUME Takes(messages, Pairs(F, G), r, c) PROVE F[c].id \in Used(G[r])
  <2>1. PICK q \in SoonerResults(messages, r) : <<c, q>> \in Pairs(F, G) BY <1>4 DEF Takes
  <2>2. q \in ResultPlaces(messages) BY DEF SoonerResults
  <2>3. G[q] \in results /\ G[q].link = F[c].id BY <1>2, <2>1, <2>2 DEF ResultMap
  <2> QED BY <1>1, <2>2, <2>3 DEF Used
<1> QED BY <1>3, <1>4

\* So those that a result may answer are those at the answerable places.
LEMMA AnswerableAtPlaces ==
  ASSUME IInv, NEW F, NEW G, CallMap(F), ResultMap(G),
         NEW r \in ResultPlaces(messages), NEW c \in CallPlaces(messages)
  PROVE  F[c] \in Answerable(G[r]) <=> c \in AnswerablePlaces(messages, Pairs(F, G), r)
<1>1. G[r].tool = ResultIn(r).tool /\ G[r].name = ResultIn(r).name /\ F[c].name = CallIn(c).name
  BY DEF CallMap, ResultMap
<1>2. F[c] \in Prior(G[r]) <=> c \in PriorPlaces(messages, r) BY PriorAtPlaces
<1>3. CASE ResultIn(r).tool # NoTool
  BY <1>1, <1>2, <1>3 DEF Answerable, AnswerablePlaces
<1>4. CASE ResultIn(r).tool = NoTool
  <2>1. SameName(F[c], G[r]) <=> SameName(CallIn(c), ResultIn(r)) BY <1>1 DEF SameName
  <2>2. F[c] \in Answerable(G[r]) <=>
          /\ F[c] \in Prior(G[r])
          /\ Cardinality({d \in Prior(G[r]) : Before(F[c], d)}) < Window
          /\ F[c].id \notin Used(G[r]) /\ SameName(F[c], G[r])
    BY <1>1, <1>4 DEF Answerable
  <2>3. c \in AnswerablePlaces(messages, Pairs(F, G), r) <=>
          /\ c \in PriorPlaces(messages, r)
          /\ Cardinality(LaterPriors(messages, r, c)) < Window
          /\ ~Takes(messages, Pairs(F, G), r, c)
          /\ SameName(CallIn(c), ResultIn(r))
    BY <1>4 DEF AnswerablePlaces
  <2>4. Cardinality({d \in Prior(G[r]) : Before(F[c], d)}) = Cardinality(LaterPriors(messages, r, c))
    BY LaterAtPlaces
  <2>5. F[c].id \in Used(G[r]) <=> Takes(messages, Pairs(F, G), r, c) BY UsedAtPlaces
  <2> QED BY <1>2, <2>1, <2>2, <2>3, <2>4, <2>5
<1> QED BY <1>3, <1>4

\* The link of a result is the id of the latest call it may answer.
LEMMA LinkIsLatest ==
  ASSUME IInv, NEW r, NEW c \in calls
  PROVE  LinkOf(r) = c.id <=> c \in Latest(Answerable(r))
<1>1. Answerable(r) \subseteq calls
  <2>1. Answerable(r) \subseteq Prior(r)
    <3>1. CASE r.tool = NoTool BY <3>1 DEF Answerable
    <3>2. CASE r.tool # NoTool BY <3>2 DEF Answerable
    <3> QED BY <3>1, <3>2
  <2> QED BY <2>1 DEF Prior
<1>2. \A d \in calls : d.time \in Nat /\ d.row \in Nat /\ d.id \in Nat \ {0}
  BY DEF IInv, TypeOK, CallType
<1>3. \A d, e \in Latest(Answerable(r)) : d = e
  <2> SUFFICES ASSUME NEW d \in Latest(Answerable(r)), NEW e \in Latest(Answerable(r)), d # e
               PROVE  FALSE
    OBVIOUS
  <2>1. d \in calls /\ e \in calls /\ Before(d, e) /\ Before(e, d) BY <1>1 DEF Latest
  <2> QED BY <1>2, <2>1, BeforeOrder
<1>4. ASSUME c \in Latest(Answerable(r)) PROVE LinkOf(r) = c.id
  <2>1. (CHOOSE d \in Latest(Answerable(r)) : TRUE) = c BY <1>3, <1>4
  <2> QED BY <1>4, <2>1 DEF LinkOf
<1>5. ASSUME LinkOf(r) = c.id PROVE c \in Latest(Answerable(r))
  <2>1. c.id # 0 BY <1>2
  <2>2. Latest(Answerable(r)) # {} BY <1>5, <2>1 DEF LinkOf
  <2>3. PICK d : d = CHOOSE e \in Latest(Answerable(r)) : TRUE OBVIOUS
  <2>4. d \in Latest(Answerable(r)) /\ LinkOf(r) = d.id BY <2>2, <2>3 DEF LinkOf
  <2>5. d \in calls BY <1>1, <2>4 DEF Latest
  <2>6. d = c BY <1>5, <2>4, <2>5 DEF IInv, KeysInv, Keyed
  <2> QED BY <2>4, <2>6
<1> QED BY <1>4, <1>5

\* When all are paired as of now, the links are the pairing of the messages.
LEMMA PairsMatch ==
  ASSUME IInv, NEW F, NEW G, CallMap(F), ResultMap(G),
         \A r \in results : r.link = LinkOf(r)
  PROVE  Matching(messages, Pairs(F, G))
<1> DEFINE A == Pairs(F, G)
<1>1. A \subseteq CallPlaces(messages) \X ResultPlaces(messages) BY DEF Pairs
<1>2. ASSUME NEW c \in CallPlaces(messages), NEW r \in ResultPlaces(messages)
      PROVE  <<c, r>> \in A <=> Answered(messages, A, r, c)
  <2>1. F[c] \in calls /\ G[r] \in results BY DEF CallMap, ResultMap
  <2>2. <<c, r>> \in A <=> G[r].link = F[c].id BY DEF Pairs
  <2>3. <<c, r>> \in A <=> F[c] \in Latest(Answerable(G[r])) BY <2>1, <2>2, LinkIsLatest
  <2>4. \A d \in CallPlaces(messages) : F[d] \in Answerable(G[r]) <=> d \in AnswerablePlaces(messages, A, r)
    BY AnswerableAtPlaces
  <2>5. \A d \in AnswerablePlaces(messages, A, r) : d \in CallPlaces(messages)
    BY DEF AnswerablePlaces, PriorPlaces
  <2>6. \A d \in Answerable(G[r]) : \E p \in CallPlaces(messages) : d = F[p]
    <3>1. \A d \in Answerable(G[r]) : d \in calls
      <4>1. CASE G[r].tool = NoTool BY <4>1 DEF Answerable, Prior
      <4>2. CASE G[r].tool # NoTool BY <4>2 DEF Answerable, Prior
      <4> QED BY <4>1, <4>2
    <3> QED BY <3>1 DEF CallMap
  <2>7. \A p, q \in CallPlaces(messages) : (F[p] = F[q] => p = q) /\ (Before(F[p], F[q]) <=> Sooner(p, q))
    BY DEF CallMap
  <2> HIDE DEF A
  <2>8. F[c] \in Latest(Answerable(G[r])) <=>
          F[c] \in Answerable(G[r]) /\ \A d \in Answerable(G[r]) \ {F[c]} : Before(d, F[c])
    BY DEF Latest
  <2>9. (\A d \in Answerable(G[r]) \ {F[c]} : Before(d, F[c])) <=>
        (\A d \in AnswerablePlaces(messages, A, r) \ {c} : Sooner(d, c))
    BY <2>4, <2>5, <2>6, <2>7
  <2> QED BY <2>3, <2>4, <2>8, <2>9 DEF Answered
<1> QED BY <1>1, <1>2 DEF Matching

\* And the index answers what it says.
LEMMA PairsAnswer ==
  ASSUME IInv, NEW F, NEW G, CallMap(F), ResultMap(G)
  PROVE  Answers(calls, results) = Said(Pairs(F, G))
<1> DEFINE row(c, r) == <<c.row, c.tool, c.name, r.row, r.text>>
           said(p) == <<p[1][1].id, CallIn(p[1]).tool, CallIn(p[1]).name, p[2][1].id, ResultIn(p[2]).text>>
<1>1. \A c \in CallPlaces(messages), r \in ResultPlaces(messages) : row(F[c], G[r]) = said(<<c, r>>)
  BY DEF CallMap, ResultMap
<1>2. ASSUME NEW a \in Answers(calls, results) PROVE a \in Said(Pairs(F, G))
  <2>1. PICK x \in calls \X results : x[2].link = x[1].id /\ a = row(x[1], x[2])
    BY DEF Answers
  <2>2. PICK c \in CallPlaces(messages) : x[1] = F[c] BY DEF CallMap
  <2>3. PICK r \in ResultPlaces(messages) : x[2] = G[r] BY DEF ResultMap
  <2>4. <<c, r>> \in Pairs(F, G) BY <2>1, <2>2, <2>3 DEF Pairs
  <2>5. a = said(<<c, r>>) BY <1>1, <2>1, <2>2, <2>3
  <2> QED BY <2>4, <2>5 DEF Said
<1>3. ASSUME NEW a \in Said(Pairs(F, G)) PROVE a \in Answers(calls, results)
  <2>1. PICK p \in Pairs(F, G) : a = said(p) BY DEF Said
  <2>2. PICK c \in CallPlaces(messages), r \in ResultPlaces(messages) : p = <<c, r>> /\ G[r].link = F[c].id
    BY DEF Pairs
  <2>3. PICK x : x = <<F[c], G[r]>> OBVIOUS
  <2>4. x \in calls \X results /\ x[1] = F[c] /\ x[2] = G[r] /\ x[2].link = x[1].id
    BY <2>2, <2>3 DEF CallMap, ResultMap
  <2>5. a = row(x[1], x[2]) BY <1>1, <2>1, <2>2, <2>4
  <2> QED BY <2>4, <2>5 DEF Answers
<1> QED BY <1>2, <1>3

-----------------------------------------------------------------------------
(* Each statement keeps the places.                                        *)

\* Calls of a message stay as long as the rows of its calls do.
LEMMA CallsFromKept ==
  ASSUME NEW m, NEW k, CallsFrom(m, k),
         \A c \in calls' : c.row = m.id => c \in calls,
         \A c \in calls : c.row = m.id => c \in calls'
  PROVE  CallsFrom(m, k)'
<1>1. \A i : CallAt(m, k, i).row = m.id BY CallAtIs
<1>2. \A c \in calls' : c.row = m.id => \E i \in DOMAIN m.message.calls : c = CallAt(m, k, i)
  BY DEF CallsFrom
<1>3. \A i \in DOMAIN m.message.calls : CallAt(m, k, i) \in calls' BY <1>1 DEF CallsFrom
<1> QED BY <1>2, <1>3 DEF CallsFrom

\* A row is relinked, which leaves its place.
LEMMA Relinked ==
  ASSUME NEW m, NEW k, NEW i, NEW l, NEW r, r = ResultAt(m, k, i, r.link)
  PROVE  [r EXCEPT !.link = l] = ResultAt(m, k, i, l) /\ [r EXCEPT !.link = l].link = l
<1>1. PICK j : j = r.link OBVIOUS
<1>2. r = ResultAt(m, k, i, j) BY <1>1
<1> QED BY <1>2 DEF ResultAt

\* Results of a message stay where they are when links change.
LEMMA ResultsFromKept ==
  ASSUME NEW m, NEW k, ResultsFrom(m, k),
         \A u \in results' : u.row = m.id =>
           \E r \in results : r.row = m.id /\ (u = r \/ \E l : u = [r EXCEPT !.link = l]),
         \A r \in results : r.row = m.id => r \in results' \/ \E l : [r EXCEPT !.link = l] \in results'
  PROVE  ResultsFrom(m, k)'
<1>1. ASSUME NEW u \in results', u.row = m.id
      PROVE  \E i \in DOMAIN m.message.results : u = ResultAt(m, k, i, u.link)
  <2>1. PICK r \in results : r.row = m.id /\ (u = r \/ \E l : u = [r EXCEPT !.link = l]) BY <1>1
  <2>2. PICK i \in DOMAIN m.message.results : r = ResultAt(m, k, i, r.link)
    BY <2>1 DEF ResultsFrom
  <2>3. CASE u = r BY <2>2, <2>3
  <2>4. ASSUME NEW l, u = [r EXCEPT !.link = l] PROVE u = ResultAt(m, k, i, u.link)
    BY <2>2, <2>4, Relinked
  <2> QED BY <2>1, <2>2, <2>3, <2>4
<1>2. ASSUME NEW i \in DOMAIN m.message.results
      PROVE  \E u \in results' : u = ResultAt(m, k, i, u.link)
  <2>1. PICK r \in results : r = ResultAt(m, k, i, r.link) BY DEF ResultsFrom
  <2>2. r.row = m.id BY <2>1, ResultAtIs
  <2>3. CASE r \in results' BY <2>1, <2>3
  <2>4. ASSUME NEW l, [r EXCEPT !.link = l] \in results'
        PROVE  \E u \in results' : u = ResultAt(m, k, i, u.link)
    <3>1. PICK u : u = [r EXCEPT !.link = l] OBVIOUS
    <3>2. u = ResultAt(m, k, i, l) /\ u.link = l BY <2>1, <3>1, Relinked
    <3> QED BY <2>4, <3>1, <3>2
  <2> QED BY <2>2, <2>3, <2>4
<1> QED BY <1>1, <1>2 DEF ResultsFrom

\* Links change and nothing else, in Unlink and Pair.
LEMMA LinksPlaces ==
  ASSUME PlacesInv, messages' = messages, todo' = todo, stage' = stage, calls' = calls,
         \A u \in results' : \E r \in results :
           u.row = r.row /\ (u = r \/ \E l : u = [r EXCEPT !.link = l]),
         \A r \in results : r \in results' \/ \E l : [r EXCEPT !.link = l] \in results'
  PROVE  PlacesInv'
<1>1. ASSUME NEW m \in messages \ todo
      PROVE  (\E k \in Nat : CallsFrom(m, k)') /\ (\E k \in Nat : ResultsFrom(m, k)')
  <2>1. PICK k \in Nat : CallsFrom(m, k) BY DEF PlacesInv
  <2>2. CallsFrom(m, k)' BY <2>1, CallsFromKept
  <2>3. PICK l \in Nat : ResultsFrom(m, l) BY DEF PlacesInv
  <2>4. \A u \in results' : u.row = m.id =>
          \E r \in results : r.row = m.id /\ (u = r \/ \E j : u = [r EXCEPT !.link = j])
    OBVIOUS
  <2>5. \A r \in results : r.row = m.id => r \in results' \/ \E j : [r EXCEPT !.link = j] \in results'
    OBVIOUS
  <2>6. ResultsFrom(m, l)' BY ONLY <2>3, <2>4, <2>5, ResultsFromKept
  <2> QED BY <2>2, <2>6
<1>2. ASSUME NEW m \in todo
      PROVE  /\ \A c \in calls' : c.row # m.id
             /\ \A u \in results' : u.row # m.id
  BY DEF PlacesInv
<1> QED BY <1>1, <1>2 DEF PlacesInv

\* A replacement removes messages with all their rows.
LEMMA ReplacePlaces ==
  ASSUME IInv, PlacesInv, NEW p \in Paths, NEW c \in Contents, Replace(p, c)
  PROVE  PlacesInv'
<1>1. /\ todo = {} /\ messages' = {m \in messages : m.source # p} /\ stage' = "replace"
      /\ todo' \subseteq RowType
      /\ calls' \subseteq calls
      /\ \A d \in calls : d \in calls' <=> ~ \E m \in messages : m.source = p /\ m.id = d.row
  BY ReplaceMessages, ReplaceRows DEF Replace
<1>2. \A u \in results' : \E r \in results :
        /\ ~ \E m \in messages : m.source = p /\ m.id = r.row
        /\ u = r \/ \E l : u = [r EXCEPT !.link = l]
  BY ReplaceRows
<1>3. \A r \in results : (~ \E m \in messages : m.source = p /\ m.id = r.row) =>
        r \in results' \/ \E l : [r EXCEPT !.link = l] \in results'
  BY ReplaceRows
<1>4. \A m, n \in messages : m.id = n.id => m = n BY DEF IInv, KeysInv, Keyed
<1>5. \A r \in results : \A l : [r EXCEPT !.link = l].row = r.row
  BY DEF IInv, TypeOK, ResultType
<1>6. \A m \in todo', n \in messages' : m.id # n.id
  <2>1. todo' = {[id |-> LastId(messages') + i, source |-> p, message |-> c[i]] : i \in DOMAIN c}
    BY <1>1 DEF Replace
  <2>2. c \in Seq(MessageType) BY ToolConstants
  <2>3. \A i \in DOMAIN c : i \in Nat /\ i > 0 BY <2>2
  <2>4. Keyed(messages') /\ \A m \in messages' : m.id \in Nat
    <3>1. Keyed(messages) /\ \A m \in messages : m.id \in Nat
      BY <1>1 DEF IInv, KeysInv, TypeOK, RowType
    <3> QED BY <1>1, <3>1, KeyedSubset
  <2>5. LastId(messages') \in Nat /\ \A n \in messages' : n.id <= LastId(messages')
    BY <2>4, LastIdBounds
  <2>6. \A m \in todo' : \E i \in DOMAIN c : m.id = LastId(messages') + i BY <2>1
  <2> QED BY <2>3, <2>4, <2>5, <2>6
<1>7. ASSUME NEW m \in messages' \ todo'
      PROVE  (\E k \in Nat : CallsFrom(m, k)') /\ (\E k \in Nat : ResultsFrom(m, k)')
  <2>1. m \in messages \ todo /\ ~ \E n \in messages : n.source = p /\ n.id = m.id
    BY <1>1, <1>4
  <2>2. PICK k \in Nat : CallsFrom(m, k) BY <2>1 DEF PlacesInv
  <2>3. CallsFrom(m, k)' BY <1>1, <2>1, <2>2, CallsFromKept
  <2>4. PICK l \in Nat : ResultsFrom(m, l) BY <2>1 DEF PlacesInv
  <2>5. \A u \in results' : u.row = m.id =>
          \E r \in results : r.row = m.id /\ (u = r \/ \E j : u = [r EXCEPT !.link = j])
    <3> SUFFICES ASSUME NEW u \in results', u.row = m.id
                 PROVE  \E r \in results : r.row = m.id /\ (u = r \/ \E j : u = [r EXCEPT !.link = j])
      OBVIOUS
    <3>1. PICK r \in results : u = r \/ \E j : u = [r EXCEPT !.link = j] BY <1>2
    <3>2. r.row = m.id BY <1>5, <3>1
    <3> QED BY <3>1, <3>2
  <2>6. \A r \in results : r.row = m.id => r \in results' \/ \E j : [r EXCEPT !.link = j] \in results'
    BY <1>3, <2>1
  <2>7. ResultsFrom(m, l)' BY <2>4, <2>5, <2>6, ResultsFromKept
  <2> QED BY <2>3, <2>7
<1>8. ASSUME NEW m \in todo'
      PROVE  /\ \A d \in calls' : d.row # m.id
             /\ \A u \in results' : u.row # m.id
  <2>1. RefsInv' BY ReplaceRefs
  <2>2. \A d \in calls' : \E n \in messages' : n.id = d.row BY <2>1 DEF RefsInv
  <2>3. \A u \in results' : \E n \in messages' : n.id = u.row BY <2>1 DEF RefsInv
  <2> QED BY <1>6, <2>2, <2>3
<1> QED BY <1>1, <1>7, <1>8 DEF PlacesInv

\* A message is stored with its rows, next to those of others.
LEMMA StorePlaces ==
  ASSUME IInv, PlacesInv, NEW m, StoreOf(m)
  PROVE  PlacesInv'
<1>1. /\ m \in todo /\ messages' = messages \union {m} /\ todo' = todo \ {m}
      /\ calls' = calls \union CallRows(m) /\ results' = results \union ResultRows(m)
      /\ stage' = stage
  BY DEF StoreOf, Write
<1>2. /\ \A d \in CallRows(m) : d.row = m.id
      /\ \A r \in ResultRows(m) : r.row = m.id
  BY <1>1, CallRowsAre, ResultRowsAre
<1>3. \A n \in messages \union todo : n.id = m.id => n = m
  BY <1>1 DEF IInv, KeysInv, Keyed
<1>4. \A d \in calls : d.row # m.id BY <1>1 DEF PlacesInv
<1>5. \A r \in results : r.row # m.id BY <1>1 DEF PlacesInv
<1>6. \E k \in Nat : CallsFrom(m, k)'
  <2>1. LastId(calls) \in Nat
    BY LastIdBounds DEF IInv, KeysInv, TypeOK, CallType
  <2>2. PICK k \in Nat : k = LastId(calls) BY <2>1
  <2>3. CallRows(m) = {CallAt(m, k, i) : i \in DOMAIN m.message.calls}
    BY <2>2 DEF CallRows, CallAt
  <2>4. \A d \in calls' : d.row = m.id => \E i \in DOMAIN m.message.calls : d = CallAt(m, k, i)
    BY <1>1, <1>4, <2>3
  <2>5. \A i \in DOMAIN m.message.calls : CallAt(m, k, i) \in calls' BY <1>1, <2>3
  <2> QED BY <2>4, <2>5 DEF CallsFrom
<1>7. \E k \in Nat : ResultsFrom(m, k)'
  <2>1. LastId(results) \in Nat
    BY LastIdBounds DEF IInv, KeysInv, TypeOK, ResultType
  <2>2. PICK k \in Nat : k = LastId(results) BY <2>1
  <2>3. ResultRows(m) = {ResultAt(m, k, i, 0) : i \in DOMAIN m.message.results}
    BY <2>2 DEF ResultRows, ResultAt
  <2>4. \A i : ResultAt(m, k, i, 0).link = 0 BY ResultAtIs
  <2>5. \A r \in results' : r.row = m.id => \E i \in DOMAIN m.message.results : r = ResultAt(m, k, i, r.link)
    BY <1>1, <1>5, <2>3, <2>4
  <2>6. \A i \in DOMAIN m.message.results : \E r \in results' : r = ResultAt(m, k, i, r.link)
    BY <1>1, <2>3, <2>4
  <2> QED BY <2>5, <2>6 DEF ResultsFrom
<1>8. ASSUME NEW n \in messages' \ todo'
      PROVE  (\E k \in Nat : CallsFrom(n, k)') /\ (\E k \in Nat : ResultsFrom(n, k)')
  <2>1. CASE n = m BY <1>6, <1>7, <2>1
  <2>2. CASE n # m
    <3>1. n \in messages \ todo /\ n.id # m.id BY <1>1, <1>3, <2>2
    <3>2. PICK k \in Nat : CallsFrom(n, k) BY <3>1 DEF PlacesInv
    <3>3. CallsFrom(n, k)' BY <1>1, <1>2, <3>1, <3>2, CallsFromKept
    <3>4. PICK l \in Nat : ResultsFrom(n, l) BY <3>1 DEF PlacesInv
    <3>5. \A u \in results' : u.row = n.id => u \in results BY <1>1, <1>2, <3>1
    <3>6. ResultsFrom(n, l)' BY <1>1, <3>4, <3>5, ResultsFromKept
    <3> QED BY <3>3, <3>6
  <2> QED BY <2>1, <2>2
<1>9. ASSUME NEW n \in todo'
      PROVE  /\ \A d \in calls' : d.row # n.id
             /\ \A u \in results' : u.row # n.id
  <2>1. n \in todo /\ n.id # m.id BY <1>1, <1>3, <1>9
  <2>2. \A d \in calls : d.row # n.id BY <2>1 DEF PlacesInv
  <2>3. \A u \in results : u.row # n.id BY <2>1 DEF PlacesInv
  <2> QED BY <1>1, <1>2, <2>1, <2>2, <2>3
<1>10. stage' = "upgrade" => todo' \subseteq messages' BY <1>1 DEF PlacesInv
<1> QED BY <1>8, <1>9, <1>10 DEF PlacesInv

\* Where the rows are, after every statement, by induction with IInv.
LEMMA PlacesKept ==
  ASSUME IInv, PlacesInv, [Next]_vars
  PROVE  PlacesInv'
<1>1. ASSUME NEW p \in Paths, NEW c \in Contents, Replace(p, c) PROVE PlacesInv'
  BY <1>1, ReplacePlaces
<1>2. CASE Store
  <2>1. PICK m : StoreOf(m) BY <1>2 DEF Store, StoreOf
  <2> QED BY <2>1, StorePlaces
<1>3. CASE Unlink
  <2>1. PICK s : UnlinkOf(s) BY <1>3 DEF Unlink, UnlinkOf
  <2>2. /\ messages' = messages /\ todo' = todo /\ stage' = stage /\ calls' = calls
        /\ results' = {IF r.session = s THEN [r EXCEPT !.link = 0] ELSE r : r \in results}
    BY <2>1 DEF UnlinkOf, Write
  <2>3. \A u \in results' : \E r \in results :
          u.row = r.row /\ (u = r \/ \E l : u = [r EXCEPT !.link = l])
    BY <2>1, UnlinkRows
  <2>4. \A r \in results : r \in results' \/ \E l : [r EXCEPT !.link = l] \in results'
    <3> SUFFICES ASSUME NEW r \in results
                 PROVE  r \in results' \/ \E l : [r EXCEPT !.link = l] \in results'
      OBVIOUS
    <3>1. CASE r.session = s
      <4>1. [r EXCEPT !.link = 0] \in results' BY <2>2, <3>1
      <4> QED BY <4>1
    <3>2. CASE r.session # s BY <2>2, <3>2
    <3> QED BY <3>1, <3>2
  <2> QED BY <2>2, <2>3, <2>4, LinksPlaces
<1>4. CASE Pair
  <2>1. PICK r : PairOf(r) BY <1>4 DEF Pair, PairOf
  <2>2. PICK u : u = [r EXCEPT !.link = LinkOf(r)] OBVIOUS
  <2>3. /\ messages' = messages /\ todo' = todo /\ stage' = stage /\ calls' = calls
        /\ r \in results /\ results' = (results \ {r}) \union {u}
    BY <2>1, <2>2 DEF PairOf, Write
  <2>4. u.row = r.row BY <2>2, <2>3 DEF IInv, TypeOK, ResultType
  <2>5. \A q \in results' : \E d \in results :
          q.row = d.row /\ (q = d \/ \E l : q = [d EXCEPT !.link = l])
    BY <2>2, <2>3, <2>4
  <2>6. \A d \in results : d \in results' \/ \E l : [d EXCEPT !.link = l] \in results'
    BY <2>2, <2>3
  <2> QED BY <2>3, <2>5, <2>6, LinksPlaces
<1>5. CASE Upgrade
  <2>1. /\ calls' = {} /\ results' = {} /\ messages' = messages /\ todo' = messages
    BY <1>5 DEF Upgrade
  <2> QED BY <2>1 DEF PlacesInv
<1>6. CASE Commit
  <2>1. /\ calls' = calls /\ results' = results /\ messages' = messages /\ todo' = todo
        /\ stage' = "idle"
    BY <1>6 DEF Commit
  <2> QED BY <2>1 DEF PlacesInv, CallsFrom, ResultsFrom
<1>7. CASE UNCHANGED vars
  <2>1. /\ calls' = calls /\ results' = results /\ messages' = messages /\ todo' = todo
        /\ stage' = stage
    BY <1>7 DEF vars, tables
  <2> QED BY <2>1 DEF PlacesInv, CallsFrom, ResultsFrom
<1> QED BY <1>1, <1>2, <1>3, <1>4, <1>5, <1>6, <1>7 DEF Next

-----------------------------------------------------------------------------
(* The upgrade.                                                            *)

\* During the upgrade the index remembers what the pairing of its messages answers.
UpgradePlaces ==
  stage = "upgrade" => \E A : Matching(messages, A) /\ answered = Said(A)

\* What an index with all results paired answers is the pairing of its messages.
LEMMA AnswersMatch ==
  ASSUME IInv, PlacesInv, todo = {}, affected = {}, unpaired = {}
  PROVE  \E A : Matching(messages, A) /\ Answers(calls, results) = Said(A)
<1>1. PICK F : CallMap(F) BY CallMapExists
<1>2. PICK G : ResultMap(G) BY ResultMapExists
<1>3. \A r \in results : r.link = LinkOf(r) BY DEF IInv, PairInv
<1>4. Matching(messages, Pairs(F, G)) BY <1>1, <1>2, <1>3, PairsMatch
<1>5. Answers(calls, results) = Said(Pairs(F, G)) BY <1>1, <1>2, PairsAnswer
<1> QED BY <1>4, <1>5

\* A step of the upgrade leaves the messages, and the last one the answers.
LEMMA UpgradeKept ==
  ASSUME IInv, PlacesInv, UpgradePlaces, [Next]_vars
  PROVE  /\ UpgradePlaces'
         /\ stage = "upgrade" /\ stage' = "idle" => Answers(calls', results') = answered
<1>1. CASE Upgrade
  <2>1. /\ stage = "idle" /\ stage' = "upgrade" /\ messages' = messages
        /\ answered' = Answers(calls, results)
    BY <1>1 DEF Upgrade
  <2>2. PICK A : Matching(messages, A) /\ Answers(calls, results) = Said(A)
    BY <2>1, AnswersMatch DEF IInv, StageInv
  <2> QED BY <2>1, <2>2 DEF UpgradePlaces
<1>2. CASE Commit
  <2>1. /\ todo = {} /\ affected = {} /\ unpaired = {} /\ stage' = "idle"
        /\ calls' = calls /\ results' = results
    BY <1>2 DEF Commit
  <2>2. PICK A : Matching(messages, A) /\ Answers(calls, results) = Said(A)
    BY <2>1, AnswersMatch
  <2>3. ASSUME stage = "upgrade" PROVE Answers(calls, results) = answered
    <3>1. PICK B : Matching(messages, B) /\ answered = Said(B) BY <2>3 DEF UpgradePlaces
    <3>2. messages \in SUBSET RowType BY DEF IInv, TypeOK
    <3>3. A = B BY <2>2, <3>1, <3>2, MatchingUnique
    <3> QED BY <2>2, <3>1, <3>3
  <2> QED BY <2>1, <2>3 DEF UpgradePlaces
<1>3. ASSUME NEW p \in Paths, NEW c \in Contents, Replace(p, c)
      PROVE  stage = "idle" /\ stage' = "replace"
  BY <1>3 DEF Replace
<1>4. CASE Store
  <2>1. PICK m : StoreOf(m) BY <1>4 DEF Store, StoreOf
  <2>2. m \in todo /\ messages' = messages \union {m} /\ stage' = stage /\ answered' = answered
    BY <2>1 DEF StoreOf
  <2>3. stage = "upgrade" => messages' = messages BY <2>2 DEF PlacesInv
  <2> QED BY <2>2, <2>3 DEF UpgradePlaces
<1>5. CASE Unlink \/ Pair \/ UNCHANGED vars
  <2>1. messages' = messages /\ stage' = stage /\ answered' = answered
    BY <1>5 DEF Unlink, Pair, vars, tables
  <2> QED BY <2>1 DEF UpgradePlaces
<1> QED BY <1>1, <1>2, <1>3, <1>4, <1>5 DEF Next, UpgradePlaces

-----------------------------------------------------------------------------
(* Theorems.                                                               *)

\* The inductive invariant of the read models: ids are keys, references resolve
\* within the session, and what is neither affected nor unpaired is paired.
THEOREM Invariance == Spec => []IInv
<1>1. Init => IInv BY InitInv
<1>2. IInv /\ [Next]_vars => IInv'
  <2> SUFFICES ASSUME IInv, [Next]_vars PROVE IInv' OBVIOUS
  <2>1. ASSUME NEW p \in Paths, NEW c \in Contents, Replace(p, c) PROVE IInv'
    BY <2>1, ReplaceInv
  <2>2. CASE Store
    <3>1. PICK m : StoreOf(m) BY <2>2 DEF Store, StoreOf
    <3> QED BY <3>1, StoreInv
  <2>3. CASE Unlink
    <3>1. PICK s : UnlinkOf(s) BY <2>3 DEF Unlink, UnlinkOf
    <3> QED BY <3>1, UnlinkInv
  <2>4. CASE Pair
    <3>1. PICK r : PairOf(r) BY <2>4 DEF Pair, PairOf
    <3> QED BY <3>1, PairingInv
  <2>5. CASE Upgrade BY <2>5, UpgradeInv
  <2>6. CASE Commit BY <2>6, CommitInv
  <2>7. CASE UNCHANGED vars BY <2>7, StutterInv
  <2> QED BY <2>1, <2>2, <2>3, <2>4, <2>5, <2>6, <2>7 DEF Next
<1> QED BY <1>1, <1>2, PTL DEF Spec

\* In every committed index each result is paired as a rebuild of its whole
\* session would pair it, whichever transcripts were replaced: rebuilding the
\* sessions of the messages that went and came is enough (indexFile).
THEOREM PairingIsCurrentAlways == Spec => []PairingIsCurrent
<1>1. IInv => PairingIsCurrent
  BY DEF IInv, StageInv, PairInv, PairingIsCurrent
<1> QED BY <1>1, Invariance, PTL

\* The triggers keep the command search content what a population from the
\* tables would give, after every statement of every transaction.
THEOREM SearchIsCurrentAlways == Spec => []SearchIsCurrent
<1>1. IInv => SearchIsCurrent
  BY DEF IInv
<1> QED BY <1>1, Invariance, PTL

\* No two results without id answer the same call, not even between the
\* statements of rebuildToolLinks.
THEOREM AnonymousCallsAnswerOnceAlways == Spec => []AnonymousCallsAnswerOnce
<1>1. IInv => AnonymousCallsAnswerOnce
  BY DEF IInv
<1> QED BY <1>1, Invariance, PTL

\* Every result and call has its message, and a link goes to a stored call of
\* the same session: no link survives the call it names.
THEOREM ReferencesResolve == Spec => []RefsInv
<1>1. IInv => RefsInv
  BY DEF IInv
<1> QED BY <1>1, Invariance, PTL

\* An upgraded index answers as one that this binary built from the start: the
\* pairing depends on the messages alone, not on the ids that rows were given or
\* the order in which transcripts came (migrateReadProjections, rebuildToolLinks).
THEOREM UpgradeKeepsAnswersAlways == Spec => UpgradeKeepsAnswers
<1> DEFINE Inv == IInv /\ PlacesInv /\ UpgradePlaces
<1>1. Init => PlacesInv /\ UpgradePlaces BY DEF Init, PlacesInv, UpgradePlaces
<1>2. Spec => []Inv
  <2>1. Init => Inv BY <1>1, InitInv
  <2>2. IInv /\ IInv' /\ PlacesInv /\ UpgradePlaces /\ [Next]_vars => PlacesInv' /\ UpgradePlaces'
    BY PlacesKept, UpgradeKept
  <2> QED BY <2>1, <2>2, Invariance, InitInv, PTL DEF Spec
<1>3. Inv /\ [Next]_vars =>
        [stage = "upgrade" /\ stage' = "idle" => Answers(calls', results') = answered]_vars
  BY UpgradeKept
<1> QED BY <1>2, <1>3, PTL DEF Spec, UpgradeKeepsAnswers

=============================================================================
