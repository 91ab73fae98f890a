---------------------------- MODULE OutputBudget ----------------------------
(***************************************************************************)
(* How a response is fitted into a budget of characters: Format with its   *)
(* loops plan, waterFill and render of internal/output/output.go.          *)
(*                                                                         *)
(* A body is [raw, flat]: its length in runes, and that of the single line *)
(* a preview makes of it.  Bodies come in the order of the response, and   *)
(* all lengths are in runes.  Without a budget it is 0.                    *)
(***************************************************************************)
EXTENDS Integers, Sequences, FiniteSets

CONSTANTS
  MinPreviewLength,   \* the shortest preview worth returning
  Options             \* rendering: [budget, full, length]

BodyType == [raw : Nat, flat : Nat]
OptionType == [budget : Nat, full : BOOLEAN, length : Nat \ {0}]

\* A preview worth returning has room for a character and an ellipsis.
ASSUME BudgetConstants ==
  /\ MinPreviewLength \in Nat /\ MinPreviewLength > 1
  /\ Options \subseteq OptionType

VARIABLES
  stage,      \* "idle", "fill", "pour", "render" or "done"
  bodies, options,
  natural,    \* what each body takes without a budget
  alloc,      \* what each result may spend, for those that are kept
  unpoured,   \* results that have no share yet
  remaining,  \* what is left of the budget to be allocated
  emitted,    \* lengths of the bodies in the response
  spent

output == <<stage, bodies, options, natural, alloc, unpoured, remaining, emitted, spent>>

Least(a, b) == IF a < b THEN a ELSE b

\* preview: the line, cut and followed by an ellipsis when it is longer.
Preview(body, n) == IF body.flat <= n THEN body.flat ELSE n + 1

\* What each body takes without a budget, whole or as a preview.
Natural(given, o) ==
  [i \in DOMAIN given |-> IF o.full THEN given[i].raw ELSE Preview(given[i], o.length)]

\* How many previews survive: each has its minimum, and there is one at least.
Kept(n, budget) ==
  LET room == Least(n, budget \div MinPreviewLength) IN IF room < 1 THEN 1 ELSE room

\* render: a body within its allocation, with room for the ellipsis.
Render(body, share, whole) ==
  IF share >= whole THEN whole
  ELSE IF options.full THEN Least(body.raw, share)
  ELSE Preview(body, (IF share < 2 THEN 2 ELSE share) - 1)

-----------------------------------------------------------------------------
(* Format, one action per turn of its loops.                               *)

OutputInit ==
  /\ stage = "idle"
  /\ bodies = <<>> /\ natural = <<>> /\ alloc = <<>> /\ emitted = <<>>
  /\ options = [budget |-> 0, full |-> FALSE, length |-> 1]
  /\ unpoured = {} /\ remaining = 0 /\ spent = 0

\* plan: all there is without a budget, whole bodies one by one, or equal shares
\* for as many previews as have their minimum.
Format(given) ==
  /\ stage = "idle"
  /\ bodies' = given
  /\ options' \in Options
  /\ natural' = Natural(given, options')
  /\ remaining' = options'.budget
  /\ \/ /\ given = <<>> \/ options'.budget = 0
        /\ alloc' = natural' /\ unpoured' = {} /\ stage' = "render"
     \/ /\ given # <<>> /\ options'.budget > 0 /\ options'.full
        /\ alloc' = <<>> /\ unpoured' = {} /\ stage' = "fill"
     \/ /\ given # <<>> /\ options'.budget > 0 /\ ~options'.full
        /\ unpoured' = 1 .. Kept(Len(given), options'.budget)
        /\ alloc' = [i \in unpoured' |-> 0]
        /\ stage' = "pour"
  /\ UNCHANGED <<emitted, spent>>

NextFits == Len(alloc) < Len(natural) /\ natural[Len(alloc) + 1] <= remaining

\* A whole body in rank order, if it fits.
Fill ==
  /\ stage = "fill" /\ NextFits
  /\ alloc' = Append(alloc, natural[Len(alloc) + 1])
  /\ remaining' = remaining - natural[Len(alloc) + 1]
  /\ UNCHANGED <<stage, bodies, options, natural, unpoured, emitted, spent>>

\* The next does not; the first is clipped rather than dropped.
FilledUnclipped ==   \* mutant: and let through whole
  /\ stage = "fill" /\ ~NextFits
  /\ alloc' = IF alloc = <<>> THEN <<natural[1]>> ELSE alloc
  /\ stage' = "render"
  /\ UNCHANGED <<bodies, options, natural, unpoured, remaining, emitted, spent>>
Filled ==
  /\ stage = "fill" /\ ~NextFits
  /\ alloc' = IF alloc = <<>> THEN <<options.budget>> ELSE alloc
  /\ stage' = "render"
  /\ UNCHANGED <<bodies, options, natural, unpoured, remaining, emitted, spent>>

\* waterFill: equal shares, from the body that needs least to the one that needs
\* most; what a body leaves goes to those after it.
PourInto(i) ==
  LET share == remaining \div Cardinality(unpoured)
      take == Least(natural[i], share)
  IN /\ alloc' = [alloc EXCEPT ![i] = take]
     /\ remaining' = remaining - take
     /\ unpoured' = unpoured \ {i}
     /\ stage' = IF unpoured' = {} THEN "render" ELSE "pour"
     /\ UNCHANGED <<bodies, options, natural, emitted, spent>>
PourByRank ==   \* mutant: by rank instead
  stage = "pour" /\ \E i \in unpoured : (\A j \in unpoured : i <= j) /\ PourInto(i)
Pour ==
  /\ stage = "pour"
  /\ \E i \in unpoured :
       /\ \A j \in unpoured : natural[i] < natural[j] \/ (natural[i] = natural[j] /\ i <= j)
       /\ PourInto(i)

\* The next result of those that are kept.
Emit ==
  /\ stage = "render" /\ Len(emitted) < Len(alloc)
  /\ LET i == Len(emitted) + 1
         body == Render(bodies[i], alloc[i], natural[i])
     IN emitted' = Append(emitted, body) /\ spent' = spent + body
  /\ UNCHANGED <<stage, bodies, options, natural, alloc, unpoured, remaining>>

Formatted ==
  /\ stage = "render" /\ Len(emitted) = Len(alloc)
  /\ stage' = "done"
  /\ UNCHANGED <<bodies, options, natural, alloc, unpoured, remaining, emitted, spent>>

Dropped == Len(bodies) - Len(alloc)

-----------------------------------------------------------------------------
(* Properties.                                                             *)

Total(s) ==
  LET sum[n \in 0 .. Len(s)] == IF n = 0 THEN 0 ELSE sum[n - 1] + s[n] IN sum[Len(s)]

\* The bodies of a response spend no more than its budget, in whatever way they were
\* found, and it says how much; a budget of one character is the exception, an
\* ellipsis needs two (Format, plan, render).
SpentWithinBudget ==
  stage = "done" => spent = Total(emitted) /\ (options.budget > 1 => spent <= options.budget)

\* A preview is shortened only where everyone's share is short: none has over a
\* character more, and it has the least that is worth showing; a result is dropped
\* only where that would not be left for it (plan, waterFill).
SharesAreFair ==
  stage = "done" /\ ~options.full /\ options.budget > 1 =>
    /\ \A k \in DOMAIN emitted : emitted[k] < Preview(bodies[k], options.length) =>
         /\ emitted[k] >= Least(options.budget, MinPreviewLength)
         /\ \A j \in DOMAIN emitted : emitted[j] <= emitted[k] + 1
    /\ Len(emitted) < Len(bodies) => (Len(emitted) + 1) * MinPreviewLength > options.budget

-----------------------------------------------------------------------------
(* What holds along the way.                                               *)

IsShort(k) == alloc[k] < natural[k]
Minimum == Least(options.budget, MinPreviewLength)

OutputType ==
  /\ stage \in {"idle", "fill", "pour", "render", "done"}
  /\ bodies \in Seq(BodyType) /\ options \in OptionType /\ natural = Natural(bodies, options)
  /\ alloc \in Seq(Nat) /\ Len(alloc) <= Len(bodies)
  /\ unpoured \subseteq DOMAIN alloc /\ remaining \in Nat
  /\ emitted \in Seq(Nat) /\ spent \in Nat

\* Nothing is emitted before all is allocated.
StageInv ==
  /\ stage = "idle" => bodies = <<>> /\ alloc = <<>>
  /\ stage \in {"idle", "fill", "pour"} => emitted = <<>> /\ spent = 0
  /\ stage \in {"fill", "pour"} => options.budget > 0 /\ bodies # <<>>
  /\ stage = "fill" => options.full
  /\ stage = "pour" => ~options.full
  /\ stage # "pour" => unpoured = {}

\* What is not allocated remains.
AllocInv ==
  /\ stage \in {"fill", "pour"} => Total(alloc) + remaining = options.budget
  /\ stage \in {"render", "done"} /\ options.budget > 0 => Total(alloc) <= options.budget
  /\ stage = "fill" => \A i \in DOMAIN alloc : alloc[i] = natural[i]

\* What remains gives each that still waits a share no smaller than any so far; where
\* one so far is short, it is no larger by more than one, and those that wait want more.
PourInv ==
  /\ Len(alloc) = Kept(Len(bodies), options.budget)
  /\ Minimum * Cardinality(unpoured) <= remaining
  /\ \A j \in unpoured : alloc[j] = 0
  /\ \A i \in DOMAIN alloc \ unpoured :
       alloc[i] <= natural[i] /\ alloc[i] * Cardinality(unpoured) <= remaining
  /\ \A k \in DOMAIN alloc \ unpoured : IsShort(k) =>
       /\ alloc[k] >= Minimum
       /\ remaining <= (alloc[k] + 1) * Cardinality(unpoured)
       /\ \A j \in DOMAIN alloc \ unpoured : alloc[j] <= alloc[k] + 1
       /\ \A j \in unpoured : natural[k] <= natural[j]

\* What was allocated in the end.
ShareInv ==
  /\ Len(alloc) = Kept(Len(bodies), options.budget)
  /\ \A k \in DOMAIN alloc : IsShort(k) =>
       alloc[k] >= Minimum /\ \A j \in DOMAIN alloc : alloc[j] <= alloc[k] + 1

EmitInv ==
  /\ Len(emitted) <= Len(alloc) /\ (stage = "done" => Len(emitted) = Len(alloc))
  /\ \A i \in DOMAIN emitted : emitted[i] = Render(bodies[i], alloc[i], natural[i])
  /\ spent = Total(emitted)

OutputInv ==
  /\ OutputType /\ StageInv /\ AllocInv /\ EmitInv
  /\ stage = "pour" => PourInv
  /\ stage \in {"render", "done"} /\ options.budget > 0 /\ bodies # <<>> /\ ~options.full => ShareInv
=============================================================================
