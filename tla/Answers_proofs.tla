--------------------------- MODULE Answers_proofs ---------------------------
(***************************************************************************)
(* Proofs about Answers and OutputBudget, for every table of messages,     *)
(* every request and every budget.                                         *)
(***************************************************************************)
EXTENDS Answers, FunctionTheorems, FiniteSetTheorems, TLAPS

-----------------------------------------------------------------------------
(* Sums.                                                                   *)

\* A set of numbers has a least one.
LEMMA Smallest ==
  ASSUME NEW T \in SUBSET Nat, T # {}
  PROVE  \E x \in T : \A y \in T : x <= y
<1> DEFINE R == OpToRel(<, Nat)
<1>1. IsWellFoundedOn(R, Nat)
  BY NatLessThanWellFounded
<1>2. \A x, y \in Nat : <<x, y>> \in R <=> x < y
  BY DEF OpToRel
<1> HIDE DEF R
<1>3. PICK x \in T : \A y \in T : ~(<<y, x>> \in R)
  BY <1>1, WFMin
<1>4. \A y \in T : x \in Nat /\ y \in Nat /\ ~(y < x)
  BY <1>2, <1>3
<1> QED BY <1>4

\* The partial sums of a sequence.
Sums(s, g) ==
  /\ g \in [0 .. Len(s) -> Nat]
  /\ g[0] = 0
  /\ \A n \in 1 .. Len(s) : g[n] = g[n - 1] + s[n]

\* Every sequence of numbers has partial sums.
LEMMA SumsExist ==
  ASSUME NEW s \in Seq(Nat)
  PROVE  \E g : Sums(s, g)
<1> DEFINE P(m, g) == /\ g \in [0 .. m -> Nat]
                      /\ g[0] = 0
                      /\ \A n \in 1 .. m : g[n] = g[n - 1] + s[n]
           Bad == {m \in 0 .. Len(s) : ~ \E g : P(m, g)}
<1>0. Len(s) \in Nat /\ \A n \in 1 .. Len(s) : s[n] \in Nat
  OBVIOUS
<1>1. Bad = {}
  <2> SUFFICES ASSUME Bad # {} PROVE FALSE
    OBVIOUS
  <2>1. Bad \in SUBSET Nat
    BY <1>0
  <2>2. PICK m \in Bad : \A k \in Bad : m <= k
    <3> HIDE DEF Bad
    <3> QED BY <2>1, Smallest
  <2>3. m \in 0 .. Len(s) /\ ~ \E g : P(m, g)
    BY <2>2
  <2>4. CASE m = 0
    <3>1. P(0, [n \in 0 .. 0 |-> 0])
      OBVIOUS
    <3> QED BY <2>3, <2>4, <3>1
  <2>5. CASE m # 0
    <3>1. m - 1 \in 0 .. Len(s) /\ m - 1 < m /\ m \in 1 .. Len(s)
      BY <1>0, <2>3, <2>5
    <3>2. m - 1 \notin Bad
      <4> HIDE DEF Bad
      <4> QED BY <2>1, <2>2, <3>1
    <3>3. PICK g : P(m - 1, g)
      BY <3>1, <3>2
    <3> DEFINE h == [n \in 0 .. m |-> IF n = m THEN g[m - 1] + s[m] ELSE g[n]]
    <3>4. g[m - 1] \in Nat /\ s[m] \in Nat
      BY <1>0, <3>1, <3>3
    <3>5. h \in [0 .. m -> Nat] /\ h[0] = 0
      BY <1>0, <2>3, <2>5, <3>1, <3>3, <3>4
    <3>6. ASSUME NEW n \in 1 .. m PROVE h[n] = h[n - 1] + s[n]
      <4>1. n - 1 \in 0 .. m /\ n \in 0 .. m /\ n - 1 # m /\ (n # m => n \in 1 .. m - 1)
        BY <1>0, <2>3
      <4> QED BY <3>3, <3>1, <4>1
    <3>7. P(m, h)
      BY <3>5, <3>6
    <3> QED BY <2>3, <3>7
  <2> QED BY <2>4, <2>5
<1>2. Len(s) \in 0 .. Len(s)
  BY <1>0
<1>3. \E g : P(Len(s), g)
  BY <1>1, <1>2
<1> QED BY <1>3 DEF Sums

\* They are unique.
LEMMA SumsAreUnique ==
  ASSUME NEW s \in Seq(Nat), NEW g, NEW h, Sums(s, g), Sums(s, h)
  PROVE  g = h
<1> DEFINE Bad == {n \in 0 .. Len(s) : g[n] # h[n]}
<1>0. Len(s) \in Nat
  OBVIOUS
<1>1. Bad = {}
  <2> SUFFICES ASSUME Bad # {} PROVE FALSE
    OBVIOUS
  <2>1. Bad \in SUBSET Nat
    BY <1>0
  <2>2. PICK m \in Bad : \A k \in Bad : m <= k
    <3> HIDE DEF Bad
    <3> QED BY <2>1, Smallest
  <2>3. m \in 0 .. Len(s) /\ g[m] # h[m]
    BY <2>2
  <2>4. m # 0
    BY <2>3 DEF Sums
  <2>5. m \in 1 .. Len(s) /\ m - 1 \in 0 .. Len(s) /\ m - 1 < m
    BY <1>0, <2>3, <2>4
  <2>6. m - 1 \notin Bad
    <3> HIDE DEF Bad
    <3> QED BY <2>1, <2>2, <2>5
  <2>7. g[m - 1] = h[m - 1]
    BY <2>5, <2>6
  <2> QED BY <2>3, <2>5, <2>7 DEF Sums
<1> QED BY <1>1 DEF Sums

\* The total of a sequence is its last partial sum.
LEMMA TotalIs ==
  ASSUME NEW s \in Seq(Nat), NEW g, Sums(s, g)
  PROVE  Total(s) = g[Len(s)]
<1> DEFINE E(f) == f = [n \in 0 .. Len(s) |-> IF n = 0 THEN 0 ELSE f[n - 1] + s[n]]
           sum == CHOOSE f : E(f)
<1>0. Len(s) \in Nat
  OBVIOUS
<1>1. E(g)
  <2>1. \A n \in 0 .. Len(s) : g[n] = IF n = 0 THEN 0 ELSE g[n - 1] + s[n]
    BY <1>0 DEF Sums
  <2> QED BY <2>1 DEF Sums
<1>2. E(sum)
  BY <1>1
<1>3. Total(s) = sum[Len(s)]
  BY DEF Total
<1> HIDE DEF sum
<1>4. \A n \in 0 .. Len(s) : sum[n] = IF n = 0 THEN 0 ELSE sum[n - 1] + s[n]
  BY <1>2
<1> DEFINE Bad == {n \in 0 .. Len(s) : sum[n] # g[n]}
<1>5. Bad = {}
  <2> SUFFICES ASSUME Bad # {} PROVE FALSE
    OBVIOUS
  <2>1. Bad \in SUBSET Nat
    BY <1>0
  <2>2. PICK m \in Bad : \A k \in Bad : m <= k
    <3> HIDE DEF Bad
    <3> QED BY <2>1, Smallest
  <2>3. m \in 0 .. Len(s) /\ sum[m] # g[m]
    BY <2>2
  <2>4. m # 0
    BY <2>3, <1>4 DEF Sums
  <2>5. m \in 1 .. Len(s) /\ m - 1 \in 0 .. Len(s) /\ m - 1 < m
    BY <1>0, <2>3, <2>4
  <2>6. m - 1 \notin Bad
    <3> HIDE DEF Bad
    <3> QED BY <2>1, <2>2, <2>5
  <2>7. sum[m - 1] = g[m - 1]
    BY <2>5, <2>6
  <2>8. sum[m] = sum[m - 1] + s[m] /\ g[m] = g[m - 1] + s[m]
    BY <1>4, <2>3, <2>4, <2>5 DEF Sums
  <2> QED BY <2>3, <2>7, <2>8
<1> QED BY <1>0, <1>3, <1>5

\* The total is a number.
LEMMA TotalType ==
  ASSUME NEW s \in Seq(Nat)
  PROVE  Total(s) \in Nat
<1>1. PICK g : Sums(s, g)
  BY SumsExist
<1>2. Len(s) \in 0 .. Len(s)
  OBVIOUS
<1> QED BY <1>1, <1>2, TotalIs DEF Sums

\* That of zeros is zero,
LEMMA TotalOfZeros ==
  ASSUME NEW s \in Seq(Nat), \A i \in 1 .. Len(s) : s[i] = 0
  PROVE  Total(s) = 0
<1> DEFINE g == [n \in 0 .. Len(s) |-> 0]
<1>1. Len(s) \in 0 .. Len(s) /\ Len(s) \in Nat
  OBVIOUS
<1>2. \A n \in 1 .. Len(s) : n \in 0 .. Len(s) /\ n - 1 \in 0 .. Len(s)
  BY <1>1
<1>3. Sums(s, g)
  BY <1>1, <1>2 DEF Sums
<1>4. Total(s) = g[Len(s)]
  <2> HIDE DEF g
  <2> QED BY <1>3, TotalIs
<1> QED BY <1>1, <1>4

\* and so is that of nothing.
LEMMA TotalOfNothing ==
  <<>> \in Seq(Nat) /\ Len(<<>>) = 0 /\ DOMAIN <<>> = {} /\ Total(<<>>) = 0
<1>1. <<>> \in Seq(Nat) /\ Len(<<>>) = 0 /\ DOMAIN <<>> = {}
  OBVIOUS
<1> DEFINE s == <<>>
<1>2. s \in Seq(Nat) /\ \A i \in 1 .. Len(s) : s[i] = 0
  BY <1>1
<1> HIDE DEF s
<1>3. Total(s) = 0
  BY <1>2, TotalOfZeros
<1> QED BY <1>1, <1>3 DEF s

\* One more element adds to the total.
LEMMA TotalAppend ==
  ASSUME NEW s \in Seq(Nat), NEW x \in Nat
  PROVE  Total(Append(s, x)) = Total(s) + x
<1>1. PICK g : Sums(s, g)
  BY SumsExist
<1> DEFINE t == Append(s, x)
           h == [n \in 0 .. Len(t) |-> IF n = Len(t) THEN g[Len(s)] + x ELSE g[n]]
<1>2. /\ t \in Seq(Nat) /\ Len(t) = Len(s) + 1 /\ Len(s) \in Nat
      /\ t[Len(t)] = x /\ \A n \in 1 .. Len(s) : t[n] = s[n]
  OBVIOUS
<1> HIDE DEF t
<1>3. g[Len(s)] \in Nat /\ g[Len(s)] = Total(s)
  <2>1. g[Len(s)] \in Nat BY <1>1, <1>2 DEF Sums
  <2>2. g[Len(s)] = Total(s) BY <1>1, TotalIs
  <2> QED BY <2>1, <2>2
<1>4. h \in [0 .. Len(t) -> Nat] /\ h[0] = 0
  BY <1>1, <1>2, <1>3 DEF Sums
<1>5. ASSUME NEW n \in 1 .. Len(t) PROVE h[n] = h[n - 1] + t[n]
  <2>1. n - 1 \in 0 .. Len(t) /\ n \in 0 .. Len(t) /\ n - 1 # Len(t)
    BY <1>2
  <2>2. CASE n = Len(t)
    BY <1>2, <2>1, <2>2
  <2>3. CASE n # Len(t)
    <3>1. n \in 1 .. Len(s)
      BY <1>2, <2>3
    <3> QED BY <1>1, <1>2, <2>1, <2>3, <3>1 DEF Sums
  <2> QED BY <2>2, <2>3
<1>6. Sums(t, h)
  BY <1>4, <1>5 DEF Sums
<1>7. Total(t) = h[Len(t)] /\ h[Len(t)] = g[Len(s)] + x
  <2>1. h[Len(t)] = g[Len(s)] + x
    BY <1>2
  <2> HIDE DEF h
  <2> QED BY <1>2, <1>6, <2>1, TotalIs
<1> QED BY <1>3, <1>7 DEF t

\* So does an element that takes the place of a zero.
LEMMA TotalExcept ==
  ASSUME NEW s \in Seq(Nat), NEW i \in 1 .. Len(s), NEW x \in Nat, s[i] = 0
  PROVE  /\ [s EXCEPT ![i] = x] \in Seq(Nat)
         /\ Total([s EXCEPT ![i] = x]) = Total(s) + x
<1>1. PICK g : Sums(s, g)
  BY SumsExist
<1> DEFINE t == [s EXCEPT ![i] = x]
           h == [n \in 0 .. Len(s) |-> IF n < i THEN g[n] ELSE g[n] + x]
<1>2. /\ t \in Seq(Nat) /\ Len(t) = Len(s) /\ Len(s) \in Nat
      /\ t[i] = x /\ \A n \in 1 .. Len(s) : n # i => t[n] = s[n]
  OBVIOUS
<1> HIDE DEF t
<1>3. g[Len(s)] \in Nat /\ g[Len(s)] = Total(s) /\ \A n \in 0 .. Len(s) : g[n] \in Nat
  <2>1. \A n \in 0 .. Len(s) : g[n] \in Nat BY <1>1 DEF Sums
  <2>2. g[Len(s)] \in Nat BY <2>1, <1>2
  <2>3. g[Len(s)] = Total(s) BY <1>1, TotalIs
  <2> QED BY <2>1, <2>2, <2>3
<1>4. h \in [0 .. Len(s) -> Nat] /\ h[0] = 0
  BY <1>1, <1>2, <1>3 DEF Sums
<1>5. ASSUME NEW n \in 1 .. Len(s) PROVE h[n] = h[n - 1] + t[n]
  <2>1. n - 1 \in 0 .. Len(s) /\ n \in 0 .. Len(s) /\ n \in Nat /\ i \in Nat
    BY <1>2
  <2>2. g[n] = g[n - 1] + s[n] /\ g[n] \in Nat /\ g[n - 1] \in Nat
    BY <1>1, <1>3, <2>1 DEF Sums
  <2>3. CASE n = i
    <3>1. n - 1 < i /\ ~(n < i)
      BY <2>1, <2>3
    <3>2. h[n] = g[n] + x /\ h[n - 1] = g[n - 1]
      BY <2>1, <3>1
    <3>3. t[n] = x /\ s[n] = 0
      BY <1>2, <2>3
    <3> HIDE DEF h
    <3> QED BY <2>2, <3>2, <3>3
  <2>4. CASE n < i
    <3>1. n - 1 < i /\ n # i
      BY <2>1, <2>4
    <3>2. h[n] = g[n] /\ h[n - 1] = g[n - 1] /\ t[n] = s[n]
      BY <1>2, <2>1, <2>4, <3>1
    <3> HIDE DEF h
    <3> QED BY <2>2, <3>2
  <2>5. CASE n > i
    <3>1. ~(n - 1 < i) /\ ~(n < i) /\ n # i
      BY <2>1, <2>5
    <3>2. h[n] = g[n] + x /\ h[n - 1] = g[n - 1] + x /\ t[n] = s[n]
      BY <1>2, <2>1, <3>1
    <3>3. s[n] \in Nat
      BY <1>2
    <3> HIDE DEF h
    <3> QED BY <2>2, <3>2, <3>3
  <2> QED BY <2>1, <2>3, <2>4, <2>5
<1>6. Sums(t, h)
  BY <1>2, <1>4, <1>5 DEF Sums
<1>7. h[Len(s)] = g[Len(s)] + x
  <2>1. Len(s) \in 0 .. Len(s) /\ ~(Len(s) < i)
    BY <1>2
  <2> QED BY <2>1
<1>8. Total(t) = h[Len(t)]
  <2> HIDE DEF h
  <2> QED BY <1>2, <1>6, TotalIs
<1> QED BY <1>2, <1>3, <1>7, <1>8 DEF t

\* What is smaller element by element, and no longer, has the smaller total.
LEMMA TotalBound ==
  ASSUME NEW s \in Seq(Nat), NEW t \in Seq(Nat), Len(s) <= Len(t),
         \A i \in 1 .. Len(s) : s[i] <= t[i]
  PROVE  Total(s) <= Total(t)
<1>1. PICK g : Sums(s, g)
  BY SumsExist
<1>2. PICK h : Sums(t, h)
  BY SumsExist
<1>3. Len(s) \in Nat /\ Len(t) \in Nat
  OBVIOUS
<1>4. Total(s) = g[Len(s)] /\ Total(t) = h[Len(t)]
  BY <1>1, <1>2, TotalIs
<1>5. /\ \A n \in 0 .. Len(s) : g[n] \in Nat
      /\ \A n \in 0 .. Len(t) : h[n] \in Nat
      /\ \A n \in 1 .. Len(s) : g[n] = g[n - 1] + s[n]
      /\ \A n \in 1 .. Len(t) : h[n] = h[n - 1] + t[n]
      /\ g[0] = 0
  BY <1>1, <1>2 DEF Sums
<1> DEFINE top(n) == IF n <= Len(s) THEN g[n] ELSE g[Len(s)]
           Bad == {n \in 0 .. Len(t) : ~(top(n) <= h[n])}
<1>6. Bad = {}
  <2> SUFFICES ASSUME Bad # {} PROVE FALSE
    OBVIOUS
  <2>1. Bad \in SUBSET Nat
    BY <1>3
  <2>2. PICK m \in Bad : \A k \in Bad : m <= k
    <3> HIDE DEF Bad
    <3> QED BY <2>1, Smallest
  <2>3. m \in 0 .. Len(t) /\ ~(top(m) <= h[m])
    BY <2>2
  <2>4. m # 0
    <3>1. 0 \in 0 .. Len(t) /\ 0 <= Len(s)
      BY <1>3
    <3>2. top(0) = 0 /\ h[0] \in Nat
      BY <1>5, <3>1
    <3> QED BY <2>3, <3>2
  <2>5. m \in 1 .. Len(t) /\ m - 1 \in 0 .. Len(t) /\ m - 1 < m /\ m \in Nat
    BY <1>3, <2>3, <2>4
  <2>6. m - 1 \notin Bad
    <3> HIDE DEF Bad
    <3> QED BY <2>1, <2>2, <2>5
  <2>7. top(m - 1) <= h[m - 1]
    BY <2>5, <2>6
  <2>8. h[m] = h[m - 1] + t[m] /\ h[m - 1] \in Nat /\ t[m] \in Nat /\ h[m] \in Nat
    <3>1. t[m] \in Nat BY <2>5
    <3>2. h[m - 1] \in Nat /\ h[m] \in Nat BY <1>5, <2>3, <2>5
    <3>3. h[m] = h[m - 1] + t[m] BY <1>5, <2>5
    <3> QED BY <3>1, <3>2, <3>3
  <2>9. CASE m <= Len(s)
    <3>1. m \in 1 .. Len(s) /\ m - 1 \in 0 .. Len(s) /\ m \in 0 .. Len(s) /\ m - 1 <= Len(s)
      BY <1>3, <2>5, <2>9
    <3>2. g[m] = g[m - 1] + s[m] /\ g[m - 1] \in Nat
      BY <1>5, <3>1
    <3>3. s[m] \in Nat /\ s[m] <= t[m]
      BY <3>1
    <3>4. ~(g[m] <= h[m])
      BY <2>3, <2>9
    <3>5. g[m - 1] <= h[m - 1]
      BY <2>7, <3>1
    <3>6. \A a, b, c, d \in Nat : a <= b /\ c <= d => a + c <= b + d
      OBVIOUS
    <3>7. g[m - 1] + s[m] <= h[m - 1] + t[m]
      BY <2>8, <3>2, <3>3, <3>5, <3>6
    <3> QED BY <2>8, <3>2, <3>4, <3>7
  <2>10. CASE m > Len(s)
    <3>1. Len(s) \in 0 .. Len(s) /\ ~(m <= Len(s))
      BY <1>3, <2>5, <2>10
    <3>2. g[Len(s)] \in Nat
      BY <1>5, <3>1
    <3>3. top(m) = g[Len(s)]
      BY <3>1
    <3>4. m - 1 <= Len(s) => m - 1 = Len(s)
      BY <1>3, <2>5, <2>10
    <3>5. top(m - 1) = g[Len(s)]
      BY <3>4
    <3> HIDE DEF top
    <3> QED BY <2>3, <2>7, <2>8, <3>2, <3>3, <3>5
  <2> QED BY <1>3, <2>5, <2>9, <2>10
<1>7. Len(t) \in 0 .. Len(t) /\ Len(s) \in 0 .. Len(s) /\ (Len(t) <= Len(s) => Len(t) = Len(s))
  BY <1>3
<1>8. top(Len(t)) <= h[Len(t)]
  BY <1>6, <1>7
<1>9. top(Len(t)) = g[Len(s)]
  BY <1>7
<1> HIDE DEF top
<1> QED BY <1>4, <1>8, <1>9

-----------------------------------------------------------------------------
(* Arithmetic of shares.                                                   *)

\* A share is what a division leaves everyone.
LEMMA ShareIs ==
  ASSUME NEW r \in Nat, NEW n \in Nat \ {0}
  PROVE  /\ r \div n \in Nat
         /\ (r \div n) * n <= r
         /\ r < (r \div n + 1) * n
  BY SMT

\* Who multiplies to no more than r has no more than the share.
LEMMA ShareBounds ==
  ASSUME NEW r \in Nat, NEW n \in Nat \ {0}, NEW a \in Nat
  PROVE  /\ a * n <= r => a <= r \div n
         /\ r <= (a + 1) * n => r \div n <= a + 1
<1> DEFINE q == r \div n
<1>1. q \in Nat /\ q * n <= r /\ r < (q + 1) * n
  BY ShareIs
<1> HIDE DEF q
<1>2. ASSUME NEW b \in Nat, NEW c \in Nat, b * n < c * n
      PROVE  b < c
  <2>1. SUFFICES ASSUME c <= b PROVE FALSE
    OBVIOUS
  <2>2. PICK d \in Nat : b = c + d
    BY <2>1
  <2>3. b * n = c * n + d * n /\ d * n \in Nat /\ c * n \in Nat
    BY <2>2
  <2> QED BY <1>2, <2>3
<1>3. ASSUME a * n <= r PROVE a <= q
  <2>1. a * n < (q + 1) * n
    BY <1>1, <1>3
  <2>2. a < q + 1
    BY <1>1, <1>2, <2>1
  <2> QED BY <1>1, <2>2
<1>4. ASSUME r <= (a + 1) * n PROVE q <= a + 1
  <2>1. CASE q * n = (a + 1) * n
    <3>1. ~(a + 1 < q)
      <4>1. SUFFICES ASSUME a + 1 < q PROVE FALSE
        OBVIOUS
      <4>2. PICK d \in Nat \ {0} : q = (a + 1) + d
        <5>1. q - (a + 1) \in Nat \ {0} /\ q = (a + 1) + (q - (a + 1))
          BY <1>1, <4>1
        <5> QED BY <5>1
      <4>3. q * n = (a + 1) * n + d * n /\ d * n > 0 /\ (a + 1) * n \in Nat
        BY <4>2
      <4> QED BY <2>1, <4>3
    <3> QED BY <1>1, <3>1
  <2>2. CASE q * n # (a + 1) * n
    <3>1. q * n < (a + 1) * n
      BY <1>1, <1>4, <2>2
    <3>2. q < a + 1
      BY <1>1, <1>2, <3>1
    <3> QED BY <1>1, <3>2
  <2> QED BY <2>1, <2>2
<1> QED BY <1>3, <1>4 DEF q

\* After a share or less is taken, what remains gives the others no smaller one, and
\* one no larger by more than one if the share itself is taken.
LEMMA ShareTaken ==
  ASSUME NEW r \in Nat, NEW n \in Nat \ {0}, NEW t \in Nat, t <= r \div n
  PROVE  /\ r - t \in Nat
         /\ \A a \in Nat : a * n <= r => a * (n - 1) <= r - t
         /\ t * (n - 1) <= r - t
         /\ \A a \in Nat : r <= (a + 1) * n /\ t >= a /\ (t > a \/ t = r \div n)
                             => r - t <= (a + 1) * (n - 1)
         /\ t = r \div n => r - t <= (t + 1) * (n - 1)
<1> DEFINE q == r \div n
<1>1. q \in Nat /\ q * n <= r /\ r < (q + 1) * n
  BY ShareIs
<1>0. t <= q
  OBVIOUS
<1> HIDE DEF q
<1>2. \A a \in Int : a * (n - 1) = a * n - a
  OBVIOUS
<1>3. \A a \in Nat : a <= q => a * n <= q * n
  <2> SUFFICES ASSUME NEW a \in Nat, a <= q PROVE a * n <= q * n
    OBVIOUS
  <2>1. PICK d \in Nat : q = a + d
    <3>1. q - a \in Nat /\ q = a + (q - a)
      BY <1>1
    <3> QED BY <3>1
  <2>2. q * n = a * n + d * n /\ d * n \in Nat /\ a * n \in Nat
    BY <2>1
  <2> QED BY <2>2
<1>4. q <= q * n
  <2>1. q * n = q + q * (n - 1) /\ q * (n - 1) \in Nat
    BY <1>1
  <2> QED BY <1>1, <2>1
<1>5. r - t \in Nat
  <2>1. q * n \in Nat
    BY <1>1
  <2> QED BY <1>0, <1>1, <1>4, <2>1
<1>6. ASSUME NEW a \in Nat, a <= q PROVE a * (n - 1) <= r - t
  <2>1. PICK d \in Nat : q = a + d
    <3>1. q - a \in Nat /\ q = a + (q - a)
      BY <1>1, <1>6
    <3> QED BY <3>1
  <2>2. q * (n - 1) = a * (n - 1) + d * (n - 1) /\ d * (n - 1) \in Nat
        /\ a * (n - 1) \in Nat
    BY <2>1
  <2>3. q * (n - 1) = q * n - q /\ q * n \in Nat
    BY <1>1, <1>2
  <2> QED BY <1>0, <1>1, <2>2, <2>3
<1>7. ASSUME NEW a \in Nat, a * n <= r PROVE a * (n - 1) <= r - t
  <2>1. a <= q
    BY <1>7, ShareBounds DEF q
  <2> QED BY <1>6, <2>1
<1>8. t * (n - 1) <= r - t
  BY <1>0, <1>6
<1>9. ASSUME t = q PROVE r - t <= (t + 1) * (n - 1)
  <2>1. (q + 1) * (n - 1) = (q + 1) * n - (q + 1) /\ (q + 1) * n \in Nat
    BY <1>1, <1>2
  <2> QED BY <1>1, <1>9, <2>1
<1>10. ASSUME NEW a \in Nat, r <= (a + 1) * n, t >= a, t > a \/ t = q
       PROVE  r - t <= (a + 1) * (n - 1)
  <2>1. (a + 1) * (n - 1) = (a + 1) * n - (a + 1) /\ (a + 1) * n \in Nat
    BY <1>2
  <2>2. CASE t > a
    BY <1>10, <2>1, <2>2
  <2>3. CASE t = a
    <3>1. t = q /\ q = a
      BY <1>10, <2>3
    <3> QED BY <1>9, <3>1
  <2> QED BY <1>10, <2>2, <2>3
<1> QED BY <1>5, <1>7, <1>8, <1>9, <1>10 DEF q

-----------------------------------------------------------------------------
(* The operators of OutputBudget.                                          *)

\* A preview is no longer than asked for, but for its ellipsis.
LEMMA PreviewType ==
  ASSUME NEW body \in BodyType, NEW n \in Nat
  PROVE  Preview(body, n) \in Nat /\ Preview(body, n) <= n + 1 /\ Preview(body, n) <= body.flat + 1
  BY DEF Preview, BodyType

\* What bodies take without a budget, one number for each.
LEMMA NaturalType ==
  ASSUME NEW given \in Seq(BodyType), NEW o \in OptionType
  PROVE  /\ Natural(given, o) \in Seq(Nat)
         /\ Len(Natural(given, o)) = Len(given)
         /\ \A i \in 1 .. Len(given) :
              /\ given[i] \in BodyType
              /\ Natural(given, o)[i]
                   = IF o.full THEN given[i].raw ELSE Preview(given[i], o.length)
<1>1. Len(given) \in Nat /\ DOMAIN given = 1 .. Len(given)
      /\ \A i \in 1 .. Len(given) : given[i] \in BodyType
  OBVIOUS
<1> DEFINE f(i) == IF o.full THEN given[i].raw ELSE Preview(given[i], o.length)
<1>2. \A i \in 1 .. Len(given) : f(i) \in Nat
  <2> SUFFICES ASSUME NEW i \in 1 .. Len(given) PROVE f(i) \in Nat
    OBVIOUS
  <2>1. given[i].raw \in Nat
    BY <1>1 DEF BodyType
  <2>2. Preview(given[i], o.length) \in Nat
    BY <1>1, PreviewType DEF OptionType
  <2> QED BY <2>1, <2>2
<1>3. Natural(given, o) = [i \in 1 .. Len(given) |-> f(i)]
  BY <1>1 DEF Natural
<1> HIDE DEF f
<1>4. Natural(given, o) \in Seq(Nat) /\ Len(Natural(given, o)) = Len(given)
      /\ \A i \in 1 .. Len(given) : Natural(given, o)[i] = f(i)
  BY <1>1, <1>2, <1>3
<1> QED BY <1>1, <1>4 DEF f

\* There is a preview at least; the budget has their minimum for all, or is given to
\* one alone, and one more has not.
LEMMA KeptIs ==
  ASSUME NEW n \in Nat \ {0}, NEW b \in Nat \ {0}
  PROVE  /\ Kept(n, b) \in 1 .. n
         /\ Least(b, MinPreviewLength) * Kept(n, b) <= b
         /\ Kept(n, b) < n => (Kept(n, b) + 1) * MinPreviewLength > b
<1> DEFINE q == b \div MinPreviewLength
           least == Least(b, MinPreviewLength)
<1>0. MinPreviewLength \in Nat /\ MinPreviewLength > 1
  BY BudgetConstants
<1>1. q \in Nat /\ q * MinPreviewLength <= b /\ b < (q + 1) * MinPreviewLength
  BY <1>0, ShareIs
<1>2. least \in Nat /\ least <= MinPreviewLength /\ least <= b
  BY <1>0 DEF Least
<1>3. Kept(n, b) = IF Least(n, q) < 1 THEN 1 ELSE Least(n, q)
  BY DEF Kept
<1> HIDE DEF q, least
<1>4. CASE q = 0
  <2>1. Kept(n, b) = 1
    BY <1>3, <1>4 DEF Least
  <2>2. b < MinPreviewLength
    BY <1>0, <1>1, <1>4
  <2> QED BY <1>0, <1>2, <2>1, <2>2 DEF least
<1>5. CASE q # 0
  <2>1. Kept(n, b) \in 1 .. n /\ Kept(n, b) <= q /\ (Kept(n, b) < n => Kept(n, b) = q)
    BY <1>1, <1>3, <1>5 DEF Least
  <2>2. PICK d \in Nat : q = Kept(n, b) + d
    <3>1. q - Kept(n, b) \in Nat /\ q = Kept(n, b) + (q - Kept(n, b))
      BY <1>1, <2>1
    <3> QED BY <3>1
  <2>3. PICK e \in Nat : MinPreviewLength = least + e
    <3>1. MinPreviewLength - least \in Nat /\ MinPreviewLength = least + (MinPreviewLength - least)
      BY <1>0, <1>2
    <3> QED BY <3>1
  <2>4. least * Kept(n, b) <= Kept(n, b) * MinPreviewLength
    <3>1. Kept(n, b) * MinPreviewLength = least * Kept(n, b) + e * Kept(n, b)
          /\ e * Kept(n, b) \in Nat /\ least * Kept(n, b) \in Nat
      BY <1>2, <2>1, <2>3
    <3> QED BY <3>1
  <2>5. Kept(n, b) * MinPreviewLength <= q * MinPreviewLength
    <3>1. q * MinPreviewLength = Kept(n, b) * MinPreviewLength + d * MinPreviewLength
          /\ d * MinPreviewLength \in Nat /\ Kept(n, b) * MinPreviewLength \in Nat
      BY <1>0, <2>1, <2>2
    <3> QED BY <3>1
  <2>6. least * Kept(n, b) \in Nat /\ Kept(n, b) * MinPreviewLength \in Nat
        /\ q * MinPreviewLength \in Nat
    BY <1>0, <1>1, <1>2, <2>1
  <2>7. least * Kept(n, b) <= b
    BY <1>1, <2>4, <2>5, <2>6
  <2>8. Kept(n, b) < n => (Kept(n, b) + 1) * MinPreviewLength > b
    BY <1>0, <1>1, <2>1
  <2> QED BY <2>1, <2>7, <2>8 DEF least
<1> QED BY <1>1, <1>4, <1>5

\* What is rendered of a body is a number.
LEMMA RenderType ==
  ASSUME NEW body \in BodyType, NEW share \in Nat, NEW whole \in Nat
  PROVE  Render(body, share, whole) \in Nat
<1>1. body.raw \in Nat
  BY DEF BodyType
<1>2. Preview(body, (IF share < 2 THEN 2 ELSE share) - 1) \in Nat
  BY PreviewType
<1> QED BY <1>1, <1>2 DEF Render, Least

\* Elements of the sequences of a response.
LEMMA OutputElements ==
  ASSUME OutputType
  PROVE  /\ natural \in Seq(Nat) /\ Len(natural) = Len(bodies)
         /\ Len(bodies) \in Nat /\ Len(alloc) \in Nat /\ Len(emitted) \in Nat
         /\ DOMAIN alloc = 1 .. Len(alloc) /\ DOMAIN emitted = 1 .. Len(emitted)
         /\ \A i \in 1 .. Len(bodies) :
              /\ bodies[i] \in BodyType /\ natural[i] \in Nat
              /\ natural[i] = IF options.full THEN bodies[i].raw ELSE Preview(bodies[i], options.length)
         /\ \A i \in 1 .. Len(alloc) : alloc[i] \in Nat /\ i \in 1 .. Len(bodies)
<1>1. natural \in Seq(Nat) /\ Len(natural) = Len(bodies)
      /\ \A i \in 1 .. Len(bodies) :
           /\ bodies[i] \in BodyType
           /\ natural[i] = IF options.full THEN bodies[i].raw ELSE Preview(bodies[i], options.length)
  BY NaturalType DEF OutputType
<1>2. Len(bodies) \in Nat /\ Len(alloc) \in Nat /\ Len(emitted) \in Nat /\ Len(alloc) <= Len(bodies)
      /\ DOMAIN alloc = 1 .. Len(alloc) /\ DOMAIN emitted = 1 .. Len(emitted)
      /\ \A i \in 1 .. Len(alloc) : alloc[i] \in Nat
  BY DEF OutputType
<1>3. \A i \in 1 .. Len(bodies) : natural[i] \in Nat
  BY <1>1
<1>4. \A i \in 1 .. Len(alloc) : i \in 1 .. Len(bodies)
  BY <1>2
<1> QED BY <1>1, <1>2, <1>3, <1>4

-----------------------------------------------------------------------------
(* The invariant of OutputBudget.                                          *)

\* It holds of a response that is not there yet.
LEMMA IdleInv == OutputInit => OutputInv
<1> SUFFICES ASSUME OutputInit PROVE OutputInv
  OBVIOUS
<1>1. /\ stage = "idle" /\ bodies = <<>> /\ natural = <<>> /\ alloc = <<>> /\ emitted = <<>>
      /\ options = [budget |-> 0, full |-> FALSE, length |-> 1]
      /\ unpoured = {} /\ remaining = 0 /\ spent = 0
  BY DEF OutputInit
<1>2. options \in OptionType
  BY <1>1 DEF OptionType
<1>3. <<>> \in Seq(Nat) /\ <<>> \in Seq(BodyType) /\ Len(<<>>) = 0 /\ DOMAIN <<>> = {}
  OBVIOUS
<1>4. Natural(<<>>, options) = <<>>
  <2>1. Natural(<<>>, options) \in Seq(Nat) /\ Len(Natural(<<>>, options)) = 0
    BY <1>2, <1>3, NaturalType
  <2> QED BY <2>1
<1>5. Total(<<>>) = 0
  BY TotalOfNothing
<1> QED BY <1>1, <1>2, <1>3, <1>4, <1>5
        DEF OutputInv, OutputType, StageInv, AllocInv, EmitInv

\* plan establishes it, whatever it decides.
LEMMA FormatInv ==
  ASSUME OutputInv, NEW given \in Seq(BodyType), Format(given)
  PROVE  OutputInv'
<1>1. /\ stage = "idle" /\ emitted = <<>> /\ spent = 0
      /\ bodies' = given /\ options' \in OptionType /\ natural' = Natural(bodies', options')
      /\ remaining' = options'.budget /\ remaining' \in Nat
      /\ emitted' = <<>> /\ spent' = 0
  BY BudgetConstants DEF OutputInv, StageInv, Format, OptionType
<1>2. /\ natural' \in Seq(Nat) /\ Len(natural') = Len(given) /\ Len(given) \in Nat
      /\ DOMAIN natural' = 1 .. Len(given)
  BY <1>1, NaturalType
<1>3. <<>> \in Seq(Nat) /\ Len(<<>>) = 0 /\ DOMAIN <<>> = {} /\ Total(<<>>) = 0
  BY TotalOfNothing
<1>4. CASE (given = <<>> \/ options'.budget = 0) /\ alloc' = natural' /\ unpoured' = {} /\ stage' = "render"
  <2>1. OutputType'
    BY <1>1, <1>2, <1>3, <1>4 DEF OutputType
  <2>2. StageInv'
    BY <1>1, <1>4 DEF StageInv
  <2>3. EmitInv'
    <3>1. (Len(alloc) \in Nat)' BY <1>2, <1>4
    <3> QED BY <1>1, <1>3, <1>4, <3>1 DEF EmitInv
  <2>4. AllocInv'
    <3>1. CASE options'.budget = 0
      BY <1>4, <3>1 DEF AllocInv
    <3>2. CASE given = <<>>
      <4>1. \A i \in 1 .. Len(natural') : natural'[i] = 0
        BY <1>2, <3>2
      <4>2. Total(natural') = 0
        BY <1>2, <4>1, TotalOfZeros
      <4> QED BY <1>1, <1>4, <4>2 DEF AllocInv
    <3> QED BY <1>4, <3>1, <3>2
  <2>5. ~(options'.budget > 0 /\ bodies' # <<>>)
    BY <1>1, <1>4
  <2> QED BY <1>4, <2>1, <2>2, <2>3, <2>4, <2>5 DEF OutputInv
<1>5. CASE given # <<>> /\ options'.budget > 0 /\ options'.full /\ alloc' = <<>> /\ unpoured' = {} /\ stage' = "fill"
  <2>1. OutputType'
    BY <1>1, <1>2, <1>3, <1>5 DEF OutputType
  <2>2. StageInv'
    BY <1>1, <1>5 DEF StageInv
  <2>3. EmitInv'
    BY <1>1, <1>3, <1>5 DEF EmitInv
  <2>4. AllocInv'
    BY <1>1, <1>3, <1>5 DEF AllocInv
  <2> QED BY <1>5, <2>1, <2>2, <2>3, <2>4 DEF OutputInv
<1>6. CASE /\ given # <<>> /\ options'.budget > 0 /\ ~options'.full
           /\ unpoured' = 1 .. Kept(Len(given), options'.budget)
           /\ alloc' = [i \in unpoured' |-> 0]
           /\ stage' = "pour"
  <2> DEFINE kept == Kept(Len(given), options'.budget)
  <2>1. Len(given) \in Nat \ {0} /\ options'.budget \in Nat \ {0}
    BY <1>1, <1>2, <1>6
  <2>2. kept \in 1 .. Len(given) /\ Least(options'.budget, MinPreviewLength) * kept <= options'.budget
    BY <2>1, KeptIs
  <2>3. unpoured' = 1 .. kept
    BY <1>6
  <2> HIDE DEF kept
  <2>4. alloc' = [i \in 1 .. kept |-> 0]
    BY <1>6, <2>3
  <2>5. alloc' \in Seq(Nat) /\ Len(alloc') = kept /\ DOMAIN alloc' = 1 .. kept /\ kept \in Nat
        /\ \A i \in 1 .. kept : alloc'[i] = 0
    BY <2>2, <2>4
  <2>6. Cardinality(unpoured') = kept
    BY <2>2, <2>3, FS_Interval
  <2>7. OutputType'
    <3>1. Len(alloc') <= Len(bodies') /\ unpoured' \subseteq DOMAIN alloc' /\ alloc' \in Seq(Nat)
      BY <1>1, <1>2, <2>2, <2>3, <2>5
    <3>2. bodies' \in Seq(BodyType) /\ emitted' \in Seq(Nat) /\ spent' \in Nat /\ stage' = "pour"
      BY <1>1, <1>3, <1>6
    <3> QED BY <1>1, <3>1, <3>2 DEF OutputType
  <2>8. StageInv'
    BY <1>1, <1>6 DEF StageInv
  <2>9. EmitInv'
    <3>1. Len(<<>>) <= Len(alloc')
      BY <1>3, <2>5
    <3> QED BY <1>1, <1>3, <1>6, <3>1 DEF EmitInv
  <2>10. AllocInv'
    <3>1. Total(alloc') = 0
      BY <2>5, TotalOfZeros
    <3> QED BY <1>1, <1>6, <3>1 DEF AllocInv
  <2>11. PourInv'
    <3>1. (Minimum * Cardinality(unpoured) <= remaining)'
      BY <1>1, <2>2, <2>6 DEF Minimum
    <3>2. (DOMAIN alloc \ unpoured = {})'
      BY <2>3, <2>5
    <3>3. Len(alloc') = Kept(Len(bodies'), options'.budget)
      BY <1>1, <2>5 DEF kept
    <3> QED BY <2>3, <2>5, <3>1, <3>2, <3>3 DEF PourInv
  <2> QED BY <1>6, <2>7, <2>8, <2>9, <2>10, <2>11 DEF OutputInv
<1> QED BY <1>4, <1>5, <1>6 DEF Format

\* So does a whole body that fits,
LEMMA FillInv ==
  ASSUME OutputInv, Fill
  PROVE  OutputInv'
<1> DEFINE n == Len(alloc) + 1
<1>1. /\ stage = "fill" /\ stage' = "fill" /\ Len(alloc) < Len(natural) /\ natural[n] <= remaining
      /\ alloc' = Append(alloc, natural[n]) /\ remaining' = remaining - natural[n]
      /\ UNCHANGED <<stage, bodies, options, natural, unpoured, emitted, spent>>
  BY DEF Fill, NextFits
<1>2. OutputType /\ StageInv /\ AllocInv
  BY DEF OutputInv
<1>3. /\ natural \in Seq(Nat) /\ Len(natural) = Len(bodies) /\ Len(alloc) \in Nat /\ Len(bodies) \in Nat
      /\ \A i \in 1 .. Len(bodies) : natural[i] \in Nat
      /\ DOMAIN alloc = 1 .. Len(alloc)
  BY <1>2, OutputElements
<1>4. n \in 1 .. Len(bodies) /\ natural[n] \in Nat /\ remaining - natural[n] \in Nat
  BY <1>1, <1>2, <1>3 DEF OutputType
<1>5. alloc \in Seq(Nat) /\ unpoured = {} /\ emitted = <<>> /\ spent = 0
  BY <1>1, <1>2 DEF OutputType, StageInv
<1> HIDE DEF n
<1>6. /\ alloc' \in Seq(Nat) /\ Len(alloc') = Len(alloc) + 1
      /\ DOMAIN alloc' = 1 .. Len(alloc) + 1
      /\ \A i \in 1 .. Len(alloc) : alloc'[i] = alloc[i]
      /\ alloc'[Len(alloc) + 1] = natural[n]
  BY <1>1, <1>3, <1>4, <1>5
<1>7. OutputType'
  BY <1>1, <1>2, <1>3, <1>4, <1>5, <1>6 DEF OutputType, n
<1>8. StageInv'
  BY <1>1, <1>2 DEF StageInv
<1>9. AllocInv'
  <2>1. Total(alloc') = Total(alloc) + natural[n] /\ Total(alloc) \in Nat
    BY <1>1, <1>4, <1>5, TotalAppend, TotalType
  <2>2. Total(alloc) + remaining = options.budget /\ \A i \in 1 .. Len(alloc) : alloc[i] = natural[i]
    BY <1>1, <1>2, <1>3 DEF AllocInv
  <2>3. Total(alloc') + remaining' = options'.budget
    BY <1>1, <1>2, <1>4, <2>1, <2>2 DEF OutputType
  <2>4. \A i \in 1 .. Len(alloc) + 1 : alloc'[i] = natural[i]
    BY <1>3, <1>6, <2>2 DEF n
  <2> QED BY <1>1, <1>6, <2>3, <2>4 DEF AllocInv
<1>10. EmitInv'
  <2>1. <<>> \in Seq(Nat) /\ Len(<<>>) = 0 /\ DOMAIN <<>> = {} /\ Total(<<>>) = 0
    BY TotalOfNothing
  <2> QED BY <1>1, <1>3, <1>5, <1>6, <2>1 DEF EmitInv
<1> QED BY <1>1, <1>7, <1>8, <1>9, <1>10 DEF OutputInv

\* and the end of the filling.
LEMMA FilledInv ==
  ASSUME OutputInv, Filled
  PROVE  OutputInv'
<1>1. /\ stage = "fill" /\ stage' = "render"
      /\ alloc' = IF alloc = <<>> THEN <<options.budget>> ELSE alloc
      /\ UNCHANGED <<bodies, options, natural, unpoured, remaining, emitted, spent>>
  BY DEF Filled
<1>2. OutputType /\ StageInv /\ AllocInv
  BY DEF OutputInv
<1>3. /\ Len(alloc) \in Nat /\ Len(bodies) \in Nat /\ alloc \in Seq(Nat) /\ bodies \in Seq(BodyType)
      /\ options.budget \in Nat /\ options.full /\ bodies # <<>> /\ emitted = <<>> /\ spent = 0
      /\ unpoured = {} /\ remaining \in Nat
  BY <1>1, <1>2, OutputElements DEF OutputType, StageInv, OptionType
<1>4. <<>> \in Seq(Nat) /\ Len(<<>>) = 0 /\ DOMAIN <<>> = {} /\ Total(<<>>) = 0
  BY TotalOfNothing
<1>5. alloc' \in Seq(Nat) /\ Len(alloc') \in Nat /\ Len(alloc') <= Len(bodies)
  <2>1. Len(bodies) >= 1
    BY <1>3
  <2>2. <<options.budget>> \in Seq(Nat) /\ Len(<<options.budget>>) = 1
    BY <1>3
  <2> QED BY <1>1, <1>2, <1>3, <2>1, <2>2 DEF OutputType
<1>6. OutputType'
  BY <1>1, <1>2, <1>3, <1>5 DEF OutputType
<1>7. StageInv'
  BY <1>1, <1>2, <1>3 DEF StageInv
<1>8. Total(alloc') <= options.budget
  <2>1. CASE alloc = <<>>
    <3>1. alloc' = Append(<<>>, options.budget)
      BY <1>1, <2>1
    <3>2. Total(Append(<<>>, options.budget)) = Total(<<>>) + options.budget
      BY <1>3, <1>4, TotalAppend
    <3> QED BY <1>3, <1>4, <3>1, <3>2
  <2>2. CASE alloc # <<>>
    <3>1. Total(alloc) \in Nat /\ Total(alloc) + remaining = options.budget
      BY <1>1, <1>2, <1>3, TotalType DEF AllocInv
    <3> QED BY <1>1, <1>3, <2>2, <3>1
  <2> QED BY <2>1, <2>2
<1>9. AllocInv'
  BY <1>1, <1>8 DEF AllocInv
<1>10. EmitInv'
  BY <1>1, <1>3, <1>4, <1>5 DEF EmitInv
<1> QED BY <1>1, <1>3, <1>6, <1>7, <1>9, <1>10 DEF OutputInv

\* The shares that were given stay fair when another is poured.
LEMMA PourKeepsFair ==
  ASSUME OutputInv, Pour
  PROVE  OutputType' /\ PourInv' /\ Total(alloc') + remaining' = options'.budget
<1>1. OutputType /\ StageInv /\ AllocInv /\ PourInv /\ stage = "pour"
  BY DEF OutputInv, Pour
<1>2. PICK i \in unpoured :
        /\ \A j \in unpoured : natural[i] < natural[j] \/ (natural[i] = natural[j] /\ i <= j)
        /\ PourInto(i)
  BY DEF Pour
<1> DEFINE n == Cardinality(unpoured)
           share == remaining \div n
           take == Least(natural[i], share)
           least == Minimum
<1>3. /\ natural \in Seq(Nat) /\ Len(natural) = Len(bodies) /\ Len(alloc) \in Nat
      /\ DOMAIN alloc = 1 .. Len(alloc) /\ alloc \in Seq(Nat) /\ unpoured \subseteq 1 .. Len(alloc)
      /\ \A j \in 1 .. Len(alloc) : alloc[j] \in Nat /\ natural[j] \in Nat
      /\ remaining \in Nat /\ options \in OptionType
  BY <1>1, OutputElements DEF OutputType
<1>4. i \in 1 .. Len(alloc) /\ natural[i] \in Nat /\ alloc[i] = 0
  BY <1>1, <1>2, <1>3 DEF PourInv
<1>5. /\ alloc' = [alloc EXCEPT ![i] = take] /\ remaining' = remaining - take
      /\ unpoured' = unpoured \ {i}
      /\ stage' = IF unpoured' = {} THEN "render" ELSE "pour"
      /\ UNCHANGED <<bodies, options, natural, emitted, spent>>
  BY <1>2 DEF PourInto
<1>6. n \in Nat \ {0} /\ Cardinality(unpoured') = n - 1
  <2>1. IsFiniteSet(1 .. Len(alloc))
    BY <1>3, FS_Interval
  <2>2. IsFiniteSet(unpoured)
    BY <1>3, <2>1, FS_Subset
  <2>3. n \in Nat /\ (n = 0 <=> unpoured = {})
    BY <2>2, FS_CardinalityType, FS_EmptySet
  <2>4. Cardinality(unpoured \ {i}) = n - 1
    BY <1>2, <2>2, FS_RemoveElement
  <2> QED BY <1>2, <1>5, <2>3, <2>4
<1>7. least \in Nat /\ least' = least
  BY <1>3, <1>5, BudgetConstants DEF Minimum, Least, OptionType
<1>8. least * n <= remaining
  BY <1>1 DEF PourInv
<1> HIDE DEF n, least
<1>9. share \in Nat /\ take \in Nat /\ take <= share /\ take <= natural[i]
      /\ (take = natural[i] \/ take = share)
  <2>1. share \in Nat
    BY <1>3, <1>6, ShareIs
  <2> HIDE DEF share
  <2> QED BY <1>4, <2>1 DEF Least
<1> HIDE DEF take
<1>10. /\ remaining - take \in Nat
       /\ \A a \in Nat : a * n <= remaining => a * (n - 1) <= remaining - take
       /\ take * (n - 1) <= remaining - take
       /\ \A a \in Nat : remaining <= (a + 1) * n /\ take >= a /\ (take > a \/ take = share)
                              => remaining - take <= (a + 1) * (n - 1)
       /\ take = share => remaining - take <= (take + 1) * (n - 1)
  BY <1>3, <1>6, <1>9, ShareTaken
<1>11. \A a \in Nat : /\ a * n <= remaining => a <= share
                      /\ remaining <= (a + 1) * n => share <= a + 1
  BY <1>3, <1>6, ShareBounds
<1> HIDE DEF share
<1>12. /\ alloc' \in Seq(Nat) /\ Len(alloc') = Len(alloc) /\ DOMAIN alloc' = DOMAIN alloc
       /\ alloc'[i] = take /\ \A j \in DOMAIN alloc : j # i => alloc'[j] = alloc[j]
       /\ Total(alloc') = Total(alloc) + take
  <2>1. [alloc EXCEPT ![i] = take] \in Seq(Nat)
        /\ Total([alloc EXCEPT ![i] = take]) = Total(alloc) + take
    BY <1>3, <1>4, <1>9, TotalExcept
  <2>2. /\ Len(alloc') = Len(alloc) /\ DOMAIN alloc' = DOMAIN alloc
        /\ alloc'[i] = take /\ \A j \in DOMAIN alloc : j # i => alloc'[j] = alloc[j]
    BY <1>3, <1>4, <1>5
  <2> QED BY <1>5, <2>1, <2>2
<1>13. OutputType'
  <2>1. stage' \in {"render", "pour"}
    BY <1>5
  <2>2. unpoured' \subseteq DOMAIN alloc' /\ remaining' \in Nat
    BY <1>1, <1>5, <1>10, <1>12 DEF OutputType
  <2> QED BY <1>1, <1>5, <1>12, <2>1, <2>2 DEF OutputType
<1>14. Total(alloc') + remaining' = options'.budget
  <2>1. Total(alloc) + remaining = options.budget /\ Total(alloc) \in Nat
    BY <1>1, <1>3, TotalType DEF AllocInv
  <2> QED BY <1>3, <1>5, <1>9, <1>12, <2>1
<1> DEFINE poured == DOMAIN alloc \ unpoured
<1>15. (DOMAIN alloc \ unpoured)' = poured \union {i} /\ i \notin poured
  BY <1>2, <1>3, <1>4, <1>5, <1>12
<1>16. \A k \in poured : alloc'[k] = alloc[k] /\ alloc[k] \in Nat /\ natural[k] \in Nat
  BY <1>3, <1>12, <1>15
<1>17. ASSUME NEW k \in poured
       PROVE  alloc[k] <= share /\ alloc[k] * (n - 1) <= remaining' /\ alloc[k] <= natural[k]
  <2>1. alloc[k] <= natural[k] /\ alloc[k] * n <= remaining
    BY <1>1 DEF PourInv, n
  <2> QED BY <1>5, <1>10, <1>11, <1>16, <2>1
<1>18. ASSUME NEW k \in poured, alloc[k] < natural[k]
       PROVE  /\ alloc[k] >= least
              /\ remaining' <= (alloc[k] + 1) * (n - 1)
              /\ take <= alloc[k] + 1
              /\ \A j \in poured : alloc[j] <= alloc[k] + 1
              /\ \A j \in unpoured : natural[k] <= natural[j]
  <2>1. /\ alloc[k] >= least
        /\ remaining <= (alloc[k] + 1) * n
        /\ \A j \in poured : alloc[j] <= alloc[k] + 1
        /\ \A j \in unpoured : natural[k] <= natural[j]
    BY <1>1, <1>18 DEF PourInv, IsShort, n, least
  <2>2. alloc[k] < natural[i] /\ share <= alloc[k] + 1
    BY <1>2, <1>4, <1>11, <1>16, <1>18, <2>1
  <2>3. take >= alloc[k] /\ (take > alloc[k] \/ take = share)
    BY <1>4, <1>9, <1>16, <1>17, <2>2
  <2> QED BY <1>5, <1>9, <1>10, <1>16, <2>1, <2>2, <2>3
<1>19. ASSUME take < natural[i]
       PROVE  /\ take >= least
              /\ remaining' <= (take + 1) * (n - 1)
              /\ \A j \in poured : alloc[j] <= take + 1
              /\ \A j \in unpoured : natural[i] <= natural[j]
  <2>1. take = share
    BY <1>4, <1>9, <1>19
  <2>2. take >= least
    BY <1>7, <1>8, <1>9, <1>11, <2>1
  <2>3. \A j \in poured : alloc[j] <= take + 1
    BY <1>9, <1>16, <1>17, <2>1
  <2>4. \A j \in unpoured : natural[i] <= natural[j]
    BY <1>2, <1>3, <1>4
  <2> QED BY <1>5, <1>10, <2>1, <2>2, <2>3, <2>4
<1>20. PourInv'
  <2> DEFINE P(k) == alloc'[k] < natural[k] =>
                       /\ alloc'[k] >= least
                       /\ remaining' <= (alloc'[k] + 1) * (n - 1)
                       /\ \A j \in poured \union {i} : alloc'[j] <= alloc'[k] + 1
                       /\ \A j \in unpoured \ {i} : natural[k] <= natural[j]
  <2>1. (Len(alloc) = Kept(Len(bodies), options.budget))'
    BY <1>1, <1>5, <1>12 DEF PourInv
  <2>2. (Minimum * Cardinality(unpoured) <= remaining)'
    BY <1>5, <1>6, <1>7, <1>8, <1>10 DEF least
  <2>3. \A j \in unpoured' : alloc'[j] = 0
    BY <1>1, <1>3, <1>5, <1>12 DEF PourInv
  <2>4. \A k \in poured \union {i} : alloc'[k] <= natural[k] /\ alloc'[k] * (n - 1) <= remaining'
    BY <1>5, <1>9, <1>10, <1>12, <1>16, <1>17
  <2>5. ASSUME NEW k \in poured PROVE P(k)
    BY <1>12, <1>16, <1>18
  <2>6. P(i)
    <3> SUFFICES ASSUME take < natural[i]
                 PROVE  /\ take >= least
                        /\ remaining' <= (take + 1) * (n - 1)
                        /\ \A j \in poured \union {i} : alloc'[j] <= take + 1
                        /\ \A j \in unpoured \ {i} : natural[i] <= natural[j]
      BY <1>12
    <3> QED BY <1>9, <1>12, <1>16, <1>19
  <2>7. \A k \in poured \union {i} : P(k)
    BY <2>5, <2>6
  <2> HIDE DEF poured
  <2>8. \A k \in (DOMAIN alloc \ unpoured)' :
          alloc'[k] <= natural'[k] /\ alloc'[k] * Cardinality(unpoured') <= remaining'
    BY <1>5, <1>6, <1>15, <2>4
  <2>9. \A k \in (DOMAIN alloc \ unpoured)' : alloc'[k] < natural'[k] =>
          /\ alloc'[k] >= Minimum'
          /\ remaining' <= (alloc'[k] + 1) * Cardinality(unpoured')
          /\ \A j \in (DOMAIN alloc \ unpoured)' : alloc'[j] <= alloc'[k] + 1
          /\ \A j \in unpoured' : natural'[k] <= natural'[j]
    BY <1>5, <1>6, <1>7, <1>15, <2>7 DEF least
  <2> HIDE DEF P
  <2> QED BY <2>1, <2>2, <2>3, <2>8, <2>9 DEF PourInv, IsShort
<1> QED BY <1>13, <1>14, <1>20

\* When none is left to pour into, the shares are what is allocated.
LEMMA PourStepInv ==
  ASSUME OutputInv, Pour
  PROVE  OutputInv'
<1>1. OutputType' /\ PourInv' /\ Total(alloc') + remaining' = options'.budget
  BY PourKeepsFair
<1>2. OutputType /\ StageInv /\ stage = "pour"
  BY DEF OutputInv, Pour
<1>3. /\ stage' = IF unpoured' = {} THEN "render" ELSE "pour"
      /\ UNCHANGED <<bodies, options, natural, emitted, spent>>
  BY DEF Pour, PourInto
<1>4. StageInv'
  BY <1>2, <1>3 DEF StageInv
<1>5. EmitInv'
  <2>1. emitted' = <<>> /\ spent' = 0 /\ stage' # "done" /\ Len(alloc') \in Nat
    BY <1>1, <1>2, <1>3 DEF StageInv, OutputType
  <2> QED BY <2>1, TotalOfNothing DEF EmitInv
<1>6. AllocInv'
  <2>1. Total(alloc') \in Nat /\ remaining' \in Nat
    BY <1>1, TotalType DEF OutputType
  <2>2. Total(alloc') <= options'.budget
    BY <1>1, <2>1
  <2> QED BY <1>1, <1>3, <2>2 DEF AllocInv
<1>7. unpoured' = {} => ShareInv'
  <2> SUFFICES ASSUME unpoured' = {} PROVE ShareInv'
    OBVIOUS
  <2>1. (DOMAIN alloc \ unpoured)' = DOMAIN alloc'
    OBVIOUS
  <2> QED BY <1>1, <2>1 DEF PourInv, ShareInv, IsShort
<1> QED BY <1>1, <1>3, <1>4, <1>5, <1>6, <1>7 DEF OutputInv

\* One more result emitted,
LEMMA EmitStepInv ==
  ASSUME OutputInv, Emit
  PROVE  OutputInv'
<1> DEFINE i == Len(emitted) + 1
           body == Render(bodies[i], alloc[i], natural[i])
<1>1. /\ stage = "render" /\ Len(emitted) < Len(alloc)
      /\ emitted' = Append(emitted, body) /\ spent' = spent + body
      /\ UNCHANGED <<stage, bodies, options, natural, alloc, unpoured, remaining>>
  BY DEF Emit
<1>2. OutputType /\ StageInv /\ AllocInv /\ EmitInv
  BY DEF OutputInv
<1>3. /\ Len(emitted) \in Nat /\ Len(alloc) \in Nat /\ emitted \in Seq(Nat) /\ spent \in Nat
      /\ DOMAIN emitted = 1 .. Len(emitted)
      /\ \A j \in 1 .. Len(alloc) : bodies[j] \in BodyType /\ alloc[j] \in Nat /\ natural[j] \in Nat
  BY <1>2, OutputElements DEF OutputType
<1>4. i \in 1 .. Len(alloc) /\ body \in Nat
  <2>1. i \in 1 .. Len(alloc)
    BY <1>1, <1>3
  <2> HIDE DEF i
  <2> QED BY <1>3, <2>1, RenderType
<1> HIDE DEF body
<1>5. /\ emitted' \in Seq(Nat) /\ Len(emitted') = Len(emitted) + 1
      /\ DOMAIN emitted' = 1 .. Len(emitted) + 1 /\ emitted'[Len(emitted) + 1] = body
      /\ \A j \in 1 .. Len(emitted) : emitted'[j] = emitted[j]
  BY <1>1, <1>3, <1>4
<1>6. Total(emitted') = Total(emitted) + body
  BY <1>1, <1>3, <1>4, TotalAppend
<1>7. OutputType'
  BY <1>1, <1>2, <1>3, <1>4, <1>5 DEF OutputType
<1>8. StageInv' /\ AllocInv'
  BY <1>1, <1>2 DEF StageInv, AllocInv
<1>9. EmitInv'
  <2>1. \A j \in 1 .. Len(emitted) : emitted[j] = Render(bodies[j], alloc[j], natural[j])
    BY <1>2, <1>3 DEF EmitInv
  <2>2. \A j \in 1 .. Len(emitted) + 1 : emitted'[j] = Render(bodies[j], alloc[j], natural[j])
    <3> SUFFICES ASSUME NEW j \in 1 .. Len(emitted) + 1
                 PROVE  emitted'[j] = Render(bodies[j], alloc[j], natural[j])
      OBVIOUS
    <3>1. j \in 1 .. Len(emitted) \/ j = i
      BY <1>3
    <3>2. emitted'[i] = Render(bodies[i], alloc[i], natural[i])
      BY <1>5 DEF body
    <3> HIDE DEF i
    <3> QED BY <1>5, <2>1, <3>1, <3>2
  <2>3. \A j : Render(bodies[j], alloc[j], natural[j])' = Render(bodies[j], alloc[j], natural[j])
    BY <1>1 DEF Render
  <2>4. \A j \in DOMAIN emitted' : emitted'[j] = Render(bodies[j], alloc[j], natural[j])'
    BY <1>5, <2>2, <2>3
  <2>5. Len(emitted') <= Len(alloc') /\ stage' # "done"
    BY <1>1, <1>3, <1>5
  <2>6. spent' = Total(emitted')
    BY <1>1, <1>2, <1>6 DEF EmitInv
  <2> QED BY <2>4, <2>5, <2>6 DEF EmitInv
<1>10. ShareInv => ShareInv'
  BY <1>1 DEF ShareInv, IsShort, Minimum
<1> QED BY <1>1, <1>7, <1>8, <1>9, <1>10 DEF OutputInv

\* and the end.
LEMMA FormattedInv ==
  ASSUME OutputInv, Formatted
  PROVE  OutputInv'
<1>1. /\ stage = "render" /\ stage' = "done" /\ Len(emitted) = Len(alloc)
      /\ UNCHANGED <<bodies, options, natural, alloc, unpoured, remaining, emitted, spent>>
  BY DEF Formatted
<1>2. OutputType' /\ StageInv' /\ AllocInv'
  BY <1>1 DEF OutputInv, OutputType, StageInv, AllocInv
<1>3. EmitInv'
  <2>1. \A j : Render(bodies[j], alloc[j], natural[j])' = Render(bodies[j], alloc[j], natural[j])
    BY <1>1 DEF Render
  <2> QED BY <1>1, <2>1 DEF OutputInv, EmitInv
<1>4. ShareInv => ShareInv'
  BY <1>1 DEF ShareInv, IsShort, Minimum
<1> QED BY <1>1, <1>2, <1>3, <1>4 DEF OutputInv

\* Nor does it matter what else happens.
LEMMA OutputStutter ==
  ASSUME OutputInv, UNCHANGED output
  PROVE  OutputInv'
<1>1. UNCHANGED <<stage, bodies, options, natural, alloc, unpoured, remaining, emitted, spent>>
  BY DEF output
<1>2. \A j : Render(bodies[j], alloc[j], natural[j])' = Render(bodies[j], alloc[j], natural[j])
  BY <1>1 DEF Render
<1>3. OutputType' /\ StageInv' /\ AllocInv' /\ EmitInv'
  BY <1>1, <1>2 DEF OutputInv, OutputType, StageInv, AllocInv, EmitInv
<1>4. (PourInv => PourInv') /\ (ShareInv => ShareInv')
  BY <1>1 DEF PourInv, ShareInv, IsShort, Minimum
<1> QED BY <1>1, <1>3, <1>4 DEF OutputInv

-----------------------------------------------------------------------------
(* The properties of OutputBudget.                                         *)

\* What is rendered of a result is within its share: the whole body, or what a
\* preview makes of its share.
LEMMA RenderBound ==
  ASSUME OutputInv, stage \in {"render", "done"}, options.budget > 1, NEW i \in 1 .. Len(alloc)
  PROVE  /\ Render(bodies[i], alloc[i], natural[i]) <= alloc[i]
         /\ ~options.full /\ IsShort(i) => Render(bodies[i], alloc[i], natural[i]) = alloc[i]
         /\ ~IsShort(i) => Render(bodies[i], alloc[i], natural[i]) = natural[i]
<1>1. OutputType
  BY DEF OutputInv
<1>2. /\ bodies[i] \in BodyType /\ alloc[i] \in Nat /\ natural[i] \in Nat
      /\ natural[i] = IF options.full THEN bodies[i].raw ELSE Preview(bodies[i], options.length)
      /\ Len(bodies) \in Nat /\ i \in 1 .. Len(bodies) /\ DOMAIN alloc = 1 .. Len(alloc)
      /\ options.budget \in Nat /\ options.length \in Nat /\ options.full \in BOOLEAN
  BY <1>1, OutputElements DEF OutputType, OptionType
<1>3. CASE ~IsShort(i)
  BY <1>2, <1>3 DEF IsShort, Render
<1>4. CASE IsShort(i) /\ options.full
  <2>1. bodies[i].raw \in Nat
    BY <1>2 DEF BodyType
  <2> QED BY <1>2, <1>4, <2>1 DEF IsShort, Render, Least
<1>5. CASE IsShort(i) /\ ~options.full
  <2>1. bodies # <<>>
    BY <1>2
  <2>2. ShareInv
    BY <1>2, <1>5, <2>1 DEF OutputInv
  <2>3. alloc[i] >= Minimum
    BY <1>2, <1>5, <2>2 DEF ShareInv
  <2>4. alloc[i] >= 2
    BY <1>2, <2>3, BudgetConstants DEF Minimum, Least
  <2>5. bodies[i].flat \in Nat
    BY <1>2 DEF BodyType
  <2>6. alloc[i] < Preview(bodies[i], options.length)
    BY <1>2, <1>5 DEF IsShort
  <2>7. Render(bodies[i], alloc[i], natural[i]) = Preview(bodies[i], alloc[i] - 1)
    BY <1>2, <1>5, <2>4 DEF IsShort, Render
  <2>8. Preview(bodies[i], alloc[i] - 1) = alloc[i]
    BY <1>2, <2>4, <2>5, <2>6 DEF Preview
  <2> QED BY <1>2, <1>5, <2>7, <2>8
<1> QED BY <1>2, <1>3, <1>4, <1>5

\* Within its budget: every result is within its share, and the shares are within
\* the budget.
LEMMA BudgetHolds == OutputInv => SpentWithinBudget
<1> SUFFICES ASSUME OutputInv, stage = "done"
             PROVE  spent = Total(emitted) /\ (options.budget > 1 => spent <= options.budget)
  BY DEF SpentWithinBudget
<1>1. OutputType /\ AllocInv /\ EmitInv
  BY DEF OutputInv
<1>2. /\ emitted \in Seq(Nat) /\ alloc \in Seq(Nat) /\ Len(emitted) = Len(alloc)
      /\ DOMAIN emitted = 1 .. Len(emitted) /\ spent = Total(emitted) /\ options.budget \in Nat
  BY <1>1, OutputElements DEF OutputType, EmitInv, OptionType
<1>3. ASSUME options.budget > 1 PROVE Total(emitted) <= options.budget
  <2>1. \A i \in 1 .. Len(emitted) : emitted[i] <= alloc[i]
    BY <1>1, <1>2, <1>3, RenderBound DEF EmitInv
  <2>2. Len(emitted) <= Len(alloc) /\ Total(emitted) \in Nat /\ Total(alloc) \in Nat
    BY <1>2, TotalType
  <2>3. Total(emitted) <= Total(alloc)
    BY <1>2, <2>1, <2>2, TotalBound
  <2>4. Total(alloc) <= options.budget
    BY <1>1, <1>2, <1>3 DEF AllocInv
  <2> QED BY <1>2, <2>2, <2>3, <2>4
<1> QED BY <1>2, <1>3

\* Fair: a preview that is shortened has exactly its share.
LEMMA FairnessHolds == OutputInv => SharesAreFair
<1> SUFFICES ASSUME OutputInv, stage = "done", ~options.full, options.budget > 1
             PROVE  /\ \A k \in DOMAIN emitted : emitted[k] < Preview(bodies[k], options.length) =>
                         /\ emitted[k] >= Least(options.budget, MinPreviewLength)
                         /\ \A j \in DOMAIN emitted : emitted[j] <= emitted[k] + 1
                    /\ Len(emitted) < Len(bodies) =>
                         (Len(emitted) + 1) * MinPreviewLength > options.budget
  BY DEF SharesAreFair
<1>1. OutputType /\ EmitInv
  BY DEF OutputInv
<1>2. /\ Len(emitted) = Len(alloc) /\ Len(bodies) \in Nat /\ Len(alloc) \in Nat
      /\ DOMAIN emitted = 1 .. Len(alloc) /\ DOMAIN alloc = 1 .. Len(alloc)
      /\ \A i \in 1 .. Len(alloc) : alloc[i] \in Nat /\ natural[i] \in Nat
                                    /\ natural[i] = Preview(bodies[i], options.length)
      /\ \A i \in 1 .. Len(alloc) : emitted[i] = Render(bodies[i], alloc[i], natural[i])
      /\ options.budget \in Nat
  BY <1>1, OutputElements DEF OutputType, EmitInv, OptionType
<1>3. \A i \in 1 .. Len(alloc) : /\ emitted[i] <= alloc[i]
                                 /\ IsShort(i) => emitted[i] = alloc[i]
                                 /\ ~IsShort(i) => emitted[i] = natural[i]
  BY <1>2, RenderBound
<1>4. bodies # <<>> => ShareInv
  BY <1>2 DEF OutputInv
<1>5. ASSUME NEW k \in 1 .. Len(alloc), emitted[k] < natural[k]
      PROVE  /\ emitted[k] >= Least(options.budget, MinPreviewLength)
             /\ \A j \in 1 .. Len(alloc) : emitted[j] <= emitted[k] + 1
  <2>1. IsShort(k) /\ emitted[k] = alloc[k]
    BY <1>2, <1>3, <1>5
  <2>2. ShareInv
    <3>1. Len(bodies) >= Len(alloc)
      BY <1>1 DEF OutputType
    <3>2. bodies # <<>>
      BY <1>2, <3>1
    <3> QED BY <1>4, <3>2
  <2>3. alloc[k] >= Minimum /\ \A j \in 1 .. Len(alloc) : alloc[j] <= alloc[k] + 1
    BY <1>2, <2>1, <2>2 DEF ShareInv
  <2>4. \A j \in 1 .. Len(alloc) : emitted[j] \in Int
    BY <1>1 DEF OutputType, EmitInv
  <2>5. \A j \in 1 .. Len(alloc) : emitted[j] <= alloc[k] + 1
    BY <1>2, <1>3, <2>3, <2>4
  <2> QED BY <2>1, <2>3, <2>5 DEF Minimum
<1>6. ASSUME Len(alloc) < Len(bodies)
      PROVE  (Len(alloc) + 1) * MinPreviewLength > options.budget
  <2>1. bodies # <<>> /\ Len(bodies) \in Nat \ {0} /\ options.budget \in Nat \ {0}
    BY <1>2, <1>6
  <2>2. Len(alloc) = Kept(Len(bodies), options.budget)
    BY <1>4, <2>1 DEF ShareInv
  <2> QED BY <1>6, <2>1, <2>2, KeptIs
<1> QED BY <1>2, <1>5, <1>6

-----------------------------------------------------------------------------
(* Orders of rows.                                                         *)

\* An order of a set has each of its elements exactly once.
LEMMA Enumerates ==
  ASSUME NEW S, IsFiniteSet(S), NEW q \in SetToSeqs(S)
  PROVE  /\ q \in Seq(S) /\ Len(q) \in Nat /\ Len(q) = Cardinality(S) /\ DOMAIN q = 1 .. Len(q)
         /\ \A i \in 1 .. Len(q) : q[i] \in S
         /\ \A i, j \in 1 .. Len(q) : q[i] = q[j] => i = j
         /\ \A x \in S : \E i \in 1 .. Len(q) : q[i] = x
         /\ ToSet(q) = S
<1> DEFINE n == Cardinality(S)
<1>1. n \in Nat
  BY FS_CardinalityType
<1>2. q \in [1 .. n -> S] /\ \A i, j \in 1 .. n : i # j => q[i] # q[j]
  BY DEF SetToSeqs
<1>3. IsFiniteSet(1 .. n) /\ Cardinality(1 .. n) = n
  <2> HIDE DEF n
  <2> QED BY <1>1, FS_Interval
<1> HIDE DEF n
<1>4. q \in Injection(1 .. n, S)
  BY <1>2, Fun_IsInj
<1>5. q \in Surjection(1 .. n, S)
  BY <1>3, <1>4, FS_Injection DEF n
<1>6. \A x \in S : \E i \in 1 .. n : q[i] = x
  BY <1>5 DEF Surjection
<1>7. q \in Seq(S) /\ Len(q) = n /\ DOMAIN q = 1 .. n
  BY <1>1, <1>2
<1>8. ToSet(q) = S
  BY <1>2, <1>6, <1>7 DEF ToSet
<1> QED BY <1>1, <1>2, <1>6, <1>7, <1>8 DEF n

\* As many elements are at some positions as there are positions, if none is there twice.
LEMMA ImageSize ==
  ASSUME NEW q, NEW D, IsFiniteSet(D), \A i, j \in D : q[i] = q[j] => i = j
  PROVE  /\ IsFiniteSet({q[i] : i \in D})
         /\ Cardinality({q[i] : i \in D}) = Cardinality(D)
<1> DEFINE T == {q[i] : i \in D}
           f == [i \in D |-> q[i]]
<1>1. f \in [D -> T] /\ (\A i, j \in D : f[i] = f[j] => i = j)
      /\ \A x \in T : \E i \in D : f[i] = x
  OBVIOUS
<1> HIDE DEF f, T
<1>2. f \in Bijection(D, T)
  BY <1>1, Fun_IsBij
<1>3. ExistsBijection(D, T)
  BY <1>2 DEF ExistsBijection
<1> QED BY <1>3, FS_Bijection DEF T

\* The positions up to one, and from one on.
LEMMA PositionsFinite ==
  ASSUME NEW m \in Nat, NEW D \in SUBSET (1 .. m)
  PROVE  IsFiniteSet(D) /\ Cardinality(D) \in Nat /\ Cardinality(D) <= m
<1>1. IsFiniteSet(1 .. m) /\ Cardinality(1 .. m) = m
  BY FS_Interval
<1>2. IsFiniteSet(D) /\ Cardinality(D) <= m
  BY <1>1, FS_Subset
<1> QED BY <1>2, FS_CardinalityType

\* A finite set of numbers has a greatest one.
LEMMA Greatest ==
  ASSUME NEW m \in Nat, NEW D \in SUBSET (1 .. m), D # {}
  PROVE  \E x \in D : \A y \in D : y <= x
<1> DEFINE T == {m - y : y \in D}
<1>1. T \in SUBSET Nat /\ T # {}
  <2>1. \A y \in D : m - y \in Nat
    OBVIOUS
  <2> QED BY <2>1
<1>2. PICK t \in T : \A u \in T : t <= u
  <2> HIDE DEF T
  <2> QED BY <1>1, Smallest
<1>3. PICK x \in D : t = m - x
  BY <1>2
<1>4. \A y \in D : m - x <= m - y
  BY <1>2, <1>3
<1> QED BY <1>3, <1>4

\* Sets of rows are finite.
LEMMA RowsFinite ==
  ASSUME QueryType, NEW S \in SUBSET Rows
  PROVE  /\ IsFiniteSet(S) /\ Cardinality(S) \in Nat
         /\ Rows = 1 .. Len(table) /\ Len(table) \in Nat
<1>1. table \in Seq(Messages)
  BY DEF QueryType
<1>2. Rows = 1 .. Len(table) /\ Len(table) \in Nat
  BY <1>1 DEF Rows
<1> QED BY <1>2, PositionsFinite

\* What is known of a row.
LEMMA RowType ==
  ASSUME QueryType, NEW i \in Rows
  PROVE  /\ table[i] \in Messages /\ i \in Nat
         /\ table[i].session \in Int /\ table[i].time \in Int /\ table[i].body \in BodyType
<1>1. table \in Seq(Messages) /\ i \in 1 .. Len(table)
  BY DEF QueryType, Rows
<1>2. table[i] \in Messages /\ i \in Nat
  BY <1>1
<1> QED BY <1>2, AnswerConstants

-----------------------------------------------------------------------------
(* Search.                                                                 *)

\* The matches of a query, and those of them that a sequence misses, although the
\* session has not its share.
Matches(any) == IF request.terms = {} THEN {} ELSE Candidates(any)
MissedBy(h, matches) ==
  {r \in matches \ ToSet(h) :
     request.perSession = 0
       \/ Cardinality({x \in ToSet(h) : table[x].session = table[r].session}) < request.perSession}
CapHolds(h) ==
  request.perSession > 0 =>
    \A r \in ToSet(h) :
      Cardinality({x \in ToSet(h) : table[x].session = table[r].session}) <= request.perSession
Distinct(h) == \A i, j \in DOMAIN h : h[i] = h[j] => i = j

\* What a search finds of its matches: each once, a session no more than its share; one
\* more than the limit at most, and all of them if not even as many.
Finds(h, matches) ==
  /\ matches \in SUBSET Rows /\ h \in Seq(matches) /\ Distinct(h) /\ CapHolds(h)
  /\ request.limit > 0 => Len(h) <= request.limit + 1
  /\ request.limit = 0 \/ Len(h) <= request.limit => MissedBy(h, matches) = {}
  /\ h = <<>> => matches = {}

\* The best of each session: no more than its share, and less only if there are no more.
LEMMA CappedIs ==
  ASSUME QueryType, NEW S \in SUBSET Rows, NEW order \in SetToSeqs(S), NEW h \in Capped(order)
  PROVE  /\ h \in Seq(S) /\ Distinct(h)
         /\ CapHolds(h)
         /\ MissedBy(h, S) = {}
<1> DEFINE n == request.perSession
           m == Len(order)
           sess(k) == table[order[k]].session
           upTo(k) == {j \in 1 .. k : sess(j) = sess(k)}
           rank(k) == Cardinality(upTo(k))
           best == {k \in DOMAIN order : rank(k) <= n}
<1>1. /\ order \in Seq(S) /\ m \in Nat /\ DOMAIN order = 1 .. m
      /\ \A i \in 1 .. m : order[i] \in S
      /\ \A i, j \in 1 .. m : order[i] = order[j] => i = j
      /\ \A x \in S : \E i \in 1 .. m : order[i] = x
      /\ ToSet(order) = S
  BY RowsFinite, Enumerates
<1>2. n \in Nat
  BY AnswerConstants DEF QueryType, RequestType
<1>3. CASE n = 0
  <2>1. h = order
    BY <1>3 DEF Capped
  <2> QED BY <1>1, <1>3, <2>1 DEF Distinct, CapHolds, MissedBy
<1>4. CASE n # 0
  <2>1. PICK kept \in SetToSeqs(best) : h = [x \in DOMAIN kept |-> order[kept[x]]]
    BY <1>4 DEF Capped
  <2>2. best \in SUBSET (1 .. m) /\ IsFiniteSet(best)
    <3>1. best \in SUBSET (1 .. m)
      BY <1>1
    <3> HIDE DEF best
    <3> QED BY <1>1, <3>1, PositionsFinite
  <2>3. /\ Len(kept) \in Nat /\ DOMAIN kept = 1 .. Len(kept)
        /\ \A x \in 1 .. Len(kept) : kept[x] \in best
        /\ \A x, y \in 1 .. Len(kept) : kept[x] = kept[y] => x = y
        /\ \A k \in best : \E x \in 1 .. Len(kept) : kept[x] = k
    <3> HIDE DEF best
    <3> QED BY <2>2, Enumerates
  <2>4. \A x \in 1 .. Len(kept) : kept[x] \in 1 .. m /\ order[kept[x]] \in S
    <3> HIDE DEF best, m
    <3> QED BY <1>1, <2>2, <2>3
  <2>40. /\ DOMAIN h = 1 .. Len(kept) /\ \A x \in 1 .. Len(kept) : h[x] = order[kept[x]]
         /\ h \in Seq(S)
    <3>1. h = [x \in 1 .. Len(kept) |-> order[kept[x]]]
      <4> HIDE DEF best
      <4> QED BY <2>1, <2>3
    <3> QED BY <2>3, <2>4, <3>1
  <2>5. Distinct(h)
    <3> HIDE DEF best, m
    <3> QED BY <1>1, <2>3, <2>4, <2>40 DEF Distinct
  <2>6. ToSet(h) = {order[k] : k \in best}
    <3>1. ToSet(h) = {order[kept[x]] : x \in 1 .. Len(kept)}
      <4> HIDE DEF best
      <4> QED BY <2>40 DEF ToSet
    <3> HIDE DEF best, m
    <3> QED BY <2>3, <3>1
  <2> DEFINE of(s) == {k \in best : sess(k) = s}
  <2>7. ASSUME NEW s
        PROVE  /\ of(s) \in SUBSET (1 .. m) /\ IsFiniteSet(of(s)) /\ Cardinality(of(s)) \in Nat
               /\ Cardinality({x \in ToSet(h) : table[x].session = s}) = Cardinality(of(s))
    <3>1. of(s) \in SUBSET (1 .. m)
      <4> HIDE DEF best
      <4> QED BY <2>2
    <3>2. {x \in ToSet(h) : table[x].session = s} = {order[k] : k \in of(s)}
      <4> HIDE DEF best
      <4> QED BY <2>6
    <3> HIDE DEF of, m
    <3>3. IsFiniteSet(of(s)) /\ Cardinality(of(s)) \in Nat
      BY <1>1, <3>1, PositionsFinite
    <3>4. \A i, j \in of(s) : order[i] = order[j] => i = j
      BY <1>1, <3>1
    <3>5. Cardinality({order[k] : k \in of(s)}) = Cardinality(of(s))
      BY <3>3, <3>4, ImageSize
    <3> QED BY <3>1, <3>2, <3>3, <3>5
  <2>8. ASSUME NEW s PROVE Cardinality(of(s)) <= n
    <3>1. CASE of(s) = {}
      <4> HIDE DEF of
      <4> QED BY <1>2, <3>1, FS_EmptySet
    <3>2. CASE of(s) # {}
      <4>1. PICK k \in of(s) : \A j \in of(s) : j <= k
        <5> HIDE DEF of, m
        <5> QED BY <1>1, <2>7, <3>2, Greatest
      <4>2. k \in 1 .. m /\ sess(k) = s /\ rank(k) <= n
        BY <2>2, <4>1
      <4>3. of(s) \in SUBSET upTo(k)
        <5>1. \A j \in of(s) : j \in 1 .. m /\ sess(j) = s
          <6> HIDE DEF best, m
          <6> QED BY <2>2
        <5>2. \A j \in of(s) : j \in 1 .. k
          <6> HIDE DEF of, m, rank, sess
          <6> QED BY <1>1, <4>1, <4>2, <5>1
        <5>3. \A j \in of(s) : j \in upTo(k)
          <6> HIDE DEF of, rank, sess
          <6> QED BY <4>2, <5>1, <5>2
        <5> QED BY <5>3
      <4>4. IsFiniteSet(upTo(k)) /\ Cardinality(upTo(k)) \in Nat
        <5>1. upTo(k) \in SUBSET (1 .. k) /\ k \in Nat
          BY <1>1, <4>2
        <5> HIDE DEF upTo
        <5> QED BY <5>1, PositionsFinite
      <4>5. Cardinality(of(s)) <= Cardinality(upTo(k))
        <5> HIDE DEF of, upTo
        <5> QED BY <4>3, <4>4, FS_Subset
      <4>6. Cardinality(of(s)) \in Nat /\ Cardinality(upTo(k)) <= n
        BY <2>7, <4>2
      <4> HIDE DEF of, upTo
      <4> QED BY <1>2, <4>4, <4>5, <4>6
    <3> QED BY <3>1, <3>2
  <2>9. CapHolds(h)
    <3> HIDE DEF of
    <3> QED BY <2>7, <2>8 DEF CapHolds
  <2>10. ASSUME NEW r \in S \ ToSet(h)
         PROVE  ~(Cardinality({x \in ToSet(h) : table[x].session = table[r].session}) < n)
    <3> DEFINE s == table[r].session
               late == {k \in 1 .. m : sess(k) = s /\ ~(rank(k) <= n)}
    <3>1. PICK r0 \in 1 .. m : order[r0] = r
      BY <1>1
    <3>2. r0 \in late
      <4>1. r0 \notin best
        <5> HIDE DEF best
        <5> QED BY <2>6, <2>10, <3>1
      <4> QED BY <1>1, <3>1, <4>1
    <3>3. PICK k \in late : \A j \in late : k <= j
      <4>1. late \in SUBSET Nat
        BY <1>1
      <4> HIDE DEF late
      <4> QED BY <3>2, <4>1, Smallest
    <3>4. k \in 1 .. m /\ sess(k) = s /\ ~(rank(k) <= n)
      BY <3>3
    <3>5. upTo(k) \in SUBSET (1 .. k) /\ k \in Nat /\ k \in upTo(k)
      BY <1>1, <3>4
    <3>6. upTo(k) \ {k} \in SUBSET of(s)
      <4> SUFFICES ASSUME NEW j \in upTo(k), j # k PROVE j \in best /\ sess(j) = s
        OBVIOUS
      <4>1. j \in 1 .. m /\ j < k /\ sess(j) = s
        BY <1>1, <3>4
      <4>2. j \notin late
        <5> HIDE DEF late
        <5>1. k \in Nat /\ j \in Nat
          BY <1>1, <3>4, <4>1
        <5> QED BY <3>3, <4>1, <5>1
      <4> QED BY <1>1, <4>1, <4>2
    <3>7. IsFiniteSet(upTo(k)) /\ rank(k) \in Nat /\ Cardinality(upTo(k) \ {k}) = rank(k) - 1
          /\ IsFiniteSet(upTo(k) \ {k})
      <4> HIDE DEF upTo
      <4>1. IsFiniteSet(upTo(k)) /\ Cardinality(upTo(k)) \in Nat
        BY <3>5, PositionsFinite
      <4> QED BY <3>5, <4>1, FS_RemoveElement
    <3>8. Cardinality(upTo(k) \ {k}) <= Cardinality(of(s))
      <4> HIDE DEF upTo, of
      <4> QED BY <2>7, <3>6, FS_Subset
    <3>9. Cardinality({x \in ToSet(h) : table[x].session = s}) = Cardinality(of(s))
          /\ Cardinality(of(s)) \in Nat
      <4> HIDE DEF of
      <4> QED BY <2>7
    <3> HIDE DEF of, late, upTo
    <3> QED BY <1>2, <3>4, <3>7, <3>8, <3>9
  <2>11. MissedBy(h, S) = {}
    BY <1>4, <2>10 DEF MissedBy
  <2> QED BY <2>40, <2>5, <2>9, <2>11
<1> QED BY <1>3, <1>4

\* The beginning of a sequence, or the whole if it is no longer.
LEMMA TakeIs ==
  ASSUME NEW S, NEW q \in Seq(S), NEW n \in Nat
  PROVE  /\ Take(q, n) \in Seq(S) /\ Len(Take(q, n)) \in Nat
         /\ Len(Take(q, n)) <= Len(q) /\ Len(Take(q, n)) <= n
         /\ Len(q) <= n \/ Len(Take(q, n)) # n => Take(q, n) = q
         /\ DOMAIN Take(q, n) = 1 .. Len(Take(q, n))
         /\ \A i \in 1 .. Len(Take(q, n)) :
              Take(q, n)[i] = q[i] /\ q[i] \in S /\ i \in 1 .. Len(q)
<1> DEFINE m == Least(n, Len(q))
<1>1. Len(q) \in Nat /\ DOMAIN q = 1 .. Len(q) /\ \A i \in 1 .. Len(q) : q[i] \in S
  OBVIOUS
<1>2. m \in 0 .. Len(q) /\ (Len(q) <= n \/ m # n => m = Len(q)) /\ m <= n
  <2>1. \A a, b \in Nat : /\ Least(a, b) \in 0 .. b /\ Least(a, b) <= a
                          /\ b <= a \/ Least(a, b) # a => Least(a, b) = b
    BY DEF Least
  <2> QED BY <1>1, <2>1
<1>3. Take(q, n) = SubSeq(q, 1, m)
  BY DEF Take
<1> HIDE DEF m
<1>4. m \in Nat /\ m <= Len(q)
  <2>1. Len(q) \in Nat
    BY <1>1
  <2> QED BY <1>2, <2>1
<1>5. /\ SubSeq(q, 1, m) \in Seq(S) /\ Len(SubSeq(q, 1, m)) = m
      /\ DOMAIN SubSeq(q, 1, m) = 1 .. m
      /\ \A i \in 1 .. m : SubSeq(q, 1, m)[i] = q[i] /\ i \in 1 .. Len(q)
  BY <1>1, <1>4
<1>6. m = Len(q) => SubSeq(q, 1, m) = q
  BY <1>1
<1> QED BY <1>1, <1>2, <1>3, <1>4, <1>5, <1>6

\* Without a limit it is the whole, too.
LEMMA LimitedToIs ==
  ASSUME NEW S, NEW q \in Seq(S), NEW limit \in Nat
  PROVE  /\ LimitedTo(q, limit) \in Seq(S) /\ Len(LimitedTo(q, limit)) \in Nat
         /\ Len(LimitedTo(q, limit)) <= Len(q)
         /\ limit > 0 => Len(LimitedTo(q, limit)) <= limit
         /\ limit = 0 \/ Len(LimitedTo(q, limit)) # limit => LimitedTo(q, limit) = q
         /\ limit = 0 \/ Len(q) <= limit => LimitedTo(q, limit) = q
         /\ DOMAIN LimitedTo(q, limit) = 1 .. Len(LimitedTo(q, limit))
         /\ \A i \in 1 .. Len(LimitedTo(q, limit)) :
              LimitedTo(q, limit)[i] = q[i] /\ q[i] \in S /\ i \in 1 .. Len(q)
<1>1. CASE limit = 0
  <2>1. LimitedTo(q, limit) = q
    BY <1>1 DEF LimitedTo
  <2>2. Len(q) \in Nat /\ DOMAIN q = 1 .. Len(q) /\ \A i \in 1 .. Len(q) : q[i] \in S
    OBVIOUS
  <2> QED BY <1>1, <2>1, <2>2
<1>2. CASE limit # 0
  <2>1. LimitedTo(q, limit) = Take(q, limit)
    BY <1>2 DEF LimitedTo
  <2> QED BY <1>2, <2>1, TakeIs
<1> QED BY <1>1, <1>2

\* What begins a sequence of rows repeats none and keeps the share of a session, too.
LEMMA PrefixKeeps ==
  ASSUME QueryType, NEW S \in SUBSET Rows, NEW q \in Seq(S), NEW h \in Seq(S),
         Distinct(q), CapHolds(q), Len(h) <= Len(q), \A i \in 1 .. Len(h) : h[i] = q[i]
  PROVE  Distinct(h) /\ CapHolds(h) /\ ToSet(h) \subseteq ToSet(q)
<1>1. /\ Len(h) \in Nat /\ Len(q) \in Nat /\ DOMAIN h = 1 .. Len(h) /\ DOMAIN q = 1 .. Len(q)
      /\ \A i \in 1 .. Len(h) : i \in 1 .. Len(q)
      /\ \A i \in 1 .. Len(q) : q[i] \in S
  OBVIOUS
<1>2. Distinct(h)
  BY <1>1 DEF Distinct
<1>3. ToSet(h) \subseteq ToSet(q) /\ ToSet(q) \subseteq S
  BY <1>1 DEF ToSet
<1>4. CapHolds(h)
  <2> SUFFICES ASSUME request.perSession > 0, NEW r \in ToSet(h)
               PROVE  Cardinality({x \in ToSet(h) : table[x].session = table[r].session})
                        <= request.perSession
    BY DEF CapHolds
  <2> DEFINE A == {x \in ToSet(h) : table[x].session = table[r].session}
             B == {x \in ToSet(q) : table[x].session = table[r].session}
  <2>1. A \in SUBSET B /\ B \in SUBSET Rows /\ A \in SUBSET Rows
    BY <1>3
  <2>2. Cardinality(B) <= request.perSession
    BY <1>3 DEF CapHolds
  <2>3. request.perSession \in Nat
    BY AnswerConstants DEF QueryType, RequestType
  <2> HIDE DEF A, B
  <2>4. IsFiniteSet(B) /\ Cardinality(A) \in Nat /\ Cardinality(B) \in Nat
    BY <2>1, RowsFinite
  <2>5. Cardinality(A) <= Cardinality(B)
    BY <2>1, <2>4, FS_Subset
  <2>6. Cardinality(A) <= request.perSession
    BY <2>2, <2>3, <2>4, <2>5
  <2> QED BY <2>6 DEF A
<1> QED BY <1>2, <1>3, <1>4

\* That is what a search returns.
LEMMA ResultsAre ==
  ASSUME QueryType, NEW any \in BOOLEAN, NEW h \in Results(any)
  PROVE  Finds(h, Matches(any))
<1>0. request.limit \in Nat /\ request.perSession \in Nat
  BY AnswerConstants DEF QueryType, RequestType
<1>1. Matches(any) \in SUBSET Rows
  BY DEF Matches, Candidates, QueryType
<1>2. CASE request.terms = {}
  <2>1. h = <<>> /\ Matches(any) = {}
    BY <1>2 DEF Results, Matches
  <2>2. h \in Seq(Matches(any)) /\ DOMAIN h = {} /\ Len(h) = 0 /\ ToSet(h) = {}
    BY <2>1 DEF ToSet
  <2> QED BY <1>0, <1>1, <2>1, <2>2 DEF Finds, Distinct, CapHolds, MissedBy
<1>3. CASE request.terms # {}
  <2> DEFINE S == Candidates(any)
             limit == QueryLimit(request.limit)
  <2>1. S = Matches(any)
    BY <1>3 DEF Matches
  <2>2. PICK order \in Rankings(any) : \E best \in Capped(order) : h = LimitedTo(best, limit)
    BY <1>3 DEF Results
  <2>3. PICK best \in Capped(order) : h = LimitedTo(best, limit)
    BY <2>2
  <2>4. order \in SetToSeqs(S)
    BY DEF Rankings
  <2> HIDE DEF S
  <2>5. best \in Seq(S) /\ Distinct(best) /\ CapHolds(best) /\ MissedBy(best, S) = {}
    BY <1>1, <2>1, <2>4, CappedIs
  <2>6. limit \in Nat /\ (request.limit > 0 => limit = request.limit + 1)
        /\ (request.limit = 0 => limit = 0)
    BY <1>0 DEF QueryLimit
  <2> HIDE DEF limit
  <2>7. /\ h \in Seq(S) /\ Len(h) \in Nat /\ Len(h) <= Len(best)
        /\ limit > 0 => Len(h) <= limit
        /\ limit = 0 \/ Len(h) # limit => h = best
        /\ limit = 0 \/ Len(best) <= limit => h = best
        /\ \A i \in 1 .. Len(h) : h[i] = best[i]
    BY <2>3, <2>5, <2>6, LimitedToIs
  <2>8. Distinct(h) /\ CapHolds(h)
    BY <1>1, <2>1, <2>5, <2>7, PrefixKeeps
  <2>9. Len(best) \in Nat
    BY <2>5
  <2>10. request.limit > 0 => Len(h) <= request.limit + 1
    BY <1>0, <2>6, <2>7, <2>9
  <2>11. ASSUME request.limit = 0 \/ Len(h) <= request.limit
         PROVE  MissedBy(h, S) = {}
    <3>1. h = best
      BY <1>0, <2>6, <2>7, <2>9, <2>11
    <3> QED BY <2>5, <3>1
  <2>12. ASSUME h = <<>> PROVE S = {}
    <3>1. Len(h) = 0 /\ ToSet(h) = {}
      BY <2>12 DEF ToSet
    <3>2. MissedBy(h, S) = {}
      BY <1>0, <2>11, <3>1
    <3> SUFFICES ASSUME NEW r \in S PROVE FALSE
      OBVIOUS
    <3>3. Cardinality({x \in ToSet(h) : table[x].session = table[r].session}) = 0
      <4>1. {x \in ToSet(h) : table[x].session = table[r].session} = {}
        BY <3>1
      <4> QED BY <4>1, FS_EmptySet
    <3>4. r \in S \ ToSet(h)
      BY <3>1
    <3>5. request.perSession = 0 \/ 0 < request.perSession
      BY <1>0
    <3>6. r \in MissedBy(h, S)
      BY <3>3, <3>4, <3>5 DEF MissedBy
    <3> QED BY <3>2, <3>6
  <2> QED BY <1>1, <2>1, <2>7, <2>8, <2>10, <2>11, <2>12 DEF Finds
<1> QED BY <1>2, <1>3

\* The matches are the messages with all the terms, or with any.
LEMMA MatchesAre == Matches(FALSE) = AllTerms /\ Matches(TRUE) = AnyTerm
  BY DEF Matches, Candidates, Matched, AllTerms, AnyTerm, TermsOf

\* What the properties say of the hits.
LEMMA HitsAre ==
  /\ HitsAreAsked <=> Distinct(hits) /\ CapHolds(hits) /\ ToSet(hits) \subseteq Asked
  /\ Missed = MissedBy(hits, Asked)
  BY DEF HitsAreAsked, Distinct, CapHolds, SessionHits, Missed, MissedBy

\* The properties of the hits after a step that leaves the snapshot and the request.
LEMMA HitsNext ==
  ASSUME UNCHANGED <<table, request, window>>
  PROVE  /\ AnyTerm' = AnyTerm /\ AllTerms' = AllTerms /\ Rows' = Rows
         /\ HitsAreAsked' <=> Distinct(hits') /\ CapHolds(hits') /\ ToSet(hits') \subseteq Asked'
         /\ Missed' = MissedBy(hits', Asked')
         /\ Asked' = IF relaxed' \/ request.mode = "any" THEN AnyTerm ELSE AllTerms
<1>1. Rows' = Rows
  BY DEF Rows
<1>2. AnyTerm' = AnyTerm /\ AllTerms' = AllTerms
  BY DEF AnyTerm, AllTerms, TermsOf
<1>3. HitsAreAsked' <=> Distinct(hits') /\ CapHolds(hits') /\ ToSet(hits') \subseteq Asked'
  BY DEF HitsAreAsked, Distinct, CapHolds, SessionHits
<1>4. Missed' = MissedBy(hits', Asked')
  BY DEF Missed, MissedBy, SessionHits
<1> QED BY <1>1, <1>2, <1>3, <1>4 DEF Asked

\* The hits of a search are matches of the query, and relaxed ones only if it has none.
LEMMA SearchFinds ==
  ASSUME QueryType, Search
  PROVE  /\ hits' \in Seq(Rows) /\ relaxed' \in BOOLEAN
         /\ HitsAreAsked' /\ StrictFirst'
         /\ request.limit > 0 => Len(hits') <= request.limit + 1
         /\ request.limit = 0 \/ Len(hits') <= request.limit => Missed' = {}
<1>1. UNCHANGED <<table, request, window>>
  BY DEF Search
<1>2. /\ HitsAreAsked' <=> Distinct(hits') /\ CapHolds(hits') /\ ToSet(hits') \subseteq Asked'
      /\ Missed' = MissedBy(hits', Asked')
      /\ Asked' = IF relaxed' \/ request.mode = "any" THEN AnyTerm ELSE AllTerms
      /\ AnyTerm' = AnyTerm /\ AllTerms' = AllTerms
  BY <1>1, HitsNext
<1>3. \A h \in Results(TRUE) : Finds(h, AnyTerm)
  BY ResultsAre, MatchesAre
<1>4. \A h \in Results(FALSE) : Finds(h, AllTerms)
  BY ResultsAre, MatchesAre
<1>5. request.mode \in {"all", "any", "raw"} /\ Relaxes \in BOOLEAN
  BY AnswerConstants DEF QueryType, RequestType, Relaxes
<1>6. ASSUME Finds(hits', Asked')
      PROVE  /\ hits' \in Seq(Rows) /\ HitsAreAsked' /\ ToSet(hits') \subseteq Asked'
             /\ request.limit > 0 => Len(hits') <= request.limit + 1
             /\ request.limit = 0 \/ Len(hits') <= request.limit => Missed' = {}
  <2>1. Asked' \in SUBSET Rows /\ hits' \in Seq(Asked')
    BY <1>6 DEF Finds
  <2>2. hits' \in Seq(Rows) /\ ToSet(hits') \subseteq Asked'
    BY <2>1 DEF ToSet
  <2> QED BY <1>2, <1>6, <2>2 DEF Finds
<1>7. PICK found \in Results(request.mode = "any") :
        IF found = <<>> /\ Relaxes
        THEN hits' \in Results(TRUE) /\ relaxed' = (hits' # <<>>)
        ELSE hits' = found /\ relaxed' = FALSE
  BY DEF Search
<1>8. StrictFirst' <=>
        /\ relaxed' => request.mode = "all" /\ AllTerms = {} /\ hits' # <<>>
        /\ (request.mode = "raw" \/ (request.mode = "all" /\ ~relaxed')) => ToSet(hits') \subseteq AllTerms
        /\ (hits' = <<>> /\ request.mode = "all" /\ Cardinality(request.terms) > 1) => AnyTerm = {}
  BY <1>1, <1>2 DEF StrictFirst
<1>9. CASE found = <<>> /\ Relaxes
  <2>1. hits' \in Results(TRUE) /\ relaxed' = (hits' # <<>>) /\ request.mode = "all"
    BY <1>7, <1>9 DEF Relaxes
  <2>2. Finds(hits', AnyTerm)
    BY <1>3, <2>1
  <2>3. AllTerms = {}
    <3>1. found \in Results(FALSE)
      BY <2>1
    <3> QED BY <1>4, <1>9, <3>1 DEF Finds
  <2>4. hits' = <<>> => AnyTerm = {}
    BY <2>2 DEF Finds
  <2>5. Asked' = AnyTerm
    BY <1>2, <2>1, <2>3, <2>4
  <2>6. ToSet(hits') \subseteq AllTerms \/ relaxed'
    BY <1>6, <2>1, <2>2, <2>3, <2>4, <2>5
  <2> QED BY <1>6, <1>8, <2>1, <2>2, <2>3, <2>4, <2>5, <2>6
<1>10. CASE ~(found = <<>> /\ Relaxes)
  <2>1. hits' = found /\ relaxed' = FALSE
    BY <1>7, <1>10
  <2>2. Finds(hits', Asked')
    <3>1. CASE request.mode = "any"
      BY <1>2, <1>3, <2>1, <3>1
    <3>2. CASE request.mode # "any"
      BY <1>2, <1>4, <2>1, <3>2
    <3> QED BY <3>1, <3>2
  <2>3. ~(hits' = <<>> /\ request.mode = "all" /\ Cardinality(request.terms) > 1)
    BY <1>10, <2>1 DEF Relaxes
  <2>4. request.mode # "any" => ToSet(hits') \subseteq AllTerms
    BY <1>2, <1>6, <2>1, <2>2
  <2> QED BY <1>6, <1>8, <2>1, <2>2, <2>3, <2>4
<1> QED BY <1>9, <1>10

\* What is cut off to the limit is missed, and nothing is if nothing was cut off.
LEMMA CutIsHonest ==
  ASSUME QueryType, PhaseInv, SearchInv, Cut
  PROVE  /\ hits' \in Seq(Rows) /\ truncated' \in BOOLEAN
         /\ HitsAreAsked' /\ StrictFirst' /\ TruncatedIfMissed'
<1> DEFINE limit == request.limit
<1>1. /\ UNCHANGED <<table, request, window>> /\ relaxed' = relaxed /\ phase = "searched"
      /\ truncated' = (limit > 0 /\ Len(hits) > limit)
      /\ hits' = LimitedTo(hits, limit)
  BY DEF Cut
<1>2. /\ HitsAreAsked' <=> Distinct(hits') /\ CapHolds(hits') /\ ToSet(hits') \subseteq Asked'
      /\ Missed' = MissedBy(hits', Asked')
      /\ Asked' = Asked
      /\ AnyTerm' = AnyTerm /\ AllTerms' = AllTerms
  BY <1>1, HitsNext DEF Asked
<1>3. limit \in Nat /\ request.perSession \in Nat
  BY AnswerConstants DEF QueryType, RequestType
<1>4. /\ Distinct(hits) /\ CapHolds(hits) /\ ToSet(hits) \subseteq Asked /\ StrictFirst
      /\ limit > 0 => Len(hits) <= limit + 1
      /\ limit = 0 \/ Len(hits) <= limit => MissedBy(hits, Asked) = {}
  BY <1>1, HitsAre DEF SearchInv
<1>5. hits \in Seq(Rows) /\ Len(hits) \in Nat /\ DOMAIN hits = 1 .. Len(hits)
  BY DEF QueryType
<1> HIDE DEF limit
<1>6. /\ hits' \in Seq(Rows) /\ Len(hits') \in Nat /\ Len(hits') <= Len(hits)
      /\ limit > 0 => Len(hits') <= limit
      /\ limit = 0 \/ Len(hits') # limit => hits' = hits
      /\ limit = 0 \/ Len(hits) <= limit => hits' = hits
      /\ DOMAIN hits' = 1 .. Len(hits')
      /\ \A i \in 1 .. Len(hits') : hits'[i] = hits[i] /\ i \in 1 .. Len(hits)
  BY <1>1, <1>3, <1>5, LimitedToIs DEF limit
<1>7. Distinct(hits') /\ CapHolds(hits') /\ ToSet(hits') \subseteq ToSet(hits)
  BY <1>4, <1>5, <1>6, PrefixKeeps
<1>8. HitsAreAsked'
  BY <1>2, <1>4, <1>7
<1>9. StrictFirst'
  <2>1. hits' = <<>> => hits = <<>>
    <3>1. CASE limit = 0
      BY <1>6, <3>1
    <3>2. CASE limit > 0 /\ hits' = <<>>
      <4>1. Len(hits') = 0
        BY <3>2
      <4>2. Len(hits) = 0
        BY <1>3, <1>5, <1>6, <3>2, <4>1
      <4> QED BY <1>5, <4>2
    <3> QED BY <1>3, <3>1, <3>2
  <2> QED BY <1>1, <1>2, <1>4, <1>7, <2>1 DEF StrictFirst
<1>10. TruncatedIfMissed'
  <2>1. limit > 0 => Len(hits') <= limit
    BY <1>3, <1>5, <1>6
  <2>2. CASE ~(limit > 0 /\ Len(hits) > limit)
    <3>0. limit = 0 \/ Len(hits) <= limit
      <4>1. Len(hits) \in Nat
        BY <1>5
      <4> QED BY <1>3, <2>2, <4>1
    <3>1. hits' = hits /\ (limit = 0 \/ Len(hits) <= limit)
      BY <1>6, <3>0
    <3> QED BY <1>1, <1>2, <1>4, <2>1, <2>2, <3>1 DEF TruncatedIfMissed, limit
  <2>3. CASE limit > 0 /\ Len(hits) > limit
    <3>1. Len(hits) = limit + 1 /\ Len(hits') = limit
      <4>1. Len(hits) \in Nat /\ Len(hits) <= limit + 1
        BY <1>4, <1>5, <2>3
      <4>2. Len(hits) = limit + 1
        BY <1>3, <2>3, <4>1
      <4>3. ASSUME Len(hits') # limit PROVE FALSE
        <5>1. hits' = hits
          BY <1>6, <4>3
        <5>2. Len(hits) <= limit
          BY <2>1, <2>3, <5>1
        <5> QED BY <1>3, <4>2, <5>2
      <4> QED BY <4>2, <4>3
    <3> DEFINE e == hits[limit + 1]
               A == {x \in ToSet(hits') : table[x].session = table[e].session}
               B == {x \in ToSet(hits) : table[x].session = table[e].session}
    <3>2. limit + 1 \in 1 .. Len(hits) /\ \A i \in 1 .. Len(hits') : i # limit + 1
      BY <1>3, <1>5, <3>1
    <3>3. e \in ToSet(hits) /\ e \in Rows
      BY <1>5, <3>2 DEF ToSet
    <3>4. e \notin ToSet(hits')
      BY <1>4, <1>5, <1>6, <3>2 DEF ToSet, Distinct
    <3>5. A \in SUBSET (B \ {e}) /\ B \in SUBSET Rows /\ e \in B
      <4>1. ToSet(hits) \in SUBSET Rows
        BY <1>5 DEF ToSet
      <4> HIDE DEF e
      <4> QED BY <1>7, <3>3, <3>4, <4>1
    <3>6. request.perSession > 0 => Cardinality(B) <= request.perSession
      BY <1>4, <3>3 DEF CapHolds
    <3> HIDE DEF A, B, e
    <3>7. IsFiniteSet(B) /\ Cardinality(B) \in Nat
      BY <3>5, RowsFinite
    <3>8. IsFiniteSet(B \ {e}) /\ Cardinality(B \ {e}) = Cardinality(B) - 1
      BY <3>5, <3>7, FS_RemoveElement
    <3>9. Cardinality(A) <= Cardinality(B) - 1 /\ Cardinality(A) \in Nat
      <4>1. IsFiniteSet(A) /\ Cardinality(A) <= Cardinality(B \ {e})
        BY <3>5, <3>8, FS_Subset
      <4> QED BY <3>8, <4>1, FS_CardinalityType
    <3>10. request.perSession = 0 \/ Cardinality(A) < request.perSession
      BY <1>3, <3>6, <3>7, <3>9
    <3>11. e \in MissedBy(hits', Asked)
      BY <1>4, <3>3, <3>4, <3>10 DEF MissedBy, A
    <3>12. Missed' # {} /\ truncated' = TRUE /\ request'.limit = limit
      BY <1>1, <1>2, <2>3, <3>11 DEF limit
    <3> QED BY <2>1, <2>3, <3>1, <3>12 DEF TruncatedIfMissed
  <2> QED BY <2>2, <2>3
<1> QED BY <1>1, <1>6, <1>8, <1>9, <1>10

\* The last messages are the newest of those there are.
LEMMA RecentIsNewest ==
  ASSUME QueryType, Recent
  PROVE  hits' \in Seq(Rows) /\ LastAreNewest'
<1> DEFINE S == {i \in window : table[i].typed /\ (request.all \/ table[i].spoken)}
           limit == request.limit
<1>1. UNCHANGED <<table, request, window>>
  BY DEF Recent
<1>2. PICK order \in SetToSeqs(S) :
        /\ \A i, j \in DOMAIN order : i < j => table[order[i]].time >= table[order[j]].time
        /\ hits' = LimitedTo(order, limit)
  BY DEF Recent
<1>3. S \in SUBSET Rows /\ limit \in Nat
  BY AnswerConstants DEF QueryType, RequestType
<1>4. S' = S /\ limit' = limit
  BY <1>1
<1>5. LastAreNewest' <=>
        /\ S \ ToSet(hits') # {} => Len(hits') = limit
        /\ \A i \in S \ ToSet(hits'), j \in ToSet(hits') : table[i].time <= table[j].time
  BY <1>1 DEF LastAreNewest
<1> HIDE DEF S, limit
<1>6. /\ order \in Seq(S) /\ Len(order) \in Nat /\ DOMAIN order = 1 .. Len(order)
      /\ \A x \in S : \E i \in 1 .. Len(order) : order[i] = x
      /\ ToSet(order) = S
  <2>1. IsFiniteSet(S)
    BY <1>3, RowsFinite
  <2> QED BY <2>1, Enumerates
<1>7. /\ hits' \in Seq(S) /\ Len(hits') \in Nat /\ Len(hits') <= Len(order)
      /\ limit > 0 => Len(hits') <= limit
      /\ limit = 0 \/ Len(hits') # limit => hits' = order
      /\ limit = 0 \/ Len(order) <= limit => hits' = order
      /\ DOMAIN hits' = 1 .. Len(hits')
      /\ \A i \in 1 .. Len(hits') : hits'[i] = order[i] /\ i \in 1 .. Len(order)
  BY <1>2, <1>3, <1>6, LimitedToIs
<1>8. ASSUME S \ ToSet(hits') # {}
      PROVE  Len(hits') = limit
  <2>1. hits' # order
    BY <1>6, <1>8
  <2> QED BY <1>3, <1>6, <1>7, <2>1
<1>9. ASSUME NEW i \in S \ ToSet(hits'), NEW j \in ToSet(hits')
      PROVE  table[i].time <= table[j].time
  <2>1. PICK a \in 1 .. Len(order) : order[a] = i
    BY <1>6
  <2>2. PICK b \in 1 .. Len(hits') : hits'[b] = j
    BY <1>7 DEF ToSet
  <2>3. a \notin 1 .. Len(hits')
    BY <1>7, <2>1 DEF ToSet
  <2>4. b < a /\ b \in 1 .. Len(order)
    BY <1>6, <1>7, <2>2, <2>3
  <2>5. table[order[b]].time >= table[order[a]].time
    BY <1>2, <1>6, <2>4
  <2>6. order[b] = j
    BY <1>7, <2>2
  <2>7. i \in Rows /\ j \in Rows
    BY <1>3, <1>6, <2>4, <2>6
  <2>8. table[i].time \in Int /\ table[j].time \in Int
    BY <2>7, RowType
  <2> QED BY <2>1, <2>5, <2>6, <2>8
<1>10. hits' \in Seq(Rows)
  <2>1. hits' \in Seq(S)
    BY <1>7
  <2> QED BY <1>3, <2>1
<1> QED BY <1>5, <1>8, <1>9, <1>10

-----------------------------------------------------------------------------
(* Windows.                                                                *)

\* Rows have an order.
LEMMA BeforeIsOrder ==
  ASSUME QueryType, NEW i \in Rows, NEW j \in Rows
  PROVE  /\ Before(i, j) \in BOOLEAN /\ ~Before(i, i)
         /\ Before(i, j) => ~Before(j, i) /\ table[i].time <= table[j].time
         /\ i # j => Before(i, j) \/ Before(j, i)
         /\ \A k \in Rows : Before(i, j) /\ Before(j, k) => Before(i, k)
<1>1. \A k \in Rows : k \in Nat /\ table[k].time \in Int
  BY RowType
<1> QED BY <1>1 DEF Before

Sorted(q) == \A i, j \in DOMAIN q : i < j => Before(q[i], q[j])

\* A set of rows can be put in order: each at the position that counts those up to it.
LEMMA OrderExists ==
  ASSUME QueryType, NEW S \in SUBSET Rows
  PROVE  \E q \in SetToSeqs(S) : Sorted(q)
<1> DEFINE n == Cardinality(S)
           upTo(i) == {j \in S : Before(j, i) \/ j = i}
           f == [i \in S |-> Cardinality(upTo(i))]
<1>1. IsFiniteSet(S) /\ n \in Nat
  BY RowsFinite
<1>2. ASSUME NEW i \in S
      PROVE  /\ upTo(i) \in SUBSET S /\ i \in upTo(i) /\ IsFiniteSet(upTo(i))
             /\ Cardinality(upTo(i)) \in 1 .. n
  <2>1. upTo(i) \in SUBSET S /\ i \in upTo(i)
    OBVIOUS
  <2> HIDE DEF upTo
  <2>2. IsFiniteSet(upTo(i)) /\ Cardinality(upTo(i)) <= n
    BY <1>1, <2>1, FS_Subset
  <2>3. Cardinality(upTo(i)) \in Nat /\ Cardinality(upTo(i)) # 0
    BY <2>1, <2>2, FS_CardinalityType, FS_EmptySet
  <2> QED BY <1>1, <2>1, <2>2, <2>3
<1>3. ASSUME NEW i \in S, NEW j \in S, Before(i, j)
      PROVE  f[i] < f[j]
  <2>1. upTo(i) \in SUBSET (upTo(j) \ {j})
    BY <1>3, BeforeIsOrder
  <2>2. /\ IsFiniteSet(upTo(j)) /\ j \in upTo(j) /\ Cardinality(upTo(j)) \in 1 .. n
        /\ Cardinality(upTo(i)) \in 1 .. n
    BY <1>2
  <2> HIDE DEF upTo
  <2>3. IsFiniteSet(upTo(j) \ {j}) /\ Cardinality(upTo(j) \ {j}) = Cardinality(upTo(j)) - 1
    BY <2>2, FS_RemoveElement
  <2>4. Cardinality(upTo(i)) <= Cardinality(upTo(j)) - 1
    BY <2>1, <2>3, FS_Subset
  <2> QED BY <1>1, <2>2, <2>4
<1>4. f \in [S -> 1 .. n]
  BY <1>2
<1> HIDE DEF f, upTo
<1>5. ASSUME NEW i \in S, NEW j \in S, f[i] = f[j]
      PROVE  i = j
  <2>1. f[i] \in Nat
    BY <1>1, <1>4
  <2> QED BY <1>3, <1>5, <2>1, BeforeIsOrder
<1>6. f \in Injection(S, 1 .. n)
  BY <1>4, <1>5, Fun_IsInj
<1>7. IsFiniteSet(1 .. n) /\ Cardinality(1 .. n) = n
  <2> HIDE DEF n
  <2> QED BY <1>1, FS_Interval
<1>8. f \in Surjection(S, 1 .. n)
  BY <1>6, <1>7, FS_Injection
<1> DEFINE q == [p \in 1 .. n |-> CHOOSE i \in S : f[i] = p]
<1>9. ASSUME NEW p \in 1 .. n
      PROVE  q[p] \in S /\ f[q[p]] = p
  <2>1. \E i \in S : f[i] = p
    BY <1>8 DEF Surjection
  <2> QED BY <2>1
<1>10. q \in [1 .. n -> S] /\ DOMAIN q = 1 .. n
  BY <1>9
<1> HIDE DEF q
<1>11. q \in SetToSeqs(S)
  BY <1>9, <1>10 DEF SetToSeqs
<1>12. Sorted(q)
  <2> SUFFICES ASSUME NEW i \in 1 .. n, NEW j \in 1 .. n, i < j
               PROVE  Before(q[i], q[j])
    BY <1>10 DEF Sorted
  <2>1. q[i] \in S /\ q[j] \in S /\ f[q[i]] = i /\ f[q[j]] = j
    BY <1>9
  <2>2. q[i] # q[j] /\ ~Before(q[j], q[i])
    <3>1. ~(j < i) /\ i # j
      BY <1>1
    <3> QED BY <1>3, <2>1, <3>1
  <2> QED BY <2>1, <2>2, BeforeIsOrder
<1> QED BY <1>11, <1>12

\* In it the rows up to one are its position, and those from one on what is left.
LEMMA SortedIs ==
  ASSUME QueryType, NEW S \in SUBSET Rows, NEW q \in SetToSeqs(S), Sorted(q)
  PROVE  /\ q \in Seq(S) /\ Len(q) \in Nat /\ DOMAIN q = 1 .. Len(q) /\ Sorted(q)
         /\ \A i \in 1 .. Len(q) : q[i] \in S
         /\ \A x \in S : \E i \in 1 .. Len(q) : q[i] = x
         /\ \A k \in 1 .. Len(q) :
              /\ Cardinality({i \in S : ~Before(q[k], i)}) = k
              /\ Cardinality({i \in S : ~Before(i, q[k])}) = Len(q) - k + 1
<1>1. q \in SetToSeqs(S) /\ Sorted(q)
  OBVIOUS
<1>2. IsFiniteSet(S)
  BY RowsFinite
<1>3. /\ q \in Seq(S) /\ Len(q) \in Nat /\ DOMAIN q = 1 .. Len(q)
      /\ \A i \in 1 .. Len(q) : q[i] \in S
      /\ \A i, j \in 1 .. Len(q) : q[i] = q[j] => i = j
      /\ \A x \in S : \E i \in 1 .. Len(q) : q[i] = x
  BY <1>1, <1>2, Enumerates
<1>4. ASSUME NEW i \in 1 .. Len(q), NEW j \in 1 .. Len(q)
      PROVE  Before(q[i], q[j]) <=> i < j
  <2>1. q[i] \in Rows /\ q[j] \in Rows /\ i \in Nat /\ j \in Nat
    BY <1>3
  <2>2. i < j => Before(q[i], q[j])
    BY <1>1, <1>3 DEF Sorted
  <2>3. j < i => Before(q[j], q[i])
    BY <1>1, <1>3 DEF Sorted
  <2>4. i < j \/ i = j \/ j < i
    BY <2>1
  <2>5. ~Before(q[i], q[i]) /\ (Before(q[j], q[i]) => ~Before(q[i], q[j]))
    BY <2>1, BeforeIsOrder
  <2> QED BY <2>1, <2>2, <2>3, <2>4, <2>5
<1>5. ASSUME NEW k \in 1 .. Len(q)
      PROVE  Cardinality({i \in S : ~Before(q[k], i)}) = k
  <2> DEFINE D == 1 .. k
  <2>1. {i \in S : ~Before(q[k], i)} = {q[i] : i \in D}
    <3>1. \A i \in 1 .. Len(q) : ~Before(q[k], q[i]) <=> i \in D
      BY <1>3, <1>4
    <3>2. D \in SUBSET (1 .. Len(q))
      BY <1>3
    <3> HIDE DEF D
    <3> QED BY <1>3, <3>1, <3>2
  <2>2. IsFiniteSet(D) /\ Cardinality(D) = k /\ D \in SUBSET (1 .. Len(q))
    <3>1. k \in Nat /\ 1 <= k
      BY <1>3
    <3> QED BY <1>3, <3>1, FS_Interval
  <2> HIDE DEF D
  <2>3. \A i, j \in D : q[i] = q[j] => i = j
    BY <1>3, <2>2
  <2>4. Cardinality({q[i] : i \in D}) = Cardinality(D)
    BY <2>2, <2>3, ImageSize
  <2> QED BY <2>1, <2>2, <2>4
<1>6. ASSUME NEW k \in 1 .. Len(q)
      PROVE  Cardinality({i \in S : ~Before(i, q[k])}) = Len(q) - k + 1
  <2> DEFINE D == k .. Len(q)
  <2>1. {i \in S : ~Before(i, q[k])} = {q[i] : i \in D}
    <3>1. \A i \in 1 .. Len(q) : ~Before(q[i], q[k]) <=> i \in D
      BY <1>3, <1>4
    <3>2. D \in SUBSET (1 .. Len(q))
      BY <1>3
    <3> HIDE DEF D
    <3> QED BY <1>3, <3>1, <3>2
  <2>2. IsFiniteSet(D) /\ Cardinality(D) = Len(q) - k + 1 /\ D \in SUBSET (1 .. Len(q))
    <3>1. k \in Nat /\ 1 <= k /\ k <= Len(q)
      BY <1>3
    <3>2. D \in SUBSET (1 .. Len(q))
      BY <1>3, <3>1
    <3> QED BY <1>3, <3>1, <3>2, FS_Interval
  <2> HIDE DEF D
  <2>3. \A i, j \in D : q[i] = q[j] => i = j
    BY <1>3, <2>2
  <2>4. Cardinality({q[i] : i \in D}) = Cardinality(D)
    BY <2>2, <2>3, ImageSize
  <2> QED BY <2>1, <2>2, <2>4
<1> QED BY <1>1, <1>3, <1>5, <1>6

\* The oldest first is such an order.
LEMMA OldestFirstIs ==
  ASSUME QueryType, NEW S \in SUBSET Rows
  PROVE  OldestFirst(S) \in SetToSeqs(S) /\ Sorted(OldestFirst(S))
  BY OrderExists DEF OldestFirst, Sorted

\* The oldest that a window has room for are those with no more rows up to them.
LEMMA OldestIs ==
  ASSUME QueryType, NEW S \in SUBSET Rows, NEW q \in SetToSeqs(S), Sorted(q), NEW n \in Nat
  PROVE  /\ Take(q, n) \in Seq(S) /\ Sorted(Take(q, n))
         /\ \A r \in S : r \in ToSet(Take(q, n)) <=> Cardinality({i \in S : ~Before(r, i)}) <= n
<1> DEFINE m == Len(Take(q, n))
<1>1. /\ q \in Seq(S) /\ Len(q) \in Nat /\ DOMAIN q = 1 .. Len(q)
      /\ \A i \in 1 .. Len(q) : q[i] \in S
      /\ \A x \in S : \E i \in 1 .. Len(q) : q[i] = x
      /\ \A k \in 1 .. Len(q) : Cardinality({i \in S : ~Before(q[k], i)}) = k
  BY SortedIs
<1>2. /\ Take(q, n) \in Seq(S) /\ m \in Nat /\ m <= Len(q) /\ m <= n
      /\ m # n => m = Len(q)
      /\ DOMAIN Take(q, n) = 1 .. m
      /\ \A i \in 1 .. m : Take(q, n)[i] = q[i] /\ i \in 1 .. Len(q)
  BY <1>1, TakeIs
<1> HIDE DEF m
<1>3. Sorted(Take(q, n))
  BY <1>1, <1>2 DEF Sorted
<1>4. ASSUME NEW r \in S
      PROVE  r \in ToSet(Take(q, n)) <=> Cardinality({i \in S : ~Before(r, i)}) <= n
  <2>1. PICK k \in 1 .. Len(q) : q[k] = r
    BY <1>1
  <2>2. Cardinality({i \in S : ~Before(r, i)}) = k
    BY <1>1, <2>1
  <2>3. k \in 1 .. m <=> k <= n
    <3>1. Len(q) \in Nat
      BY <1>1
    <3> QED BY <1>2, <3>1
  <2>4. r \in ToSet(Take(q, n)) <=> k \in 1 .. m
    <3>1. \A i \in 1 .. Len(q) : q[i] = q[k] => i = k
      <4>1. \A i \in 1 .. Len(q) : Cardinality({j \in S : ~Before(q[i], j)}) = i
        BY <1>1
      <4> QED BY <4>1
    <3> QED BY <1>2, <2>1, <3>1 DEF ToSet
  <2> QED BY <2>2, <2>3, <2>4
<1> QED BY <1>2, <1>3, <1>4

\* The other way round.
LEMMA ReverseIs ==
  ASSUME NEW S, NEW q \in Seq(S)
  PROVE  /\ Reverse(q) \in Seq(S) /\ Len(Reverse(q)) = Len(q) /\ Len(q) \in Nat
         /\ DOMAIN Reverse(q) = 1 .. Len(q)
         /\ \A i \in 1 .. Len(q) : /\ Reverse(q)[i] = q[Len(q) - i + 1]
                                   /\ Len(q) - i + 1 \in 1 .. Len(q)
<1>1. Len(q) \in Nat /\ \A i \in 1 .. Len(q) : q[i] \in S
  OBVIOUS
<1>2. \A i \in 1 .. Len(q) : Len(q) - i + 1 \in 1 .. Len(q) /\ (Len(q) - i) + 1 = Len(q) - i + 1
  BY <1>1
<1>3. Reverse(q) = [i \in 1 .. Len(q) |-> q[(Len(q) - i) + 1]]
  BY DEF Reverse
<1>4. \A i \in 1 .. Len(q) : q[(Len(q) - i) + 1] \in S
  BY <1>1, <1>2
<1>5. Reverse(q) \in [1 .. Len(q) -> S]
  BY <1>3, <1>4
<1> QED BY <1>1, <1>2, <1>3, <1>5

\* The newest, in order: those with no more rows from them on.
LEMMA NewestIs ==
  ASSUME QueryType, NEW S \in SUBSET Rows, NEW q \in SetToSeqs(S), Sorted(q), NEW n \in Nat
  PROVE  /\ Reverse(Take(Reverse(q), n)) \in Seq(S) /\ Sorted(Reverse(Take(Reverse(q), n)))
         /\ \A r \in S : r \in ToSet(Reverse(Take(Reverse(q), n)))
                           <=> Cardinality({i \in S : ~Before(i, r)}) <= n
<1> DEFINE descending == Reverse(q)
           near == Take(descending, n)
           t == Reverse(near)
           m == Len(near)
           z == Len(q)
<1>1. /\ q \in Seq(S) /\ z \in Nat /\ DOMAIN q = 1 .. z
      /\ \A i \in 1 .. z : q[i] \in S
      /\ \A x \in S : \E i \in 1 .. z : q[i] = x
      /\ \A k \in 1 .. z : Cardinality({i \in S : ~Before(i, q[k])}) = z - k + 1
  BY SortedIs
<1>2. /\ descending \in Seq(S) /\ Len(descending) = z
      /\ \A i \in 1 .. z : descending[i] = q[z - i + 1]
  BY <1>1, ReverseIs
<1> HIDE DEF descending
<1>3. /\ near \in Seq(S) /\ m \in Nat /\ m <= z /\ m <= n
      /\ m # n => m = z
      /\ \A i \in 1 .. m : near[i] = descending[i] /\ i \in 1 .. z
  BY <1>2, TakeIs
<1> HIDE DEF near
<1>4. /\ t \in Seq(S) /\ DOMAIN t = 1 .. m
      /\ \A i \in 1 .. m : t[i] = near[m - i + 1] /\ m - i + 1 \in 1 .. m
  BY <1>3, ReverseIs
<1> HIDE DEF t
<1>5. \A i \in 1 .. m : t[i] = q[z - m + i] /\ z - m + i \in 1 .. z
  <2> SUFFICES ASSUME NEW i \in 1 .. m
               PROVE  t[i] = q[z - m + i] /\ z - m + i \in 1 .. z
    OBVIOUS
  <2>1. t[i] = near[m - i + 1] /\ m - i + 1 \in 1 .. m
    BY <1>4
  <2>2. near[m - i + 1] = descending[m - i + 1] /\ m - i + 1 \in 1 .. z
    BY <1>3, <2>1
  <2>3. descending[m - i + 1] = q[z - (m - i + 1) + 1]
    BY <1>2, <2>2
  <2> HIDE DEF m, z
  <2>4. z - (m - i + 1) + 1 = z - m + i /\ z - m + i \in 1 .. z
    <3>1. z \in Nat /\ m \in Nat /\ m <= z
      BY <1>1, <1>3
    <3> QED BY <3>1
  <2> QED BY <2>1, <2>2, <2>3, <2>4
<1> HIDE DEF m, z
<1>6. z \in Nat /\ m \in Nat /\ m <= z /\ m <= n /\ (m # n => m = z)
  <2>1. z \in Nat
    BY <1>1
  <2> QED BY <1>3, <2>1
<1>7. Sorted(t)
  <2> SUFFICES ASSUME NEW i \in 1 .. m, NEW j \in 1 .. m, i < j
               PROVE  Before(t[i], t[j])
    BY <1>4 DEF Sorted
  <2>1. z - m + i < z - m + j /\ z - m + i \in 1 .. z /\ z - m + j \in 1 .. z
    BY <1>6
  <2>2. Before(q[z - m + i], q[z - m + j])
    BY <1>1, <2>1 DEF Sorted
  <2> QED BY <1>5, <2>2
<1>8. ASSUME NEW r \in S
      PROVE  r \in ToSet(t) <=> Cardinality({i \in S : ~Before(i, r)}) <= n
  <2>1. PICK k \in 1 .. z : q[k] = r
    BY <1>1
  <2>2. Cardinality({i \in S : ~Before(i, r)}) = z - k + 1
    BY <1>1, <2>1
  <2>3. \A i \in 1 .. z : q[i] = q[k] => i = k
    <3>1. \A i \in 1 .. z : Cardinality({j \in S : ~Before(j, q[i])}) = z - i + 1
      BY <1>1
    <3>2. \A i \in 1 .. z : q[i] = q[k] => z - i + 1 = z - k + 1
      BY <3>1
    <3> QED BY <1>6, <3>2
  <2>4. r \in ToSet(t) <=> \E i \in 1 .. m : t[i] = r
    BY <1>4 DEF ToSet
  <2>5. ASSUME NEW i \in 1 .. m, t[i] = r PROVE z - k + 1 <= n
    <3>1. z - m + i = k
      BY <1>5, <2>1, <2>3, <2>5
    <3> QED BY <1>6, <3>1
  <2>6. ASSUME z - k + 1 <= n PROVE \E i \in 1 .. m : t[i] = r
    <3>1. k - (z - m) \in 1 .. m /\ z - m + (k - (z - m)) = k
      BY <1>6, <2>6
    <3>2. t[k - (z - m)] = q[z - m + (k - (z - m))]
      BY <1>5, <3>1
    <3> QED BY <2>1, <3>1, <3>2
  <2> QED BY <2>2, <2>4, <2>5, <2>6
<1> QED BY <1>4, <1>7, <1>8 DEF t, near, descending

\* The neighbours on either side of a row.
Earliers(row) == {i \in Neighbours(row) : Before(i, row)}
Laters(row) == {i \in Neighbours(row) : Before(row, i)}

\* The distance to a row counts the neighbours from it on, or up to it.
LEMMA DistanceIs ==
  ASSUME QueryType, NEW hit \in Rows, NEW row \in Rows
  PROVE  /\ Before(row, hit) =>
              Distance(hit, row) = Cardinality({i \in Earliers(hit) : ~Before(i, row)})
         /\ Before(hit, row) =>
              Distance(hit, row) = Cardinality({i \in Laters(hit) : ~Before(row, i)})
<1> DEFINE between(i) == (Before(hit, i) /\ ~Before(row, i)) \/ (Before(i, hit) /\ ~Before(i, row))
           T == {i \in Rows : /\ table[i].session = table[hit].session
                              /\ request.all \/ table[i].spoken
                              /\ between(i)}
<1>1. Distance(hit, row) = Cardinality(T)
  BY DEF Distance
<1>2. ASSUME Before(row, hit) PROVE T = {i \in Earliers(hit) : ~Before(i, row)}
  <2>1. \A i \in Rows : between(i) <=> Before(i, hit) /\ ~Before(i, row)
    <3> SUFFICES ASSUME NEW i \in Rows, Before(hit, i), ~Before(row, i) PROVE FALSE
      OBVIOUS
    <3> QED BY <1>2, BeforeIsOrder
  <2>2. ~Before(hit, hit)
    BY BeforeIsOrder
  <2> HIDE DEF between
  <2> QED BY <2>1, <2>2 DEF Earliers, Neighbours
<1>3. ASSUME Before(hit, row) PROVE T = {i \in Laters(hit) : ~Before(row, i)}
  <2>1. \A i \in Rows : between(i) <=> Before(hit, i) /\ ~Before(row, i)
    <3> SUFFICES ASSUME NEW i \in Rows, Before(i, hit), ~Before(i, row) PROVE FALSE
      OBVIOUS
    <3> QED BY <1>3, BeforeIsOrder
  <2>2. ~Before(hit, hit)
    BY BeforeIsOrder
  <2> HIDE DEF between
  <2> QED BY <2>1, <2>2 DEF Laters, Neighbours
<1> QED BY <1>1, <1>2, <1>3

\* What is near a hit, with so many messages on its sides.
Near(hit, row, s) ==
  \/ row = hit
  \/ /\ table[row].session = table[hit].session
     /\ request.all \/ table[row].spoken
     /\ Distance(hit, row) <= IF Before(row, hit) THEN s.before ELSE s.after

\* One sequence after the other.
LEMMA ConcatIs ==
  ASSUME NEW S, NEW u \in Seq(S), NEW v \in Seq(S)
  PROVE  /\ u \o v \in Seq(S) /\ DOMAIN (u \o v) = 1 .. (Len(u) + Len(v))
         /\ \A i \in 1 .. (Len(u) + Len(v)) : (u \o v)[i] = IF i <= Len(u) THEN u[i] ELSE v[i - Len(u)]
  OBVIOUS

\* A window has what is near its row, in order.
LEMMA AroundIs ==
  ASSUME QueryType, NEW row \in Rows, NEW s \in [before : Nat, after : Nat]
  PROVE  /\ Around(row, s) \in Seq(Rows) /\ Sorted(Around(row, s))
         /\ \A r \in Rows : r \in ToSet(Around(row, s)) <=> Near(row, r, s)
<1> DEFINE e == Earlier(row, s.before)
           l == Later(row, s.after)
           w == Around(row, s)
<1>1. s.before \in Nat /\ s.after \in Nat
  OBVIOUS
<1>2. Earliers(row) \in SUBSET Rows /\ Laters(row) \in SUBSET Rows
  BY DEF Earliers, Laters, Neighbours
<1>3. /\ e \in Seq(Earliers(row)) /\ Sorted(e)
      /\ \A r \in Earliers(row) :
           r \in ToSet(e) <=> Cardinality({i \in Earliers(row) : ~Before(i, r)}) <= s.before
  <2> DEFINE q == OldestFirst(Earliers(row))
  <2>1. q \in SetToSeqs(Earliers(row)) /\ Sorted(q)
    BY <1>2, OldestFirstIs
  <2>2. e = Reverse(Take(Reverse(q), s.before))
    BY DEF Earlier, Earliers
  <2> HIDE DEF q, e
  <2> QED BY <1>1, <1>2, <2>1, <2>2, NewestIs
<1>4. /\ l \in Seq(Laters(row)) /\ Sorted(l)
      /\ \A r \in Laters(row) :
           r \in ToSet(l) <=> Cardinality({i \in Laters(row) : ~Before(r, i)}) <= s.after
  <2> DEFINE q == OldestFirst(Laters(row))
  <2>1. q \in SetToSeqs(Laters(row)) /\ Sorted(q)
    BY <1>2, OldestFirstIs
  <2>2. l = Take(q, s.after)
    BY DEF Later, Laters
  <2> HIDE DEF q, l
  <2> QED BY <1>1, <1>2, <2>1, <2>2, OldestIs
<1>5. w = e \o <<row>> \o l
  BY DEF Around
<1> HIDE DEF e, l, w
<1>6. /\ Len(e) \in Nat /\ Len(l) \in Nat /\ DOMAIN e = 1 .. Len(e) /\ DOMAIN l = 1 .. Len(l)
      /\ \A i \in 1 .. Len(e) : e[i] \in Earliers(row)
      /\ \A i \in 1 .. Len(l) : l[i] \in Laters(row)
  BY <1>3, <1>4
<1>7. e \in Seq(Rows) /\ l \in Seq(Rows) /\ <<row>> \in Seq(Rows)
  <2>1. e \in Seq(Rows)
    BY <1>2, <1>3
  <2>2. l \in Seq(Rows)
    BY <1>2, <1>4
  <2> QED BY <2>1, <2>2
<1> DEFINE a == Len(e)
           z == Len(e) + 1 + Len(l)
<1>8. /\ w \in Seq(Rows) /\ DOMAIN w = 1 .. z
      /\ \A i \in 1 .. z : w[i] = IF i <= a THEN e[i] ELSE IF i = a + 1 THEN row ELSE l[i - (a + 1)]
  <2> DEFINE u == e \o <<row>>
  <2>1. u \in Seq(Rows) /\ Len(u) = a + 1 /\ DOMAIN u = 1 .. (a + 1)
        /\ \A i \in 1 .. (a + 1) : u[i] = IF i <= a THEN e[i] ELSE row
    BY <1>6, <1>7
  <2>2. w = u \o l
    BY <1>5
  <2> HIDE DEF u
  <2>3. w \in Seq(Rows) /\ DOMAIN w = 1 .. z
        /\ \A i \in 1 .. z : w[i] = IF i <= a + 1 THEN u[i] ELSE l[i - (a + 1)]
    <3>1. u \o l \in Seq(Rows) /\ DOMAIN (u \o l) = 1 .. (Len(u) + Len(l))
          /\ \A i \in 1 .. (Len(u) + Len(l)) : (u \o l)[i] = IF i <= Len(u) THEN u[i] ELSE l[i - Len(u)]
      BY <1>7, <2>1, ConcatIs
    <3>2. Len(u) + Len(l) = z /\ Len(u) = a + 1
      BY <1>6, <2>1
    <3> HIDE DEF a, z
    <3> QED BY <2>2, <3>1, <3>2
  <2> QED BY <1>6, <2>1, <2>3
<1>9. /\ a \in Nat /\ z \in Nat /\ a + 1 \in 1 .. z
      /\ \A i \in 1 .. z : i > a + 1 => i - (a + 1) \in 1 .. Len(l)
      /\ \A i \in 1 .. z : i <= a => i \in 1 .. Len(e)
      /\ \A i \in 1 .. Len(e) : i \in 1 .. z /\ i <= a
      /\ \A i \in 1 .. Len(l) : i + (a + 1) \in 1 .. z /\ (i + (a + 1)) - (a + 1) = i /\ i + (a + 1) > a + 1
  <2>1. Len(e) \in Nat /\ Len(l) \in Nat
    BY <1>6
  <2> QED BY <2>1
<1>10. Sorted(w)
  <2> SUFFICES ASSUME NEW i \in 1 .. z, NEW j \in 1 .. z, i < j
               PROVE  Before(w[i], w[j])
    BY <1>8 DEF Sorted
  <2>1. \A x \in Earliers(row) : x \in Rows /\ Before(x, row)
    BY <1>2 DEF Earliers
  <2>2. \A y \in Laters(row) : y \in Rows /\ Before(row, y)
    BY <1>2 DEF Laters
  <2>3. \A x \in Earliers(row), y \in Laters(row) : Before(x, y)
    BY <2>1, <2>2, BeforeIsOrder
  <2> HIDE DEF a, z
  <2>4. CASE j <= a
    <3>1. i <= a /\ i \in 1 .. Len(e) /\ j \in 1 .. Len(e)
      BY <1>9, <2>4
    <3>2. w[i] = e[i] /\ w[j] = e[j]
      BY <1>8, <2>4, <3>1
    <3>3. Before(e[i], e[j])
      BY <1>3, <1>6, <3>1 DEF Sorted
    <3> QED BY <3>2, <3>3
  <2>5. CASE j = a + 1
    <3>1. i <= a /\ i \in 1 .. Len(e) /\ ~(j <= a)
      BY <1>9, <2>5
    <3>2. w[i] = e[i] /\ w[j] = row
      BY <1>8, <2>5, <3>1
    <3> QED BY <1>6, <2>1, <3>1, <3>2
  <2>6. CASE j > a + 1
    <3>1. ~(j <= a) /\ j # a + 1 /\ j - (a + 1) \in 1 .. Len(l)
      BY <1>9, <2>6
    <3>2. w[j] = l[j - (a + 1)] /\ w[j] \in Laters(row)
      BY <1>6, <1>8, <3>1
    <3>3. CASE i <= a
      <4>1. w[i] = e[i] /\ e[i] \in Earliers(row)
        BY <1>6, <1>8, <1>9, <3>3
      <4> QED BY <2>3, <3>2, <4>1
    <3>4. CASE i = a + 1
      <4>1. ~(i <= a)
        BY <1>9, <3>4
      <4>2. w[i] = row
        BY <1>8, <3>4, <4>1
      <4> QED BY <2>2, <3>2, <4>2
    <3>5. CASE i > a + 1
      <4>1. ~(i <= a) /\ i # a + 1 /\ i - (a + 1) \in 1 .. Len(l) /\ i - (a + 1) < j - (a + 1)
        BY <1>9, <3>5
      <4>2. w[i] = l[i - (a + 1)]
        BY <1>8, <4>1
      <4>3. Before(l[i - (a + 1)], l[j - (a + 1)])
        BY <1>4, <1>6, <3>1, <4>1 DEF Sorted
      <4> QED BY <3>2, <4>2, <4>3
    <3> QED BY <1>9, <3>3, <3>4, <3>5
  <2> QED BY <1>9, <2>4, <2>5, <2>6
<1>11. \A r : r \in ToSet(w) <=> r \in ToSet(e) \/ r = row \/ r \in ToSet(l)
  <2>1. ToSet(w) = {w[i] : i \in 1 .. z} /\ ToSet(e) = {e[i] : i \in 1 .. Len(e)}
        /\ ToSet(l) = {l[i] : i \in 1 .. Len(l)}
    BY <1>6, <1>8 DEF ToSet
  <2>2. \A i \in 1 .. Len(e) : w[i] = e[i]
    BY <1>8, <1>9
  <2>3. w[a + 1] = row
    <3>1. ~(a + 1 <= a)
      BY <1>9
    <3> QED BY <1>8, <1>9, <3>1
  <2>4. \A i \in 1 .. Len(l) : w[i + (a + 1)] = l[i]
    <3> SUFFICES ASSUME NEW i \in 1 .. Len(l) PROVE w[i + (a + 1)] = l[i]
      OBVIOUS
    <3>1. i + (a + 1) \in 1 .. z /\ (i + (a + 1)) - (a + 1) = i /\ i + (a + 1) > a + 1
      BY <1>9
    <3>2. ~(i + (a + 1) <= a) /\ i + (a + 1) # a + 1
      BY <1>9, <3>1
    <3> QED BY <1>8, <3>1, <3>2
  <2>5. \A i \in 1 .. z : w[i] \in ToSet(e) \/ w[i] = row \/ w[i] \in ToSet(l)
    <3> SUFFICES ASSUME NEW i \in 1 .. z
                 PROVE  w[i] \in ToSet(e) \/ w[i] = row \/ w[i] \in ToSet(l)
      OBVIOUS
    <3>1. i <= a \/ i = a + 1 \/ i > a + 1
      BY <1>9
    <3> HIDE DEF a, z
    <3> QED BY <1>8, <1>9, <2>1, <3>1
  <2> HIDE DEF a, z
  <2> QED BY <1>9, <2>1, <2>2, <2>3, <2>4, <2>5
<1>12. ASSUME NEW r \in Rows
       PROVE  r \in ToSet(w) <=> Near(row, r, s)
  <2>1. ToSet(e) \subseteq Earliers(row) /\ ToSet(l) \subseteq Laters(row)
    BY <1>6 DEF ToSet
  <2>2. CASE r = row
    BY <1>11, <2>2 DEF Near
  <2>3. CASE Before(r, row)
    <3>1. r # row /\ ~Before(row, r)
      BY <2>3, BeforeIsOrder
    <3>2. r \notin Laters(row)
      BY <3>1 DEF Laters
    <3>3. r \in Earliers(row) <=> table[r].session = table[row].session /\ (request.all \/ table[r].spoken)
      BY <2>3, <3>1 DEF Earliers, Neighbours
    <3>4. Distance(row, r) = Cardinality({i \in Earliers(row) : ~Before(i, r)})
      BY <2>3, DistanceIs
    <3>5. r \in ToSet(w) <=> r \in Earliers(row) /\ Distance(row, r) <= s.before
      BY <1>3, <1>11, <2>1, <3>1, <3>2, <3>4
    <3> QED BY <2>3, <3>1, <3>3, <3>5 DEF Near
  <2>4. CASE Before(row, r)
    <3>1. r # row /\ ~Before(r, row)
      BY <2>4, BeforeIsOrder
    <3>2. r \notin Earliers(row)
      BY <3>1 DEF Earliers
    <3>3. r \in Laters(row) <=> table[r].session = table[row].session /\ (request.all \/ table[r].spoken)
      BY <2>4, <3>1 DEF Laters, Neighbours
    <3>4. Distance(row, r) = Cardinality({i \in Laters(row) : ~Before(r, i)})
      BY <2>4, DistanceIs
    <3>5. r \in ToSet(w) <=> r \in Laters(row) /\ Distance(row, r) <= s.after
      BY <1>4, <1>11, <2>1, <3>1, <3>2, <3>4
    <3> QED BY <3>1, <3>3, <3>5 DEF Near
  <2> QED BY <2>2, <2>3, <2>4, BeforeIsOrder
<1> QED BY <1>8, <1>10, <1>12 DEF w

\* What is in order is there once, and no later than what follows.
LEMMA SortedOnce ==
  ASSUME QueryType, NEW q \in Seq(Rows), Sorted(q)
  PROVE  /\ Distinct(q)
         /\ \A i, j \in DOMAIN q : i < j => table[q[i]].time <= table[q[j]].time
<1>1. DOMAIN q = 1 .. Len(q) /\ Len(q) \in Nat /\ \A i \in 1 .. Len(q) : q[i] \in Rows
  OBVIOUS
<1>2. \A i, j \in 1 .. Len(q) : i < j => q[i] # q[j] /\ table[q[i]].time <= table[q[j]].time
  BY <1>1, BeforeIsOrder DEF Sorted
<1>3. ASSUME NEW i \in 1 .. Len(q), NEW j \in 1 .. Len(q), q[i] = q[j]
      PROVE  i = j
  <2>1. ~(i < j) /\ ~(j < i)
    BY <1>2, <1>3
  <2> QED BY <1>1, <2>1
<1> QED BY <1>1, <1>2, <1>3 DEF Distinct

\* What is there once counts one.
LEMMA CountOnce ==
  ASSUME NEW q, Distinct(q), NEW r
  PROVE  Cardinality({k \in DOMAIN q : q[k] = r}) = IF r \in ToSet(q) THEN 1 ELSE 0
<1>1. CASE r \in ToSet(q)
  <2>1. PICK k \in DOMAIN q : q[k] = r
    BY <1>1 DEF ToSet
  <2>2. {x \in DOMAIN q : q[x] = r} = {k}
    BY <2>1 DEF Distinct
  <2> QED BY <1>1, <2>2, FS_Singleton
<1>2. CASE r \notin ToSet(q)
  <2>1. {x \in DOMAIN q : q[x] = r} = {}
    BY <1>2 DEF ToSet
  <2> QED BY <1>2, <2>1, FS_EmptySet
<1> QED BY <1>1, <1>2

\* What surrounds a hit after a step that leaves the snapshot and the request.
LEMMA SurroundsNext ==
  ASSUME UNCHANGED <<table, request>>
  PROVE  /\ Rows' = Rows
         /\ \A h, r : Surrounds(h, r)' <=> Near(h, r, sides')
<1>1. Rows' = Rows
  BY DEF Rows
<1>2. \A h, r : Before(h, r)' <=> Before(h, r)
  BY DEF Before
<1>3. \A h, r : Distance(h, r)' = Distance(h, r)
  BY <1>1 DEF Distance, Before
<1> QED BY <1>1, <1>2, <1>3 DEF Surrounds, Near

\* A read renders one window, exactly.
LEMMA ReadIsExact ==
  ASSUME QueryType, Read, phase' = "selected"
  PROVE  /\ hits' \in Seq(Rows) /\ sides' \in [before : Nat, after : Nat]
         /\ items' \in Seq([row : Rows, hits : SUBSET Rows])
         /\ WindowsAreExact'
<1>1. UNCHANGED <<table, request>> /\ request.for = "read"
  BY DEF Read
<1>2. \E row \in Rows :
        /\ hits' = <<row>>
        /\ sides' \in [before : Nat, after : Nat]
        /\ items' = Alone(Around(row, sides'))
  <2>1. PICK address, before, after :
          /\ before \in Sides /\ after \in Sides
          /\ IF Cardinality(Resolve(address)) # 1
             THEN phase' = "refused" /\ UNCHANGED <<hits, sides, items>>
             ELSE \E row \in Resolve(address) :
                    /\ hits' = <<row>>
                    /\ sides' = [before |-> before, after |-> after]
                    /\ items' = Alone(Around(row, sides'))
                    /\ phase' = "selected"
    BY DEF Read
  <2>2. Resolve(address) \subseteq Rows
    BY DEF Resolve
  <2>3. [before |-> before, after |-> after] \in [before : Nat, after : Nat]
    BY <2>1, AnswerConstants
  <2> QED BY <2>1, <2>2, <2>3
<1>3. PICK row \in Rows :
        /\ hits' = <<row>>
        /\ sides' \in [before : Nat, after : Nat]
        /\ items' = Alone(Around(row, sides'))
  BY <1>2
<1>4. sides' \in [before : Nat, after : Nat]
  BY <1>3
<1>5. hits' \in Seq(Rows) /\ ToSet(hits') = {row}
  <2>1. hits' \in Seq(Rows) /\ DOMAIN hits' = {1} /\ hits'[1] = row
    BY <1>3
  <2> QED BY <2>1 DEF ToSet
<1> DEFINE s == sides'
           w == Around(row, s)
<1>6. /\ w \in Seq(Rows) /\ Sorted(w)
      /\ \A r \in Rows : r \in ToSet(w) <=> Near(row, r, s)
  <2> HIDE DEF s
  <2> QED BY <1>3, <1>4, AroundIs DEF s
<1>7. items' = [k \in DOMAIN w |-> [row |-> w[k], hits |-> {}]]
  BY <1>3 DEF Alone
<1> HIDE DEF w, s
<1>8. Distinct(w) /\ \A i, j \in DOMAIN w : i < j => table[w[i]].time <= table[w[j]].time
  BY <1>6, SortedOnce
<1>9. /\ DOMAIN items' = DOMAIN w /\ \A k \in DOMAIN w : items'[k].row = w[k]
      /\ items' \in Seq([row : Rows, hits : SUBSET Rows])
  <2>1. DOMAIN w = 1 .. Len(w) /\ Len(w) \in Nat /\ \A k \in DOMAIN w : w[k] \in Rows
    BY <1>6
  <2> QED BY <1>7, <2>1
<1>10. Rows' = Rows /\ \A h, r : Surrounds(h, r)' <=> Near(h, r, s)
  BY <1>1, SurroundsNext DEF s
<1>11. ASSUME NEW r \in Rows
       PROVE  Cardinality({k \in DOMAIN items' : items'[k].row = r})
                = IF \E h \in ToSet(hits') : Surrounds(h, r)' THEN 1 ELSE 0
  <2>1. {k \in DOMAIN items' : items'[k].row = r} = {k \in DOMAIN w : w[k] = r}
    BY <1>9
  <2>2. (\E h \in ToSet(hits') : Surrounds(h, r)') <=> r \in ToSet(w)
    BY <1>5, <1>6, <1>10
  <2>3. Cardinality({k \in DOMAIN w : w[k] = r}) = IF r \in ToSet(w) THEN 1 ELSE 0
    BY <1>8, CountOnce
  <2> QED BY <2>1, <2>2, <2>3
<1>12. \A j, k \in DOMAIN items' : j < k => table[items'[j].row].time <= table[items'[k].row].time
  BY <1>8, <1>9
<1> QED BY <1>1, <1>4, <1>5, <1>9, <1>10, <1>11, <1>12 DEF WindowsAreExact

\* A context merges the windows of its hits, exactly.
LEMMA ExpandIsExact ==
  ASSUME QueryType, Expand
  PROVE  /\ sides' \in [before : Nat, after : Nat]
         /\ items' \in Seq([row : Rows, hits : SUBSET Rows])
         /\ WindowsAreExact'
<1>1. UNCHANGED <<table, request, hits>>
  BY DEF Expand
<1>2. sides' \in [before : Nat, after : Nat] /\ items' \in ExpandContext(sides')
  BY AnswerConstants DEF Expand
<1>3. /\ hits \in Seq(Rows) /\ DOMAIN hits = 1 .. Len(hits) /\ Len(hits) \in Nat
      /\ \A h \in DOMAIN hits : hits[h] \in Rows
  BY DEF QueryType
<1> DEFINE s == sides'
           windows == [h \in DOMAIN hits |-> ToSet(Around(hits[h], s))]
           all == UNION {windows[h] : h \in DOMAIN hits}
           from(r) == {hits[h] : h \in {x \in DOMAIN hits : r \in windows[x]}}
<1>4. PICK o \in SetToSeqs(all) :
        /\ \A i, j \in DOMAIN o : i < j =>
             \/ table[o[i]].session < table[o[j]].session
             \/ /\ table[o[i]].session = table[o[j]].session
                /\ table[o[i]].time <= table[o[j]].time
        /\ items' = [k \in DOMAIN o |-> [row |-> o[k], hits |-> from(o[k])]]
  BY <1>2 DEF ExpandContext
<1> HIDE DEF s
<1>5. ASSUME NEW h \in DOMAIN hits
      PROVE  windows[h] \in SUBSET Rows /\ \A r \in Rows : r \in windows[h] <=> Near(hits[h], r, s)
  <2>1. /\ Around(hits[h], s) \in Seq(Rows)
        /\ \A r \in Rows : r \in ToSet(Around(hits[h], s)) <=> Near(hits[h], r, s)
    BY <1>2, <1>3, AroundIs DEF s
  <2>2. ToSet(Around(hits[h], s)) \in SUBSET Rows
    BY <2>1 DEF ToSet
  <2> QED BY <2>1, <2>2
<1> HIDE DEF windows
<1>6. all \in SUBSET Rows /\ IsFiniteSet(all)
  <2>1. all \in SUBSET Rows
    BY <1>5
  <2> HIDE DEF all
  <2> QED BY <2>1, RowsFinite
<1>7. \A r \in Rows : from(r) = {h \in ToSet(hits) : Near(h, r, s)}
  BY <1>3, <1>5 DEF ToSet
<1>8. \A r \in Rows : r \in all <=> from(r) # {}
  OBVIOUS
<1> HIDE DEF all, from
<1>9. /\ DOMAIN o = 1 .. Len(o) /\ Len(o) \in Nat /\ Distinct(o) /\ ToSet(o) = all
      /\ \A k \in DOMAIN o : o[k] \in all
  BY <1>6, Enumerates DEF Distinct
<1>10. ToSet(hits) \in SUBSET Rows
  BY <1>3 DEF ToSet
<1>11. /\ DOMAIN items' = DOMAIN o
       /\ \A k \in DOMAIN o : items'[k].row = o[k] /\ items'[k].hits = from(o[k])
       /\ items' \in Seq([row : Rows, hits : SUBSET Rows])
  <2>1. \A k \in DOMAIN o : o[k] \in Rows /\ from(o[k]) \in SUBSET Rows
    BY <1>6, <1>7, <1>9, <1>10
  <2> QED BY <1>4, <1>9, <2>1
<1>12. Rows' = Rows /\ \A h, r : Surrounds(h, r)' <=> Near(h, r, s)
  BY <1>1, SurroundsNext DEF s
<1>13. ASSUME NEW r \in Rows
       PROVE  Cardinality({k \in DOMAIN items' : items'[k].row = r})
                = IF \E h \in ToSet(hits') : Surrounds(h, r)' THEN 1 ELSE 0
  <2>1. {k \in DOMAIN items' : items'[k].row = r} = {k \in DOMAIN o : o[k] = r}
    BY <1>11
  <2>2. (\E h \in ToSet(hits') : Surrounds(h, r)') <=> r \in ToSet(o)
    BY <1>1, <1>7, <1>8, <1>9, <1>12
  <2>3. Cardinality({k \in DOMAIN o : o[k] = r}) = IF r \in ToSet(o) THEN 1 ELSE 0
    BY <1>9, CountOnce
  <2> QED BY <2>1, <2>2, <2>3
<1>14. (\A k \in DOMAIN items :
           items[k].hits = {h \in ToSet(hits) : Surrounds(h, items[k].row)} /\ items[k].hits # {})'
  <2>1. \A k \in DOMAIN items' :
          items'[k].row = o[k] /\ items'[k].hits = from(o[k]) /\ o[k] \in all /\ o[k] \in Rows
    BY <1>6, <1>9, <1>11
  <2>2. \A k \in DOMAIN items' :
          items'[k].hits = {h \in ToSet(hits) : Near(h, items'[k].row, s)} /\ items'[k].hits # {}
    BY <1>7, <1>8, <2>1
  <2> QED BY <1>1, <1>12, <2>2
<1>15. ASSUME NEW j \in DOMAIN items', NEW k \in DOMAIN items', j < k,
              table[items'[j].row].session = table[items'[k].row].session
       PROVE  table[items'[j].row].time <= table[items'[k].row].time
  <2>1. /\ items'[j].row = o[j] /\ items'[k].row = o[k] /\ o[j] \in Rows /\ o[k] \in Rows
        /\ j \in DOMAIN o /\ k \in DOMAIN o
    BY <1>6, <1>9, <1>11
  <2>2. table[o[j]].session \in Int /\ table[o[k]].session \in Int
    BY <2>1, RowType
  <2>3. ~(table[o[j]].session < table[o[k]].session)
    BY <1>15, <2>1, <2>2
  <2> QED BY <1>4, <1>15, <2>1, <2>3
<1> QED BY <1>1, <1>2, <1>11, <1>12, <1>13, <1>14, <1>15 DEF WindowsAreExact

-----------------------------------------------------------------------------
(* The invariant.                                                          *)

\* Nothing is selected before, and all is idle.
LEMMA InitInv == Init => AnswersInv
<1> SUFFICES ASSUME Init PROVE AnswersInv
  OBVIOUS
<1>1. /\ request \in Requests /\ window \in Windows(table, request)
      /\ phase = "asked" /\ hits = <<>> /\ relaxed = FALSE /\ truncated = FALSE
      /\ sides = [before |-> 0, after |-> 0] /\ items = <<>> /\ OutputInit
  BY DEF Init
<1>2. table \in Seq(Messages)
  <2>1. PICK n \in 0 .. MaxRows : table \in [1 .. n -> Messages]
    BY DEF Init
  <2>2. n \in Nat
    BY AnswerConstants
  <2> QED BY <2>1, <2>2
<1>3. window \in SUBSET Rows
  BY <1>1 DEF Windows, Scope, Rows
<1>4. QueryType
  <2>1. <<>> \in Seq(Rows) /\ <<>> \in Seq([row : Rows, hits : SUBSET Rows])
    OBVIOUS
  <2> QED BY <1>1, <1>2, <1>3, <2>1 DEF QueryType
<1>5. OutputInv /\ stage = "idle"
  BY <1>1, IdleInv DEF OutputInit
<1> QED
  BY <1>1, <1>4, <1>5
  DEF AnswersInv, PhaseInv, SearchInv, LimitIsHonest, RelaxedOnlyWithoutStrict, Chosen, WindowsAreExact

\* The rows of a search or a read, alone.
LEMMA AloneType ==
  ASSUME NEW S, NEW h \in Seq(S)
  PROVE  Alone(h) \in Seq([row : S, hits : SUBSET S])
<1>1. DOMAIN h = 1 .. Len(h) /\ Len(h) \in Nat /\ \A k \in 1 .. Len(h) : h[k] \in S
  OBVIOUS
<1> QED BY <1>1 DEF Alone

\* A search leaves what it found,
LEMMA SearchStep ==
  ASSUME AnswersInv, Search
  PROVE  AnswersInv'
<1>1. /\ phase = "asked" /\ phase' = "searched" /\ request.for \in {"search", "context"}
      /\ UNCHANGED <<table, request, window, truncated, sides, items, output>>
  BY DEF Search
<1>2. QueryType /\ PhaseInv /\ OutputInv
  BY DEF AnswersInv
<1>3. /\ hits' \in Seq(Rows) /\ relaxed' \in BOOLEAN
      /\ HitsAreAsked' /\ StrictFirst'
      /\ request.limit > 0 => Len(hits') <= request.limit + 1
      /\ request.limit = 0 \/ Len(hits') <= request.limit => Missed' = {}
  BY <1>2, SearchFinds
<1>4. OutputInv'
  BY <1>1, <1>2, OutputStutter
<1>5. QueryType'
  BY <1>1, <1>2, <1>3 DEF QueryType, Rows
<1>6. PhaseInv'
  BY <1>1, <1>2 DEF PhaseInv, output
<1>7. SearchInv'
  BY <1>1, <1>3 DEF SearchInv
<1> QED
  BY <1>1, <1>4, <1>5, <1>6, <1>7
  DEF AnswersInv, LimitIsHonest, RelaxedOnlyWithoutStrict, Chosen, WindowsAreExact

\* the cut what is honest about the limit,
LEMMA CutStep ==
  ASSUME AnswersInv, Cut
  PROVE  AnswersInv'
<1>1. /\ phase = "searched"
      /\ IF request.for = "search"
         THEN phase' = "selected" /\ items' = Alone(hits')
         ELSE phase' = "cut" /\ items' = items
      /\ UNCHANGED <<table, request, window, relaxed, sides, output>>
  BY DEF Cut
<1>2. QueryType /\ PhaseInv /\ SearchInv /\ OutputInv
  BY DEF AnswersInv
<1>3. /\ hits' \in Seq(Rows) /\ truncated' \in BOOLEAN
      /\ HitsAreAsked' /\ StrictFirst' /\ TruncatedIfMissed'
  BY <1>2, CutIsHonest
<1>4. OutputInv'
  BY <1>1, <1>2, OutputStutter
<1>5. QueryType'
  <2>1. items' \in Seq([row : Rows, hits : SUBSET Rows])
    <3>1. Alone(hits') \in Seq([row : Rows, hits : SUBSET Rows])
      BY <1>3, AloneType
    <3> QED BY <1>1, <1>2, <3>1 DEF QueryType
  <2> QED BY <1>1, <1>2, <1>3, <2>1 DEF QueryType, Rows
<1>6. PhaseInv'
  BY <1>1, <1>2 DEF PhaseInv, output
<1>7. SearchInv'
  BY <1>1, <1>3 DEF SearchInv
<1> QED
  BY <1>1, <1>3, <1>4, <1>5, <1>6, <1>7
  DEF AnswersInv, LimitIsHonest, RelaxedOnlyWithoutStrict, Chosen, WindowsAreExact

\* the expansion of a context the windows of its hits,
LEMMA ExpandStep ==
  ASSUME AnswersInv, Expand
  PROVE  AnswersInv'
<1>1. /\ phase = "cut" /\ phase' = "selected"
      /\ UNCHANGED <<table, request, window, hits, relaxed, truncated, output>>
  BY DEF Expand
<1>2. QueryType /\ PhaseInv /\ SearchInv /\ OutputInv
  BY DEF AnswersInv
<1>3. request.for = "context" /\ HitsAreAsked /\ StrictFirst /\ TruncatedIfMissed
  BY <1>1, <1>2 DEF PhaseInv, SearchInv
<1>4. HitsAreAsked' /\ StrictFirst' /\ TruncatedIfMissed'
  <2>1. /\ AnyTerm' = AnyTerm /\ AllTerms' = AllTerms /\ Asked' = Asked
        /\ \A s : SessionHits(s)' = SessionHits(s)
    BY <1>1, HitsNext DEF SessionHits, Asked
  <2>2. Missed' = Missed
    BY <1>1, HitsNext, HitsAre, <2>1
  <2>3. HitsAreAsked' /\ StrictFirst'
    BY <1>1, <1>3, <2>1 DEF HitsAreAsked, StrictFirst
  <2> QED BY <1>1, <1>3, <2>2, <2>3 DEF TruncatedIfMissed
<1>5. /\ sides' \in [before : Nat, after : Nat]
      /\ items' \in Seq([row : Rows, hits : SUBSET Rows])
      /\ WindowsAreExact'
  BY <1>2, ExpandIsExact
<1>6. OutputInv'
  BY <1>1, <1>2, OutputStutter
<1>7. QueryType'
  BY <1>1, <1>2, <1>5 DEF QueryType, Rows
<1>8. PhaseInv'
  BY <1>1, <1>2 DEF PhaseInv, output
<1> QED
  BY <1>1, <1>3, <1>4, <1>5, <1>6, <1>7, <1>8
  DEF AnswersInv, SearchInv, LimitIsHonest, RelaxedOnlyWithoutStrict, Chosen

\* a read the window of its message, if it is found,
LEMMA ReadStep ==
  ASSUME AnswersInv, Read
  PROVE  AnswersInv'
<1>1. /\ phase = "asked" /\ request.for = "read"
      /\ UNCHANGED <<table, request, window, relaxed, truncated, output>>
  BY DEF Read
<1>2. QueryType /\ PhaseInv /\ OutputInv
  BY DEF AnswersInv
<1>3. \/ phase' = "refused" /\ UNCHANGED <<hits, sides, items>>
      \/ phase' = "selected"
  <2>1. PICK address, before, after :
          IF Cardinality(Resolve(address)) # 1
          THEN phase' = "refused" /\ UNCHANGED <<hits, sides, items>>
          ELSE \E row \in Resolve(address) :
                 /\ hits' = <<row>>
                 /\ sides' = [before |-> before, after |-> after]
                 /\ items' = Alone(Around(row, sides'))
                 /\ phase' = "selected"
    BY DEF Read
  <2> QED BY <2>1
<1>4. OutputInv'
  BY <1>1, <1>2, OutputStutter
<1>5. QueryType' /\ WindowsAreExact'
  <2>1. CASE phase' = "refused" /\ UNCHANGED <<hits, sides, items>>
    BY <1>1, <1>2, <2>1 DEF QueryType, Rows, WindowsAreExact
  <2>2. CASE phase' = "selected"
    <3>1. /\ hits' \in Seq(Rows) /\ sides' \in [before : Nat, after : Nat]
          /\ items' \in Seq([row : Rows, hits : SUBSET Rows])
          /\ WindowsAreExact'
      BY <1>2, <2>2, ReadIsExact
    <3> QED BY <1>1, <1>2, <2>2, <3>1 DEF QueryType, Rows
  <2> QED BY <1>3, <2>1, <2>2
<1>6. PhaseInv'
  BY <1>1, <1>2, <1>3 DEF PhaseInv, output
<1> QED
  BY <1>1, <1>3, <1>4, <1>5, <1>6
  DEF AnswersInv, SearchInv, LimitIsHonest, RelaxedOnlyWithoutStrict, Chosen

\* and a query for the last messages the newest.
LEMMA RecentStep ==
  ASSUME AnswersInv, Recent
  PROVE  AnswersInv'
<1>1. /\ phase = "asked" /\ phase' = "selected" /\ request.for = "last" /\ items' = Alone(hits')
      /\ UNCHANGED <<table, request, window, relaxed, truncated, sides, output>>
  BY DEF Recent
<1>2. QueryType /\ PhaseInv /\ OutputInv
  BY DEF AnswersInv
<1>3. hits' \in Seq(Rows) /\ LastAreNewest'
  BY <1>2, RecentIsNewest
<1>4. OutputInv'
  BY <1>1, <1>2, OutputStutter
<1>5. QueryType'
  <2>1. items' \in Seq([row : Rows, hits : SUBSET Rows])
    BY <1>1, <1>3, AloneType
  <2> QED BY <1>1, <1>2, <1>3, <2>1 DEF QueryType, Rows
<1>6. PhaseInv'
  BY <1>1, <1>2 DEF PhaseInv, output
<1> QED
  BY <1>1, <1>3, <1>4, <1>5, <1>6
  DEF AnswersInv, SearchInv, LimitIsHonest, RelaxedOnlyWithoutStrict, Chosen, WindowsAreExact

\* Once the response is made nothing is said of its rows.
LEMMA AnsweredInv ==
  ASSUME QueryType, phase = "answered", OutputInv
  PROVE  AnswersInv
  BY DEF AnswersInv, PhaseInv, SearchInv, LimitIsHonest, RelaxedOnlyWithoutStrict, Chosen, WindowsAreExact

\* The bodies that are rendered are bodies of messages, or nothing.
LEMMA BodiesType ==
  ASSUME QueryType
  PROVE  [k \in DOMAIN items |-> Body(items[k].row)] \in Seq(BodyType)
<1>1. /\ DOMAIN items = 1 .. Len(items) /\ Len(items) \in Nat
      /\ \A k \in DOMAIN items : items[k].row \in Rows
  <2> DEFINE T == [row : Rows, hits : SUBSET Rows]
  <2>1. items \in Seq(T)
    BY DEF QueryType
  <2> HIDE DEF T
  <2>2. /\ DOMAIN items = 1 .. Len(items) /\ Len(items) \in Nat
        /\ \A k \in 1 .. Len(items) : items[k] \in T
    BY <2>1
  <2> QED BY <2>2 DEF T
<1>2. \A row \in Rows : Body(row) \in BodyType
  <2>1. [raw |-> 0, flat |-> 0] \in BodyType
    BY DEF BodyType
  <2> QED BY <2>1, RowType DEF Body
<1>3. \A k \in DOMAIN items : Body(items[k].row) \in BodyType
  BY <1>1, <1>2
<1> QED BY <1>1, <1>3

\* The answer is formatted, and the rows are forgotten.
LEMMA AnswerStep ==
  ASSUME AnswersInv, Answer
  PROVE  AnswersInv'
<1>1. /\ Format([k \in DOMAIN items |-> Body(items[k].row)])
      /\ phase' = "answered"
      /\ table' = <<>> /\ window' = {} /\ hits' = <<>> /\ items' = <<>>
      /\ UNCHANGED <<request, relaxed, truncated, sides>>
  BY DEF Answer
<1>2. QueryType /\ OutputInv
  BY DEF AnswersInv
<1>3. OutputInv'
  BY <1>1, <1>2, BodiesType, FormatInv
<1>4. QueryType'
  <2>1. /\ <<>> \in Seq(Messages) /\ \A S : <<>> \in Seq(S)
    OBVIOUS
  <2> QED BY <1>1, <1>2, <2>1 DEF QueryType
<1> QED
  BY <1>1, <1>3, <1>4
  DEF AnswersInv, PhaseInv, SearchInv, LimitIsHonest, RelaxedOnlyWithoutStrict, Chosen, WindowsAreExact

\* The response takes its steps.
LEMMA OutputStep ==
  ASSUME AnswersInv, (Fill \/ Filled \/ Pour \/ Emit) /\ UNCHANGED <<query, truncated>>
  PROVE  AnswersInv'
<1>1. QueryType /\ PhaseInv /\ OutputInv
  BY DEF AnswersInv
<1>2. stage # "idle"
  BY DEF Fill, Filled, Pour, Emit
<1>3. OutputInv'
  BY <1>1, FillInv, FilledInv, PourStepInv, EmitStepInv
<1>4. UNCHANGED <<table, request, window, phase, hits, relaxed, sides, items, truncated>>
  BY DEF query
<1>5. QueryType' /\ phase' = "answered"
  BY <1>1, <1>2, <1>4 DEF QueryType, PhaseInv, Rows
<1> QED
  BY <1>3, <1>5
  DEF AnswersInv, PhaseInv, SearchInv, LimitIsHonest, RelaxedOnlyWithoutStrict, Chosen, WindowsAreExact

\* It ends, truncated if results were dropped.
LEMMA FinishStep ==
  ASSUME AnswersInv, Finish
  PROVE  AnswersInv'
<1>1. QueryType /\ PhaseInv /\ OutputInv
  BY DEF AnswersInv
<1>2. Formatted /\ stage # "idle" /\ UNCHANGED <<table, request, window, phase, hits, relaxed, sides, items>>
  BY DEF Finish, Formatted, query
<1>3. OutputInv'
  BY <1>1, <1>2, FormattedInv
<1>4. truncated' \in BOOLEAN
  <2>1. (truncated \/ Dropped > 0) \in BOOLEAN
    OBVIOUS
  <2> QED BY <2>1 DEF Finish
<1>5. QueryType' /\ phase' = "answered"
  BY <1>1, <1>2, <1>4 DEF QueryType, PhaseInv, Rows
<1> QED
  BY <1>3, <1>5
  DEF AnswersInv, PhaseInv, SearchInv, LimitIsHonest, RelaxedOnlyWithoutStrict, Chosen, WindowsAreExact

\* Nothing happens.
LEMMA StutterStep ==
  ASSUME AnswersInv, UNCHANGED vars
  PROVE  AnswersInv'
<1>1. UNCHANGED <<table, request, window, phase, hits, relaxed, sides, items, truncated, output>>
  BY DEF vars, query
<1>2. QueryType /\ PhaseInv /\ SearchInv /\ OutputInv
      /\ LimitIsHonest /\ RelaxedOnlyWithoutStrict /\ WindowsAreExact
  BY DEF AnswersInv
<1>3. OutputInv'
  BY <1>1, <1>2, OutputStutter
<1>4. QueryType' /\ PhaseInv'
  BY <1>1, <1>2 DEF QueryType, PhaseInv, Rows, output
<1>5. /\ AnyTerm' = AnyTerm /\ AllTerms' = AllTerms /\ Asked' = Asked
      /\ \A s : SessionHits(s)' = SessionHits(s)
  BY <1>1, HitsNext DEF SessionHits, Asked
<1>6. Missed' = Missed
  BY <1>1, HitsNext, HitsAre, <1>5
<1>7. (HitsAreAsked => HitsAreAsked') /\ (StrictFirst => StrictFirst')
      /\ (TruncatedIfMissed => TruncatedIfMissed') /\ (LastAreNewest => LastAreNewest')
  BY <1>1, <1>5, <1>6 DEF HitsAreAsked, StrictFirst, TruncatedIfMissed, LastAreNewest
<1>8. WindowsAreExact'
  <2>1. Rows' = Rows /\ \A h, r : Surrounds(h, r)' <=> Near(h, r, sides')
    BY <1>1, SurroundsNext
  <2>2. \A h, r : Surrounds(h, r)' <=> Surrounds(h, r)
    BY <1>1, <2>1 DEF Near, Surrounds
  <2> QED BY <1>1, <1>2, <2>1, <2>2 DEF WindowsAreExact
<1> QED
  BY <1>1, <1>2, <1>3, <1>4, <1>6, <1>7, <1>8
  DEF AnswersInv, SearchInv, LimitIsHonest, RelaxedOnlyWithoutStrict, Chosen

-----------------------------------------------------------------------------
(* The theorems.                                                           *)

\* The invariant holds of every answer: it is inductive.
THEOREM Invariance == Spec => []AnswersInv
<1>1. Init => AnswersInv
  BY InitInv
<1>2. AnswersInv /\ [Next]_vars => AnswersInv'
  BY SearchStep, CutStep, ExpandStep, ReadStep, RecentStep, AnswerStep, OutputStep, FinishStep,
     StutterStep
  DEF Next
<1> QED BY <1>1, <1>2, PTL DEF Spec

\* For every table, request and limit: a search misses a match only where its limit is
\* used up or the session has its share, and says that it is truncated exactly if the
\* limit made it miss one; the last messages are the newest (Search, runSearch, Last).
THEOREM LimitIsHonestAlways == Spec => []LimitIsHonest
<1>1. AnswersInv => LimitIsHonest
  BY DEF AnswersInv
<1> QED BY <1>1, Invariance, PTL

\* Relaxed hits are given only where no message has all the terms, and nothing is
\* given only where none has any (runSearch, runContext).
THEOREM RelaxedOnlyWithoutStrictAlways == Spec => []RelaxedOnlyWithoutStrict
<1>1. AnswersInv => RelaxedOnlyWithoutStrict
  BY DEF AnswersInv
<1> QED BY <1>1, Invariance, PTL

\* However the windows of hits overlap, every message near a hit is rendered exactly
\* once, no other is, and it names the hits it is near (Around, ExpandContext).
THEOREM WindowsAreExactAlways == Spec => []WindowsAreExact
<1>1. AnswersInv => WindowsAreExact
  BY DEF AnswersInv
<1> QED BY <1>1, Invariance, PTL

\* Whatever is found, a response spends no more than its budget (Format, plan, render).
THEOREM SpentWithinBudgetAlways == Spec => []SpentWithinBudget
<1>1. AnswersInv => SpentWithinBudget
  BY BudgetHolds DEF AnswersInv
<1> QED BY <1>1, Invariance, PTL

\* The previews of a response share its budget fairly, and a result is dropped only
\* where the least would not be left for it (plan, waterFill).
THEOREM SharesAreFairAlways == Spec => []SharesAreFair
<1>1. AnswersInv => SharesAreFair
  BY FairnessHolds DEF AnswersInv
<1> QED BY <1>1, Invariance, PTL
=============================================================================
