--------------------------- MODULE AccountsProofs ---------------------------
(***************************************************************************)
(* Proofs about Accounts, for any participants, tickers, prices, volumes     *)
(* and any number of trades.  What a holding has realized equals the cash    *)
(* its fills brought in plus the cost of what is held; every other property  *)
(* of the ledger follows from it.  The first two sections are about the      *)
(* operators the model is built from: sums of sequences, and fractions.      *)
(***************************************************************************)
EXTENDS Accounts,
        WellFoundedInduction, TLAPS

-----------------------------------------------------------------------------
(* Sums of sequences of integers. *)

\* Every nonempty set of naturals has a least element: the induction principle
\* of the lemmas below.
LEMMA LeastElement ==
  ASSUME NEW T, T \subseteq Nat, T # {}
  PROVE  \E x \in T : \A y \in T : x <= y
<1>1. PICK x \in T : \A y \in T : ~ (<<y, x>> \in OpToRel(<, Nat))
  BY NatLessThanWellFounded, WFMin, Zenon
<1>2. \A y \in T : ~(y < x)
  BY <1>1, Zenon DEF OpToRel
<1>3. QED
  BY <1>2

\* One step of the recursion that defines Total, and its solution.
TotalStep(s, f, i) == IF i = 0 THEN 0 ELSE f[i - 1] + s[i]
Totals0(s) == CHOOSE f : f = [i \in 0..Len(s) |-> TotalStep(s, f, i)]

\* The recursion has a solution, so the one chosen satisfies it.
LEMMA TotalsExist ==
  ASSUME NEW s \in Seq(Int), NEW n \in Nat, n <= Len(s)
  PROVE  \E f : f = [i \in 0..n |-> TotalStep(s, f, i)]
<1> DEFINE Solvable(m) == \E f : f = [i \in 0..m |-> TotalStep(s, f, i)]
           T == {m \in Nat : m <= Len(s) /\ ~Solvable(m)}
<1>1. SUFFICES ASSUME T # {} PROVE FALSE
  OBVIOUS
<1>2. PICK m \in T : \A y \in T : m <= y
  BY <1>1, LeastElement, Zenon
<1>3. CASE m = 0
  <2> DEFINE g == [i \in 0..0 |-> 0]
  <2>1. g = [i \in 0..0 |-> TotalStep(s, g, i)]
    BY DEF TotalStep
  <2>2. QED
    BY <2>1, <1>2, <1>3
<1>4. CASE m # 0
  <2>1. m - 1 \in Nat /\ m - 1 <= Len(s) /\ m - 1 \notin T
    BY <1>2, <1>4
  <2>2. PICK f : f = [i \in 0..(m - 1) |-> TotalStep(s, f, i)]
    BY <2>1
  <2> DEFINE g == [i \in 0..m |-> IF i = m THEN TotalStep(s, f, m) ELSE f[i]]
  <2>3. ASSUME NEW i \in 0..m PROVE g[i] = TotalStep(s, g, i)
    <3>1. CASE i = m
      <4>1. g[m] = TotalStep(s, f, m) /\ g[m - 1] = f[m - 1]
        BY <1>2, <1>4
      <4>2. QED
        BY <1>4, <3>1, <4>1 DEF TotalStep
    <3>2. CASE i # m
      <4>1. i \in 0..(m - 1) /\ g[i] = f[i]
        BY <1>2, <3>2
      <4>2. f[i] = TotalStep(s, f, i)
        BY <2>2, <4>1, Zenon
      <4>3. i # 0 => g[i - 1] = f[i - 1]
        BY <1>2, <4>1
      <4>4. QED
        BY <4>1, <4>2, <4>3 DEF TotalStep
    <3>3. QED
      BY <3>1, <3>2
  <2>4. g = [i \in 0..m |-> TotalStep(s, g, i)]
    BY <2>3
  <2>5. QED
    BY <1>2, <2>4, Zenon
<1>5. QED
  BY <1>3, <1>4

\* The sum of the first i elements.
TotalTo(s, i) == Totals0(s)[i]

\* The partial sums: nothing at 0, and one more element at each step.
LEMMA TotalRecursion ==
  ASSUME NEW s \in Seq(Int)
  PROVE  /\ Total(s) = TotalTo(s, Len(s))
         /\ TotalTo(s, 0) = 0
         /\ \A i \in 1..Len(s) : TotalTo(s, i) = TotalTo(s, i - 1) + s[i]
<1> DEFINE k == Totals0(s)
<1>1. Len(s) \in Nat
  OBVIOUS
<1>2. \E f : f = [i \in 0..Len(s) |-> TotalStep(s, f, i)]
  <2>1. Len(s) <= Len(s)
    BY <1>1
  <2>2. QED
    BY <1>1, <2>1, TotalsExist
<1>3. k = [i \in 0..Len(s) |-> TotalStep(s, k, i)]
  BY <1>2, Zenon DEF Totals0
<1>4. Total(s) = k[Len(s)]
  BY DEF Total, Totals0, TotalStep
<1> HIDE DEF k
<1>5. \A i \in 0..Len(s) : k[i] = TotalStep(s, k, i)
  BY <1>3
<1>6. k[0] = 0
  BY <1>1, <1>5 DEF TotalStep
<1>7. \A i \in 1..Len(s) : k[i] = k[i - 1] + s[i]
  BY <1>1, <1>5 DEF TotalStep
<1>8. QED
  BY <1>4, <1>6, <1>7 DEF k, TotalTo

\* Partial sums of integers are integers.
LEMMA TotalToInt ==
  ASSUME NEW s \in Seq(Int), NEW n \in 0..Len(s)
  PROVE  TotalTo(s, n) \in Int
<1> DEFINE T == {m \in Nat : m <= Len(s) /\ TotalTo(s, m) \notin Int}
<1>1. SUFFICES ASSUME T # {} PROVE FALSE
  OBVIOUS
<1>2. PICK m \in T : \A y \in T : m <= y
  BY <1>1, LeastElement, Zenon
<1>3. m # 0
  BY <1>2, TotalRecursion
<1>4. m - 1 \in Nat /\ m - 1 <= Len(s) /\ m - 1 \notin T /\ m \in 1..Len(s)
  BY <1>2, <1>3
<1>5. TotalTo(s, m) = TotalTo(s, m - 1) + s[m]
  BY <1>4, TotalRecursion
<1>6. QED
  BY <1>2, <1>4, <1>5

\* Sums of the first n elements of sequences that agree on them.
LEMMA TotalToSame ==
  ASSUME NEW s \in Seq(Int), NEW r \in Seq(Int), Len(s) <= Len(r),
         \A i \in 1..Len(s) : r[i] = s[i],
         NEW n \in 0..Len(s)
  PROVE  TotalTo(r, n) = TotalTo(s, n)
<1> DEFINE T == {m \in Nat : m <= Len(s) /\ TotalTo(r, m) # TotalTo(s, m)}
<1>1. SUFFICES ASSUME T # {} PROVE FALSE
  OBVIOUS
<1>2. PICK m \in T : \A y \in T : m <= y
  BY <1>1, LeastElement, Zenon
<1>3. m # 0
  BY <1>2, TotalRecursion
<1>4. /\ m - 1 \in Nat /\ m - 1 <= Len(s) /\ m - 1 \notin T
      /\ m \in 1..Len(s) /\ m \in 1..Len(r)
  BY <1>2, <1>3
<1>5. TotalTo(s, m) = TotalTo(s, m - 1) + s[m] /\ TotalTo(r, m) = TotalTo(r, m - 1) + r[m]
  BY <1>4, TotalRecursion
<1>6. QED
  BY <1>2, <1>4, <1>5

\* A change d at position j, counted up to position i.
LEMMA ChangeUpTo ==
  ASSUME NEW i \in Int, NEW j \in Int, NEW d \in Int
  PROVE  (IF j <= i THEN d ELSE 0) = (IF j <= i - 1 THEN d ELSE 0) + (IF i = j THEN d ELSE 0)
OBVIOUS

\* Sums of the first n elements of sequences that agree but for position k,
\* where the second has d more.
LEMMA TotalToChange ==
  ASSUME NEW s \in Seq(Int), NEW r \in Seq(Int), Len(r) = Len(s),
         NEW k \in 1..Len(s), NEW d \in Int,
         \A i \in 1..Len(s) : r[i] = IF i = k THEN s[i] + d ELSE s[i],
         NEW n \in 0..Len(s)
  PROVE  TotalTo(r, n) = TotalTo(s, n) + (IF k <= n THEN d ELSE 0)
<1> DEFINE Good(m) == TotalTo(r, m) = TotalTo(s, m) + (IF k <= m THEN d ELSE 0)
           T == {m \in Nat : m <= Len(s) /\ ~Good(m)}
<1> HIDE DEF Good
<1>1. SUFFICES ASSUME T # {} PROVE FALSE
  <2>1. T = {} => Good(n)
    OBVIOUS
  <2>2. QED
    BY <2>1, Zenon DEF Good
<1>2. PICK m \in T : \A y \in T : m <= y
  BY <1>1, LeastElement, Zenon
<1>3. m # 0
  <2>1. Good(0)
    BY TotalRecursion DEF Good
  <2>2. QED
    BY <1>2, <2>1
<1>4. /\ m - 1 \in Nat /\ m - 1 <= Len(s) /\ m - 1 \notin T
      /\ m \in 1..Len(s) /\ m \in 1..Len(r) /\ m - 1 \in 0..Len(s)
  BY <1>2, <1>3
<1>5. Good(m - 1)
  BY <1>4
<1>6. TotalTo(s, m) = TotalTo(s, m - 1) + s[m] /\ TotalTo(r, m) = TotalTo(r, m - 1) + r[m]
  BY <1>4, TotalRecursion, Zenon
<1>7. TotalTo(s, m - 1) \in Int /\ s[m] \in Int
  BY <1>4, TotalToInt
<1>8. r[m] = IF m = k THEN s[m] + d ELSE s[m]
  BY <1>4
<1>9. Good(m)
  <2> DEFINE before == IF k <= m - 1 THEN d ELSE 0
             here == IF m = k THEN d ELSE 0
             after == IF k <= m THEN d ELSE 0
  <2>1. after = before + here /\ before \in Int /\ here \in Int
    <3>1. m \in Int /\ k \in Int
      BY <1>4
    <3>2. after = before + here
      BY <3>1, ChangeUpTo, SMTT(20)
    <3>3. QED
      BY <3>1, <3>2
  <2>2. r[m] = s[m] + here
    BY <1>7, <1>8, SMTT(20)
  <2>3. TotalTo(r, m - 1) = TotalTo(s, m - 1) + before
    BY <1>5 DEF Good
  <2> HIDE DEF before, here, after
  <2>4. TotalTo(r, m) = TotalTo(s, m) + after
    <3>1. TotalTo(r, m) = (TotalTo(s, m - 1) + before) + (s[m] + here)
      BY <1>6, <2>2, <2>3, Zenon
    <3>2. PICK x \in Int, y \in Int : x = TotalTo(s, m - 1) /\ y = s[m]
      BY <1>7, Zenon
    <3>3. TotalTo(r, m) = (TotalTo(s, m - 1) + s[m]) + (before + here)
      <4>1. (x + before) + (y + here) = (x + y) + (before + here)
        BY <2>1
      <4>2. QED
        BY <3>1, <3>2, <4>1, Zenon
    <3>4. QED
      BY <1>6, <2>1, <3>3, Zenon
  <2>5. QED
    BY <2>4 DEF Good, after
<1>10. QED
  BY <1>2, <1>9

\* The sum of a sequence of integers is an integer.
LEMMA TotalInt ==
  ASSUME NEW s \in Seq(Int)
  PROVE  Total(s) \in Int
<1>1. Len(s) \in 0..Len(s)
  OBVIOUS
<1>2. QED
  BY <1>1, TotalRecursion, TotalToInt

\* The sum of the empty sequence.
LEMMA TotalEmpty ==
  ASSUME NEW s \in Seq(Int), Len(s) = 0
  PROVE  Total(s) = 0
BY TotalRecursion, Zenon

\* One more element.
LEMMA TotalAppend ==
  ASSUME NEW s \in Seq(Int), NEW r \in Seq(Int), Len(r) = Len(s) + 1,
         \A i \in 1..Len(s) : r[i] = s[i]
  PROVE  Total(r) = Total(s) + r[Len(r)]
<1>1. Len(s) \in 0..Len(s) /\ Len(s) <= Len(r) /\ Len(s) + 1 \in 1..Len(r)
  OBVIOUS
<1>2. TotalTo(r, Len(s)) = TotalTo(s, Len(s))
  BY <1>1, TotalToSame
<1>3. TotalTo(r, Len(s) + 1) = TotalTo(r, Len(s)) + r[Len(s) + 1]
  BY <1>1, TotalRecursion
<1>4. QED
  BY <1>2, <1>3, TotalRecursion

\* The same elements but for one, which grows by d.
Changed(s, r, k, d) == \A i \in 1..Len(s) : r[i] = IF i = k THEN s[i] + d ELSE s[i]

\* The sum grows by what one element grows.
LEMMA TotalChange ==
  ASSUME NEW s \in Seq(Int), NEW r \in Seq(Int), Len(r) = Len(s),
         NEW k \in 1..Len(s), NEW d \in Int, Changed(s, r, k, d)
  PROVE  Total(r) = Total(s) + d
<1>1. Len(s) \in 0..Len(s) /\ k <= Len(s)
  OBVIOUS
<1>2. TotalTo(r, Len(s)) = TotalTo(s, Len(s)) + (IF k <= Len(s) THEN d ELSE 0)
  BY <1>1, TotalToChange, SMTT(20) DEF Changed
<1>3. QED
  BY <1>1, <1>2, TotalRecursion

\* Equal elements.
LEMMA TotalSame ==
  ASSUME NEW s \in Seq(Int), NEW r \in Seq(Int), Len(r) = Len(s),
         \A i \in 1..Len(s) : r[i] = s[i]
  PROVE  Total(r) = Total(s)
<1>1. r = s
  OBVIOUS
<1>2. QED
  BY <1>1

\* Without the first element.
LEMMA TotalTail ==
  ASSUME NEW s \in Seq(Int), NEW r \in Seq(Int), Len(s) = Len(r) + 1,
         \A i \in 1..Len(r) : r[i] = s[i + 1]
  PROVE  Total(s) = s[1] + Total(r)
<1> DEFINE Good(m) == TotalTo(s, m + 1) = s[1] + TotalTo(r, m)
           T == {m \in Nat : m <= Len(r) /\ ~Good(m)}
<1> HIDE DEF Good
<1>0. Len(r) \in Nat
  OBVIOUS
<1>1. T = {}
  <2>1. SUFFICES ASSUME T # {} PROVE FALSE
    OBVIOUS
  <2>2. PICK m \in T : \A y \in T : m <= y
    BY <2>1, LeastElement, Zenon
  <2>3. /\ \A i \in 1..Len(s) : TotalTo(s, i) = TotalTo(s, i - 1) + s[i]
        /\ TotalTo(s, 0) = 0
        /\ \A i \in 1..Len(r) : TotalTo(r, i) = TotalTo(r, i - 1) + r[i]
        /\ TotalTo(r, 0) = 0
    BY TotalRecursion, Zenon
  <2>4. s[1] \in Int
    BY <1>0
  <2>5. m # 0
    <3>1. TotalTo(s, 0 + 1) = TotalTo(s, 0) + s[1]
      BY <1>0, <2>3
    <3>2. Good(0)
      BY <2>3, <2>4, <3>1 DEF Good
    <3>3. QED
      BY <2>2, <3>2
  <2>6. /\ m - 1 \in Nat /\ m - 1 <= Len(r) /\ m - 1 \notin T
        /\ m \in 1..Len(r) /\ m + 1 \in 1..Len(s) /\ m - 1 \in 0..Len(r)
        /\ m \in 0..Len(s)
    BY <1>0, <2>2, <2>5
  <2>7. TotalTo(s, m) = s[1] + TotalTo(r, m - 1)
    <3>1. Good(m - 1)
      BY <2>6
    <3>2. (m - 1) + 1 = m
      BY <2>6
    <3>3. QED
      BY <3>1, <3>2 DEF Good
  <2>8. TotalTo(s, m + 1) = TotalTo(s, m) + s[m + 1] /\ TotalTo(r, m) = TotalTo(r, m - 1) + r[m]
    BY <2>3, <2>6
  <2>9. TotalTo(s, m) \in Int /\ TotalTo(r, m - 1) \in Int /\ s[m + 1] \in Int /\ r[m] = s[m + 1]
    <3>1. m \in 0..Len(s) /\ m - 1 \in 0..Len(r) /\ m + 1 \in 1..Len(s) /\ m \in 1..Len(r)
      BY <2>6
    <3>2. TotalTo(s, m) \in Int /\ TotalTo(r, m - 1) \in Int
      BY <3>1, TotalToInt, Zenon
    <3>3. QED
      BY <3>1, <3>2
  <2>10. Good(m)
    <3>1. TotalTo(s, m + 1) = (s[1] + TotalTo(r, m - 1)) + r[m]
      BY <2>7, <2>8, <2>9
    <3>2. QED
      BY <2>4, <2>8, <2>9, <3>1 DEF Good
  <2>11. QED
    BY <2>2, <2>10
<1>2. TotalTo(s, Len(r) + 1) = s[1] + TotalTo(r, Len(r))
  <2>1. Len(r) \notin T
    BY <1>1
  <2>2. Good(Len(r))
    BY <1>0, <2>1
  <2>3. QED
    BY <2>2 DEF Good
<1>3. QED
  BY <1>2, TotalRecursion

\* A sum of naturals is at least each of them.
LEMMA TotalAtLeast ==
  ASSUME NEW s \in Seq(Int), \A i \in 1..Len(s) : s[i] >= 0
  PROVE  /\ Total(s) >= 0
         /\ \A k \in 1..Len(s) : Total(s) >= s[k]
<1> DEFINE Good(m) == TotalTo(s, m) >= 0 /\ \A k \in 1..m : TotalTo(s, m) >= s[k]
           T == {m \in Nat : m <= Len(s) /\ ~Good(m)}
<1> HIDE DEF Good
<1>1. T = {}
  <2>1. SUFFICES ASSUME T # {} PROVE FALSE
    OBVIOUS
  <2>2. PICK m \in T : \A y \in T : m <= y
    BY <2>1, LeastElement, Zenon
  <2>3. m # 0
    <3>1. Good(0)
      BY TotalRecursion DEF Good
    <3>2. QED
      BY <2>2, <3>1
  <2>4. /\ m - 1 \in Nat /\ m - 1 <= Len(s) /\ m - 1 \notin T
        /\ m \in 1..Len(s) /\ m - 1 \in 0..Len(s)
    BY <2>2, <2>3
  <2>5. Good(m - 1)
    BY <2>4
  <2>6. TotalTo(s, m) = TotalTo(s, m - 1) + s[m]
    BY <2>4, TotalRecursion
  <2>7. TotalTo(s, m - 1) \in Int /\ s[m] \in Int /\ s[m] >= 0
    BY <2>4, TotalToInt
  <2>8. ASSUME NEW k \in 1..m PROVE TotalTo(s, m) >= s[k]
    <3>1. CASE k = m
      BY <2>5, <2>6, <2>7, <3>1 DEF Good
    <3>2. CASE k # m
      <4>1. k \in 1..(m - 1) /\ s[k] \in Int
        BY <2>4, <3>2
      <4>2. QED
        BY <2>5, <2>6, <2>7, <4>1 DEF Good
    <3>3. QED
      BY <3>1, <3>2
  <2>9. TotalTo(s, m) >= 0
    BY <2>5, <2>6, <2>7 DEF Good
  <2>10. QED
    BY <2>2, <2>8, <2>9 DEF Good
<1>2. Len(s) \in Nat /\ Len(s) \notin T
  BY <1>1
<1>3. Good(Len(s))
  BY <1>2
<1>4. QED
  BY <1>3, TotalRecursion DEF Good

-----------------------------------------------------------------------------
(* Fractions in lowest terms. *)

Positive == Nat \ {0}

\* Exact division, and cancelling a factor.
LEMMA DivExact ==
  ASSUME NEW n \in Int, NEW d \in Positive, n % d = 0
  PROVE  (n \div d) \in Int /\ (n \div d) * d = n
BY DEF Positive

\* A multiple leaves no remainder.
LEMMA ModExact ==
  ASSUME NEW q \in Int, NEW d \in Positive
  PROVE  (q * d) % d = 0
BY DEF Positive

\* A positive factor cancels.
LEMMA Cancel ==
  ASSUME NEW a \in Int, NEW b \in Int, NEW c \in Positive, a * c = b * c
  PROVE  a = b
BY DEF Positive

\* A product of positive numbers is positive.
LEMMA ProductPositive ==
  ASSUME NEW a \in Positive, NEW b \in Positive
  PROVE  a * b \in Positive
BY DEF Positive

\* Frac(n, d) has the value n / d and the least denominator that can have it.
LEMMA FracFacts ==
  ASSUME NEW n \in Int, NEW d \in Positive
  PROVE  /\ Frac(n, d) \in Fraction
         /\ Frac(n, d).den \in Positive /\ Frac(n, d).num \in Int
         /\ Frac(n, d).num * d = n * Frac(n, d).den
         /\ \A y \in Positive : (n * y) % d = 0 => Frac(n, d).den <= y
<1> DEFINE S == {x \in 1..d : (n * x) % d = 0}
           least == Min(S)
<1>1. d \in S
  BY ModExact DEF Positive
<1>2. S \subseteq Nat
  BY DEF Positive
<1>3. \E x \in S : \A y \in S : x <= y
  BY <1>1, <1>2, LeastElement, Zenon
<1>4. least \in S /\ \A y \in S : least <= y
  BY <1>3 DEF Min
<1>5. Frac(n, d) = [num |-> (n * least) \div d, den |-> least]
  BY DEF Frac
<1> HIDE DEF least
<1>6. least \in 1..d /\ least \in Positive /\ (n * least) % d = 0 /\ n * least \in Int
  BY <1>4 DEF Positive
<1>7. ((n * least) \div d) \in Int /\ ((n * least) \div d) * d = n * least
  BY <1>6, DivExact
<1>8. ASSUME NEW y \in Positive, (n * y) % d = 0 PROVE least <= y
  <2>1. CASE y <= d
    BY <1>4, <1>8, <2>1 DEF Positive
  <2>2. CASE y > d
    BY <1>6, <2>2 DEF Positive
  <2>3. QED
    BY <2>1, <2>2 DEF Positive
<1>9. QED
  BY <1>5, <1>6, <1>7, <1>8 DEF Fraction, Positive

\* A multiple of n / d is whole exactly when the same multiple of m / e is.
LEMMA SameMultiples ==
  ASSUME NEW n \in Int, NEW d \in Positive, NEW m \in Int, NEW e \in Positive,
         n * e = m * d, NEW x \in Int, (n * x) % d = 0
  PROVE  (m * x) % e = 0
<1>1. n * x \in Int /\ n * e \in Int
  BY DEF Positive
<1>2. PICK q \in Int : q * d = n * x
  BY <1>1, DivExact
<1>3. (q * e) * d = (m * x) * d
  <2>1. (q * e) * d = (q * d) * e
    BY DEF Positive
  <2>2. (n * x) * e = (n * e) * x
    BY DEF Positive
  <2>3. (m * d) * x = (m * x) * d
    BY DEF Positive
  <2>4. QED
    BY <1>2, <2>1, <2>2, <2>3
<1>4. q * e = m * x
  <2>1. q * e \in Int /\ m * x \in Int
    BY DEF Positive
  <2>2. QED
    BY <1>3, <2>1, Cancel
<1>5. QED
  BY <1>4, ModExact

\* Equal values have the same reduced fraction.
LEMMA FracCanonical ==
  ASSUME NEW n \in Int, NEW d \in Positive, NEW m \in Int, NEW e \in Positive,
         n * e = m * d
  PROVE  Frac(n, d) = Frac(m, e)
<1> DEFINE r == Frac(n, d)
           s == Frac(m, e)
<1>1. /\ r \in Fraction /\ r.den \in Positive /\ r.num \in Int /\ r.num * d = n * r.den
      /\ \A y \in Positive : (n * y) % d = 0 => r.den <= y
  BY FracFacts, Zenon
<1>2. /\ s \in Fraction /\ s.den \in Positive /\ s.num \in Int /\ s.num * e = m * s.den
      /\ \A y \in Positive : (m * y) % e = 0 => s.den <= y
  BY FracFacts, Zenon
<1> HIDE DEF r, s
<1>3. (n * r.den) % d = 0
  <2>1. (r.num * d) % d = 0
    BY <1>1, ModExact
  <2>2. QED
    BY <1>1, <2>1, Zenon
<1>4. (m * s.den) % e = 0
  <2>1. (s.num * e) % e = 0
    BY <1>2, ModExact
  <2>2. QED
    BY <1>2, <2>1, Zenon
<1>5. r.den \in Int /\ s.den \in Int
  BY <1>1, <1>2 DEF Positive
<1>6. (m * r.den) % e = 0
  <2>1. PICK x \in Int : x = r.den
    BY <1>5
  <2>2. (m * x) % e = 0
    BY <1>3, <2>1, SameMultiples, SMTT(20)
  <2>3. QED
    BY <2>1, <2>2
<1>7. (n * s.den) % d = 0
  <2>1. \A a \in Int, b \in Positive, i \in Int, j \in Positive, x \in Int :
          a * j = i * b /\ (a * x) % b = 0 => (i * x) % j = 0
    BY SameMultiples
  <2>2. QED
    BY <1>4, <1>5, <2>1, ZenonT(30)
<1>8. r.den = s.den
  BY <1>1, <1>2, <1>5, <1>6, <1>7
<1>9. (r.num * d) * e = (s.num * e) * d
  <2>1. (n * r.den) * e = (n * e) * r.den
    BY <1>5 DEF Positive
  <2>2. (m * d) * r.den = (m * r.den) * d
    BY <1>5 DEF Positive
  <2>3. QED
    BY <1>1, <1>2, <1>8, <2>1, <2>2
<1>10. r.num = s.num
  <2>1. r.num * (d * e) = s.num * (d * e)
    BY <1>1, <1>2, <1>9 DEF Positive
  <2>2. d * e \in Positive
    BY ProductPositive
  <2>3. QED
    BY <1>1, <1>2, <2>1, <2>2, Cancel
<1>11. r = s
  BY <1>1, <1>2, <1>8, <1>10 DEF Fraction
<1>12. QED
  BY <1>11 DEF r, s

\* The fraction x has the value n / d.
Value(x, n, d) == x \in Fraction /\ x.num * d = n * x.den

\* x is in lowest terms.
Lowest(x) == x \in Fraction /\ x = Frac(x.num, x.den)

\* The numerator and the denominator of a fraction.
LEMMA FractionParts ==
  ASSUME NEW x \in Fraction
  PROVE  x.num \in Int /\ x.den \in Int /\ x.den \in Positive
BY DEF Fraction, Positive

\* Frac(n, d) has the value n/d and is in lowest terms.
LEMMA FracValue ==
  ASSUME NEW n \in Int, NEW d \in Positive
  PROVE  Value(Frac(n, d), n, d) /\ Lowest(Frac(n, d))
<1> DEFINE r == Frac(n, d)
<1>1. r \in Fraction /\ r.den \in Positive /\ r.num \in Int /\ r.num * d = n * r.den
  BY FracFacts, Zenon
<1> HIDE DEF r
<1>2. Frac(r.num, r.den) = Frac(n, d)
  BY <1>1, FracCanonical
<1>3. QED
  BY <1>1, <1>2 DEF Value, Lowest, r

\* Whole(n) has the value n and is in lowest terms.
LEMMA WholeValue ==
  ASSUME NEW n \in Int
  PROVE  Value(Whole(n), n, 1) /\ Lowest(Whole(n))
<1>1. Whole(n) \in Fraction /\ Whole(n).num = n /\ Whole(n).den = 1
  BY DEF Whole, Fraction
<1>2. Value(Frac(n, 1), n, 1) /\ 1 \in Positive
  BY FracValue DEF Positive
<1>3. /\ Frac(n, 1).den \in Positive /\ Frac(n, 1).num \in Int
      /\ Frac(n, 1).num * 1 = n * Frac(n, 1).den
      /\ \A y \in Positive : (n * y) % 1 = 0 => Frac(n, 1).den <= y
      /\ Frac(n, 1) \in Fraction
  BY <1>2, FracFacts, Zenon
<1>4. (n * 1) % 1 = 0
  BY <1>2, ModExact
<1>5. Frac(n, 1).den = 1
  BY <1>2, <1>3, <1>4 DEF Positive
<1>6. Frac(n, 1).num = n
  BY <1>3, <1>5
<1>7. Frac(n, 1) = Whole(n)
  BY <1>1, <1>3, <1>5, <1>6 DEF Fraction
<1>8. QED
  BY <1>1, <1>7 DEF Value, Lowest

\* Fractions in lowest terms are equal when their values are.
LEMMA LowestUnique ==
  ASSUME NEW x, NEW y, Lowest(x), Lowest(y), NEW n \in Int, NEW d \in Positive,
         Value(x, n, d), Value(y, n, d)
  PROVE  x = y
<1>1. /\ x.num \in Int /\ x.den \in Int /\ x.den \in Positive
      /\ y.num \in Int /\ y.den \in Int /\ y.den \in Positive
  BY FractionParts DEF Value
<1>2. d \in Int
  BY DEF Positive
<1>3. x.num * d = n * x.den /\ y.num * d = n * y.den
  BY DEF Value
<1>4. (x.num * y.den) * d = (y.num * x.den) * d
  <2>1. (x.num * y.den) * d = (x.num * d) * y.den
    BY <1>1, <1>2
  <2>2. (y.num * x.den) * d = (y.num * d) * x.den
    BY <1>1, <1>2
  <2>3. (n * x.den) * y.den = (n * y.den) * x.den
    BY <1>1
  <2>4. QED
    BY <1>3, <2>1, <2>2, <2>3
<1>5. x.num * y.den = y.num * x.den
  <2>1. x.num * y.den \in Int /\ y.num * x.den \in Int
    BY <1>1
  <2>2. QED
    BY <1>4, <2>1, Cancel
<1>6. Frac(x.num, x.den) = Frac(y.num, y.den)
  BY <1>1, <1>5, FracCanonical
<1>7. QED
  BY <1>6 DEF Lowest

\* The same value over another denominator.
LEMMA ValueRewrite ==
  ASSUME NEW x, NEW n \in Int, NEW d \in Positive, NEW m \in Int, NEW e \in Positive,
         Value(x, n, d), n * e = m * d
  PROVE  Value(x, m, e)
<1>1. x.num \in Int /\ x.den \in Int /\ d \in Int /\ e \in Int /\ x.num * d = n * x.den
  BY FractionParts DEF Value, Positive
<1>2. (x.num * e) * d = (m * x.den) * d
  <2>1. (x.num * e) * d = (x.num * d) * e
    BY <1>1
  <2>2. (n * x.den) * e = (n * e) * x.den
    BY <1>1
  <2>3. (m * d) * x.den = (m * x.den) * d
    BY <1>1
  <2>4. QED
    BY <1>1, <2>1, <2>2, <2>3
<1>3. x.num * e = m * x.den
  <2>1. x.num * e \in Int /\ m * x.den \in Int
    BY <1>1
  <2>2. QED
    BY <1>2, <2>1, Cancel
<1>4. QED
  BY <1>3 DEF Value

\* A sum of two values over one denominator.
LEMMA PlusValue ==
  ASSUME NEW x, NEW y, NEW n \in Int, NEW m \in Int, NEW d \in Positive,
         Value(x, n, d), Value(y, m, d)
  PROVE  Value(Plus(x, y), n + m, d) /\ Lowest(Plus(x, y))
<1>1. /\ x.num \in Int /\ x.den \in Int /\ x.den \in Positive
      /\ y.num \in Int /\ y.den \in Int /\ y.den \in Positive
      /\ x.num * d = n * x.den /\ y.num * d = m * y.den /\ d \in Int
  BY FractionParts DEF Value, Positive
<1>2. PICK a \in Int, b \in Positive : a = x.num * y.den + y.num * x.den /\ b = x.den * y.den
  <2>1. x.num * y.den + y.num * x.den \in Int
    BY <1>1
  <2>2. x.den * y.den \in Positive
    BY <1>1, ProductPositive
  <2>3. QED
    BY <2>1, <2>2
<1>3. Plus(x, y) = Frac(a, b)
  BY <1>2 DEF Plus
<1>4. a * d = (n + m) * b
  <2>1. a * d = (x.num * d) * y.den + (y.num * d) * x.den
    BY <1>1, <1>2
  <2>2. (n * x.den) * y.den + (m * y.den) * x.den = (n + m) * b
    BY <1>1, <1>2
  <2>3. QED
    BY <1>1, <2>1, <2>2
<1>5. Value(Frac(a, b), a, b) /\ Lowest(Frac(a, b))
  BY FracValue
<1>6. Value(Frac(a, b), n + m, d)
  <2>1. PICK k \in Int : k = n + m
    OBVIOUS
  <2>2. Value(Frac(a, b), k, d)
    BY <1>4, <1>5, <2>1, ValueRewrite
  <2>3. QED
    BY <2>1, <2>2
<1>7. QED
  BY <1>3, <1>5, <1>6

\* A difference of two values over one denominator.
LEMMA MinusValue ==
  ASSUME NEW x, NEW y, NEW n \in Int, NEW m \in Int, NEW d \in Positive,
         Value(x, n, d), Value(y, m, d)
  PROVE  Value(Minus(x, y), n - m, d) /\ Lowest(Minus(x, y))
<1>1. /\ x.num \in Int /\ x.den \in Int /\ x.den \in Positive
      /\ y.num \in Int /\ y.den \in Int /\ y.den \in Positive
      /\ x.num * d = n * x.den /\ y.num * d = m * y.den /\ d \in Int
  BY FractionParts DEF Value, Positive
<1>2. PICK a \in Int, b \in Positive : a = x.num * y.den - y.num * x.den /\ b = x.den * y.den
  <2>1. x.num * y.den - y.num * x.den \in Int
    BY <1>1
  <2>2. x.den * y.den \in Positive
    BY <1>1, ProductPositive
  <2>3. QED
    BY <2>1, <2>2
<1>3. Minus(x, y) = Frac(a, b)
  BY <1>2 DEF Minus
<1>4. a * d = (n - m) * b
  <2>1. a * d = (x.num * d) * y.den - (y.num * d) * x.den
    BY <1>1, <1>2
  <2>2. (n * x.den) * y.den - (m * y.den) * x.den = (n - m) * b
    BY <1>1, <1>2
  <2>3. QED
    BY <1>1, <2>1, <2>2
<1>5. Value(Frac(a, b), a, b) /\ Lowest(Frac(a, b))
  BY FracValue
<1>6. Value(Frac(a, b), n - m, d)
  <2>1. PICK k \in Int : k = n - m
    OBVIOUS
  <2>2. Value(Frac(a, b), k, d)
    BY <1>4, <1>5, <2>1, ValueRewrite
  <2>3. QED
    BY <2>1, <2>2
<1>7. QED
  BY <1>3, <1>5, <1>6

\* A multiple of a value.
LEMMA ScaledValue ==
  ASSUME NEW x, NEW n \in Int, NEW d \in Positive, Value(x, n, d), NEW k \in Int
  PROVE  Value(Scaled(x, k), n * k, d) /\ Lowest(Scaled(x, k))
<1>1. /\ x.num \in Int /\ x.den \in Int /\ x.den \in Positive
      /\ x.num * d = n * x.den /\ d \in Int
  BY FractionParts DEF Value, Positive
<1>2. PICK a \in Int, m \in Int : a = x.num * k /\ m = n * k
  BY <1>1
<1>3. Scaled(x, k) = Frac(a, x.den)
  BY <1>2 DEF Scaled
<1>4. a * d = m * x.den
  <2>1. a * d = (x.num * d) * k
    BY <1>1, <1>2
  <2>2. (n * x.den) * k = m * x.den
    BY <1>1, <1>2
  <2>3. QED
    BY <1>1, <2>1, <2>2
<1>5. Value(Frac(a, x.den), a, x.den) /\ Lowest(Frac(a, x.den))
  BY <1>1, FracValue
<1>6. Value(Frac(a, x.den), m, d)
  BY <1>1, <1>4, <1>5, ValueRewrite
<1>7. QED
  BY <1>2, <1>3, <1>5, <1>6

\* A part of a value.
LEMMA OverValue ==
  ASSUME NEW x, NEW n \in Int, NEW d \in Positive, Value(x, n, d), NEW k \in Positive
  PROVE  Value(Over(x, k), n, d * k) /\ Lowest(Over(x, k))
<1>1. /\ x.num \in Int /\ x.den \in Int /\ x.den \in Positive
      /\ x.num * d = n * x.den /\ d \in Int /\ k \in Int
  BY FractionParts DEF Value, Positive
<1>2. PICK b \in Positive, e \in Positive : b = x.den * k /\ e = d * k
  BY <1>1, ProductPositive, Zenon
<1>3. Over(x, k) = Frac(x.num, b)
  BY <1>2 DEF Over
<1>4. x.num * e = n * b
  <2>1. x.num * e = (x.num * d) * k
    BY <1>1, <1>2
  <2>2. (n * x.den) * k = n * b
    BY <1>1, <1>2
  <2>3. QED
    BY <1>1, <2>1, <2>2
<1>5. Value(Frac(x.num, b), x.num, b) /\ Lowest(Frac(x.num, b))
  BY <1>1, FracValue
<1>6. Value(Frac(x.num, b), n, e)
  BY <1>1, <1>4, <1>5, ValueRewrite
<1>7. QED
  BY <1>2, <1>3, <1>5, <1>6

-----------------------------------------------------------------------------
(* One fill of one holding. *)

\* std::min of two volumes.
LEMMA MinOfTwo ==
  ASSUME NEW x \in Nat, NEW y \in Nat
  PROVE  Min({x, y}) = IF x <= y THEN x ELSE y
<1> DEFINE m == IF x <= y THEN x ELSE y
<1>1. m \in {x, y} /\ \A k \in {x, y} : m <= k
  OBVIOUS
<1>2. \A k \in {x, y} : (\A j \in {x, y} : k <= j) => k = m
  OBVIOUS
<1>3. QED
  BY <1>1, <1>2 DEF Min

\* The absolute value.
LEMMA AbsFacts ==
  ASSUME NEW n \in Int
  PROVE  Abs(n) \in Nat /\ (n # 0 => Abs(n) \in Positive)
         /\ (n >= 0 => Abs(n) = n) /\ (n <= 0 => Abs(n) = -n)
BY DEF Abs, Positive

Holding == [volume : Int, avgCost : Fraction, realizedPnl : Fraction, unrealizedPnl : Fraction]

\* r is the amount c plus v units at x each.
Worth(r, c, x, v) == Value(r, c * x.den + x.num * v, x.den)

\* The profit realized on a holding is the cash its fills brought in plus the
\* cost of what is held.
Balanced(h, c) ==
  /\ h \in Holding
  /\ Lowest(h.realizedPnl)
  /\ Worth(h.realizedPnl, c, h.avgCost, h.volume)

\* The value of a sum with units whose cost is known over another denominator.
LEMMA WorthRewrite ==
  ASSUME NEW r, NEW c \in Int, NEW x, NEW v \in Int, NEW n \in Int, NEW d \in Positive,
         Value(x, n, d), Value(r, c * d + n * v, d)
  PROVE  Worth(r, c, x, v)
<1>1. x.num \in Int /\ x.den \in Int /\ x.den \in Positive /\ d \in Int /\ x.num * d = n * x.den
  BY FractionParts DEF Value, Positive
<1>2. PICK i \in Int, j \in Int : i = c * d + n * v /\ j = c * x.den + x.num * v
  BY <1>1
<1>3. i * x.den = j * d
  <2>1. i * x.den = (c * d) * x.den + (n * x.den) * v
    BY <1>1, <1>2
  <2>2. j * d = (c * x.den) * d + (x.num * d) * v
    BY <1>1, <1>2
  <2>3. (c * d) * x.den = (c * x.den) * d
    BY <1>1
  <2>4. QED
    BY <1>1, <2>1, <2>2, <2>3
<1>4. Value(r, j, x.den)
  BY <1>1, <1>2, <1>3, ValueRewrite
<1>5. QED
  BY <1>2, <1>4 DEF Worth

\* The average cost of v units at x and of more units at p.
LEMMA RolledCostValue ==
  ASSUME NEW h \in Holding, NEW p \in Int, NEW delta \in Int, delta # 0
  PROVE  /\ Value(RolledCost(h, p, delta),
                  h.avgCost.num * Abs(h.volume) + (p * Abs(delta)) * h.avgCost.den,
                  h.avgCost.den * (Abs(h.volume) + Abs(delta)))
         /\ Lowest(RolledCost(h, p, delta))
<1>1. PICK x \in Fraction, v \in Int : x = h.avgCost /\ v = h.volume
  BY DEF Holding
<1>2. PICK a \in Int, b \in Positive : a = x.num /\ b = x.den
  BY FractionParts
<1>3. PICK i \in Nat, j \in Positive : i = Abs(v) /\ j = Abs(delta)
  BY AbsFacts
<1>4. PICK k \in Positive : k = i + j
  BY DEF Positive
<1>5. b \in Int /\ j \in Int /\ p * j \in Int /\ a * i \in Int /\ (p * j) * b \in Int
  BY DEF Positive
<1>6. Value(x, a, b)
  BY <1>2 DEF Value
<1>7. Value(Scaled(x, i), a * i, b)
  BY <1>6, ScaledValue
<1>8. Value(Whole(p * j), (p * j) * b, b)
  <2>1. PICK q \in Int : q = p * j
    BY <1>5
  <2>2. Value(Whole(q), q, 1) /\ 1 \in Positive
    BY WholeValue DEF Positive
  <2>3. PICK w \in Int : w = q * b
    BY <1>5
  <2>4. q * b = w * 1
    BY <2>3
  <2>5. Value(Whole(q), w, b)
    BY <2>2, <2>4, ValueRewrite
  <2>6. QED
    BY <2>1, <2>3, <2>5
<1>9. Value(Plus(Scaled(x, i), Whole(p * j)), a * i + (p * j) * b, b)
  BY <1>5, <1>7, <1>8, PlusValue
<1>10. PICK n \in Int : n = a * i + (p * j) * b
  BY <1>5
<1>11. /\ Value(Over(Plus(Scaled(x, i), Whole(p * j)), k), n, b * k)
       /\ Lowest(Over(Plus(Scaled(x, i), Whole(p * j)), k))
  BY <1>9, <1>10, OverValue
<1>12. RolledCost(h, p, delta) = Over(Plus(Scaled(x, i), Whole(p * j)), k)
  BY <1>1, <1>3, <1>4, Zenon DEF RolledCost
<1>13. QED
  BY <1>1, <1>2, <1>3, <1>4, <1>10, <1>11, <1>12, Zenon

\* What a fill against the position closes, as a signed volume.
Closed(v, delta) == IF Abs(v) <= Abs(delta) THEN v ELSE -delta

\* What closing earns: the price less the average cost, for what is closed.
LEMMA ClosedPnlValue ==
  ASSUME NEW h \in Holding, NEW p \in Int, NEW delta \in Int, delta # 0,
         ~SameDirection(h.volume, delta)
  PROVE  Value(ClosedPnl(h, p, delta),
               (p * h.avgCost.den - h.avgCost.num) * Closed(h.volume, delta), h.avgCost.den)
<1>1. PICK x \in Fraction, v \in Int : x = h.avgCost /\ v = h.volume
  BY DEF Holding
<1>2. PICK a \in Int, b \in Positive : a = x.num /\ b = x.den
  BY FractionParts
<1>3. v # 0 /\ (v > 0 => delta < 0) /\ (v < 0 => delta > 0)
  BY <1>1 DEF SameDirection
<1>4. PICK k \in Nat : k = Min({Abs(v), Abs(delta)})
  <2>1. Abs(v) \in Nat /\ Abs(delta) \in Nat
    BY AbsFacts
  <2>2. QED
    BY <2>1, MinOfTwo
<1>5. k = IF v > 0 THEN Closed(v, delta) ELSE -Closed(v, delta)
  <2>1. k = IF Abs(v) <= Abs(delta) THEN Abs(v) ELSE Abs(delta)
    BY <1>4, AbsFacts, MinOfTwo
  <2>2. QED
    BY <1>3, <2>1 DEF Closed, Abs
<1>6. Value(x, a, b) /\ b \in Int
  BY <1>2 DEF Value, Positive
<1>7. PICK q \in Int : q = p * b
  BY <1>6
<1>8. Value(Whole(p), q, b)
  <2>1. Value(Whole(p), p, 1) /\ 1 \in Positive
    BY WholeValue DEF Positive
  <2>2. p * b = q * 1
    BY <1>7
  <2>3. QED
    BY <2>1, <2>2, ValueRewrite
<1>9. CASE v > 0
  <2>1. Value(Minus(Whole(p), x), q - a, b)
    BY <1>6, <1>8, MinusValue
  <2>2. PICK n \in Int : n = q - a
    OBVIOUS
  <2>3. Value(Scaled(Minus(Whole(p), x), k), n * k, b)
    BY <2>1, <2>2, ScaledValue
  <2>4. ClosedPnl(h, p, delta) = Scaled(Minus(Whole(p), x), k)
    BY <1>1, <1>4, <1>9, Zenon DEF ClosedPnl
  <2>5. k = Closed(v, delta)
    BY <1>5, <1>9
  <2>6. QED
    BY <1>1, <1>2, <1>7, <2>2, <2>3, <2>4, <2>5, Zenon
<1>10. CASE v < 0
  <2>1. Value(Minus(x, Whole(p)), a - q, b)
    BY <1>6, <1>8, MinusValue
  <2>2. PICK n \in Int : n = a - q
    OBVIOUS
  <2>3. Value(Scaled(Minus(x, Whole(p)), k), n * k, b)
    BY <2>1, <2>2, ScaledValue
  <2>4. ~(v > 0)
    BY <1>10
  <2>5. ClosedPnl(h, p, delta) = Scaled(Minus(x, Whole(p)), k)
    BY <1>1, <1>4, <2>4, Zenon DEF ClosedPnl
  <2>6. n * k = (q - a) * Closed(v, delta)
    <3>1. PICK w \in Int : w = Closed(v, delta)
      BY DEF Closed
    <3>2. k = -w
      BY <1>5, <2>4, <3>1
    <3>3. n * k = (q - a) * w
      BY <2>2, <3>2
    <3>4. QED
      BY <3>1, <3>3
  <2>7. QED
    BY <1>1, <1>2, <1>7, <2>3, <2>5, <2>6, Zenon
<1>11. QED
  BY <1>3, <1>9, <1>10

\* A fill's effect on the profit realized.
RealizedAfter(h, p, delta) ==
  IF SameDirection(h.volume, delta) THEN h.realizedPnl
  ELSE Plus(h.realizedPnl, ClosedPnl(h, p, delta))

\* A fill in the direction of the position, or one that opens it.
LEMMA RolledFill ==
  ASSUME NEW h, NEW c \in Int, Balanced(h, c), NEW p \in Int, NEW delta \in Int, delta # 0,
         SameDirection(h.volume, delta)
  PROVE  /\ CostAfter(h, p, delta) \in Fraction
         /\ Lowest(RealizedAfter(h, p, delta))
         /\ Worth(RealizedAfter(h, p, delta), c - delta * p, CostAfter(h, p, delta),
                  h.volume + delta)
<1>0. h \in Holding
  BY DEF Balanced
<1>1. PICK x \in Fraction, v \in Int, r \in Fraction :
        x = h.avgCost /\ v = h.volume /\ r = h.realizedPnl
  BY <1>0 DEF Holding
<1>2. PICK a \in Int, b \in Positive : a = x.num /\ b = x.den
  BY FractionParts
<1>3. PICK i \in Nat, j \in Positive : i = Abs(v) /\ j = Abs(delta)
  BY AbsFacts
<1>4. b \in Int /\ j \in Int
  BY DEF Positive
<1>5. PICK n \in Int, d \in Positive : n = a * i + (p * j) * b /\ d = b * (i + j)
  <2>1. a * i + (p * j) * b \in Int
    BY <1>4
  <2>2. i + j \in Positive
    BY DEF Positive
  <2>3. b * (i + j) \in Positive
    BY <2>2, ProductPositive
  <2>4. QED
    BY <2>1, <2>3
<1>6. Value(RolledCost(h, p, delta), n, d) /\ Lowest(RolledCost(h, p, delta))
  BY <1>0, <1>1, <1>2, <1>3, <1>5, RolledCostValue, Zenon
<1>7. CostAfter(h, p, delta) = RolledCost(h, p, delta) /\ RealizedAfter(h, p, delta) = r
  <2>1. ~Flipped(h.volume, h.volume + delta) /\ h.volume + delta # 0
    BY <1>1 DEF SameDirection, Flipped
  <2>2. QED
    BY <1>1, <2>1, Zenon DEF CostAfter, RealizedAfter
<1>8. Value(r, c * b + a * v, b) /\ Lowest(r)
  BY <1>1, <1>2, Zenon DEF Balanced, Worth
<1>9. (c * b + a * v) * d = ((c - delta * p) * d + n * (v + delta)) * b
  <2>1. \/ i = v /\ j = delta
        \/ i = -v /\ j = -delta
    BY <1>1, <1>3 DEF SameDirection, Abs
  <2>2. n * (v + delta) = (a * v + (p * delta) * b) * (i + j)
    <3>1. CASE i = v /\ j = delta
      BY <1>4, <1>5, <3>1
    <3>2. CASE i = -v /\ j = -delta
      BY <1>4, <1>5, <3>2
    <3>3. QED
      BY <2>1, <3>1, <3>2
  <2>3. PICK k \in Int : k = i + j
    BY <1>4
  <2>4. ((c - delta * p) * (b * k) + (a * v + (p * delta) * b) * k) * b
          = (c * b + a * v) * (b * k)
    BY <1>4
  <2>5. QED
    BY <1>5, <2>2, <2>3, <2>4
<1>10. PICK e \in Int, w \in Int : e = c - delta * p /\ w = v + delta
  OBVIOUS
<1>11. Value(r, e * d + n * w, d)
  <2>1. PICK f \in Int, g \in Int : f = c * b + a * v /\ g = e * d + n * w
    BY <1>4 DEF Positive
  <2>2. f * d = g * b
    BY <1>9, <1>10, <2>1, Zenon
  <2>3. Value(r, f, b)
    BY <1>8, <2>1, Zenon
  <2>4. Value(r, g, d)
    BY <2>2, <2>3, ValueRewrite
  <2>5. QED
    BY <2>1, <2>4, Zenon
<1>12. Worth(r, e, RolledCost(h, p, delta), w)
  BY <1>6, <1>11, WorthRewrite
<1>13. RolledCost(h, p, delta) \in Fraction
  BY <1>6 DEF Value
<1>14. QED
  BY <1>1, <1>7, <1>8, <1>10, <1>12, <1>13, Zenon

\* A fill against the position, which reduces, closes or reverses it.
LEMMA ClosingFill ==
  ASSUME NEW h, NEW c \in Int, Balanced(h, c), NEW p \in Int, NEW delta \in Int, delta # 0,
         ~SameDirection(h.volume, delta)
  PROVE  /\ CostAfter(h, p, delta) \in Fraction
         /\ Lowest(RealizedAfter(h, p, delta))
         /\ Worth(RealizedAfter(h, p, delta), c - delta * p, CostAfter(h, p, delta),
                  h.volume + delta)
<1>0. h \in Holding
  BY DEF Balanced
<1>1. PICK x \in Fraction, v \in Int, r \in Fraction :
        x = h.avgCost /\ v = h.volume /\ r = h.realizedPnl
  BY <1>0 DEF Holding
<1>2. PICK a \in Int, b \in Positive : a = x.num /\ b = x.den
  BY FractionParts
<1>3. b \in Int
  BY DEF Positive
<1>4. PICK k \in Int : k = Closed(v, delta)
  BY <1>1 DEF Closed
<1>5. Value(ClosedPnl(h, p, delta), (p * b - a) * k, b)
  BY <1>0, <1>1, <1>2, <1>4, ClosedPnlValue, Zenon
<1>6. Value(r, c * b + a * v, b) /\ Lowest(r)
  BY <1>1, <1>2, Zenon DEF Balanced, Worth
<1>7. RealizedAfter(h, p, delta) = Plus(r, ClosedPnl(h, p, delta))
  BY <1>1, Zenon DEF RealizedAfter
<1>8. PICK n \in Int : n = (c * b + a * v) + (p * b - a) * k
  BY <1>3
<1>9. Value(Plus(r, ClosedPnl(h, p, delta)), n, b) /\ Lowest(Plus(r, ClosedPnl(h, p, delta)))
  <2>1. PICK f \in Int, g \in Int : f = c * b + a * v /\ g = (p * b - a) * k
    BY <1>3
  <2>2. Value(r, f, b) /\ Value(ClosedPnl(h, p, delta), g, b) /\ n = f + g
    BY <1>5, <1>6, <1>8, <2>1, Zenon
  <2>3. QED
    BY <2>2, PlusValue
<1>10. v # 0 /\ (v > 0 => delta < 0) /\ (v < 0 => delta > 0)
  BY <1>1 DEF SameDirection
<1>11. PICK e \in Int, w \in Int : e = c - delta * p /\ w = v + delta
  OBVIOUS
<1>12. CASE ~Flipped(v, w) /\ w # 0
  <2>1. CostAfter(h, p, delta) = x
    BY <1>1, <1>11, <1>12, Zenon DEF CostAfter
  <2>2. k = -delta
    BY <1>4, <1>10, <1>11, <1>12 DEF Closed, Flipped, Abs
  <2>3. n = e * b + a * w
    BY <1>3, <1>8, <1>11, <2>2
  <2>4. Value(x, a, b)
    BY <1>2 DEF Value
  <2>5. Worth(Plus(r, ClosedPnl(h, p, delta)), e, x, w)
    BY <1>9, <2>3, <2>4, WorthRewrite
  <2>6. QED
    BY <1>1, <1>7, <1>9, <1>11, <2>1, <2>5, Zenon
<1>13. CASE Flipped(v, w) \/ w = 0
  <2>1. k = v
    BY <1>4, <1>10, <1>11, <1>13 DEF Closed, Flipped, Abs
  <2>2. PICK m \in Int : m = c + p * v
    OBVIOUS
  <2>3. n * 1 = m * b
    BY <1>3, <1>8, <2>1, <2>2
  <2>4. 1 \in Positive
    BY DEF Positive
  <2>5. Value(Plus(r, ClosedPnl(h, p, delta)), m, 1)
    BY <1>9, <2>3, <2>4, ValueRewrite
  <2>6. PICK q \in Int : /\ CostAfter(h, p, delta) = Whole(q)
                         /\ m = e * 1 + q * w
    <3>1. CASE Flipped(v, w)
      <4>0. w # 0
        BY <3>1 DEF Flipped
      <4>1. CostAfter(h, p, delta) = Whole(p)
        BY <1>1, <1>11, <3>1, <4>0, Zenon DEF CostAfter
      <4>2. m = e * 1 + p * w
        BY <1>11, <2>2
      <4>3. QED
        BY <4>1, <4>2
    <3>2. CASE ~Flipped(v, w) /\ w = 0
      <4>1. CostAfter(h, p, delta) = Whole(0)
        BY <1>1, <1>11, <3>2, Zenon DEF CostAfter
      <4>2. delta = -v
        BY <1>11, <3>2
      <4>3. m = e * 1 + 0 * w
        BY <1>11, <2>2, <4>2
      <4>4. QED
        BY <4>1, <4>3
    <3>3. QED
      BY <1>13, <3>1, <3>2
  <2>7. Value(Whole(q), q, 1) /\ Whole(q) \in Fraction
    BY WholeValue DEF Value
  <2>8. Worth(Plus(r, ClosedPnl(h, p, delta)), e, Whole(q), w)
    BY <2>4, <2>5, <2>6, <2>7, WorthRewrite
  <2>9. QED
    BY <1>1, <1>7, <1>9, <1>11, <2>6, <2>7, <2>8, Zenon
<1>14. QED
  BY <1>12, <1>13

\* A fraction of known value lies between two integers its value lies between.
InRange(x, lo, hi) == lo * x.den <= x.num /\ x.num <= hi * x.den

\* The value decides the range.
LEMMA ValueInRange ==
  ASSUME NEW x, NEW n \in Int, NEW d \in Positive, Value(x, n, d),
         NEW lo \in Int, NEW hi \in Int, lo * d <= n, n <= hi * d
  PROVE  InRange(x, lo, hi)
<1>1. x \in Fraction /\ x.num * d = n * x.den
  BY DEF Value
<1>2. PICK a \in Int, b \in Positive : a = x.num /\ b = x.den
  BY <1>1, FractionParts
<1>3. a * d = n * b /\ b \in Int /\ d \in Int /\ b > 0 /\ d > 0
  BY <1>1, <1>2 DEF Positive
<1>4. (lo * b) * d <= a * d /\ a * d <= (hi * b) * d
  <2>1. (lo * d) * b <= n * b /\ n * b <= (hi * d) * b
    BY <1>3
  <2>2. QED
    BY <1>3, <2>1
<1>5. lo * b <= a /\ a <= hi * b
  BY <1>3, <1>4
<1>6. QED
  BY <1>2, <1>5 DEF InRange

\* The cost of an open position lies between lo and hi, and a flat one has none.
CostInRange(h, lo, hi) ==
  IF h.volume = 0 THEN h.avgCost = Whole(0) ELSE InRange(h.avgCost, lo, hi)

\* A fill at a price in the range keeps the cost in the range.
LEMMA FillCostInRange ==
  ASSUME NEW h \in Holding, NEW p \in Int, NEW delta \in Int, delta # 0,
         NEW lo \in Int, NEW hi \in Int, CostInRange(h, lo, hi), lo <= p, p <= hi
  PROVE  IF h.volume + delta = 0 THEN CostAfter(h, p, delta) = Whole(0)
         ELSE InRange(CostAfter(h, p, delta), lo, hi)
<1>1. PICK x \in Fraction, v \in Int : x = h.avgCost /\ v = h.volume
  BY DEF Holding
<1>2. PICK a \in Int, b \in Positive : a = x.num /\ b = x.den
  BY FractionParts
<1>3. PICK i \in Nat, j \in Positive : i = Abs(v) /\ j = Abs(delta)
  BY AbsFacts
<1>4. b \in Int /\ b > 0 /\ j \in Int /\ j > 0
  BY DEF Positive
<1>5. CASE SameDirection(h.volume, delta)
  <2>1. v + delta # 0
    BY <1>1, <1>5 DEF SameDirection
  <2>2. CostAfter(h, p, delta) = RolledCost(h, p, delta)
    <3>1. ~Flipped(h.volume, h.volume + delta) /\ h.volume + delta # 0
      BY <1>1, <1>5 DEF SameDirection, Flipped
    <3>2. QED
      BY <1>5, <3>1, Zenon DEF CostAfter
  <2>3. PICK n \in Int, d \in Positive : n = a * i + (p * j) * b /\ d = b * (i + j)
    <3>1. a * i + (p * j) * b \in Int
      BY <1>4
    <3>2. i + j \in Positive
      BY DEF Positive
    <3>3. b * (i + j) \in Positive
      BY <3>2, ProductPositive
    <3>4. QED
      BY <3>1, <3>3
  <2>4. Value(RolledCost(h, p, delta), n, d)
    BY <1>1, <1>2, <1>3, <2>3, RolledCostValue, Zenon
  <2>5. (lo * b) * i <= a * i /\ a * i <= (hi * b) * i
    <3>1. CASE v = 0
      <4>1. i = 0
        BY <1>3, <3>1 DEF Abs
      <4>2. QED
        BY <1>4, <4>1
    <3>2. CASE v # 0
      <4>1. lo * b <= a /\ a <= hi * b
        BY <1>1, <1>2, <3>2 DEF CostInRange, InRange
      <4>2. PICK f \in Int, g \in Int : f = lo * b /\ g = hi * b
        BY <1>4
      <4>3. f * i <= a * i /\ a * i <= g * i
        BY <4>1, <4>2
      <4>4. QED
        BY <4>2, <4>3
    <3>3. QED
      BY <3>1, <3>2
  <2>6. (lo * j) * b <= (p * j) * b /\ (p * j) * b <= (hi * j) * b
    <3>1. lo * j <= p * j /\ p * j <= hi * j
      BY <1>4
    <3>2. QED
      BY <1>4, <3>1
  <2>7. lo * d = (lo * b) * i + (lo * j) * b /\ hi * d = (hi * b) * i + (hi * j) * b
    BY <1>4, <2>3
  <2>8. lo * d <= n /\ n <= hi * d
    <3>1. PICK f1 \in Int, f2 \in Int, f3 \in Int, f4 \in Int, f5 \in Int, f6 \in Int :
            /\ f1 = (lo * b) * i /\ f2 = (lo * j) * b
            /\ f3 = (hi * b) * i /\ f4 = (hi * j) * b /\ f5 = a * i /\ f6 = (p * j) * b
      BY <1>4
    <3>2. f1 <= f5 /\ f5 <= f3 /\ f2 <= f6 /\ f6 <= f4
      BY <2>5, <2>6, <3>1, Zenon
    <3>3. n = f5 + f6 /\ lo * d = f1 + f2 /\ hi * d = f3 + f4
      BY <2>3, <2>7, <3>1, Zenon
    <3>4. QED
      BY <3>2, <3>3
  <2>9. InRange(RolledCost(h, p, delta), lo, hi)
    BY <2>4, <2>8, ValueInRange
  <2>10. QED
    BY <1>1, <2>1, <2>2, <2>9
<1>6. CASE ~SameDirection(h.volume, delta)
  <2>1. v # 0 /\ (v > 0 => delta < 0) /\ (v < 0 => delta > 0)
    BY <1>1, <1>6 DEF SameDirection
  <2>2. CASE Flipped(v, v + delta)
    <3>0. v + delta # 0
      BY <2>2 DEF Flipped
    <3>1. CostAfter(h, p, delta) = Whole(p)
      BY <1>1, <1>6, <2>2, <3>0, Zenon DEF CostAfter
    <3>2. Value(Whole(p), p, 1) /\ 1 \in Positive
      BY WholeValue DEF Positive
    <3>3. lo * 1 <= p /\ p <= hi * 1
      OBVIOUS
    <3>4. InRange(Whole(p), lo, hi)
      BY <3>2, <3>3, ValueInRange
    <3>5. QED
      BY <1>1, <3>0, <3>1, <3>4
  <2>3. CASE ~Flipped(v, v + delta) /\ v + delta = 0
    BY <1>1, <1>6, <2>3, Zenon DEF CostAfter
  <2>4. CASE ~Flipped(v, v + delta) /\ v + delta # 0
    <3>1. CostAfter(h, p, delta) = x
      BY <1>1, <1>6, <2>4, Zenon DEF CostAfter
    <3>2. InRange(x, lo, hi)
      BY <1>1, <2>1, Zenon DEF CostInRange
    <3>3. QED
      BY <1>1, <2>4, <3>1, <3>2, Zenon
  <2>5. QED
    BY <2>2, <2>3, <2>4
<1>7. QED
  BY <1>5, <1>6

\* Who pays for a fill, and how much, is settled in the holding it changes.
LEMMA FillBalanced ==
  ASSUME NEW h, NEW c \in Int, Balanced(h, c), NEW p \in Int, NEW volume \in Positive, NEW side
  PROVE  /\ Balanced(ApplyFill(h, side, p, volume), c - Signed(side, volume) * p)
         /\ ApplyFill(h, side, p, volume).volume = h.volume + Signed(side, volume)
         /\ \A lo, hi \in Int : CostInRange(h, lo, hi) /\ lo <= p /\ p <= hi
              => CostInRange(ApplyFill(h, side, p, volume), lo, hi)
<1>1. PICK delta \in Int : delta = Signed(side, volume) /\ delta # 0
  BY DEF Signed, Positive
<1>2. h \in Holding
  BY DEF Balanced
<1>3. PICK g : g = ApplyFill(h, side, p, volume)
  OBVIOUS
<1>4. g = [h EXCEPT !.volume = h.volume + delta,
                    !.realizedPnl = RealizedAfter(h, p, delta),
                    !.avgCost = CostAfter(h, p, delta)]
  BY <1>1, <1>2, <1>3, Zenon DEF ApplyFill, RealizedAfter
<1>5. /\ g.volume = h.volume + delta
      /\ g.realizedPnl = RealizedAfter(h, p, delta)
      /\ g.avgCost = CostAfter(h, p, delta)
      /\ g.unrealizedPnl = h.unrealizedPnl
      /\ g = [volume |-> g.volume, avgCost |-> g.avgCost, realizedPnl |-> g.realizedPnl,
              unrealizedPnl |-> g.unrealizedPnl]
  BY <1>2, <1>4, Zenon DEF Holding
<1>6. /\ CostAfter(h, p, delta) \in Fraction
      /\ Lowest(RealizedAfter(h, p, delta))
      /\ Worth(RealizedAfter(h, p, delta), c - delta * p, CostAfter(h, p, delta),
               h.volume + delta)
  BY <1>1, RolledFill, ClosingFill
<1>7. g \in Holding
  <2>1. RealizedAfter(h, p, delta) \in Fraction
    BY <1>6 DEF Worth, Value
  <2>2. h.volume + delta \in Int /\ h.unrealizedPnl \in Fraction
    BY <1>2 DEF Holding
  <2>3. QED
    BY <1>5, <1>6, <2>1, <2>2 DEF Holding
<1>8. Balanced(g, c - delta * p)
  BY <1>5, <1>6, <1>7, Zenon DEF Balanced
<1>9. ASSUME NEW lo \in Int, NEW hi \in Int, CostInRange(h, lo, hi), lo <= p, p <= hi
      PROVE  CostInRange(g, lo, hi)
  <2>1. IF h.volume + delta = 0 THEN CostAfter(h, p, delta) = Whole(0)
        ELSE InRange(CostAfter(h, p, delta), lo, hi)
    BY <1>1, <1>2, <1>9, FillCostInRange
  <2>2. QED
    BY <1>5, <2>1, Zenon DEF CostInRange
<1>10. QED
  BY <1>1, <1>3, <1>5, <1>8, <1>9, Zenon
-----------------------------------------------------------------------------
(* What a balanced holding is worth. *)

\* What was received for a holding is the cash of its fills.
LEMMA BalancedCash ==
  ASSUME NEW h, NEW c \in Int, Balanced(h, c)
  PROVE  /\ Minus(h.realizedPnl, Scaled(h.avgCost, h.volume)) = Whole(c)
         /\ h.realizedPnl = Plus(Whole(c), Scaled(h.avgCost, h.volume))
<1>1. PICK x \in Fraction, v \in Int, r \in Fraction :
        x = h.avgCost /\ v = h.volume /\ r = h.realizedPnl
  BY DEF Balanced, Holding
<1>2. PICK a \in Int, b \in Positive : a = x.num /\ b = x.den
  BY FractionParts
<1>3. b \in Int
  BY DEF Positive
<1>4. PICK f \in Int, g \in Int, n \in Int : f = c * b + a * v /\ g = a * v /\ n = c * b
  BY <1>3
<1>5. Value(r, f, b) /\ Lowest(r)
  BY <1>1, <1>2, <1>4, Zenon DEF Balanced, Worth
<1>6. Value(x, a, b)
  BY <1>2 DEF Value
<1>7. Value(Scaled(x, v), g, b)
  BY <1>4, <1>6, ScaledValue
<1>8. Value(Whole(c), n, b) /\ Lowest(Whole(c))
  <2>1. Value(Whole(c), c, 1) /\ Lowest(Whole(c)) /\ 1 \in Positive
    BY WholeValue DEF Positive
  <2>2. c * b = n * 1
    BY <1>4
  <2>3. QED
    BY <2>1, <2>2, ValueRewrite
<1>9. f - g = n /\ n + g = f
  BY <1>4
<1>10. Value(Minus(r, Scaled(x, v)), n, b) /\ Lowest(Minus(r, Scaled(x, v)))
  BY <1>5, <1>7, <1>9, MinusValue
<1>11. Value(Plus(Whole(c), Scaled(x, v)), f, b) /\ Lowest(Plus(Whole(c), Scaled(x, v)))
  BY <1>7, <1>8, <1>9, PlusValue
<1>12. Minus(r, Scaled(x, v)) = Whole(c)
  BY <1>8, <1>10, LowestUnique
<1>13. r = Plus(Whole(c), Scaled(x, v))
  BY <1>5, <1>11, LowestUnique
<1>14. QED
  BY <1>1, <1>12, <1>13, Zenon

\* A marking at the mid price completes the profit realized to the equity.
LEMMA BalancedEquity ==
  ASSUME NEW h, NEW c \in Int, Balanced(h, c), NEW mid \in Int
  PROVE  /\ Scaled(Minus(Whole(mid), h.avgCost), h.volume) \in Fraction
         /\ Plus(h.realizedPnl, Scaled(Minus(Whole(mid), h.avgCost), h.volume))
              = Whole(c + h.volume * mid)
<1>1. PICK x \in Fraction, v \in Int, r \in Fraction :
        x = h.avgCost /\ v = h.volume /\ r = h.realizedPnl
  BY DEF Balanced, Holding
<1>2. PICK a \in Int, b \in Positive : a = x.num /\ b = x.den
  BY FractionParts
<1>3. b \in Int
  BY DEF Positive
<1>4. PICK f \in Int, q \in Int, k \in Int, g \in Int :
        f = c * b + a * v /\ q = mid * b /\ k = q - a /\ g = k * v
  BY <1>3
<1>5. Value(r, f, b)
  BY <1>1, <1>2, <1>4, Zenon DEF Balanced, Worth
<1>6. Value(x, a, b)
  BY <1>2 DEF Value
<1>7. Value(Whole(mid), q, b)
  <2>1. Value(Whole(mid), mid, 1) /\ 1 \in Positive
    BY WholeValue DEF Positive
  <2>2. mid * b = q * 1
    BY <1>4
  <2>3. QED
    BY <2>1, <2>2, ValueRewrite
<1>8. Value(Minus(Whole(mid), x), k, b)
  BY <1>4, <1>6, <1>7, MinusValue
<1>9. Value(Scaled(Minus(Whole(mid), x), v), g, b)
  BY <1>4, <1>8, ScaledValue
<1>10. PICK s : s = Scaled(Minus(Whole(mid), x), v)
  OBVIOUS
<1>11. PICK m \in Int, n \in Int : m = c + v * mid /\ n = f + g
  BY <1>4
<1>12. n * 1 = m * b
  BY <1>3, <1>4, <1>11
<1>13. Value(Plus(r, s), n, b) /\ Lowest(Plus(r, s))
  BY <1>5, <1>9, <1>10, <1>11, PlusValue
<1>14. 1 \in Positive /\ Value(Whole(m), m, 1) /\ Lowest(Whole(m))
  BY WholeValue DEF Positive
<1>15. Value(Plus(r, s), m, 1)
  BY <1>12, <1>13, <1>14, ValueRewrite
<1>16. Plus(r, s) = Whole(m)
  BY <1>13, <1>14, <1>15, LowestUnique
<1>17. s \in Fraction
  BY <1>9, <1>10 DEF Value
<1>18. QED
  BY <1>1, <1>10, <1>11, <1>16, <1>17, Zenon

\* A holding that was never touched.
LEMMA EmptyBalanced == Balanced(EmptyHolding, 0)
<1>1. Value(Whole(0), 0, 1) /\ Lowest(Whole(0)) /\ Whole(0) \in Fraction
  BY WholeValue DEF Value
<1>2. EmptyHolding \in Holding /\ EmptyHolding.volume = 0
      /\ EmptyHolding.avgCost = Whole(0) /\ EmptyHolding.realizedPnl = Whole(0)
  BY <1>1 DEF EmptyHolding, Holding
<1>3. 0 * Whole(0).den + Whole(0).num * 0 = 0 /\ Whole(0).den = 1
  BY DEF Whole
<1>4. Worth(Whole(0), 0, Whole(0), 0)
  BY <1>1, <1>3, Zenon DEF Worth
<1>5. QED
  BY <1>1, <1>2, <1>4, Zenon DEF Balanced

-----------------------------------------------------------------------------
(* The inventories of the users. *)

\* A function, which its values determine.
IsFunction(f) == f = [x \in DOMAIN f |-> f[x]]

\* Every user of people has an inventory, of some of the tickers.
Registered(accounts, people, tickers) ==
  /\ accounts = [u \in people |-> accounts[u]]
  /\ \A u \in people : IsFunction(accounts[u]) /\ DOMAIN accounts[u] \subseteq tickers

\* The inventories differ in one holding of one user, which is h after the change.
OneChange(before, after, people, user, ticker, h) ==
  /\ ticker \in DOMAIN after[user]
  /\ \A u \in people : DOMAIN before[u] \subseteq DOMAIN after[u]
  /\ HoldingOf(after[user], ticker) = h
  /\ \A u \in people : \A t : u # user \/ t # ticker =>
       HoldingOf(after[u], t) = HoldingOf(before[u], t)

\* A fill changes one holding of one user.
LEMMA FilledHolding ==
  ASSUME NEW people, NEW tickers, NEW accounts, Registered(accounts, people, tickers),
         NEW user \in people, NEW trade, trade.ticker \in tickers, NEW side
  PROVE  /\ Registered(Filled(accounts, user, trade, side), people, tickers)
         /\ OneChange(accounts, Filled(accounts, user, trade, side), people, user, trade.ticker,
                      ApplyFill(HoldingOf(accounts[user], trade.ticker), side,
                                trade.price, trade.volume))
<1>0. PICK after : after = Filled(accounts, user, trade, side)
  OBVIOUS
<1>1. PICK h : h = ApplyFill(HoldingOf(accounts[user], trade.ticker), side,
                             trade.price, trade.volume)
  OBVIOUS
<1>2. PICK with : with = WithHolding(accounts[user], trade.ticker, h)
  OBVIOUS
<1>3. /\ DOMAIN with = DOMAIN accounts[user] \cup {trade.ticker}
      /\ IsFunction(with)
      /\ HoldingOf(with, trade.ticker) = h
      /\ \A t : t # trade.ticker => HoldingOf(with, t) = HoldingOf(accounts[user], t)
  <2>1. with = [t \in DOMAIN accounts[user] \cup {trade.ticker} |->
                  IF t = trade.ticker THEN h ELSE accounts[user][t]]
    BY <1>2, Zenon DEF WithHolding
  <2>2. DOMAIN with = DOMAIN accounts[user] \cup {trade.ticker} /\ IsFunction(with)
    BY <2>1 DEF IsFunction
  <2>3. /\ HoldingOf(with, trade.ticker) = h
        /\ \A t : t # trade.ticker => HoldingOf(with, t) = HoldingOf(accounts[user], t)
    BY <2>1, <2>2, SMTT(20) DEF HoldingOf
  <2>4. QED
    BY <2>2, <2>3, Zenon
<1>5. accounts = [u \in people |-> accounts[u]]
  BY DEF Registered
<1>6. after = [accounts EXCEPT ![user] = with]
  BY <1>0, <1>1, <1>2, <1>5 DEF Filled
<1>7. /\ after = [u \in people |-> after[u]]
      /\ after[user] = with
      /\ \A u \in people : u # user => after[u] = accounts[u]
  BY <1>5, <1>6, Zenon
<1>8. \A u \in people : /\ IsFunction(accounts[u])
                        /\ DOMAIN accounts[u] \subseteq tickers
  BY DEF Registered
<1>9. Registered(after, people, tickers)
  <2>1. ASSUME NEW u \in people
        PROVE  /\ IsFunction(after[u])
               /\ DOMAIN after[u] \subseteq tickers
    <3>1. CASE u = user
      <4>1. DOMAIN with \subseteq tickers
        BY <1>3, <1>8, Zenon
      <4>2. QED
        BY <1>3, <1>7, <3>1, <4>1, Zenon
    <3>2. CASE u # user
      BY <1>7, <1>8, <3>2, Zenon
    <3>3. QED
      BY <3>1, <3>2
  <2>2. QED
    BY <1>7, <2>1, Zenon DEF Registered
<1>10. trade.ticker \in DOMAIN after[user]
  BY <1>3, <1>7
<1>11. \A u \in people : DOMAIN accounts[u] \subseteq DOMAIN after[u]
  BY <1>3, <1>7
<1>12. ASSUME NEW u \in people, NEW t, u # user \/ t # trade.ticker
       PROVE  HoldingOf(after[u], t) = HoldingOf(accounts[u], t)
  <2>1. CASE u = user
    BY <1>3, <1>7, <1>12, <2>1, Zenon
  <2>2. CASE u # user
    BY <1>7, <2>2, Zenon
  <2>3. QED
    BY <2>1, <2>2
<1>13. OneChange(accounts, after, people, user, trade.ticker, h)
  BY <1>3, <1>7, <1>10, <1>11, <1>12, Zenon DEF OneChange
<1>14. QED
  BY <1>0, <1>1, <1>9, <1>13, Zenon

\* The inventories differ in the marks of the parties to a trade.
MarkChange(before, after, people, trade, mid) ==
  /\ \A u \in people : DOMAIN after[u] = DOMAIN before[u]
  /\ mid # None => \A u \in people \cap {trade.maker, trade.taker} :
       HoldingOf(after[u], trade.ticker) =
         RefreshUnrealizedPnl(HoldingOf(before[u], trade.ticker), mid)
  /\ \A u \in people : \A t :
       mid = None \/ u \notin {trade.maker, trade.taker} \/ t # trade.ticker =>
         HoldingOf(after[u], t) = HoldingOf(before[u], t)

\* Marks change the unrealized profit of one ticker, for both parties.
LEMMA MarkedHolding ==
  ASSUME NEW people, NEW tickers, NEW accounts, Registered(accounts, people, tickers),
         NEW trade, trade.ticker \in tickers, NEW mid,
         \A u \in people \cap {trade.maker, trade.taker} : trade.ticker \in DOMAIN accounts[u]
  PROVE  /\ Registered(BothMarked(accounts, trade, mid), people, tickers)
         /\ MarkChange(accounts, BothMarked(accounts, trade, mid), people, trade, mid)
<1>1. PICK after : after = BothMarked(accounts, trade, mid)
  OBVIOUS
<1>2. CASE mid = None
  <2>1. after = accounts
    BY <1>1, <1>2, Zenon DEF BothMarked
  <2>2. QED
    BY <1>1, <1>2, <2>1, Zenon DEF MarkChange
<1>3. CASE mid # None
  <2>0. DOMAIN accounts = people
    BY DEF Registered
  <2>1. after = [u \in people |->
                   IF u \in {trade.maker, trade.taker}
                   THEN WithHolding(accounts[u], trade.ticker,
                                    RefreshUnrealizedPnl(accounts[u][trade.ticker], mid))
                   ELSE accounts[u]]
    BY <1>1, <1>3, <2>0, Zenon DEF BothMarked
  <2>2. after = [u \in people |-> after[u]]
    BY <2>1, SMTT(20)
  <2>3. ASSUME NEW u \in people
        PROVE  /\ IsFunction(after[u])
               /\ DOMAIN after[u] \subseteq tickers
               /\ DOMAIN after[u] = DOMAIN accounts[u]
               /\ u \in {trade.maker, trade.taker} =>
                    HoldingOf(after[u], trade.ticker) =
                      RefreshUnrealizedPnl(HoldingOf(accounts[u], trade.ticker), mid)
               /\ \A t : u \notin {trade.maker, trade.taker} \/ t # trade.ticker =>
                           HoldingOf(after[u], t) = HoldingOf(accounts[u], t)
    <3>0. /\ IsFunction(accounts[u])
          /\ DOMAIN accounts[u] \subseteq tickers
      BY Zenon DEF Registered
    <3>1. CASE u \in {trade.maker, trade.taker}
      <4>1. trade.ticker \in DOMAIN accounts[u]
        BY <3>1
      <4>2. PICK h : h = RefreshUnrealizedPnl(accounts[u][trade.ticker], mid)
        OBVIOUS
      <4>3. HoldingOf(accounts[u], trade.ticker) = accounts[u][trade.ticker]
        BY <4>1, Zenon DEF HoldingOf
      <4>4. PICK with : with = WithHolding(accounts[u], trade.ticker, h)
        OBVIOUS
      <4>5. after[u] = with
        BY <2>1, <3>1, <4>2, <4>4
      <4>6. /\ DOMAIN with = DOMAIN accounts[u] \cup {trade.ticker}
            /\ IsFunction(with)
            /\ HoldingOf(with, trade.ticker) = h
            /\ \A t : t # trade.ticker => HoldingOf(with, t) = HoldingOf(accounts[u], t)
        <5>1. with = [t \in DOMAIN accounts[u] \cup {trade.ticker} |->
                        IF t = trade.ticker THEN h ELSE accounts[u][t]]
          BY <4>4, Zenon DEF WithHolding
        <5>2. DOMAIN with = DOMAIN accounts[u] \cup {trade.ticker} /\ IsFunction(with)
          BY <5>1 DEF IsFunction
        <5>3. /\ HoldingOf(with, trade.ticker) = h
              /\ \A t : t # trade.ticker => HoldingOf(with, t) = HoldingOf(accounts[u], t)
          BY <5>1, <5>2 DEF HoldingOf
        <5>4. QED
          BY <5>2, <5>3, Zenon
      <4>7. DOMAIN with = DOMAIN accounts[u]
        BY <4>1, <4>6
      <4>8. QED
        BY <3>0, <3>1, <4>2, <4>3, <4>5, <4>6, <4>7, Zenon
    <3>2. CASE u \notin {trade.maker, trade.taker}
      <4>1. after[u] = accounts[u]
        BY <2>1, <3>2
      <4>2. QED
        BY <3>0, <3>2, <4>1, Zenon
    <3>3. QED
      BY <3>1, <3>2, Zenon
  <2>4. Registered(after, people, tickers)
    BY <2>2, <2>3, Zenon DEF Registered
  <2>5. MarkChange(accounts, after, people, trade, mid)
    BY <1>3, <2>3, Zenon DEF MarkChange
  <2>6. QED
    BY <1>1, <2>4, <2>5, Zenon
<1>4. QED
  BY <1>2, <1>3

\* The two sides of a trade move the same volume, in opposite directions.
LEMMA OppositeSides ==
  ASSUME NEW trade, trade.volume \in Positive
  PROVE  /\ Signed(trade.takerSide, trade.volume) \in Int
         /\ Signed(MakerSide(trade), trade.volume) = -Signed(trade.takerSide, trade.volume)
BY DEF Signed, MakerSide, Positive

\* What an entry of an inventory is, whatever the amounts of money in it.
Entry(h) ==
  /\ h = [volume |-> h.volume, avgCost |-> h.avgCost, realizedPnl |-> h.realizedPnl,
          unrealizedPnl |-> h.unrealizedPnl]
  /\ h.volume \in Int

\* A fill moves the position by its signed volume.
LEMMA FillEntry ==
  ASSUME NEW h, Entry(h), NEW side, NEW price, NEW volume \in Positive
  PROVE  /\ Entry(ApplyFill(h, side, price, volume))
         /\ ApplyFill(h, side, price, volume).volume = h.volume + Signed(side, volume)
<1>1. PICK delta \in Int : delta = Signed(side, volume)
  BY DEF Signed, Positive
<1>2. PICK r, x : /\ r = RealizedAfter(h, price, delta)
                  /\ x = CostAfter(h, price, delta)
  OBVIOUS
<1>3. ApplyFill(h, side, price, volume) =
        [h EXCEPT !.volume = h.volume + delta, !.realizedPnl = r, !.avgCost = x]
  BY <1>1, <1>2, Zenon DEF ApplyFill, RealizedAfter
<1>4. PICK v, a, b, c : v \in Int /\ h = [volume |-> v, avgCost |-> a, realizedPnl |-> b,
                                          unrealizedPnl |-> c]
  BY DEF Entry
<1>5. ApplyFill(h, side, price, volume) =
        [volume |-> v + delta, avgCost |-> x, realizedPnl |-> r, unrealizedPnl |-> c]
  BY <1>3, <1>4, Zenon
<1>6. QED
  BY <1>1, <1>4, <1>5 DEF Entry

\* What a trade moves between two users, one of whom may be both.
Moved(trade, u, t) ==
  (IF u = trade.maker /\ t = trade.ticker THEN Signed(MakerSide(trade), trade.volume) ELSE 0)
  + (IF u = trade.taker /\ t = trade.ticker THEN Signed(trade.takerSide, trade.volume) ELSE 0)

\* Accounts after a trade: both parties hold the ticker, and every position has
\* moved by what the trade moves.
FillsMoved(before, after, people, tickers, trade) ==
  /\ Registered(after, people, tickers)
  /\ trade.ticker \in DOMAIN after[trade.maker]
  /\ trade.ticker \in DOMAIN after[trade.taker]
  /\ \A u \in people : \A t \in tickers :
       /\ Entry(HoldingOf(after[u], t))
       /\ HoldingOf(after[u], t).volume =
            HoldingOf(before[u], t).volume + Moved(trade, u, t)

\* Both fills move the positions of both parties, and of nobody else.
LEMMA BothFilledPositions ==
  ASSUME NEW people, NEW tickers, NEW accounts, Registered(accounts, people, tickers),
         NEW trade, trade.maker \in people, trade.taker \in people,
         trade.ticker \in tickers, trade.volume \in Positive,
         \A u \in people : \A t \in tickers : Entry(HoldingOf(accounts[u], t)),
         NEW after, after = BothFilled(accounts, trade)
  PROVE  FillsMoved(accounts, after, people, tickers, trade)
<1>1. PICK between : between = Filled(accounts, trade.maker, trade, MakerSide(trade))
  OBVIOUS
<1>2. after = Filled(between, trade.taker, trade, trade.takerSide)
  BY <1>1, Zenon DEF BothFilled
<1>3. PICK maker, taker, ticker, price, volume, s1, s2 :
        /\ maker = trade.maker /\ taker = trade.taker /\ ticker = trade.ticker
        /\ price = trade.price /\ volume = trade.volume
        /\ s1 = MakerSide(trade) /\ s2 = trade.takerSide
  OBVIOUS
<1>4. /\ Registered(between, people, tickers)
      /\ OneChange(accounts, between, people, maker, ticker,
                   ApplyFill(HoldingOf(accounts[maker], ticker), s1, price, volume))
  BY <1>1, <1>3, FilledHolding, Zenon
<1>5. /\ Registered(after, people, tickers)
      /\ OneChange(between, after, people, taker, ticker,
                   ApplyFill(HoldingOf(between[taker], ticker), s2, price, volume))
  BY <1>2, <1>3, <1>4, FilledHolding, Zenon
<1>6. ticker \in DOMAIN after[maker]
  BY <1>3, <1>4, <1>5, Zenon DEF OneChange
<1>7. PICK d1 \in Int, d2 \in Int : d1 = Signed(s1, volume) /\ d2 = Signed(s2, volume)
  BY <1>3 DEF Signed, Positive
<1>8. ASSUME NEW u \in people, NEW t \in tickers
      PROVE  /\ Entry(HoldingOf(after[u], t))
             /\ HoldingOf(after[u], t).volume =
                  HoldingOf(accounts[u], t).volume + Moved(trade, u, t)
  <2>1. PICK h0, h1, h2 : /\ h0 = HoldingOf(accounts[u], t)
                          /\ h1 = HoldingOf(between[u], t)
                          /\ h2 = HoldingOf(after[u], t)
    OBVIOUS
  <2>2. Entry(h0)
    BY <2>1
  <2>3. PICK e1 \in Int : e1 = IF u = maker /\ t = ticker THEN d1 ELSE 0
    OBVIOUS
  <2>4. PICK e2 \in Int : e2 = IF u = taker /\ t = ticker THEN d2 ELSE 0
    OBVIOUS
  <2>5. Entry(h1) /\ h1.volume = h0.volume + e1
    <3>1. CASE u = maker /\ t = ticker
      <4>1. h1 = ApplyFill(h0, s1, price, volume) /\ e1 = d1
        BY <1>4, <2>1, <2>3, <3>1, Zenon DEF OneChange
      <4>2. QED
        BY <1>3, <1>7, <2>2, <4>1, FillEntry
    <3>2. CASE ~(u = maker /\ t = ticker)
      <4>1. h1 = h0 /\ e1 = 0
        BY <1>4, <2>1, <2>3, <3>2, Zenon DEF OneChange
      <4>2. QED
        BY <2>2, <4>1 DEF Entry
    <3>3. QED
      BY <3>1, <3>2
  <2>6. Entry(h2) /\ h2.volume = h1.volume + e2
    <3>1. CASE u = taker /\ t = ticker
      <4>1. h2 = ApplyFill(h1, s2, price, volume) /\ e2 = d2
        BY <1>5, <2>1, <2>4, <3>1, Zenon DEF OneChange
      <4>2. QED
        BY <1>3, <1>7, <2>5, <4>1, FillEntry
    <3>2. CASE ~(u = taker /\ t = ticker)
      <4>1. h2 = h1 /\ e2 = 0
        BY <1>5, <2>1, <2>4, <3>2, Zenon DEF OneChange
      <4>2. QED
        BY <2>5, <4>1 DEF Entry
    <3>3. QED
      BY <3>1, <3>2
  <2>7. Moved(trade, u, t) = e1 + e2
    BY <1>3, <1>7, <2>3, <2>4, Zenon DEF Moved
  <2>8. h0.volume \in Int
    BY <2>2 DEF Entry
  <2>9. h2.volume = h0.volume + (e1 + e2)
    BY <2>5, <2>6, <2>8
  <2>10. QED
    BY <2>1, <2>6, <2>7, <2>9, Zenon
<1>9. ticker \in DOMAIN after[taker]
  BY <1>5, Zenon DEF OneChange
<1>10. QED
  BY <1>3, <1>5, <1>6, <1>8, <1>9, Zenon DEF FillsMoved

-----------------------------------------------------------------------------
(* The ledger: the inductive invariant of Accounts. *)

\* A holding with the cash of its fills, and a cost among the prices.
Sound(h, c) == Balanced(h, c) /\ CostInRange(h, Min(Prices), Max(Prices))

\* The least and the greatest price.
LEMMA PriceRange ==
  /\ Min(Prices) \in Int /\ Max(Prices) \in Int
  /\ \A p \in Prices : Min(Prices) <= p /\ p <= Max(Prices)
<1>1. PICK lo \in Prices, hi \in Prices : \A p \in Prices : lo <= p /\ p <= hi
  BY AccountsAssumption
<1>2. Prices \subseteq Int
  BY AccountsAssumption
<1>3. Min(Prices) = lo
  <2>1. \A x \in Prices : (\A y \in Prices : x <= y) => x = lo
    BY <1>1, <1>2
  <2>2. QED
    BY <1>1, <2>1 DEF Min
<1>4. Max(Prices) = hi
  <2>1. \A x \in Prices : (\A y \in Prices : x >= y) => x = hi
    BY <1>1, <1>2
  <2>2. \A y \in Prices : hi >= y
    BY <1>1, <1>2
  <2>3. QED
    BY <1>1, <2>1, <2>2 DEF Max
<1>5. QED
  BY <1>1, <1>2, <1>3, <1>4

\* A fill keeps a holding sound, with the cash it pays or costs.
LEMMA FillSound ==
  ASSUME NEW h, NEW c \in Int, Sound(h, c), NEW p \in Prices, NEW volume \in Positive, NEW side
  PROVE  /\ c - Signed(side, volume) * p \in Int
         /\ Sound(ApplyFill(h, side, p, volume), c - Signed(side, volume) * p)
         /\ ApplyFill(h, side, p, volume).volume = h.volume + Signed(side, volume)
<1>1. PICK lo \in Int, hi \in Int : lo = Min(Prices) /\ hi = Max(Prices) /\ lo <= p /\ p <= hi
  BY PriceRange
<1>2. p \in Int
  BY AccountsAssumption
<1>3. Signed(side, volume) \in Int
  BY DEF Signed, Positive
<1>4. Balanced(h, c) /\ CostInRange(h, lo, hi)
  BY <1>1, Zenon DEF Sound
<1>5. /\ Balanced(ApplyFill(h, side, p, volume), c - Signed(side, volume) * p)
      /\ ApplyFill(h, side, p, volume).volume = h.volume + Signed(side, volume)
      /\ CostInRange(ApplyFill(h, side, p, volume), lo, hi)
  BY <1>1, <1>2, <1>4, FillBalanced
<1>6. c - Signed(side, volume) * p \in Int
  BY <1>2, <1>3
<1>7. QED
  BY <1>1, <1>5, <1>6, Zenon DEF Sound

\* A mark changes the unrealized profit of a holding only.
LEMMA MarkSound ==
  ASSUME NEW h, NEW c \in Int, Sound(h, c), NEW mid \in Int,
         NEW after, after = RefreshUnrealizedPnl(h, mid)
  PROVE  /\ Sound(after, c)
         /\ after.volume = h.volume
         /\ after.unrealizedPnl = Scaled(Minus(Whole(mid), after.avgCost), after.volume)
<1>2. h \in Holding
  BY DEF Sound, Balanced
<1>3. PICK x : x = Scaled(Minus(Whole(mid), h.avgCost), h.volume)
  OBVIOUS
<1>4. x \in Fraction
  BY <1>3, BalancedEquity DEF Sound
<1>5. after = [h EXCEPT !.unrealizedPnl = x]
  BY <1>3, Zenon DEF RefreshUnrealizedPnl
<1>6. /\ after \in Holding /\ after.volume = h.volume /\ after.avgCost = h.avgCost
      /\ after.realizedPnl = h.realizedPnl /\ after.unrealizedPnl = x
  BY <1>2, <1>4, <1>5 DEF Holding
<1>7. Sound(after, c)
  BY <1>6, Zenon DEF Sound, Balanced, CostInRange
<1>8. QED
  BY <1>3, <1>6, <1>7, Zenon

\* Every holding is sound.
Books ==
  /\ Registered(users, Participants, Tickers)
  /\ cash \in [Participants -> [Tickers -> Int]]
  /\ \A u \in Participants : \A t \in Tickers : Sound(HoldingOf(users[u], t), cash[u][t])

\* The last marks are those of the holdings.
Marks ==
  \A i \in DOMAIN marked :
    /\ marked[i].mid \in Int
    /\ marked[i].ticker \in Tickers
    /\ marked[i].users \subseteq Participants
    /\ \A u \in marked[i].users :
         LET h == HoldingOf(users[u], marked[i].ticker)
         IN  h.unrealizedPnl = Scaled(Minus(Whole(marked[i].mid), h.avgCost), h.volume)

\* Everybody's positions, and everybody's cash.
Positions(t) == [i \in DOMAIN Everyone |-> Position(users[Everyone[i]], t)]
Cash(t) == [i \in DOMAIN Everyone |-> cash[Everyone[i]][t]]

\* The inductive invariant.
Ledger ==
  /\ terminated \in BOOLEAN
  /\ Books
  /\ Marks
  /\ \A t \in Tickers : Total(Positions(t)) = 0 /\ Total(Cash(t)) = 0

\* Everyone lists every participant once.
LEMMA EveryoneFacts ==
  /\ Cardinality(Participants) \in Nat
  /\ Everyone \in [1..Cardinality(Participants) -> Participants]
  /\ \A i, j \in 1..Cardinality(Participants) : Everyone[i] = Everyone[j] => i = j
  /\ \A u \in Participants : \E i \in 1..Cardinality(Participants) : Everyone[i] = u
<1>1. Everyone \in Bijection(1..Cardinality(Participants), Participants)
  BY AccountsAssumption, Zenon DEF Everyone, ExistsBijection
<1>2. Cardinality(Participants) \in Nat
  BY AccountsAssumption, Zenon
<1>3. /\ Everyone \in [1..Cardinality(Participants) -> Participants]
      /\ IsInjective(Everyone)
      /\ \A u \in Participants : \E i \in 1..Cardinality(Participants) : Everyone[i] = u
  BY <1>1, Zenon DEF Bijection, Injection, Surjection
<1>4. DOMAIN Everyone = 1..Cardinality(Participants)
  BY <1>3
<1>5. \A i, j \in 1..Cardinality(Participants) : Everyone[i] = Everyone[j] => i = j
  BY <1>3, <1>4, Zenon DEF IsInjective
<1>6. QED
  BY <1>2, <1>3, <1>5, Zenon

\* A function on 1..n is a sequence.
LEMMA FunctionSeq ==
  ASSUME NEW n \in Nat, NEW S, NEW f \in [1..n -> S]
  PROVE  f \in Seq(S) /\ Len(f) = n /\ DOMAIN f = 1..n
OBVIOUS

\* An amount d moves from position j to position k, which may be the same.
Transferred(s, r, j, k, d) ==
  \A i \in 1..Len(s) : r[i] = s[i] + ((IF i = j THEN -d ELSE 0) + (IF i = k THEN d ELSE 0))

\* A transfer leaves the sum as it is.
LEMMA TotalTransfer ==
  ASSUME NEW s \in Seq(Int), NEW r \in Seq(Int), Len(r) = Len(s),
         NEW j \in 1..Len(s), NEW k \in 1..Len(s), NEW d \in Int,
         Transferred(s, r, j, k, d)
  PROVE  Total(r) = Total(s)
<1>1. PICK m : m = [i \in 1..Len(s) |-> IF i = j THEN s[i] + (-d) ELSE s[i]]
  BY Zenon
<1>2. m \in Seq(Int) /\ Len(m) = Len(s)
  <2>1. \A i \in 1..Len(s) : (IF i = j THEN s[i] + (-d) ELSE s[i]) \in Int
    OBVIOUS
  <2>2. m \in [1..Len(s) -> Int]
    BY <1>1, <2>1, Zenon
  <2>3. Len(s) \in Nat
    OBVIOUS
  <2>4. QED
    BY <2>2, <2>3, FunctionSeq, Zenon
<1>3. \A i \in 1..Len(s) : m[i] = IF i = j THEN s[i] + (-d) ELSE s[i]
  BY <1>1, Zenon
<1>4. ASSUME NEW i \in 1..Len(m) PROVE r[i] = IF i = k THEN m[i] + d ELSE m[i]
  <2>0. i \in 1..Len(s)
    BY <1>2
  <2>1. PICK x, y, z : x \in Int /\ x = s[i] /\ y = m[i] /\ z = r[i]
    <3>1. s[i] \in Int
      BY <2>0
    <3>2. QED
      BY <3>1, Zenon
  <2>2. z = x + ((IF i = j THEN -d ELSE 0) + (IF i = k THEN d ELSE 0))
    BY <1>2, <2>1, Zenon DEF Transferred
  <2>3. y = IF i = j THEN x + (-d) ELSE x
    BY <1>2, <1>3, <2>1, Zenon
  <2>4. z = IF i = k THEN y + d ELSE y
    <3>1. x \in Int
      BY <2>1, Zenon
    <3>2. QED
      BY <2>2, <2>3, <3>1
  <2>5. QED
    BY <2>1, <2>4, Zenon
<1>5. -d \in Int /\ k \in 1..Len(m) /\ Len(r) = Len(m)
  BY <1>2
<1>6. Total(m) = Total(s) + (-d)
  <2>1. PICK e \in Int : e = -d
    OBVIOUS
  <2>2. Changed(s, m, j, e)
    BY <1>3, <2>1, Zenon DEF Changed
  <2>3. Total(m) = Total(s) + e
    BY <1>2, <2>2, TotalChange
  <2>4. QED
    BY <2>1, <2>3
<1>7. Total(r) = Total(m) + d
  <2>1. Changed(m, r, k, d)
    BY <1>4, Zenon DEF Changed
  <2>2. QED
    BY <1>2, <1>5, <2>1, TotalChange
<1>8. Total(s) \in Int
  BY TotalInt
<1>9. QED
  BY <1>6, <1>7, <1>8

\* An amount d goes from the maker to the taker.
Exchanged(before, after, maker, taker, d) ==
  \A u \in Participants :
    after[u] = before[u] + ((IF u = maker THEN -d ELSE 0) + (IF u = taker THEN d ELSE 0))

\* What a settled trade moves and pays, over all participants: a transfer from
\* the maker's place in Everyone to the taker's.
LEMMA SettleTransfers ==
  ASSUME NEW before \in [Participants -> Int], NEW after \in [Participants -> Int],
         NEW maker \in Participants, NEW taker \in Participants, NEW d \in Int,
         Exchanged(before, after, maker, taker, d)
  PROVE  Total([i \in DOMAIN Everyone |-> after[Everyone[i]]]) =
           Total([i \in DOMAIN Everyone |-> before[Everyone[i]]])
<1>1. PICK n \in Nat : n = Cardinality(Participants)
  BY EveryoneFacts, Zenon
<1>2. /\ Everyone \in [1..n -> Participants]
      /\ \A i, j \in 1..n : Everyone[i] = Everyone[j] => i = j
      /\ \A u \in Participants : \E i \in 1..n : Everyone[i] = u
  BY <1>1, EveryoneFacts, Zenon
<1>3. DOMAIN Everyone = 1..n
  BY <1>2, Zenon
<1>4. PICK s, r : /\ s = [i \in 1..n |-> before[Everyone[i]]]
                  /\ r = [i \in 1..n |-> after[Everyone[i]]]
  BY Zenon
<1>5. s \in [1..n -> Int] /\ r \in [1..n -> Int]
  BY <1>2, <1>4, Zenon
<1>6. s \in Seq(Int) /\ Len(s) = n /\ r \in Seq(Int) /\ Len(r) = n
  <2>1. s \in Seq(Int) /\ Len(s) = n
    BY <1>5, FunctionSeq, Zenon
  <2>2. r \in Seq(Int) /\ Len(r) = n
    BY <1>5, FunctionSeq, Zenon
  <2>3. QED
    BY <2>1, <2>2, Zenon
<1>7. PICK j \in 1..n, k \in 1..n : Everyone[j] = maker /\ Everyone[k] = taker
  <2>1. PICK j \in 1..n : Everyone[j] = maker
    BY <1>2, Zenon
  <2>2. PICK k \in 1..n : Everyone[k] = taker
    BY <1>2, Zenon
  <2>3. QED
    BY <2>1, <2>2
<1>8. Transferred(s, r, j, k, d)
  <2>1. ASSUME NEW i \in 1..n
        PROVE  r[i] = s[i] + ((IF i = j THEN -d ELSE 0) + (IF i = k THEN d ELSE 0))
    <3>1. /\ (Everyone[i] = maker) <=> (i = j)
          /\ (Everyone[i] = taker) <=> (i = k)
          /\ Everyone[i] \in Participants
      BY <1>2, <1>7, Zenon
    <3>2. s[i] = before[Everyone[i]] /\ r[i] = after[Everyone[i]]
      BY <1>4, Zenon
    <3>3. after[Everyone[i]] = before[Everyone[i]]
            + ((IF Everyone[i] = maker THEN -d ELSE 0) + (IF Everyone[i] = taker THEN d ELSE 0))
      BY <3>1, Zenon DEF Exchanged
    <3>4. QED
      BY <3>1, <3>2, <3>3, Zenon
  <2>2. QED
    BY <1>6, <2>1, Zenon DEF Transferred
<1>9. j \in 1..Len(s) /\ k \in 1..Len(s) /\ Len(r) = Len(s)
  BY <1>6, Zenon
<1>10. Total(r) = Total(s)
  BY <1>6, <1>8, <1>9, TotalTransfer, Zenon
<1>11. QED
  BY <1>3, <1>4, <1>10, Zenon

\* A trade that is settled: what it changes in the books.
LEMMA SettleBooks ==
  ASSUME Books, NEW trade \in Trade, NEW mid \in Prices \cup {None}, Settle(trade, mid)
  PROVE  /\ Books'
         /\ \A u \in Participants : \A t \in Tickers :
              /\ Position(users[u], t)' = Position(users[u], t) + Moved(trade, u, t)
              /\ cash[u][t]' = cash[u][t] - Moved(trade, u, t) * trade.price
         /\ mid # None => \A u \in {trade.maker, trade.taker} :
              HoldingOf(users[u], trade.ticker)'.unrealizedPnl =
                Scaled(Minus(Whole(mid), HoldingOf(users[u], trade.ticker)'.avgCost),
                       HoldingOf(users[u], trade.ticker)'.volume)
<1>1. PICK maker, taker, ticker, price, volume, s1, s2 :
        /\ maker \in Participants /\ taker \in Participants /\ ticker \in Tickers
        /\ price \in Prices /\ volume \in Positive
        /\ maker = trade.maker /\ taker = trade.taker /\ ticker = trade.ticker
        /\ price = trade.price /\ volume = trade.volume
        /\ s1 = MakerSide(trade) /\ s2 = trade.takerSide
  <2>1. /\ trade.ticker \in Tickers /\ trade.price \in Prices /\ trade.volume \in Volumes
    BY DEF Trade
  <2>2. trade.maker \in Participants /\ trade.taker \in Participants
    BY DEF Settle
  <2>3. trade.volume \in Positive
    BY <2>1, AccountsAssumption, Zenon DEF Positive
  <2>4. QED
    BY <2>1, <2>2, <2>3, Zenon
<1>2. price \in Int /\ (mid # None => mid \in Int)
  BY <1>1, AccountsAssumption
<1>3. PICK between, after :
        /\ between = Filled(users, maker, trade, s1)
        /\ after = Filled(between, taker, trade, s2)
        /\ users' = BothMarked(after, trade, mid)
  BY <1>1, Zenon DEF Settle, BothFilled
<1>4. /\ Registered(users, Participants, Tickers)
      /\ cash \in [Participants -> [Tickers -> Int]]
      /\ \A u \in Participants : \A t \in Tickers : Sound(HoldingOf(users[u], t), cash[u][t])
  BY Zenon DEF Books
<1>5. /\ Registered(between, Participants, Tickers)
      /\ OneChange(users, between, Participants, maker, ticker,
                   ApplyFill(HoldingOf(users[maker], ticker), s1, price, volume))
  BY <1>1, <1>3, <1>4, FilledHolding, Zenon
<1>6. /\ Registered(after, Participants, Tickers)
      /\ OneChange(between, after, Participants, taker, ticker,
                   ApplyFill(HoldingOf(between[taker], ticker), s2, price, volume))
  BY <1>1, <1>3, <1>5, FilledHolding, Zenon
<1>7. ticker \in DOMAIN after[maker] /\ ticker \in DOMAIN after[taker]
  BY <1>1, <1>5, <1>6, Zenon DEF OneChange
<1>8. /\ Registered(users', Participants, Tickers)
      /\ MarkChange(after, users', Participants, trade, mid)
  <2>1. \A u \in Participants \cap {trade.maker, trade.taker} : trade.ticker \in DOMAIN after[u]
    BY <1>1, <1>7, Zenon
  <2>2. QED
    BY <1>1, <1>3, <1>6, <2>1, MarkedHolding, Zenon
<1>9. PICK d1 \in Int, d2 \in Int : d1 = Signed(s1, volume) /\ d2 = Signed(s2, volume) /\ d1 = -d2
  <2>1. /\ Signed(s2, volume) \in Int
        /\ Signed(s1, volume) = -Signed(s2, volume)
    BY <1>1, OppositeSides, Zenon
  <2>2. QED
    BY <2>1
<1>10. ASSUME NEW u \in Participants, NEW t \in Tickers
       PROVE  /\ Position(users[u], t)' = Position(users[u], t) + Moved(trade, u, t)
              /\ cash[u][t]' = cash[u][t] - Moved(trade, u, t) * trade.price
              /\ cash[u][t]' \in Int
              /\ Sound(HoldingOf(users[u], t)', cash[u][t]')
              /\ mid # None /\ u \in {maker, taker} /\ t = ticker =>
                   HoldingOf(users[u], t)'.unrealizedPnl =
                     Scaled(Minus(Whole(mid), HoldingOf(users[u], t)'.avgCost),
                            HoldingOf(users[u], t)'.volume)
  <2>0. PICK c0 \in Int : c0 = cash[u][t]
    <3>1. cash[u][t] \in Int
      BY <1>4
    <3>2. QED
      BY <3>1, Zenon
  <2>1. PICK h0, h1, h2, h3 : /\ h0 = HoldingOf(users[u], t) /\ Sound(h0, c0)
                              /\ h1 = HoldingOf(between[u], t)
                              /\ h2 = HoldingOf(after[u], t)
                              /\ h3 = HoldingOf(users[u], t)'
    BY <1>4, <2>0, Zenon
  <2>2. PICK e1 \in Int, e2 \in Int : /\ e1 = IF u = maker /\ t = ticker THEN d1 ELSE 0
                                      /\ e2 = IF u = taker /\ t = ticker THEN d2 ELSE 0
    OBVIOUS
  <2>3. h0.volume \in Int
    BY <2>1 DEF Sound, Balanced, Holding
  <2>4. PICK c1 \in Int : c1 = c0 - e1 * price
    BY <1>2
  <2>5. Sound(h1, c1) /\ h1.volume = h0.volume + e1
    <3>1. CASE u = maker /\ t = ticker
      <4>1. h1 = ApplyFill(h0, s1, price, volume) /\ e1 = d1
        BY <1>5, <2>1, <2>2, <3>1, Zenon DEF OneChange
      <4>2. /\ Sound(ApplyFill(h0, s1, price, volume), c0 - Signed(s1, volume) * price)
            /\ ApplyFill(h0, s1, price, volume).volume = h0.volume + Signed(s1, volume)
        BY <1>1, <2>1, FillSound, SMTT(20)
      <4>3. QED
        BY <1>9, <2>4, <4>1, <4>2, Zenon
    <3>2. CASE ~(u = maker /\ t = ticker)
      <4>1. h1 = h0 /\ e1 = 0
        BY <1>5, <2>1, <2>2, <3>2, Zenon DEF OneChange
      <4>2. c1 = c0
        BY <1>2, <2>4, <4>1
      <4>3. QED
        BY <2>1, <2>3, <4>1, <4>2
    <3>3. QED
      BY <3>1, <3>2
  <2>6. PICK c2 \in Int : c2 = c1 - e2 * price
    BY <1>2
  <2>7. Sound(h2, c2) /\ h2.volume = h1.volume + e2
    <3>1. CASE u = taker /\ t = ticker
      <4>1. h2 = ApplyFill(h1, s2, price, volume) /\ e2 = d2
        BY <1>6, <2>1, <2>2, <3>1, Zenon DEF OneChange
      <4>2. /\ Sound(ApplyFill(h1, s2, price, volume), c1 - Signed(s2, volume) * price)
            /\ ApplyFill(h1, s2, price, volume).volume = h1.volume + Signed(s2, volume)
        BY <1>1, <2>5, FillSound, SMTT(20)
      <4>3. QED
        BY <1>9, <2>6, <4>1, <4>2, Zenon
    <3>2. CASE ~(u = taker /\ t = ticker)
      <4>1. h2 = h1 /\ e2 = 0
        BY <1>6, <2>1, <2>2, <3>2, Zenon DEF OneChange
      <4>2. c2 = c1
        BY <1>2, <2>6, <4>1, SMTT(20)
      <4>3. QED
        BY <2>3, <2>5, <4>1, <4>2
    <3>3. QED
      BY <3>1, <3>2
  <2>8. /\ Sound(h3, c2) /\ h3.volume = h2.volume
        /\ mid # None /\ u \in {maker, taker} /\ t = ticker =>
             h3.unrealizedPnl = Scaled(Minus(Whole(mid), h3.avgCost), h3.volume)
    <3>1. CASE mid # None /\ u \in {maker, taker} /\ t = ticker
      <4>1. h3 = RefreshUnrealizedPnl(h2, mid)
        BY <1>1, <1>8, <2>1, <3>1, Zenon DEF MarkChange
      <4>2. QED
        <5>1. /\ Sound(h3, c2)
              /\ h3.volume = h2.volume
              /\ h3.unrealizedPnl = Scaled(Minus(Whole(mid), h3.avgCost), h3.volume)
          <6>1. mid \in Int
            BY <1>2, <3>1
          <6>2. QED
            BY <2>7, <4>1, <6>1, MarkSound, SMTT(20)
        <5>2. QED
          BY <5>1, ZenonT(30)
    <3>2. CASE ~(mid # None /\ u \in {maker, taker} /\ t = ticker)
      <4>1. h3 = h2
        BY <1>1, <1>8, <2>1, <3>2, Zenon DEF MarkChange
      <4>2. QED
        BY <2>7, <3>2, <4>1, Zenon
    <3>3. QED
      BY <3>1, <3>2, SMTT(20)
  <2>9. Moved(trade, u, t) = e1 + e2
    BY <1>1, <1>9, <2>2, Zenon DEF Moved
  <2>10. h3.volume = h0.volume + (e1 + e2) /\ c2 = c0 - (e1 + e2) * price
    BY <1>2, <2>3, <2>4, <2>5, <2>6, <2>7, <2>8
  <2>11. cash[u][t]' = c2
    <3>1. CASE maker = taker
      <4>1. cash' = cash
        BY <1>1, <3>1, Zenon DEF Settle
      <4>2. e1 + e2 = 0
        BY <1>9, <2>2, <3>1
      <4>3. c2 = c0
        BY <1>2, <2>10, <4>2
      <4>4. QED
        BY <2>0, <4>1, <4>3
    <3>2. CASE maker # taker
      <4>1. cash' = [cash EXCEPT ![maker][ticker] = @ - d1 * price,
                                 ![taker][ticker] = @ - d2 * price]
        BY <1>1, <1>9, <3>2, Zenon DEF Settle
      <4>2. cash'[u][t] = IF u = maker /\ t = ticker THEN c0 - d1 * price
                          ELSE IF u = taker /\ t = ticker THEN c0 - d2 * price ELSE c0
        BY <1>4, <2>0, <3>2, <4>1
      <4>3. QED
        BY <1>2, <2>2, <2>4, <2>6, <3>2, <4>2
    <3>3. QED
      BY <3>1, <3>2
  <2>12. QED
    BY <1>1, <2>0, <2>1, <2>8, <2>9, <2>10, <2>11, Zenon DEF Position
<1>11. cash' \in [Participants -> [Tickers -> Int]]
  <2>1. /\ cash' = [u \in Participants |-> cash'[u]]
        /\ \A u \in Participants : cash'[u] = [t \in Tickers |-> cash'[u][t]]
    BY <1>1, <1>4, Zenon DEF Settle
  <2>2. ASSUME NEW u \in Participants PROVE cash'[u] \in [Tickers -> Int]
    BY <1>10, <2>1
  <2>3. QED
    BY <2>1, <2>2
<1>12. Books'
  BY <1>8, <1>10, <1>11, Zenon DEF Books, Registered
<1>13. QED
  BY <1>1, <1>10, <1>12, Zenon

\* A sequence of zeros.
LEMMA TotalZero ==
  ASSUME NEW z \in Seq(Int), \A i \in 1..Len(z) : z[i] = 0
  PROVE  Total(z) = 0
<1> DEFINE T == {m \in Nat : m <= Len(z) /\ TotalTo(z, m) # 0}
<1>1. ASSUME T # {} PROVE FALSE
  <2>1. PICK m \in T : \A y \in T : m <= y
    BY <1>1, LeastElement, Zenon
  <2>2. m # 0
    BY <2>1, TotalRecursion
  <2>3. m - 1 \in Nat /\ m - 1 <= Len(z) /\ m - 1 \notin T /\ m \in 1..Len(z)
    BY <2>1, <2>2
  <2>4. TotalTo(z, m - 1) = 0
    BY <2>3
  <2>5. TotalTo(z, m) = TotalTo(z, m - 1) + z[m] /\ z[m] = 0
    BY <2>3, TotalRecursion, Zenon
  <2>6. QED
    BY <2>1, <2>4, <2>5
<1>2. Len(z) \in Nat /\ Len(z) <= Len(z)
  OBVIOUS
<1>3. TotalTo(z, Len(z)) = 0
  BY <1>1, <1>2
<1>4. QED
  BY <1>3, TotalRecursion

\* Positions and cash are integers.
LEMMA BooksTypes ==
  Books => \A u \in Participants : \A t \in Tickers :
             Position(users[u], t) \in Int /\ cash[u][t] \in Int
BY DEF Books, Sound, Balanced, Holding, Position

\* Initially nothing is held, paid or marked.
LEMMA LedgerInit == Init => Ledger
<1> SUFFICES ASSUME Init PROVE Ledger
  OBVIOUS
<1>1. users = NoHoldings /\ cash = [u \in Participants |-> [t \in Tickers |-> 0]]
      /\ terminated = FALSE /\ marked = <<>>
  BY DEF Init
<1>2. Registered(users, Participants, Tickers)
  <2>1. ASSUME NEW u \in Participants
        PROVE  IsFunction(users[u]) /\ DOMAIN users[u] \subseteq Tickers
    <3>1. users[u] = [t \in {} |-> EmptyHolding]
      BY <1>1 DEF NoHoldings
    <3>2. QED
      BY <3>1 DEF IsFunction
  <2>2. users = [u \in Participants |-> users[u]]
    BY <1>1 DEF NoHoldings
  <2>3. QED
    BY <2>1, <2>2, Zenon DEF Registered
<1>3. \A u \in Participants : \A t : HoldingOf(users[u], t) = EmptyHolding
  BY <1>1 DEF NoHoldings, HoldingOf
<1>4. Sound(EmptyHolding, 0) /\ EmptyHolding.volume = 0
  <2>1. CostInRange(EmptyHolding, Min(Prices), Max(Prices)) /\ EmptyHolding.volume = 0
    BY DEF CostInRange, EmptyHolding
  <2>2. QED
    BY <2>1, EmptyBalanced, Zenon DEF Sound
<1>5. Books
  <2>1. cash \in [Participants -> [Tickers -> Int]]
    BY <1>1
  <2>2. \A u \in Participants : \A t \in Tickers : cash[u][t] = 0
    BY <1>1
  <2>3. QED
    BY <1>2, <1>3, <1>4, <2>1, <2>2, Zenon DEF Books
<1>6. Marks
  BY <1>1 DEF Marks
<1>7. ASSUME NEW t \in Tickers
      PROVE  Total(Positions(t)) = 0 /\ Total(Cash(t)) = 0
  <2>1. PICK n \in Nat : n = Cardinality(Participants)
    BY EveryoneFacts, Zenon
  <2>2. Everyone \in [1..n -> Participants] /\ DOMAIN Everyone = 1..n
    BY <2>1, EveryoneFacts
  <2>3. PICK z : z = [i \in 1..n |-> 0]
    BY Zenon
  <2>4. \A i \in 1..n : Position(users[Everyone[i]], t) = 0 /\ cash[Everyone[i]][t] = 0
    BY <1>1, <1>3, <1>4, <2>2 DEF Position
  <2>5. Positions(t) = z /\ Cash(t) = z
    BY <2>2, <2>3, <2>4 DEF Positions, Cash
  <2>6. Total(z) = 0
    <3>1. z \in [1..n -> Int] /\ \A i \in 1..n : z[i] = 0
      BY <2>3
    <3>2. z \in Seq(Int) /\ Len(z) = n
      BY <3>1, FunctionSeq, Zenon
    <3>3. QED
      BY <3>1, <3>2, TotalZero, Zenon
  <2>7. QED
    BY <2>5, <2>6, Zenon
<1>8. QED
  BY <1>1, <1>5, <1>6, <1>7, Zenon DEF Ledger

\* Settlement keeps the ledger, and so does the end of the process.
LEMMA LedgerStep == Ledger /\ [Next]_vars => Ledger'
<1> SUFFICES ASSUME Ledger, [Next]_vars PROVE Ledger'
  OBVIOUS
<1>1. /\ terminated \in BOOLEAN /\ Books /\ Marks
      /\ \A t \in Tickers : Total(Positions(t)) = 0 /\ Total(Cash(t)) = 0
  BY Zenon DEF Ledger
<1>2. ASSUME NEW trade \in Trade, NEW mid \in Prices \cup {None}, Settle(trade, mid)
      PROVE  Ledger'
  <2>1. /\ Books'
        /\ \A u \in Participants : \A t \in Tickers :
             /\ Position(users[u], t)' = Position(users[u], t) + Moved(trade, u, t)
             /\ cash[u][t]' = cash[u][t] - Moved(trade, u, t) * trade.price
        /\ mid # None => \A u \in {trade.maker, trade.taker} :
             HoldingOf(users[u], trade.ticker)'.unrealizedPnl =
               Scaled(Minus(Whole(mid), HoldingOf(users[u], trade.ticker)'.avgCost),
                      HoldingOf(users[u], trade.ticker)'.volume)
    BY <1>1, <1>2, SettleBooks, Zenon
  <2>2. /\ trade.maker \in Participants /\ trade.taker \in Participants
        /\ trade.ticker \in Tickers
        /\ terminated' = terminated
        /\ marked' = IF mid = None THEN <<>>
                     ELSE <<[users |-> {trade.maker, trade.taker}, ticker |-> trade.ticker,
                             mid |-> mid]>>
    <3>1. /\ trade.maker \in Participants /\ trade.taker \in Participants
          /\ trade.ticker \in Tickers
      <4>1. {trade.maker, trade.taker} \subseteq Participants
        BY <1>2, Zenon DEF Settle
      <4>2. trade.ticker \in Tickers
        BY <1>2, SMTT(20) DEF Trade
      <4>3. QED
        BY <4>1, <4>2, Zenon
    <3>2. QED
      BY <1>2, <3>1, ZenonT(30) DEF Settle
  <2>3. Marks'
    <3>1. CASE mid = None
      <4>1. marked' = <<>>
        BY <2>2, <3>1, Zenon
      <4>2. DOMAIN marked' = {}
        BY <4>1, SMTT(20)
      <4>3. QED
        BY <4>2, ZenonT(30) DEF Marks
    <3>2. CASE mid # None
      <4>1. DOMAIN marked' = {1} /\ marked'[1].users = {trade.maker, trade.taker}
            /\ marked'[1].ticker = trade.ticker /\ marked'[1].mid = mid
        <5>1. marked' = <<[users |-> {trade.maker, trade.taker}, ticker |-> trade.ticker,
                           mid |-> mid]>>
          BY <2>2, <3>2, Zenon
        <5>2. QED
          BY <5>1, SMTT(20)
      <4>2. mid \in Int
        BY <1>2, <3>2, AccountsAssumption
      <4>3. ASSUME NEW i \in DOMAIN marked'
            PROVE  /\ marked'[i].users = {trade.maker, trade.taker}
                   /\ marked'[i].ticker = trade.ticker /\ marked'[i].mid = mid
        <5>1. i = 1
          BY <4>1, SMTT(20)
        <5>2. QED
          BY <4>1, <5>1, Zenon
      <4>4. QED
        <5>1. ASSUME NEW i \in DOMAIN marked', NEW u \in marked'[i].users
              PROVE  HoldingOf(users[u], marked[i].ticker)'.unrealizedPnl =
                       Scaled(Minus(Whole(marked'[i].mid),
                                    HoldingOf(users[u], marked[i].ticker)'.avgCost),
                              HoldingOf(users[u], marked[i].ticker)'.volume)
          BY <2>1, <3>2, <4>3, <5>1, ZenonT(20)
        <5>2. ASSUME NEW i \in DOMAIN marked'
              PROVE  /\ marked'[i].mid \in Int /\ marked'[i].ticker \in Tickers
                     /\ marked'[i].users \subseteq Participants
          BY <2>2, <4>2, <4>3, <5>2, Zenon
        <5>3. QED
          BY <5>1, <5>2, ZenonT(30) DEF Marks
    <3>3. QED
      BY <3>1, <3>2
  <2>4. PICK p, d, w : /\ p \in Int /\ d \in Int /\ w \in Int
                       /\ p = trade.price /\ w = d * p
                       /\ d = Signed(trade.takerSide, trade.volume)
                       /\ Signed(MakerSide(trade), trade.volume) = -d
    <3>1. trade.price \in Int /\ trade.volume \in Positive
      BY <1>2, AccountsAssumption, Zenon DEF Trade, Positive
    <3>2. /\ Signed(trade.takerSide, trade.volume) \in Int
          /\ Signed(MakerSide(trade), trade.volume) = -Signed(trade.takerSide, trade.volume)
      BY <3>1, OppositeSides, Zenon
    <3>3. Signed(trade.takerSide, trade.volume) * trade.price \in Int
      BY <3>1, <3>2
    <3>4. QED
      BY <3>1, <3>2, <3>3, Zenon
  <2>5. ASSUME NEW t \in Tickers
        PROVE  Total(Positions(t))' = 0 /\ Total(Cash(t))' = 0
    <3>1. PICK b0, b1, c0, c1 : /\ b0 = [u \in Participants |-> Position(users[u], t)]
                                /\ b1 = [u \in Participants |-> Position(users[u], t)']
                                /\ c0 = [u \in Participants |-> cash[u][t]]
                                /\ c1 = [u \in Participants |-> cash[u][t]']
      BY Zenon
    <3>2. /\ b0 \in [Participants -> Int] /\ b1 \in [Participants -> Int]
          /\ c0 \in [Participants -> Int] /\ c1 \in [Participants -> Int]
      <4>1. \A u \in Participants : /\ Position(users[u], t) \in Int
                                    /\ cash[u][t] \in Int
        BY <1>1, BooksTypes
      <4>2. \A u \in Participants : /\ Position(users[u], t)' \in Int
                                    /\ cash[u][t]' \in Int
        BY <2>1, Zenon DEF Books, Sound, Balanced, Holding, Position
      <4>3. b0 \in [Participants -> Int] /\ c0 \in [Participants -> Int]
        BY <3>1, <4>1, ZenonT(30)
      <4>4. b1 \in [Participants -> Int] /\ c1 \in [Participants -> Int]
        BY <3>1, <4>2
      <4>5. QED
        BY <4>3, <4>4
    <3>3. PICK e, f : /\ e \in Int /\ f \in Int
                      /\ e = IF t = trade.ticker THEN d ELSE 0
                      /\ f = IF t = trade.ticker THEN -w ELSE 0
      BY <2>4
    <3>4. ASSUME NEW u \in Participants
          PROVE  /\ b1[u] = b0[u] + ((IF u = trade.maker THEN -e ELSE 0)
                                     + (IF u = trade.taker THEN e ELSE 0))
                 /\ c1[u] = c0[u] + ((IF u = trade.maker THEN -f ELSE 0)
                                     + (IF u = trade.taker THEN f ELSE 0))
      <4>1. PICK m, x, y : /\ m = Moved(trade, u, t) /\ x = b0[u] /\ y = c0[u]
                           /\ x \in Int /\ y \in Int
        BY <3>2
      <4>2. b1[u] = x + m /\ c1[u] = y - m * p
        BY <2>1, <2>4, <3>1, <4>1, Zenon
      <4>3. m = (IF u = trade.maker THEN -e ELSE 0) + (IF u = trade.taker THEN e ELSE 0)
        BY <2>4, <3>3, <4>1 DEF Moved
      <4>4. -(m * p) = (IF u = trade.maker THEN -f ELSE 0) + (IF u = trade.taker THEN f ELSE 0)
        BY <2>4, <3>3, <4>3
      <4>5. m \in Int /\ p \in Int
        BY <2>4, <3>3, <4>3
      <4>6. y - m * p = y + (-(m * p))
        BY <4>1, <4>5
      <4>7. QED
        BY <4>1, <4>2, <4>3, <4>4, <4>6, Zenon
    <3>5. /\ Total([i \in DOMAIN Everyone |-> b1[Everyone[i]]]) =
               Total([i \in DOMAIN Everyone |-> b0[Everyone[i]]])
          /\ Total([i \in DOMAIN Everyone |-> c1[Everyone[i]]]) =
               Total([i \in DOMAIN Everyone |-> c0[Everyone[i]]])
      <4>1. /\ Exchanged(b0, b1, trade.maker, trade.taker, e)
            /\ Exchanged(c0, c1, trade.maker, trade.taker, f)
        BY <3>4, Zenon DEF Exchanged
      <4>2. QED
        BY <2>2, <3>2, <3>3, <4>1, SettleTransfers, Zenon
    <3>6. \A i \in DOMAIN Everyone : Everyone[i] \in Participants
      BY EveryoneFacts
    <3>7. /\ [i \in DOMAIN Everyone |-> b0[Everyone[i]]] = Positions(t)
          /\ [i \in DOMAIN Everyone |-> c0[Everyone[i]]] = Cash(t)
      BY <3>1, <3>6, Zenon DEF Positions, Cash
    <3>8. /\ [i \in DOMAIN Everyone |-> b1[Everyone[i]]] = Positions(t)'
          /\ [i \in DOMAIN Everyone |-> c1[Everyone[i]]] = Cash(t)'
      BY <3>1, <3>6, Zenon DEF Positions, Cash
    <3>9. QED
      BY <1>1, <3>5, <3>7, <3>8, Zenon
  <2>6. QED
    BY <1>1, <2>1, <2>2, <2>3, <2>5, Zenon DEF Ledger
<1>3. ASSUME UNCHANGED <<users, cash, marked>>, terminated' \in BOOLEAN
      PROVE  Ledger'
  BY <1>1, <1>3, Zenon DEF Ledger, Books, Marks, Positions, Cash
<1>4. QED
  BY <1>1, <1>2, <1>3, Zenon DEF Next, UnknownUser, vars

-----------------------------------------------------------------------------
(* What the ledger shows. *)

\* The ledger is an invariant of the settlement of any trades.
THEOREM LedgerInvariant == Spec => []Ledger
<1>1. Init => Ledger
  BY LedgerInit
<1>2. Ledger /\ [Next]_vars => Ledger'
  BY LedgerStep
<1>3. QED
  BY <1>1, <1>2, PTL DEF Spec

\* The holding of a ticker that a user has traded.
LEMMA HeldHolding ==
  ASSUME Books, NEW u \in Participants, NEW t \in DOMAIN users[u]
  PROVE  /\ t \in Tickers /\ HoldingOf(users[u], t) = users[u][t]
         /\ cash[u][t] \in Int /\ Sound(users[u][t], cash[u][t])
<1>1. t \in Tickers
  BY DEF Books, Registered
<1>2. HoldingOf(users[u], t) = users[u][t]
  BY Zenon DEF HoldingOf
<1>3. cash[u][t] \in Int
  BY <1>1 DEF Books
<1>4. Sound(HoldingOf(users[u], t), cash[u][t])
  BY <1>1, Zenon DEF Books
<1>5. QED
  BY <1>1, <1>2, <1>3, <1>4, Zenon

\* Accounts never leave their types, whatever trades are settled.
THEOREM TypeCorrect == Spec => []TypeOK
<1>1. Ledger => TypeOK
  <2> SUFFICES ASSUME Ledger PROVE TypeOK
    OBVIOUS
  <2>1. Books /\ terminated \in BOOLEAN
    BY Zenon DEF Ledger
  <2>2. DOMAIN users = Participants
    BY <2>1 DEF Books, Registered
  <2>3. ASSUME NEW u \in Participants, NEW t \in DOMAIN users[u]
        PROVE  /\ t \in Tickers
               /\ users[u][t].volume \in Int
               /\ {users[u][t].avgCost, users[u][t].realizedPnl, users[u][t].unrealizedPnl}
                    \subseteq Fraction
    <3>1. t \in Tickers /\ users[u][t] \in Holding
      BY <2>1, HeldHolding, ZenonT(30) DEF Sound, Balanced
    <3>2. QED
      BY <3>1, SMTT(20) DEF Holding
  <2>4. QED
    BY <2>1, <2>2, <2>3, Zenon DEF TypeOK
<1>2. QED
  BY <1>1, LedgerInvariant, PTL

\* ApplyFill accounts for every unit of profit: what a user has realized is the
\* cash their fills brought in plus the cost basis of what they still hold, for
\* fills of any prices and volumes in any order.
THEOREM ProfitAccounted == Spec => []RealizedMatchesCash
<1>1. Ledger => RealizedMatchesCash
  <2> SUFFICES ASSUME Ledger, NEW u \in Participants, NEW t \in DOMAIN users[u]
               PROVE  users[u][t].realizedPnl =
                        Plus(Whole(cash[u][t]), Scaled(users[u][t].avgCost, users[u][t].volume))
    BY Zenon DEF RealizedMatchesCash
  <2>1. cash[u][t] \in Int /\ Balanced(users[u][t], cash[u][t])
    BY HeldHolding, ZenonT(30) DEF Ledger, Sound
  <2>2. QED
    BY <2>1, BalancedCash, SMTT(20)
<1>2. QED
  BY <1>1, LedgerInvariant, PTL

\* RefreshUnrealizedPnl splits the equity: right after a trade both its parties
\* are worth their cash plus their position at the mid price.
THEOREM EquityMarked == Spec => []EquityMarkedToMid
<1>1. Ledger => EquityMarkedToMid
  <2> SUFFICES ASSUME Ledger, NEW i \in DOMAIN marked, NEW u \in marked[i].users
               PROVE  Plus(RealizedPnl(users[u], marked[i].ticker),
                           UnrealizedPnl(users[u], marked[i].ticker)) =
                        Whole(cash[u][marked[i].ticker]
                              + Position(users[u], marked[i].ticker) * marked[i].mid)
    BY Zenon DEF EquityMarkedToMid
  <2>1. PICK t, mid, h, c : /\ t = marked[i].ticker /\ mid = marked[i].mid
                            /\ h = HoldingOf(users[u], t) /\ c = cash[u][t]
    OBVIOUS
  <2>2. /\ mid \in Int /\ t \in Tickers /\ u \in Participants
        /\ h.unrealizedPnl = Scaled(Minus(Whole(mid), h.avgCost), h.volume)
    BY <2>1, Zenon DEF Ledger, Marks
  <2>3. c \in Int /\ Balanced(h, c)
    <3>1. Books
      BY Zenon DEF Ledger
    <3>2. cash[u][t] \in Int
      BY <2>2, <3>1, ZenonT(30) DEF Books
    <3>3. QED
      BY <2>1, <2>2, <3>1, <3>2, ZenonT(30) DEF Books, Sound
  <2>4. Plus(h.realizedPnl, h.unrealizedPnl) = Whole(c + h.volume * mid)
    BY <2>2, <2>3, BalancedEquity, ZenonT(30)
  <2>5. QED
    BY <2>1, <2>4, Zenon DEF RealizedPnl, UnrealizedPnl, Position
<1>2. QED
  BY <1>1, LedgerInvariant, PTL

\* BothFilled only exchanges: over all participants positions and payments sum
\* to zero, and every user's payments are a whole amount.
THEOREM NothingCreated == Spec => []PositionsSumToZero
<1>1. Ledger => PositionsSumToZero
  <2> SUFFICES ASSUME Ledger, NEW t \in Tickers
               PROVE  /\ Total([i \in DOMAIN Everyone |-> Position(users[Everyone[i]], t)]) = 0
                      /\ \A u \in Participants : Received(users[u], t).den = 1
                      /\ Total([i \in DOMAIN Everyone |-> Received(users[Everyone[i]], t).num]) = 0
    BY Zenon DEF PositionsSumToZero
  <2>1. Books /\ Total(Positions(t)) = 0 /\ Total(Cash(t)) = 0
    BY Zenon DEF Ledger
  <2>2. ASSUME NEW u \in Participants
        PROVE  Received(users[u], t).den = 1 /\ Received(users[u], t).num = cash[u][t]
    <3>1. cash[u][t] \in Int
      BY <2>1, BooksTypes
    <3>2. Balanced(HoldingOf(users[u], t), cash[u][t])
      BY <2>1, Zenon DEF Books, Sound
    <3>3. Received(users[u], t) = Whole(cash[u][t])
      BY <3>1, <3>2, BalancedCash, Zenon DEF Received, RealizedPnl, Position
    <3>4. QED
      BY <3>3 DEF Whole
  <2>3. \A i \in DOMAIN Everyone : Everyone[i] \in Participants
    BY EveryoneFacts
  <2>4. [i \in DOMAIN Everyone |-> Received(users[Everyone[i]], t).num] = Cash(t)
    BY <2>2, <2>3, Zenon DEF Cash
  <2>5. QED
    BY <2>1, <2>2, <2>4, Zenon DEF Positions
<1>2. QED
  BY <1>1, LedgerInvariant, PTL

\* CostAfter keeps the cost basis of an open position within the prices traded,
\* and resets that of a flat one.
THEOREM CostIsAnAverage == Spec => []CostWithinTradedPrices
<1>1. Ledger => CostWithinTradedPrices
  <2> SUFFICES ASSUME Ledger, NEW u \in Participants, NEW t \in DOMAIN users[u]
               PROVE  IF users[u][t].volume = 0 THEN users[u][t].avgCost = Whole(0)
                      ELSE /\ AtMost(Whole(Min(Prices)), users[u][t].avgCost)
                           /\ AtMost(users[u][t].avgCost, Whole(Max(Prices)))
    BY Zenon DEF CostWithinTradedPrices
  <2>1. PICK h, x, lo, hi : h = users[u][t] /\ x = h.avgCost /\ lo = Min(Prices) /\ hi = Max(Prices)
    OBVIOUS
  <2>2. h \in Holding /\ CostInRange(h, lo, hi)
    BY <2>1, HeldHolding, ZenonT(30) DEF Ledger, Sound, Balanced
  <2>3. x.num \in Int /\ x.den \in Int /\ lo \in Int /\ hi \in Int
    BY <2>1, <2>2, FractionParts, PriceRange, SMTT(20) DEF Holding
  <2>4. CASE h.volume = 0
    BY <2>1, <2>2, <2>4, Zenon DEF CostInRange
  <2>5. CASE h.volume # 0
    <3>1. lo * x.den <= x.num /\ x.num <= hi * x.den
      BY <2>1, <2>2, <2>5, Zenon DEF CostInRange, InRange
    <3>2. AtMost(Whole(lo), x) /\ AtMost(x, Whole(hi))
      BY <2>3, <3>1 DEF AtMost, Whole
    <3>3. QED
      BY <2>1, <2>5, <3>2, Zenon
  <2>6. QED
    BY <2>4, <2>5
<1>2. QED
  BY <1>1, LedgerInvariant, PTL
=============================================================================
