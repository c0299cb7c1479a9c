------------------------- MODULE PaymentFormProofs -------------------------
(***************************************************************************)
(* The money of a payment is one in every unit and in every form, and its  *)
(* refunds add up: for any bodies, configurations and refunds asked for,   *)
(* and any number of retries.  A sum of prices is a fold, and is reasoned  *)
(* about through the smallest set on which a claim about it would fail; an *)
(* amount is reasoned about through its quotients and remainders.          *)
(***************************************************************************)
EXTENDS PaymentForm, FiniteSetTheorems, WellFoundedInduction, TLAPS
---------------------------------------------------------------------------
(* Sums.  The fold of a function picks its arguments in an order nobody     *)
(* knows; the sum is the same whichever comes first.                        *)

Pick(s) == CHOOSE x \in s : TRUE

(* What a fold of f makes of every part of D.                               *)
Sums(f, it, D) ==
    it = [s \in SUBSET D |-> IF s = {} THEN 0 ELSE f[Pick(s)] + it[s \ {Pick(s)}]]

SumOver(f, D) == (CHOOSE it : Sums(f, it, D))[D]

(* The totals of the code are such sums.                                    *)
LEMMA TotalIsSum == ASSUME NEW f PROVE Total(f) = SumOver(f, DOMAIN f)
BY DEF Total, FoldSeq, FoldFunction, FoldFunctionOnSet, MapThenFoldSet, SumOver, Sums, Pick

(* Of the parts of a finite set that fail, one has no failing part.         *)
LEMMA Smallest ==
    ASSUME NEW D, IsFiniteSet(D), NEW T, T \subseteq SUBSET D, T # {}
    PROVE  \E W \in T : \A U \in T : U \subseteq W => U = W
<1>1. FiniteSubsetsOf(D) = SUBSET D BY FS_FiniteSubsetsOfFinite
<1>2. IsWellFoundedOn(StrictSubsetOrdering(D), SUBSET D)
  BY <1>1, FS_StrictSubsetOrderingWellFounded
<1>3. PICK W \in T : \A U \in T : ~(<<U, W>> \in StrictSubsetOrdering(D)) BY <1>2, WFMin
<1>4. \A U \in T : U \subseteq W => U = W BY <1>3 DEF StrictSubsetOrdering
<1> QED BY <1>4

(* The fold takes an element of the set.                                    *)
LEMMA PickIsIn == ASSUME NEW s, s # {} PROVE Pick(s) \in s
BY DEF Pick

(* What is taken is added to the sum of the others.                         *)
LEMMA SumsAt ==
    ASSUME NEW f, NEW D, NEW it, Sums(f, it, D), NEW s \in SUBSET D
    PROVE  it[s] = IF s = {} THEN 0 ELSE f[Pick(s)] + it[s \ {Pick(s)}]
<1> DEFINE at(u) == IF u = {} THEN 0 ELSE f[Pick(u)] + it[u \ {Pick(u)}]
<1>1. it = [u \in SUBSET D |-> at(u)] BY DEF Sums
<1> HIDE DEF at
<1>2. it[s] = at(s) BY <1>1
<1> QED BY <1>2 DEF at

(* A part of two sets has one sum.                                          *)
LEMMA SumsAgree ==
    ASSUME NEW f, NEW D, NEW E, IsFiniteSet(D), NEW g, NEW h, Sums(f, g, D), Sums(f, h, E)
    PROVE  \A s \in SUBSET (D \cap E) : g[s] = h[s]
<1> DEFINE T == {s \in SUBSET (D \cap E) : g[s] # h[s]}
<1> SUFFICES ASSUME T # {} PROVE FALSE OBVIOUS
<1>1. T \subseteq SUBSET D OBVIOUS
<1>2. PICK W \in T : \A U \in T : U \subseteq W => U = W
  <2> HIDE DEF T
  <2> QED BY <1>1, Smallest
<1>3. W \in SUBSET D /\ W \in SUBSET E OBVIOUS
<1>4. /\ g[W] = IF W = {} THEN 0 ELSE f[Pick(W)] + g[W \ {Pick(W)}]
      /\ h[W] = IF W = {} THEN 0 ELSE f[Pick(W)] + h[W \ {Pick(W)}]
  BY <1>3, SumsAt
<1>5. W # {} BY <1>4
<1>6. Pick(W) \in W BY <1>5, PickIsIn
<1>7. W \ {Pick(W)} \notin T BY <1>2, <1>6
<1>8. g[W \ {Pick(W)}] = h[W \ {Pick(W)}] BY <1>3, <1>7
<1> QED BY <1>4, <1>5, <1>8

(* Every finite set has sums.                                               *)
LEMMA SumsExist ==
    ASSUME NEW f, NEW D, IsFiniteSet(D)
    PROVE  \E it : Sums(f, it, D)
<1> DEFINE T == {s \in SUBSET D : ~\E it : Sums(f, it, s)}
<1> SUFFICES ASSUME T # {} PROVE FALSE OBVIOUS
<1>1. T \subseteq SUBSET D OBVIOUS
<1>2. PICK W \in T : \A U \in T : U \subseteq W => U = W
  <2> HIDE DEF T
  <2> QED BY <1>1, Smallest
<1> DEFINE of(U) == CHOOSE it : Sums(f, it, U)
           rest(s) == s \ {Pick(s)}
           at(s) == IF s = {} THEN 0 ELSE f[Pick(s)] + of(rest(s))[rest(s)]
           it == [s \in SUBSET W |-> at(s)]
<1>3. ASSUME NEW s \in SUBSET W, s # {}
      PROVE  /\ rest(s) \in SUBSET W /\ rest(s) # W /\ rest(s) \subseteq s
             /\ Sums(f, of(rest(s)), rest(s))
  <2>1. Pick(s) \in s BY <1>3, PickIsIn
  <2>2. rest(s) \in SUBSET W /\ rest(s) # W /\ rest(s) \subseteq s BY <2>1
  <2>3. rest(s) \notin T BY <1>2, <2>2
  <2>4. \E g : Sums(f, g, rest(s)) BY <2>2, <2>3
  <2> QED BY <2>2, <2>4
<1>4. ASSUME NEW s \in SUBSET W, s # {} PROVE of(rest(s))[rest(s)] = at(rest(s))
  <2> DEFINE U == rest(s)
  <2>1. U \in SUBSET W /\ Sums(f, of(U), U) BY <1>3, <1>4
  <2>2. of(U)[U] = IF U = {} THEN 0 ELSE f[Pick(U)] + of(U)[U \ {Pick(U)}]
    <3> HIDE DEF of, U
    <3> QED BY <2>1, SumsAt
  <2>3. CASE U = {} BY <2>2, <2>3
  <2>4. CASE U # {}
    <3>1. Sums(f, of(rest(U)), rest(U)) /\ rest(U) \subseteq U BY <1>3, <2>1, <2>4
    <3>2. IsFiniteSet(U) BY <2>1, FS_Subset
    <3>3. rest(U) \in SUBSET (U \cap rest(U)) BY <3>1
    <3> HIDE DEF of, U
    <3>4. of(U)[rest(U)] = of(rest(U))[rest(U)] BY <2>1, <3>1, <3>2, <3>3, SumsAgree
    <3> QED BY <2>2, <2>4, <3>4 DEF U
  <2> QED BY <2>3, <2>4
<1>5. ASSUME NEW s \in SUBSET W
      PROVE  it[s] = IF s = {} THEN 0 ELSE f[Pick(s)] + it[s \ {Pick(s)}]
  <2>1. it[s] = at(s) OBVIOUS
  <2>2. CASE s = {} BY <2>1, <2>2
  <2>3. CASE s # {}
    <3>1. rest(s) \in SUBSET W BY <1>3, <2>3
    <3>2. it[rest(s)] = at(rest(s)) BY <3>1
    <3>3. of(rest(s))[rest(s)] = at(rest(s)) BY <1>4, <2>3
    <3>4. at(s) = f[Pick(s)] + of(rest(s))[rest(s)] BY <2>3
    <3> QED BY <2>1, <2>3, <3>2, <3>3, <3>4
  <2> QED BY <2>2, <2>3
<1> DEFINE as(s) == IF s = {} THEN 0 ELSE f[Pick(s)] + it[s \ {Pick(s)}]
<1>6. it = [s \in SUBSET W |-> as(s)]
  <2>1. \A s \in SUBSET W : it[s] = as(s) BY <1>5
  <2>2. it = [s \in SUBSET W |-> at(s)] OBVIOUS
  <2> HIDE DEF as, at, it
  <2> QED BY <2>1, <2>2
<1>7. Sums(f, it, W)
  <2> HIDE DEF it
  <2> QED BY <1>6 DEF Sums
<1> QED BY <1>7

(* Taking the element that the fold picks.                                  *)
LEMMA SumUnfolds ==
    ASSUME NEW f, NEW D, IsFiniteSet(D)
    PROVE  SumOver(f, D) = IF D = {} THEN 0 ELSE f[Pick(D)] + SumOver(f, D \ {Pick(D)})
<1> DEFINE of(U) == CHOOSE it : Sums(f, it, U)
           E == D \ {Pick(D)}
<1>1. Sums(f, of(D), D) BY SumsExist
<1>2. IsFiniteSet(E) BY FS_Subset
<1>3. Sums(f, of(E), E) BY <1>2, SumsExist
<1>4. SumOver(f, D) = of(D)[D] /\ SumOver(f, E) = of(E)[E] BY DEF SumOver
<1> HIDE DEF of
<1>5. of(D)[D] = IF D = {} THEN 0 ELSE f[Pick(D)] + of(D)[E] BY <1>1, SumsAt
<1>6. of(D)[E] = of(E)[E]
  <2>1. E \in SUBSET (D \cap E) OBVIOUS
  <2> HIDE DEF E
  <2> QED BY <1>1, <1>3, <2>1, SumsAgree
<1> QED BY <1>4, <1>5, <1>6

(* Integers add up to an integer.                                           *)
LEMMA SumIsInt ==
    ASSUME NEW f, NEW D, IsFiniteSet(D), \A x \in D : f[x] \in Int
    PROVE  SumOver(f, D) \in Int
<1> DEFINE T == {s \in SUBSET D : SumOver(f, s) \notin Int}
<1> SUFFICES ASSUME T # {} PROVE FALSE OBVIOUS
<1>1. T \subseteq SUBSET D OBVIOUS
<1>2. PICK W \in T : \A U \in T : U \subseteq W => U = W
  <2> HIDE DEF T
  <2> QED BY <1>1, Smallest
<1>3. IsFiniteSet(W) BY FS_Subset
<1>4. SumOver(f, W) = IF W = {} THEN 0 ELSE f[Pick(W)] + SumOver(f, W \ {Pick(W)})
  BY <1>3, SumUnfolds
<1>5. W # {} BY <1>4
<1>6. Pick(W) \in W BY <1>5, PickIsIn
<1>7. SumOver(f, W \ {Pick(W)}) \in Int BY <1>2, <1>6
<1> QED BY <1>4, <1>5, <1>6, <1>7

(* Any of the summands may be taken first.                                  *)
LEMMA SumTakesAny ==
    ASSUME NEW f, NEW D, IsFiniteSet(D), \A x \in D : f[x] \in Int
    PROVE  \A y \in D : SumOver(f, D) = f[y] + SumOver(f, D \ {y})
<1> DEFINE Takes(s) == \A y \in s : SumOver(f, s) = f[y] + SumOver(f, s \ {y})
           T == {s \in SUBSET D : ~Takes(s)}
<1> SUFFICES ASSUME T # {} PROVE FALSE OBVIOUS
<1>1. T \subseteq SUBSET D OBVIOUS
<1>2. PICK W \in T : \A U \in T : U \subseteq W => U = W
  <2> HIDE DEF T
  <2> QED BY <1>1, Smallest
<1>3. \A U \in SUBSET D : IsFiniteSet(U) BY FS_Subset
<1>4. PICK y \in W : SumOver(f, W) # f[y] + SumOver(f, W \ {y}) OBVIOUS
<1> DEFINE x == Pick(W)
<1>5. x \in W BY PickIsIn
<1>6. SumOver(f, W) = f[x] + SumOver(f, W \ {x}) BY <1>3, <1>4, SumUnfolds
<1>7. x # y BY <1>4, <1>6
<1> HIDE DEF x
<1>8. W \ {x} \notin T /\ W \ {y} \notin T BY <1>2, <1>4, <1>5
<1>9. SumOver(f, W \ {x}) = f[y] + SumOver(f, (W \ {x}) \ {y}) BY <1>4, <1>7, <1>8
<1>10. SumOver(f, W \ {y}) = f[x] + SumOver(f, (W \ {y}) \ {x}) BY <1>5, <1>7, <1>8
<1>11. (W \ {y}) \ {x} = (W \ {x}) \ {y} OBVIOUS
<1>12. SumOver(f, (W \ {x}) \ {y}) \in Int
  <2>1. (W \ {x}) \ {y} \in SUBSET D OBVIOUS
  <2>2. IsFiniteSet((W \ {x}) \ {y}) BY <1>3, <2>1
  <2>3. \A z \in (W \ {x}) \ {y} : f[z] \in Int BY <2>1
  <2> QED BY <2>2, <2>3, SumIsInt
<1>13. f[x] \in Int /\ f[y] \in Int BY <1>4, <1>5
<1>14. SumOver(f, W) = f[x] + (f[y] + SumOver(f, (W \ {x}) \ {y})) BY <1>6, <1>9
<1>15. SumOver(f, W \ {y}) = f[x] + SumOver(f, (W \ {x}) \ {y}) BY <1>10, <1>11
<1>16. SumOver(f, W) = f[y] + SumOver(f, W \ {y}) BY <1>12, <1>13, <1>14, <1>15
<1> QED BY <1>4, <1>16

(* A sum depends on what is summed only.                                    *)
LEMMA SumsOfTheSame ==
    ASSUME NEW f, NEW g, NEW D, IsFiniteSet(D), \A x \in D : f[x] = g[x]
    PROVE  SumOver(f, D) = SumOver(g, D)
<1> DEFINE T == {s \in SUBSET D : SumOver(f, s) # SumOver(g, s)}
<1> SUFFICES ASSUME T # {} PROVE FALSE OBVIOUS
<1>1. T \subseteq SUBSET D OBVIOUS
<1>2. PICK W \in T : \A U \in T : U \subseteq W => U = W
  <2> HIDE DEF T
  <2> QED BY <1>1, Smallest
<1>3. IsFiniteSet(W) BY FS_Subset
<1>4. /\ SumOver(f, W) = IF W = {} THEN 0 ELSE f[Pick(W)] + SumOver(f, W \ {Pick(W)})
      /\ SumOver(g, W) = IF W = {} THEN 0 ELSE g[Pick(W)] + SumOver(g, W \ {Pick(W)})
  BY <1>3, SumUnfolds
<1>5. W # {} BY <1>4
<1>6. Pick(W) \in W BY <1>5, PickIsIn
<1>7. SumOver(f, W \ {Pick(W)}) = SumOver(g, W \ {Pick(W)}) BY <1>2, <1>6
<1> QED BY <1>4, <1>5, <1>6, <1>7

(* Nothing adds up to nothing.                                              *)
LEMMA TotalOfNothing == Total(<<>>) = 0
<1>1. DOMAIN <<>> = {} /\ IsFiniteSet({}) BY FS_EmptySet
<1>2. SumOver(<<>>, {}) = 0 BY <1>1, SumUnfolds
<1> QED BY <1>1, <1>2, TotalIsSum

(* What is appended is added.                                               *)
LEMMA TotalGrows ==
    ASSUME NEW n \in Nat, NEW f, DOMAIN f = 1..n, \A i \in 1..n : f[i] \in Int,
           NEW g, DOMAIN g = 1..(n+1), \A i \in 1..n : g[i] = f[i], g[n+1] \in Int
    PROVE  Total(f) \in Int /\ Total(g) = Total(f) + g[n+1]
<1>1. IsFiniteSet(1..n) /\ IsFiniteSet(1..(n+1)) BY FS_Interval
<1>2. \A i \in 1..(n+1) : g[i] \in Int OBVIOUS
<1>3. SumOver(g, 1..(n+1)) = g[n+1] + SumOver(g, (1..(n+1)) \ {n+1})
  <2>1. n+1 \in 1..(n+1) OBVIOUS
  <2> QED BY <1>1, <1>2, <2>1, SumTakesAny
<1>4. (1..(n+1)) \ {n+1} = 1..n OBVIOUS
<1>5. SumOver(g, 1..n) = SumOver(f, 1..n) BY <1>1, SumsOfTheSame
<1>6. SumOver(f, 1..n) \in Int BY <1>1, SumIsInt
<1>7. Total(f) = SumOver(f, 1..n) /\ Total(g) = SumOver(g, 1..(n+1)) BY TotalIsSum
<1>8. SumOver(g, 1..(n+1)) = g[n+1] + SumOver(f, 1..n) BY <1>3, <1>4, <1>5
<1> QED BY <1>6, <1>7, <1>8

---------------------------------------------------------------------------
(* Amounts.                                                                 *)

(* The scales that occur.                                                   *)
LEMMA Powers == 10 ^ 0 = 1 /\ 10 ^ 1 = 10 /\ 10 ^ 2 = 100 /\ 10 ^ 3 = 1000
OBVIOUS

(* A number that toFixed has digits enough for is converted as it stands.   *)
LEMMA ShortNumber ==
    ASSUME NEW d, d.scale \in 0..3
    PROVE  toThousandths(d) = decimalStringToThousandths(d)
<1>1. d.scale <= FixedDigits BY AmountAssumption
<1> QED BY <1>1 DEF toThousandths, decimalString

(* A decimal of two digits is a number of cents, in both units.             *)
LEMMA PlainDecimal ==
    ASSUME NEW d, d.n \in Nat, d.scale \in 0..2
    PROVE  /\ toCents(d) \in Nat /\ toThousandths(d) = 10 * toCents(d)
           /\ d.scale = 2 => toCents(d) = d.n
<1> DEFINE tenths == (d.n * 10000) \div 10 ^ d.scale
<1>1. Sign(d.n) = 1 /\ Abs(d.n) = d.n BY DEF Sign, Abs
<1>2. ASSUME NEW k \in Nat, tenths = 100 * k
      PROVE  toThousandths(d) = 10 * k /\ toCents(d) = k
  <2>1. tenths \div 10 = 10 * k /\ tenths % 10 = 0 BY <1>2
  <2>2. toThousandths(d) = 10 * k
    <3>1. decimalStringToThousandths(d) = 10 * k BY <1>1, <2>1 DEF decimalStringToThousandths
    <3>2. d.scale \in 0..3 OBVIOUS
    <3> QED BY <3>1, <3>2, ShortNumber
  <2>3. Sign(10 * k) = 1 /\ Abs(10 * k) = 10 * k BY DEF Sign, Abs
  <2>4. (10 * k + 5) \div 10 = k OBVIOUS
  <2> QED BY <2>2, <2>3, <2>4 DEF toCents, phpRound
<1>3. CASE d.scale = 0
  <2>1. tenths = 100 * (100 * d.n) BY <1>3, Powers
  <2> QED BY <1>2, <1>3, <2>1
<1>4. CASE d.scale = 1
  <2>1. tenths = 100 * (10 * d.n) BY <1>4, Powers
  <2> QED BY <1>2, <1>4, <2>1
<1>5. CASE d.scale = 2
  <2>1. tenths = 100 * d.n BY <1>5, Powers
  <2> QED BY <1>2, <1>5, <2>1
<1> QED BY <1>3, <1>4, <1>5

(* What the rows keep in cents is signed without loss.                      *)
LEMMA CentsBack ==
    ASSUME NEW cents \in Nat
    PROVE  toThousandths(fromCents(cents)) = 10 * cents
<1> DEFINE d == fromCents(cents)
<1>1. d.n = cents /\ d.scale = 2 BY DEF fromCents
<1>2. d.n \in Nat /\ d.scale \in 0..2 BY <1>1
<1> HIDE DEF d
<1>3. toThousandths(d) = 10 * cents BY <1>1, <1>2, PlainDecimal
<1> QED BY <1>3 DEF d

(* What is refunded in thousandths is signed without loss.                  *)
LEMMA ThousandthsBack ==
    ASSUME NEW t \in Nat
    PROVE  toThousandths([n |-> t, scale |-> 3]) = t
<1>1. (t * 10000) \div 1000 = 10 * t OBVIOUS
<1>2. (10 * t) \div 10 = t /\ (10 * t) % 10 = 0 OBVIOUS
<1>3. Sign(t) = 1 /\ Abs(t) = t BY DEF Sign, Abs
<1> DEFINE d == [n |-> t, scale |-> 3]
<1>4. d.n = t /\ 10 ^ d.scale = 1000 BY Powers
<1> HIDE DEF d
<1>5. (Abs(d.n) * 10000) \div 10 ^ d.scale = 10 * t BY <1>1, <1>3, <1>4
<1>6. decimalStringToThousandths(d) = t
  BY <1>2, <1>3, <1>4, <1>5 DEF decimalStringToThousandths
<1>7. d.scale \in 0..3 BY DEF d
<1>8. toThousandths(d) = t BY <1>6, <1>7, ShortNumber
<1> QED BY <1>8 DEF d

(* A number is its last digit and ten times the others.                     *)
LEMMA LastDigit ==
    ASSUME NEW q \in Nat
    PROVE  \E a \in Nat, b \in 0 .. 9 : q = 10 * a + b /\ q \div 10 = a /\ q % 10 = b
<1>1. PICK a \in Nat : a = q \div 10 OBVIOUS
<1>2. 10 * a <= q /\ q < 10 * a + 10 BY <1>1
<1>3. PICK b \in 0 .. 9 : q = 10 * a + b
  <2>1. q - 10 * a \in 0 .. 9 BY <1>2
  <2> QED BY <2>1
<1>4. q % 10 = b BY <1>3
<1> QED BY <1>1, <1>3, <1>4

(* The thousandths of a decimal string are no more than half a one away     *)
(* from it.                                                                 *)
LEMMA StringIsNear ==
    ASSUME NEW d, d.n \in Int, 10 ^ d.scale \in Nat \ {0}
    PROVE  LET thousandths == decimalStringToThousandths(d) IN
           /\ thousandths \in Int
           /\ 2 * Abs(thousandths * 10 ^ d.scale - d.n * 1000) <= 10 ^ d.scale
<1>1. PICK P \in Nat \ {0} : P = 10 ^ d.scale OBVIOUS
<1>2. PICK m \in Nat : m = Abs(d.n) BY DEF Abs
<1>3. PICK q \in Nat : q = (m * 10000) \div P BY <1>1
<1>4. q * P <= m * 10000 /\ m * 10000 < q * P + P BY <1>1, <1>2, <1>3
<1>5. PICK t \in Nat : t = q \div 10 + (IF q % 10 >= 5 THEN 1 ELSE 0) OBVIOUS
<1>6. decimalStringToThousandths(d) = Sign(d.n) * t
  BY <1>1, <1>2, <1>3, <1>5 DEF decimalStringToThousandths
<1>7. PICK e \in -4 .. 5 : 10 * t = q + e
  <2>1. PICK a \in Nat, b \in 0 .. 9 : q = 10 * a + b /\ q \div 10 = a /\ q % 10 = b
    BY LastDigit
  <2>2. t = a + (IF b >= 5 THEN 1 ELSE 0) BY <1>5, <2>1
  <2>3. CASE b >= 5
    <3>1. 10 * t = q + (10 - b) /\ 10 - b \in -4 .. 5 BY <2>1, <2>2, <2>3
    <3> QED BY <3>1
  <2>4. CASE b < 5
    <3>1. 10 * t = q + (-b) /\ -b \in -4 .. 5 BY <2>1, <2>2, <2>4
    <3> QED BY <3>1
  <2> QED BY <2>3, <2>4
<1>8. 10 * (t * P) = q * P + e * P
  <2>1. (10 * t) * P = (q + e) * P BY <1>7
  <2> QED BY <2>1
<1>9. -4 * P <= e * P /\ e * P <= 5 * P
  <2>1. (e + 4) * P >= 0 /\ (5 - e) * P >= 0
    <3>1. \A a \in Nat : a * P >= 0 OBVIOUS
    <3>2. e + 4 \in Nat /\ 5 - e \in Nat OBVIOUS
    <3> QED BY <3>1, <3>2
  <2> QED BY <2>1
<1>10. 2 * Abs(t * P - m * 1000) <= P
  <2>1. PICK u \in Int : u = t * P OBVIOUS
  <2>2. PICK v \in Int : v = q * P OBVIOUS
  <2>3. PICK w \in Int : w = e * P OBVIOUS
  <2>4. 10 * u = v + w /\ -4 * P <= w /\ w <= 5 * P BY <1>8, <1>9, <2>1, <2>2, <2>3
  <2>5. v <= m * 10000 /\ m * 10000 < v + P BY <1>4, <2>2
  <2>6. 2 * (u - m * 1000) <= P /\ 2 * (m * 1000 - u) <= P BY <2>4, <2>5
  <2> QED BY <2>1, <2>6 DEF Abs
<1>11. CASE d.n < 0
  <2>1. Sign(d.n) = -1 /\ d.n = -m BY <1>2, <1>11 DEF Sign, Abs
  <2>2. decimalStringToThousandths(d) = -t BY <1>6, <2>1
  <2>3. (-t) * P - d.n * 1000 = -(t * P - m * 1000) BY <2>1
  <2>4. Abs(-(t * P - m * 1000)) = Abs(t * P - m * 1000) BY DEF Abs
  <2> QED BY <1>1, <1>10, <2>2, <2>3, <2>4
<1>12. CASE ~(d.n < 0)
  <2>1. Sign(d.n) = 1 /\ d.n = m BY <1>2, <1>12 DEF Sign, Abs
  <2>2. decimalStringToThousandths(d) = t BY <1>6, <2>1
  <2> QED BY <1>1, <1>10, <2>1, <2>2
<1> QED BY <1>11, <1>12

(* What toFixed keeps of a longer number is half of its last digit away.    *)
LEMMA FixedIsNear ==
    ASSUME NEW d, d.n \in Int, d.scale \in Nat, d.scale > FixedDigits,
           NEW unit \in Nat \ {0}, unit = 10 ^ (d.scale - FixedDigits)
    PROVE  /\ decimalString(d).n \in Int /\ decimalString(d).scale = FixedDigits
           /\ 2 * Abs(decimalString(d).n * unit - d.n) <= unit
<1>1. PICK m \in Nat : m = Abs(d.n) BY DEF Abs
<1>2. PICK k \in Nat : k = (2 * m + unit) \div (2 * unit) OBVIOUS
<1>3. k * (2 * unit) <= 2 * m + unit /\ 2 * m + unit < k * (2 * unit) + 2 * unit
  <2>1. PICK c \in Nat : c = 2 * m + unit OBVIOUS
  <2>2. PICK b \in Nat \ {0} : b = 2 * unit OBVIOUS
  <2>3. k * b <= c /\ c < k * b + b
    <3>1. k = c \div b BY <1>2, <2>1, <2>2
    <3> QED BY <3>1
  <2> QED BY <2>1, <2>2, <2>3
<1>4. PICK u \in Int : u = k * unit OBVIOUS
<1>5. k * (2 * unit) = 2 * u BY <1>4
<1>6. 2 * (u - m) <= unit /\ 2 * (m - u) <= unit BY <1>3, <1>5
<1>7. decimalString(d) = [n |-> Sign(d.n) * k, scale |-> FixedDigits]
  <2>1. ~(d.scale <= FixedDigits) BY AmountAssumption
  <2> QED BY <1>1, <1>2, <2>1 DEF decimalString
<1>8. CASE d.n < 0
  <2>1. Sign(d.n) = -1 /\ d.n = -m BY <1>1, <1>8 DEF Sign, Abs
  <2>2. decimalString(d).n = -k BY <1>7, <2>1
  <2>3. decimalString(d).n * unit - d.n = m - u BY <1>4, <2>1, <2>2
  <2> QED BY <1>6, <1>7, <2>2, <2>3 DEF Abs
<1>9. CASE ~(d.n < 0)
  <2>1. Sign(d.n) = 1 /\ d.n = m BY <1>1, <1>9 DEF Sign, Abs
  <2>2. decimalString(d).n = k BY <1>7, <2>1
  <2>3. decimalString(d).n * unit - d.n = u - m BY <1>4, <2>1, <2>2
  <2> QED BY <1>6, <1>7, <2>2, <2>3 DEF Abs
<1> QED BY <1>8, <1>9

(* As in SignedIsAsked.                                                     *)
Twice(asked) ==
    IF asked.scale > FixedDigits THEN 1000 * 10 ^ (asked.scale - FixedDigits) ELSE 0

Near(thousandths, asked) ==
    2 * Abs(thousandths * 10 ^ asked.scale - asked.n * 1000) <= 10 ^ asked.scale + Twice(asked)

(* The amounts of AmountAssumption.                                         *)
Amount(d) ==
    /\ d.n \in Int /\ d.scale \in Nat /\ 10 ^ d.scale \in Nat \ {0}
    /\ d.scale > FixedDigits =>
           /\ 10 ^ (d.scale - FixedDigits) \in Nat \ {0}
           /\ 10 ^ d.scale = 10 ^ FixedDigits * 10 ^ (d.scale - FixedDigits)

(* The thousandths of a number are no more than half a one away from it, and*)
(* half of the last digit that toFixed keeps.                               *)
LEMMA ThousandthsAreNear ==
    ASSUME NEW d, Amount(d)
    PROVE  toThousandths(d) \in Int /\ Near(toThousandths(d), d)
<1>1. d.n \in Int /\ d.scale \in Nat /\ 10 ^ d.scale \in Nat \ {0} BY DEF Amount
<1>2. FixedDigits \in Nat /\ 10 ^ FixedDigits \in Nat \ {0} BY AmountAssumption
<1>3. CASE d.scale <= FixedDigits
  <2>1. toThousandths(d) = decimalStringToThousandths(d)
    BY <1>3 DEF toThousandths, decimalString
  <2>2. Twice(d) = 0 BY <1>1, <1>2, <1>3 DEF Twice
  <2>3. PICK t : t = decimalStringToThousandths(d) OBVIOUS
  <2>4. t \in Int /\ 2 * Abs(t * 10 ^ d.scale - d.n * 1000) <= 10 ^ d.scale
    BY <1>1, <2>3, StringIsNear
  <2>5. 10 ^ d.scale + Twice(d) = 10 ^ d.scale BY <1>1, <2>2
  <2> QED BY <2>1, <2>3, <2>4, <2>5 DEF Near
<1>4. CASE d.scale > FixedDigits
  <2>1. PICK unit \in Nat \ {0} : unit = 10 ^ (d.scale - FixedDigits) BY <1>4 DEF Amount
  <2>2. PICK P \in Nat \ {0} : P = 10 ^ FixedDigits BY <1>2
  <2>3. 10 ^ d.scale = P * unit BY <1>4, <2>1, <2>2 DEF Amount
  <2>4. Twice(d) = 1000 * unit BY <1>4, <2>1 DEF Twice
  <2> DEFINE e == decimalString(d)
  <2>5. /\ e.n \in Int /\ e.scale = FixedDigits
        /\ 2 * Abs(e.n * unit - d.n) <= unit
    BY <1>1, <1>4, <2>1, FixedIsNear
  <2>6. toThousandths(d) = decimalStringToThousandths(e) BY DEF toThousandths
  <2> HIDE DEF e
  <2>7. PICK t : t = decimalStringToThousandths(e) OBVIOUS
  <2>8. t \in Int /\ 2 * Abs(t * P - e.n * 1000) <= P
    <3>1. 10 ^ e.scale = P BY <2>2, <2>5
    <3> QED BY <2>5, <2>7, <3>1, StringIsNear
  <2>9. PICK x \in Int : x = t * P - e.n * 1000 BY <2>5, <2>8
  <2>10. PICK y \in Int : y = e.n * unit - d.n BY <1>1, <2>5
  <2>11. t * (P * unit) - d.n * 1000 = x * unit + 1000 * y
    <3>1. x * unit = t * (P * unit) - 1000 * (e.n * unit)
      <4>1. x * unit = (t * P) * unit - (e.n * 1000) * unit BY <2>5, <2>8, <2>9
      <4>2. (t * P) * unit = t * (P * unit) BY <2>8
      <4>3. (e.n * 1000) * unit = 1000 * (e.n * unit) BY <2>5
      <4> QED BY <4>1, <4>2, <4>3
    <3>2. PICK v \in Int : v = e.n * unit BY <2>5
    <3>3. PICK w \in Int : w = t * (P * unit) BY <2>8
    <3>4. PICK z \in Int : z = x * unit OBVIOUS
    <3> QED BY <1>1, <2>10, <3>1, <3>2, <3>3, <3>4
  <2>12. 2 * (x * unit) <= P * unit /\ -(2 * (x * unit)) <= P * unit
    <3>1. P - 2 * x \in Nat /\ P + 2 * x \in Nat BY <2>8, <2>9 DEF Abs
    <3>2. (P - 2 * x) * unit >= 0 /\ (P + 2 * x) * unit >= 0
      <4>1. \A a \in Nat : a * unit >= 0 OBVIOUS
      <4> QED BY <3>1, <4>1
    <3> QED BY <3>2
  <2>13. 2 * y <= unit /\ -(2 * y) <= unit BY <2>5, <2>10 DEF Abs
  <2>14. 2 * Abs(x * unit + 1000 * y) <= P * unit + 1000 * unit
    <3>1. PICK z \in Int : z = x * unit OBVIOUS
    <3>2. PICK w \in Int : w = P * unit OBVIOUS
    <3>3. 2 * z <= w /\ -(2 * z) <= w BY <2>12, <3>1, <3>2
    <3>4. 2 * (z + 1000 * y) <= w + 1000 * unit /\ -(2 * (z + 1000 * y)) <= w + 1000 * unit
      BY <2>13, <3>3
    <3> QED BY <3>1, <3>2, <3>4 DEF Abs
  <2>15. 2 * Abs(t * 10 ^ d.scale - d.n * 1000) <= 10 ^ d.scale + Twice(d)
    BY <2>3, <2>4, <2>11, <2>14
  <2> QED BY <2>6, <2>7, <2>8, <2>15 DEF Near
<1> QED BY <1>1, <1>2, <1>3, <1>4

---------------------------------------------------------------------------
(* The inductive invariant: where the fields of the forms and of the row    *)
(* come from, by phase.                                                     *)

Stored == {"pending", "completed", "failed", "cancelled", "refunded"}

Posted == Stored \cup {"valid", "built"}

PhaseOK ==
    /\ phase \in Posted \cup {"new", "invalid", "unbuilt", "unstored"}
    /\ settings.maxAmount \in {0, SmallMaxAmount}
    /\ phase \in Posted => body \in Bodies /\ validatePaymentInput(body)
    /\ phase \notin Stored \cup {"unstored", "built"} => form = None
    /\ phase \notin Stored => row = None /\ refunds = <<>>
    /\ phase \notin Stored \cup {"built"} => sessions = <<>>

BuilderOK ==
    phase = "unstored" =>
        /\ body \in Bodies /\ body.amount # None
        /\ form.fingerprint[2] = toThousandths(body.amount)

FirstOK ==
    phase \in Stored \cup {"built"} =>
        /\ CanBuild(paymentRequestDataFrom(body))
        /\ first = buildRequestPayload(paymentRequestDataFrom(body), 1)

BuiltOK ==
    phase = "built" => form = first /\ sessions = <<first.request.merchantSession>>

(* The row is the first form's, under the session of the last.              *)
StoredRow(captured) ==
    [amount_cents |-> toCents(body.amount),
     merchant_ref |-> first.request.merchantRef,
     merchant_session |-> form.request.merchantSession,
     currency |-> first.request.currency,
     transaction_code |-> first.request.transactionCode,
     customer |-> customerDataFrom(body.customer),
     captured |-> captured]

RowOK ==
    phase \in Stored =>
        /\ row = StoredRow(row.captured)
        /\ items = transactionItemCollection(body.items)

(* A form asks for the payment of the first, of the customer of the body or *)
(* of the row.                                                              *)
FormOK ==
    phase \in Stored =>
        /\ form.fingerprint = generatePaymentFingerprint(form.request)
        /\ toThousandths(form.request.amount) = 10 * toCents(body.amount)
        /\ form.request.merchantRef = first.request.merchantRef
        /\ form.request.currency = first.request.currency
        /\ form.request.transactionCode = first.request.transactionCode
        /\ form.request.merchantSession \in Int
        /\ settings.is3DSec =>
              form.request.purchaseRequest \in {body.customer, FilledIn(customerDataFrom(body.customer))}

(* The first session may be the client's, the others are generated.         *)
SessionsOK ==
    phase \in Stored =>
        /\ sessions \in Seq(Int) /\ Len(sessions) >= 1
        /\ sessions[1] \in {0, EmptySession, 1}
        /\ \A i \in DOMAIN sessions : i # 1 => sessions[i] = i

Refund == [amount : [n : Nat, scale : {2, 3}], transactionCode : {"total", "partial"},
           asked : Decimals]

RefundsOK ==
    /\ refunds \in Seq(Refund)
    /\ \A i \in DOMAIN refunds :
          /\ toThousandths(refunds[i].amount) = toThousandths(refunds[i].asked)
          /\ refunds[i].transactionCode = "total" => Len(refunds) = 1 /\ phase = "refunded"

BalanceOK ==
    phase \in Stored =>
        LET paid == 10 * toCents(body.amount)
            back == refundedThousandths(refunds)
        IN  /\ back \in Nat /\ Len(refunds) <= back /\ back <= paid
            /\ back = paid <=> phase = "refunded"

IInv == PhaseOK /\ BuilderOK /\ FirstOK /\ BuiltOK /\ RowOK /\ FormOK /\ SessionsOK
            /\ RefundsOK /\ BalanceOK

(* What a body that passes is worth.                                        *)
LEMMA ValidAmount ==
    ASSUME PhaseOK, phase \in Posted
    PROVE  /\ body.amount # None
           /\ body.amount.n \in Nat /\ body.amount.scale \in 0..2
           /\ toCents(body.amount) \in Nat \ {0} /\ toCents(body.amount) <= maxAmount
           /\ toThousandths(body.amount) = 10 * toCents(body.amount)
<1>1. body \in Bodies /\ validateAmount(body) BY DEF PhaseOK, validatePaymentInput
<1> DEFINE value == parseDecimalAmount(body.amount)
<1>2. value # None /\ toCents(value) >= 1 /\ toCents(value) <= maxAmount
  BY <1>1 DEF validateAmount
<1>3. value = body.amount /\ body.amount # None /\ body.amount.scale <= 2 /\ body.amount.n >= 0
  BY <1>2 DEF parseDecimalAmount
<1> HIDE DEF value
<1>4. body.amount.n \in Int /\ body.amount.scale \in Nat BY <1>1, <1>3, AmountAssumption
<1>5. body.amount.n \in Nat /\ body.amount.scale \in 0..2 BY <1>3, <1>4
<1>6. toCents(body.amount) \in Nat /\ toThousandths(body.amount) = 10 * toCents(body.amount)
  BY <1>5, PlainDecimal
<1> QED BY <1>2, <1>3, <1>5, <1>6

(* The fields of a form.                                                    *)
LEMMA Payload ==
    ASSUME NEW data, NEW session
    PROVE  LET built == buildRequestPayload(data, session) IN
           /\ built.fingerprint = generatePaymentFingerprint(built.request)
           /\ built.fingerprint[2] = toThousandths(data.amount)
           /\ built.request.amount = data.amount
           /\ built.request.merchantRef = OrElse(data.merchantRef, "generated")
           /\ built.request.merchantSession = OrElse(data.merchantSession, session)
           /\ built.request.transactionCode = OrElse(data.transactionCode, "configured")
           /\ built.request.currency = OrElse(data.currency, Currency)
           /\ settings.is3DSec => built.request.purchaseRequest = data.customer
BY DEF buildRequestPayload, generatePaymentFingerprint

(* The fields of the first form.                                            *)
LEMMA FirstForm ==
    ASSUME first = buildRequestPayload(paymentRequestDataFrom(body), 1)
    PROVE  /\ first.fingerprint = generatePaymentFingerprint(first.request)
           /\ first.fingerprint[2] = toThousandths(body.amount)
           /\ first.request.amount = body.amount
           /\ first.request.merchantRef # None
           /\ first.request.currency # None
           /\ first.request.transactionCode # None
           /\ first.request.merchantSession \in {0, EmptySession, 1}
           /\ settings.is3DSec => first.request.purchaseRequest = body.customer
<1> DEFINE data == paymentRequestDataFrom(body)
<1>1. /\ data.amount = body.amount /\ data.customer = body.customer
      /\ data.merchantSession = ClientSession(body.supplied.merchantSession)
  BY DEF paymentRequestDataFrom
<1>2. data.merchantSession \in {None, EmptySession, 0} BY <1>1 DEF ClientSession
<1> HIDE DEF data
<1>3. first = buildRequestPayload(data, 1) BY DEF data
<1>4. /\ first.fingerprint = generatePaymentFingerprint(first.request)
      /\ first.fingerprint[2] = toThousandths(data.amount)
      /\ first.request.amount = data.amount
      /\ first.request.merchantRef = OrElse(data.merchantRef, "generated")
      /\ first.request.merchantSession = OrElse(data.merchantSession, 1)
      /\ first.request.transactionCode = OrElse(data.transactionCode, "configured")
      /\ first.request.currency = OrElse(data.currency, Currency)
      /\ settings.is3DSec => first.request.purchaseRequest = data.customer
  BY <1>3, Payload
<1>5. None # "generated" /\ None # "configured" /\ None # Currency BY NoneAssumption
<1> QED BY <1>1, <1>2, <1>4, <1>5 DEF OrElse

(* The client's empty session is no generated one.                          *)
LEMMA SessionIsInt == EmptySession \in Int /\ EmptySession = -1
BY DEF EmptySession

(* The columns of the row.                                                  *)
LEMMA StoredFields ==
    ASSUME NEW captured
    PROVE  /\ StoredRow(captured).amount_cents = toCents(body.amount)
           /\ StoredRow(captured).merchant_ref = first.request.merchantRef
           /\ StoredRow(captured).merchant_session = form.request.merchantSession
           /\ StoredRow(captured).currency = first.request.currency
           /\ StoredRow(captured).transaction_code = first.request.transactionCode
           /\ StoredRow(captured).customer = customerDataFrom(body.customer)
           /\ StoredRow(captured).captured = captured
BY DEF StoredRow

(* The fields of a form that a retry builds from the row.                   *)
LEMMA RetriedForm ==
    ASSUME IInv, phase \in Stored, NEW rotate \in BOOLEAN, NEW session \in Int
    PROVE  LET built == buildRequestPayload(extract(row, rotate), session) IN
           /\ built.fingerprint = generatePaymentFingerprint(built.request)
           /\ built.request.amount = fromCents(toCents(body.amount))
           /\ built.request.merchantRef = first.request.merchantRef
           /\ built.request.currency = first.request.currency
           /\ built.request.transactionCode = first.request.transactionCode
           /\ built.request.merchantSession
                = IF rotate THEN session ELSE form.request.merchantSession
           /\ settings.is3DSec =>
                built.request.purchaseRequest = FilledIn(customerDataFrom(body.customer))
<1>1. row = StoredRow(row.captured) BY DEF IInv, RowOK
<1>2. /\ row.amount_cents = toCents(body.amount)
      /\ row.merchant_ref = first.request.merchantRef
      /\ row.merchant_session = form.request.merchantSession
      /\ row.currency = first.request.currency
      /\ row.transaction_code = first.request.transactionCode
      /\ row.customer = customerDataFrom(body.customer)
  BY <1>1, StoredFields
<1>3. /\ first.request.merchantRef # None /\ first.request.currency # None
      /\ first.request.transactionCode # None
  BY FirstForm DEF IInv, FirstOK
<1>4. form.request.merchantSession # None
  <2>1. form.request.merchantSession \in Int BY DEF IInv, FormOK
  <2> QED BY <2>1, NoneAssumption
<1> DEFINE data == extract(row, rotate)
           built == buildRequestPayload(data, session)
<1>5. /\ data.amount = fromCents(toCents(body.amount))
      /\ data.merchantRef = first.request.merchantRef
      /\ data.merchantSession = IF rotate THEN None ELSE form.request.merchantSession
      /\ data.transactionCode = first.request.transactionCode
      /\ data.currency = first.request.currency
      /\ data.customer = FilledIn(customerDataFrom(body.customer))
  BY <1>2 DEF extract
<1> HIDE DEF data
<1>6. /\ built.fingerprint = generatePaymentFingerprint(built.request)
      /\ built.request.amount = data.amount
      /\ built.request.merchantRef = OrElse(data.merchantRef, "generated")
      /\ built.request.merchantSession = OrElse(data.merchantSession, session)
      /\ built.request.transactionCode = OrElse(data.transactionCode, "configured")
      /\ built.request.currency = OrElse(data.currency, Currency)
      /\ settings.is3DSec => built.request.purchaseRequest = data.customer
  BY Payload
<1> HIDE DEF built
<1>7. OrElse(data.merchantRef, "generated") = first.request.merchantRef BY <1>3, <1>5 DEF OrElse
<1>8. OrElse(data.transactionCode, "configured") = first.request.transactionCode
  BY <1>3, <1>5 DEF OrElse
<1>9. OrElse(data.currency, Currency) = first.request.currency BY <1>3, <1>5 DEF OrElse
<1>10. OrElse(data.merchantSession, session)
         = IF rotate THEN session ELSE form.request.merchantSession
  BY <1>4, <1>5 DEF OrElse
<1>11. /\ built.fingerprint = generatePaymentFingerprint(built.request)
       /\ built.request.amount = fromCents(toCents(body.amount))
       /\ built.request.merchantRef = first.request.merchantRef
       /\ built.request.currency = first.request.currency
       /\ built.request.transactionCode = first.request.transactionCode
       /\ built.request.merchantSession
            = IF rotate THEN session ELSE form.request.merchantSession
       /\ settings.is3DSec =>
            built.request.purchaseRequest = FilledIn(customerDataFrom(body.customer))
  BY <1>5, <1>6, <1>7, <1>8, <1>9, <1>10
<1> QED BY <1>11 DEF built, data

---------------------------------------------------------------------------
(* The operations keep the invariant.                                       *)

(* At first there is nothing.                                               *)
LEMMA InitEstablishes == Init => IInv
<1> SUFFICES ASSUME Init PROVE IInv OBVIOUS
<1>1. phase = "new" /\ form = None /\ row = None /\ sessions = <<>> /\ refunds = <<>>
      /\ settings.maxAmount \in {0, SmallMaxAmount}
  BY DEF Init
<1>2. PhaseOK BY <1>1 DEF PhaseOK, Stored, Posted
<1>3. BuilderOK /\ FirstOK /\ BuiltOK /\ RowOK /\ FormOK /\ SessionsOK /\ BalanceOK
  BY <1>1 DEF BuilderOK, FirstOK, BuiltOK, RowOK, FormOK, SessionsOK, BalanceOK, Stored
<1>4. RefundsOK BY <1>1 DEF RefundsOK
<1> QED BY <1>2, <1>3, <1>4 DEF IInv

(* Steps before there is a row.                                             *)
LEMMA EarlySteps ==
    ASSUME IInv, NEW b \in Bodies, Post(b) \/ BuildForm(b)
    PROVE  IInv'
<1>1. phase = "new" /\ row = None /\ refunds = <<>> /\ sessions = <<>> /\ form = None
  BY DEF Post, BuildForm, IInv, PhaseOK, Stored
<1>2. UNCHANGED <<settings, first, row, items, sessions, refunds>> /\ body' = b
  BY DEF Post, BuildForm
<1>3. CASE Post(b)
  <2>1. phase' = (IF validatePaymentInput(b) THEN "valid" ELSE "invalid") /\ form' = form
    BY <1>3 DEF Post
  <2>2. validatePaymentInput(b) => validatePaymentInput(body)'
    BY <1>2 DEF validatePaymentInput, validateAmount, validateCurrency, maxAmount,
            validateClientControlledFields, validateItems, validateItem, validateCustomerFields,
            validateTotals
  <2>3. PhaseOK' BY <1>1, <1>2, <2>1, <2>2 DEF IInv, PhaseOK, Stored, Posted
  <2>4. (BuilderOK /\ FirstOK /\ BuiltOK /\ RowOK /\ FormOK /\ SessionsOK /\ BalanceOK)'
    BY <2>1 DEF BuilderOK, FirstOK, BuiltOK, RowOK, FormOK, SessionsOK, BalanceOK, Stored
  <2>5. RefundsOK' BY <1>1, <1>2 DEF RefundsOK
  <2> QED BY <2>3, <2>4, <2>5 DEF IInv
<1>4. CASE BuildForm(b)
  <2>1. phase' = "unstored" /\ b.amount # None
        /\ form' = buildRequestPayload(paymentRequestDataFrom(b), NextSession)
    BY <1>4 DEF BuildForm, toData
  <2>2. form'.fingerprint[2] = toThousandths(b.amount)
    <3>1. paymentRequestDataFrom(b).amount = b.amount BY DEF paymentRequestDataFrom
    <3> QED BY <2>1, <3>1, Payload
  <2>3. PhaseOK' BY <1>1, <1>2, <2>1 DEF IInv, PhaseOK, Stored, Posted
  <2>4. (FirstOK /\ BuiltOK /\ RowOK /\ FormOK /\ SessionsOK /\ BalanceOK)'
    BY <2>1 DEF FirstOK, BuiltOK, RowOK, FormOK, SessionsOK, BalanceOK, Stored
  <2>5. BuilderOK' BY <1>2, <2>1, <2>2 DEF BuilderOK
  <2>6. RefundsOK' BY <1>1, <1>2 DEF RefundsOK
  <2> QED BY <2>3, <2>4, <2>5, <2>6 DEF IInv
<1> QED BY <1>3, <1>4

(* What body and settings say does not change when they do not.             *)
LEMMA SameBody ==
    ASSUME UNCHANGED <<settings, body>>
    PROVE  /\ validatePaymentInput(body)' <=> validatePaymentInput(body)
           /\ CanBuild(paymentRequestDataFrom(body))' <=> CanBuild(paymentRequestDataFrom(body))
           /\ \A session : buildRequestPayload(paymentRequestDataFrom(body), session)'
                             = buildRequestPayload(paymentRequestDataFrom(body), session)
           /\ maxAmount' = maxAmount
<1>1. settings' = settings /\ body' = body OBVIOUS
<1>2. validatePaymentInput(body)' <=> validatePaymentInput(body)
  BY <1>1 DEF validatePaymentInput, validateAmount, validateCurrency, maxAmount,
            validateClientControlledFields, validateItems, validateItem, validateCustomerFields,
            validateTotals
<1>3. CanBuild(paymentRequestDataFrom(body))' <=> CanBuild(paymentRequestDataFrom(body))
  BY <1>1 DEF CanBuild
<1>4. \A session : buildRequestPayload(paymentRequestDataFrom(body), session)'
                     = buildRequestPayload(paymentRequestDataFrom(body), session)
  BY <1>1 DEF buildRequestPayload
<1>5. maxAmount' = maxAmount BY <1>1 DEF maxAmount
<1> QED BY <1>2, <1>3, <1>4, <1>5

(* The first form is the body's, or there is none.                          *)
LEMMA BuildSteps == ASSUME IInv, BuildPaymentRequest PROVE IInv'
<1> DEFINE data == paymentRequestDataFrom(body)
           built == buildRequestPayload(data, NextSession)
<1>1. phase = "valid" /\ UNCHANGED <<settings, body, row, items, refunds>>
  BY DEF BuildPaymentRequest
<1>2. row = None /\ refunds = <<>> /\ sessions = <<>> /\ form = None
      /\ body \in Bodies /\ validatePaymentInput(body)
      /\ settings.maxAmount \in {0, SmallMaxAmount}
  BY <1>1 DEF IInv, PhaseOK, Stored, Posted
<1>3. validatePaymentInput(body)' BY <1>1, <1>2, SameBody
<1>4. NextSession = 1 BY <1>2 DEF NextSession
<1>5. RefundsOK' BY <1>1, <1>2 DEF RefundsOK
<1>6. CASE CanBuild(data)
  <2>1. phase' = "built" /\ form' = built /\ first' = built
        /\ sessions' = Append(sessions, built.request.merchantSession)
    BY <1>6 DEF BuildPaymentRequest
  <2>2. sessions' = <<first'.request.merchantSession>> BY <1>2, <2>1
  <2>3. PhaseOK' BY <1>1, <1>2, <1>3, <2>1 DEF PhaseOK, Stored, Posted
  <2>4. FirstOK'
    <3>1. CanBuild(paymentRequestDataFrom(body))' BY <1>1, <1>6, SameBody
    <3>2. first' = buildRequestPayload(paymentRequestDataFrom(body), 1)'
      BY <1>1, <1>4, <2>1, SameBody
    <3> QED BY <3>1, <3>2 DEF FirstOK
  <2>5. BuiltOK' BY <2>1, <2>2 DEF BuiltOK
  <2>6. (BuilderOK /\ RowOK /\ FormOK /\ SessionsOK /\ BalanceOK)'
    BY <2>1 DEF BuilderOK, RowOK, FormOK, SessionsOK, BalanceOK, Stored
  <2> QED BY <1>5, <2>3, <2>4, <2>5, <2>6 DEF IInv
<1>7. CASE ~CanBuild(data)
  <2>1. phase' = "unbuilt" /\ UNCHANGED <<form, first, sessions>>
    BY <1>7 DEF BuildPaymentRequest
  <2>2. PhaseOK' BY <1>1, <1>2, <1>3, <2>1 DEF PhaseOK, Stored, Posted
  <2>3. (BuilderOK /\ FirstOK /\ BuiltOK /\ RowOK /\ FormOK /\ SessionsOK /\ BalanceOK)'
    BY <2>1 DEF BuilderOK, FirstOK, BuiltOK, RowOK, FormOK, SessionsOK, BalanceOK, Stored
  <2> QED BY <1>5, <2>2, <2>3 DEF IInv
<1> QED BY <1>6, <1>7

(* A step among the stored phases leaves body and first form alone.         *)
LEMMA StoredStep ==
    ASSUME IInv, phase \in Stored \cup {"built"}, phase' \in Stored,
           UNCHANGED <<settings, body, first>>,
           RowOK', FormOK', SessionsOK', RefundsOK', BalanceOK'
    PROVE  IInv'
<1>1. body \in Bodies /\ validatePaymentInput(body) /\ settings.maxAmount \in {0, SmallMaxAmount}
  BY DEF IInv, PhaseOK, Posted
<1>2. validatePaymentInput(body)' BY <1>1, SameBody
<1>3. PhaseOK' BY <1>1, <1>2 DEF PhaseOK, Stored, Posted
<1>4. FirstOK'
  <2>1. /\ CanBuild(paymentRequestDataFrom(body))
        /\ first = buildRequestPayload(paymentRequestDataFrom(body), 1)
    BY DEF IInv, FirstOK
  <2>2. CanBuild(paymentRequestDataFrom(body))' BY <2>1, SameBody
  <2>3. first' = buildRequestPayload(paymentRequestDataFrom(body), 1)' BY <2>1, SameBody
  <2> QED BY <2>2, <2>3 DEF FirstOK
<1>5. (BuilderOK /\ BuiltOK)' BY DEF BuilderOK, BuiltOK, Stored
<1> QED BY <1>3, <1>4, <1>5 DEF IInv

(* The row is the form's.                                                   *)
LEMMA PersistSteps == ASSUME IInv, PersistTransaction PROVE IInv'
<1>1. phase = "built" /\ phase' = "pending"
      /\ UNCHANGED <<settings, body, form, first, sessions, refunds>>
      /\ items' = transactionItemCollection(body.items)
      /\ row' = NewRow(form.request, body.customer)
  BY DEF PersistTransaction
<1>2. form = first /\ sessions = <<first.request.merchantSession>> BY <1>1 DEF IInv, BuiltOK
<1>3. first = buildRequestPayload(paymentRequestDataFrom(body), 1) BY <1>1 DEF IInv, FirstOK
<1>4. /\ body.amount # None /\ toCents(body.amount) \in Nat \ {0}
      /\ toThousandths(body.amount) = 10 * toCents(body.amount)
  BY <1>1, ValidAmount DEF IInv, Posted
<1>5. /\ first.fingerprint = generatePaymentFingerprint(first.request)
      /\ first.request.amount = body.amount
      /\ first.request.merchantSession \in {0, EmptySession, 1}
      /\ settings.is3DSec => first.request.purchaseRequest = body.customer
  BY <1>3, FirstForm
<1>6. first.request.merchantSession \in Int BY <1>5, SessionIsInt
<1>7. RowOK'
  <2>1. row' = StoredRow(FALSE)' BY <1>1, <1>2, <1>5 DEF NewRow, StoredRow
  <2>2. row'.captured = FALSE BY <2>1 DEF StoredRow
  <2>3. row' = StoredRow(row.captured)' BY <2>1, <2>2
  <2> QED BY <1>1, <2>3 DEF RowOK
<1>8. FormOK' BY <1>1, <1>2, <1>4, <1>5, <1>6 DEF FormOK
<1>9. SessionsOK'
  <2>1. sessions' = <<first.request.merchantSession>> BY <1>1, <1>2
  <2>2. sessions' \in Seq(Int) /\ Len(sessions') = 1 /\ DOMAIN sessions' = {1}
        /\ sessions'[1] = first.request.merchantSession
    BY <1>6, <2>1
  <2> QED BY <1>5, <2>2 DEF SessionsOK
<1>10. refunds = <<>> BY <1>1 DEF IInv, PhaseOK, Stored
<1>11. RefundsOK' BY <1>1, <1>10 DEF RefundsOK
<1>12. BalanceOK'
  <2>1. [i \in DOMAIN refunds' |-> toThousandths(refunds'[i].amount)] = <<>> BY <1>1, <1>10
  <2>2. refundedThousandths(refunds') = 0 BY <2>1, TotalOfNothing DEF refundedThousandths
  <2>3. Len(refunds') = 0 BY <1>1, <1>10
  <2> QED BY <1>1, <1>4, <2>2, <2>3 DEF BalanceOK
<1> QED BY <1>1, <1>7, <1>8, <1>9, <1>11, <1>12, StoredStep DEF Stored

(* An answer, a cancellation, a reconciliation.                             *)
LEMMA SettledSteps ==
    ASSUME IInv,
           \/ \E status \in {"success", "failed", "tampered"} : Answer(status)
           \/ Cancel
           \/ \E status \in {"completed", "failed"} : Reconcile(status)
    PROVE  IInv'
<1>1. /\ phase = "pending" /\ phase' \in {"completed", "failed", "cancelled"}
      /\ UNCHANGED <<settings, body, form, first, items, sessions, refunds>>
  BY DEF Answer, Cancel, Reconcile
<1>2. PICK captured : row' = [row EXCEPT !.captured = captured]
  <2>1. row = StoredRow(row.captured) BY <1>1 DEF IInv, RowOK, Stored
  <2>2. row = [row EXCEPT !.captured = row.captured] BY <2>1 DEF StoredRow
  <2>3. CASE row' = row BY <2>2, <2>3
  <2>4. CASE \E status \in {"success", "failed", "tampered"} : Answer(status)
    BY <2>4 DEF Answer
  <2> QED BY <2>3, <2>4 DEF Cancel, Reconcile
<1>3. row = StoredRow(row.captured) /\ items = transactionItemCollection(body.items)
  BY <1>1 DEF IInv, RowOK, Stored
<1>4. RowOK'
  <2>1. row' = StoredRow(captured)
    <3>1. PICK was : was = row.captured OBVIOUS
    <3>2. row = StoredRow(was) BY <1>3, <3>1
    <3> QED BY <1>2, <3>2 DEF StoredRow
  <2>2. row'.captured = captured BY <2>1 DEF StoredRow
  <2>3. row' = StoredRow(row.captured)' BY <1>1, <2>1, <2>2 DEF StoredRow
  <2>4. items' = transactionItemCollection(body.items)' BY <1>1, <1>3 DEF transactionItemCollection
  <2> QED BY <2>3, <2>4 DEF RowOK
<1>5. FormOK' BY <1>1 DEF IInv, FormOK, Stored
<1>6. SessionsOK' BY <1>1 DEF IInv, SessionsOK, Stored
<1>7. RefundsOK' BY <1>1 DEF IInv, RefundsOK
<1>8. BalanceOK' BY <1>1 DEF IInv, BalanceOK, Stored
<1>9. phase \in Stored /\ phase' \in Stored BY <1>1 DEF Stored
<1> QED BY <1>1, <1>4, <1>5, <1>6, <1>7, <1>8, <1>9, StoredStep

(* Only a failed payment is offered a retry.                                *)
LEMMA FailedIsStored ==
    ASSUME IInv, canRetryPayment
    PROVE  phase = "failed" /\ phase \in Stored
BY DEF canRetryPayment, Stored

(* The form shown is the row's, under its session.                          *)
LEMMA ShowSteps == ASSUME IInv, ShowRetryForm PROVE IInv'
<1> DEFINE built == buildRequestPayload(extract(row, FALSE), NextSession)
<1>1. phase = "failed" /\ phase \in Stored BY FailedIsStored DEF ShowRetryForm
<1>2. UNCHANGED <<settings, phase, body, first, row, items, sessions, refunds>> /\ form' = built
  BY DEF ShowRetryForm
<1>3. sessions \in Seq(Int) BY <1>1 DEF IInv, SessionsOK
<1>4. NextSession \in Int BY <1>3 DEF NextSession
<1>5. /\ built.fingerprint = generatePaymentFingerprint(built.request)
      /\ built.request.amount = fromCents(toCents(body.amount))
      /\ built.request.merchantRef = first.request.merchantRef
      /\ built.request.currency = first.request.currency
      /\ built.request.transactionCode = first.request.transactionCode
      /\ built.request.merchantSession = form.request.merchantSession
      /\ settings.is3DSec =>
            built.request.purchaseRequest = FilledIn(customerDataFrom(body.customer))
  BY <1>1, <1>4, RetriedForm
<1> HIDE DEF built
<1>6. toCents(body.amount) \in Nat BY <1>1, ValidAmount DEF IInv, Posted
<1>7. toThousandths(built.request.amount) = 10 * toCents(body.amount) BY <1>5, <1>6, CentsBack
<1>9. form.request.merchantSession \in Int BY <1>1 DEF IInv, FormOK
<1>10. FormOK' BY <1>1, <1>2, <1>5, <1>7, <1>9 DEF FormOK
<1>11. RowOK'
  <2>1. row = StoredRow(row.captured) /\ items = transactionItemCollection(body.items)
    BY <1>1 DEF IInv, RowOK
  <2>2. form'.request.merchantSession = form.request.merchantSession BY <1>2, <1>5
  <2>3. StoredRow(row.captured)' = StoredRow(row.captured) BY <1>2, <2>2 DEF StoredRow
  <2>4. items' = transactionItemCollection(body.items)' BY <1>2, <2>1 DEF transactionItemCollection
  <2> QED BY <1>2, <2>1, <2>3, <2>4 DEF RowOK
<1>12. (SessionsOK /\ RefundsOK /\ BalanceOK)'
  BY <1>1, <1>2 DEF IInv, SessionsOK, RefundsOK, BalanceOK
<1> QED BY <1>1, <1>2, <1>10, <1>11, <1>12, StoredStep

(* The form of a retry is the row's, under a session of its own.            *)
LEMMA RetrySteps == ASSUME IInv, RetryPayment PROVE IInv'
<1> DEFINE built == buildRequestPayload(extract(row, TRUE), NextSession)
<1>1. phase = "failed" /\ phase \in Stored BY FailedIsStored DEF RetryPayment
<1>2. /\ UNCHANGED <<settings, body, first, items, refunds>>
      /\ phase' = "pending" /\ form' = built
      /\ sessions' = Append(sessions, built.request.merchantSession)
      /\ row' = [row EXCEPT !.merchant_session = built.request.merchantSession,
                            !.captured = FALSE]
  BY DEF RetryPayment
<1>3. /\ sessions \in Seq(Int) /\ Len(sessions) >= 1 /\ sessions[1] \in {0, EmptySession, 1}
      /\ \A i \in DOMAIN sessions : i # 1 => sessions[i] = i
  BY <1>1 DEF IInv, SessionsOK
<1>4. NextSession = Len(sessions) + 1 /\ NextSession \in Int BY <1>3 DEF NextSession
<1>5. /\ built.fingerprint = generatePaymentFingerprint(built.request)
      /\ built.request.amount = fromCents(toCents(body.amount))
      /\ built.request.merchantRef = first.request.merchantRef
      /\ built.request.currency = first.request.currency
      /\ built.request.transactionCode = first.request.transactionCode
      /\ built.request.merchantSession = NextSession
      /\ settings.is3DSec =>
            built.request.purchaseRequest = FilledIn(customerDataFrom(body.customer))
  BY <1>1, <1>4, RetriedForm
<1> HIDE DEF built
<1>6. toCents(body.amount) \in Nat BY <1>1, ValidAmount DEF IInv, Posted
<1>7. toThousandths(built.request.amount) = 10 * toCents(body.amount) BY <1>5, <1>6, CentsBack
<1>8. FormOK' BY <1>2, <1>4, <1>5, <1>7 DEF FormOK
<1>9. RowOK'
  <2>1. row = StoredRow(row.captured) /\ items = transactionItemCollection(body.items)
    BY <1>1 DEF IInv, RowOK
  <2>2. row' = StoredRow(FALSE)'
    <3>1. PICK was : was = row.captured OBVIOUS
    <3>2. row = StoredRow(was) BY <2>1, <3>1
    <3>3. PICK session : session = built.request.merchantSession OBVIOUS
    <3>4. row' = [row EXCEPT !.merchant_session = session, !.captured = FALSE] BY <1>2, <3>3
    <3>5. form'.request.merchantSession = session BY <1>2, <3>3
    <3> QED BY <1>2, <3>2, <3>4, <3>5 DEF StoredRow
  <2>3. row'.captured = FALSE BY <2>2 DEF StoredRow
  <2>4. items' = transactionItemCollection(body.items)' BY <1>2, <2>1 DEF transactionItemCollection
  <2> QED BY <2>2, <2>3, <2>4 DEF RowOK
<1>10. SessionsOK'
  <2>1. sessions' = Append(sessions, Len(sessions) + 1) BY <1>2, <1>4, <1>5
  <2>2. sessions' \in Seq(Int) /\ Len(sessions') = Len(sessions) + 1 BY <1>3, <2>1
  <2>3. sessions'[1] = sessions[1] BY <1>3, <2>1
  <2>4. \A i \in DOMAIN sessions' : i # 1 => sessions'[i] = i
    <3> SUFFICES ASSUME NEW i \in 1 .. (Len(sessions) + 1), i # 1 PROVE sessions'[i] = i
      BY <2>2
    <3> QED BY <1>3, <2>1
  <2> QED BY <1>3, <2>2, <2>3, <2>4 DEF SessionsOK
<1>11. RefundsOK' BY <1>1, <1>2 DEF IInv, RefundsOK
<1>12. BalanceOK' BY <1>1, <1>2 DEF IInv, BalanceOK, Stored
<1>13. phase' \in Stored BY <1>2 DEF Stored
<1> QED BY <1>1, <1>2, <1>8, <1>9, <1>10, <1>11, <1>12, <1>13, StoredStep

(* A refund is paid out of what is left.                                    *)
LEMMA RefundSteps == ASSUME IInv, NEW asked \in Decimals, RefundTransaction(asked) PROVE IInv'
<1> DEFINE thousandths == toThousandths(asked)
           request == buildRefundRequest(thousandths)
           paid == 10 * toCents(body.amount)
           back == refundedThousandths(refunds)
           new == [amount |-> request.amount, transactionCode |-> request.transactionCode,
                   asked |-> asked]
<1>1. /\ phase = "completed" /\ thousandths > 0 /\ thousandths <= refundableThousandths
      /\ refunds' = Append(refunds, new)
      /\ phase' = IF thousandths = refundableThousandths THEN "refunded" ELSE "completed"
      /\ UNCHANGED <<settings, body, form, first, row, items, sessions>>
  BY DEF RefundTransaction
<1>2. phase \in Stored /\ phase' \in Stored BY <1>1 DEF Stored
<1>3. thousandths \in Nat
  <2>1. Amount(asked) BY AmountAssumption DEF Amount
  <2>2. thousandths \in Int BY <2>1, ThousandthsAreNear
  <2> QED BY <1>1, <2>2
<1>4. toCents(body.amount) \in Nat \ {0} BY <1>2, ValidAmount DEF IInv, Posted
<1>5. row.amount_cents = toCents(body.amount)
  <2>1. row = StoredRow(row.captured) BY <1>2 DEF IInv, RowOK
  <2> QED BY <2>1, StoredFields
<1>6. toThousandths(fromCents(row.amount_cents)) = paid BY <1>4, <1>5, CentsBack
<1>7. back \in Nat /\ Len(refunds) <= back /\ back <= paid /\ back # paid
  BY <1>1, <1>2 DEF IInv, BalanceOK
<1>8. /\ refunds \in Seq(Refund)
      /\ \A i \in DOMAIN refunds :
            /\ toThousandths(refunds[i].amount) = toThousandths(refunds[i].asked)
            /\ refunds[i].transactionCode # "total"
  BY <1>1 DEF IInv, RefundsOK
<1> HIDE DEF thousandths, paid, back
<1>9. refundableThousandths = paid - back
  <2>1. refundableThousandths = IF paid - back > 0 THEN paid - back ELSE 0
    BY <1>6 DEF refundableThousandths, back
  <2>2. paid \in Nat BY <1>4 DEF paid
  <2> QED BY <1>7, <2>1, <2>2
<1>10. /\ new \in Refund /\ toThousandths(new.amount) = thousandths
       /\ new.transactionCode = "total" => back = 0 /\ thousandths = paid
  <2>1. request = IF back = 0 /\ thousandths = paid
                  THEN [amount |-> fromCents(row.amount_cents), transactionCode |-> "total"]
                  ELSE [amount |-> [n |-> thousandths, scale |-> 3], transactionCode |-> "partial"]
    BY <1>6 DEF buildRefundRequest, back
  <2>2. CASE back = 0 /\ thousandths = paid
    <3>1. request.amount = fromCents(row.amount_cents) /\ request.transactionCode = "total"
      BY <2>1, <2>2
    <3>2. request.amount \in [n : Nat, scale : {2, 3}] BY <1>4, <1>5, <3>1 DEF fromCents
    <3> HIDE DEF request
    <3> QED BY <1>6, <2>2, <3>1, <3>2 DEF Refund
  <2>3. CASE ~(back = 0 /\ thousandths = paid)
    <3>1. request.amount = [n |-> thousandths, scale |-> 3] /\ request.transactionCode = "partial"
      BY <2>1, <2>3
    <3> HIDE DEF request
    <3>2. toThousandths(request.amount) = thousandths BY <1>3, <3>1, ThousandthsBack
    <3>3. request.amount \in [n : Nat, scale : {2, 3}] BY <1>3, <3>1
    <3> QED BY <3>1, <3>2, <3>3 DEF Refund
  <2> QED BY <2>2, <2>3
<1>11. new.asked = asked OBVIOUS
<1> HIDE DEF new
<1>12. refundedThousandths(refunds') = back + thousandths
  <2> DEFINE f == [i \in DOMAIN refunds |-> toThousandths(refunds[i].amount)]
             g == [i \in DOMAIN refunds' |-> toThousandths(refunds'[i].amount)]
  <2>1. PICK n \in Nat : n = Len(refunds) BY <1>8
  <2>2. DOMAIN f = 1..n /\ DOMAIN g = 1..(n+1) BY <1>1, <1>8, <2>1
  <2>3. \A i \in 1..n : f[i] \in Int
    <3> SUFFICES ASSUME NEW i \in 1..n PROVE toThousandths(refunds[i].asked) \in Int
      BY <1>8, <2>1
    <3>1. refunds[i].asked \in Decimals
      <4>1. refunds[i] \in Refund BY <1>8, <2>1
      <4>2. \A refund \in Refund : refund.asked \in Decimals BY DEF Refund
      <4> QED BY <4>1, <4>2
    <3>2. Amount(refunds[i].asked) BY <3>1, AmountAssumption DEF Amount
    <3> QED BY <3>2, ThousandthsAreNear
  <2>4. \A i \in 1..n : g[i] = f[i] BY <1>1, <1>8, <2>1
  <2>5. g[n+1] = thousandths BY <1>1, <1>8, <1>10, <2>1
  <2>6. Total(f) = back /\ Total(g) = refundedThousandths(refunds')
    BY DEF back, refundedThousandths
  <2> HIDE DEF f, g
  <2>7. Total(g) = Total(f) + g[n+1] BY <1>3, <2>2, <2>3, <2>4, <2>5, TotalGrows
  <2> QED BY <2>5, <2>6, <2>7
<1>13. phase' = "refunded" <=> back + thousandths = paid
  <2>1. paid \in Nat BY <1>4 DEF paid
  <2> QED BY <1>1, <1>3, <1>7, <1>9, <2>1 DEF thousandths
<1>14. back + thousandths <= paid
  <2>1. paid \in Nat BY <1>4 DEF paid
  <2>2. thousandths <= paid - back BY <1>1, <1>9 DEF thousandths
  <2> QED BY <1>3, <1>7, <2>1, <2>2
<1>15. BalanceOK'
  <2>1. Len(refunds') = Len(refunds) + 1 /\ Len(refunds) \in Nat BY <1>1, <1>8
  <2>2. thousandths >= 1 BY <1>1, <1>3 DEF thousandths
  <2>3. back + thousandths \in Nat /\ Len(refunds') <= back + thousandths
    BY <1>3, <1>7, <2>1, <2>2
  <2>4. paid' = paid BY <1>1 DEF paid
  <2> QED BY <1>12, <1>13, <1>14, <2>3, <2>4 DEF BalanceOK, paid
<1>16. RefundsOK'
  <2>1. refunds' \in Seq(Refund) BY <1>1, <1>8, <1>10
  <2>2. ASSUME NEW i \in DOMAIN refunds'
        PROVE  /\ toThousandths(refunds'[i].amount) = toThousandths(refunds'[i].asked)
               /\ refunds'[i].transactionCode = "total" => Len(refunds') = 1 /\ phase' = "refunded"
    <3>1. CASE i \in DOMAIN refunds
      <4>1. refunds'[i] = refunds[i] BY <1>1, <1>8, <3>1
      <4> QED BY <1>8, <3>1, <4>1
    <3>2. CASE i \notin DOMAIN refunds
      <4>1. refunds'[i] = new /\ Len(refunds') = Len(refunds) + 1 BY <1>1, <1>8, <3>2
      <4>2. back = 0 => Len(refunds') = 1 BY <1>7, <1>8, <4>1
      <4>3. back = 0 /\ thousandths = paid => back + thousandths = paid BY <1>3
      <4>4. toThousandths(new.asked) = thousandths BY <1>11 DEF thousandths
      <4> QED BY <1>10, <1>13, <4>1, <4>2, <4>3, <4>4
    <3> QED BY <3>1, <3>2
  <2>3. \A i \in DOMAIN refunds' :
          /\ toThousandths(refunds[i].amount)' = toThousandths(refunds[i].asked)'
          /\ refunds'[i].transactionCode = "total" => Len(refunds') = 1 /\ phase' = "refunded"
    BY <2>2
  <2> QED BY <2>1, <2>3 DEF RefundsOK
<1>17. RowOK' BY <1>1, <1>2 DEF IInv, RowOK, StoredRow, transactionItemCollection
<1>18. (FormOK /\ SessionsOK)' BY <1>1, <1>2 DEF IInv, FormOK, SessionsOK
<1> QED BY <1>1, <1>2, <1>15, <1>16, <1>17, <1>18, StoredStep

(* Every step keeps the invariant.                                          *)
LEMMA NextKeeps == IInv /\ [Next]_vars => IInv'
<1> SUFFICES ASSUME IInv, [Next]_vars PROVE IInv' OBVIOUS
<1>1. CASE UNCHANGED vars
  <2>1. UNCHANGED <<settings, phase, body, form, first, row, items, sessions, refunds>>
    BY <1>1 DEF vars
  <2>2. PhaseOK' BY <2>1, SameBody DEF IInv, PhaseOK
  <2>3. FirstOK'
    <3>1. phase \in Stored \cup {"built"} =>
            /\ CanBuild(paymentRequestDataFrom(body))
            /\ first = buildRequestPayload(paymentRequestDataFrom(body), 1)
      BY DEF IInv, FirstOK
    <3> QED BY <2>1, <3>1, SameBody DEF FirstOK
  <2>4. (BuilderOK /\ BuiltOK /\ FormOK /\ SessionsOK /\ RefundsOK /\ BalanceOK)'
    BY <2>1 DEF IInv, BuilderOK, BuiltOK, FormOK, SessionsOK, RefundsOK, BalanceOK
  <2>5. RowOK' BY <2>1 DEF IInv, RowOK, StoredRow, transactionItemCollection
  <2> QED BY <2>2, <2>3, <2>4, <2>5 DEF IInv
<1>2. CASE Next
  <2>1. CASE phase = "new" /\ \E b \in Bodies : Post(b) \/ BuildForm(b) BY <2>1, EarlySteps
  <2>2. CASE BuildPaymentRequest BY <2>2, BuildSteps
  <2>3. CASE PersistTransaction BY <2>3, PersistSteps
  <2>4. CASE \/ \E status \in {"success", "failed", "tampered"} : Answer(status)
             \/ Cancel
             \/ \E status \in {"completed", "failed"} : Reconcile(status)
    BY <2>4, SettledSteps
  <2>5. CASE RetryPayment BY <2>5, RetrySteps
  <2>6. CASE ShowRetryForm BY <2>6, ShowSteps
  <2>7. CASE \E asked \in Decimals : RefundTransaction(asked) BY <2>7, RefundSteps
  <2> QED BY <1>2, <2>1, <2>2, <2>3, <2>4, <2>5, <2>6, <2>7 DEF Next
<1> QED BY <1>1, <1>2

---------------------------------------------------------------------------
(* The theorems.                                                            *)

(* The forms and the row say the same in every state that is reached.       *)
THEOREM InvariantHolds == Spec => []IInv
<1> QED BY InitEstablishes, NextKeeps, PTL DEF Spec

(* Where there is a row, it is the first form's.                            *)
LEMMA RowFields ==
    ASSUME IInv, row # None
    PROVE  /\ phase \in Stored
           /\ row.amount_cents = toCents(body.amount)
           /\ row.merchant_ref = first.request.merchantRef
           /\ row.merchant_session = form.request.merchantSession
           /\ row.currency = first.request.currency
           /\ row.transaction_code = first.request.transactionCode
           /\ row.customer = customerDataFrom(body.customer)
<1>1. phase \in Stored BY DEF IInv, PhaseOK
<1>2. row = StoredRow(row.captured) BY <1>1 DEF IInv, RowOK
<1> QED BY <1>1, <1>2, StoredFields

(* The lines of a body that passes add up to its amount, as they are        *)
(* stored.                                                                  *)
LEMMA ItemCents ==
    ASSUME validatePaymentInput(body)
    PROVE  LET stored == transactionItemCollection(body.items) IN
           /\ toCents(body.amount) = Total([i \in DOMAIN stored |-> stored[i].total_price_cents])
           /\ toCents(body.amount)
                = Total([i \in DOMAIN stored |-> stored[i].quantity * stored[i].unit_price_cents])
<1> DEFINE list == body.items
           stored == transactionItemCollection(list)
           totals == [i \in DOMAIN list |-> minorUnits(list[i].total_price)]
<1>1. /\ minorUnits(body.amount) = Total(totals)
      /\ \A i \in DOMAIN list :
            /\ minorUnits(list[i].total_price) = list[i].quantity * minorUnits(list[i].unit_price)
            /\ validateItem(list[i])
  BY DEF validatePaymentInput, validateTotals, validateItems
<1>2. minorUnits(body.amount) = toCents(body.amount)
  BY DEF validatePaymentInput, validateAmount, minorUnits, parseDecimalAmount
<1>3. ASSUME NEW i \in DOMAIN list
      PROVE  /\ minorUnits(list[i].total_price) = toCents(list[i].total_price)
             /\ minorUnits(list[i].unit_price) = toCents(list[i].unit_price)
  <2>1. /\ parseDecimalAmount(list[i].unit_price) # None
        /\ parseDecimalAmount(list[i].total_price) # None
    BY <1>1 DEF validateItem
  <2> QED BY <2>1 DEF minorUnits
<1>4. /\ DOMAIN stored = DOMAIN list
      /\ \A i \in DOMAIN list :
            /\ stored[i].quantity = list[i].quantity
            /\ stored[i].unit_price_cents = toCents(list[i].unit_price)
            /\ stored[i].total_price_cents = toCents(list[i].total_price)
  BY DEF transactionItemCollection
<1> HIDE DEF stored, list
<1>5. [i \in DOMAIN stored |-> stored[i].total_price_cents] = totals
  <2>1. \A i \in DOMAIN list : stored[i].total_price_cents = minorUnits(list[i].total_price)
    BY <1>3, <1>4
  <2> QED BY <1>4, <2>1
<1>6. [i \in DOMAIN stored |-> stored[i].quantity * stored[i].unit_price_cents] = totals
  <2>1. \A i \in DOMAIN list :
          stored[i].quantity * stored[i].unit_price_cents = minorUnits(list[i].total_price)
    BY <1>1, <1>3, <1>4
  <2> QED BY <1>4, <2>1
<1>7. /\ toCents(body.amount) = Total([i \in DOMAIN stored |-> stored[i].total_price_cents])
      /\ toCents(body.amount)
           = Total([i \in DOMAIN stored |-> stored[i].quantity * stored[i].unit_price_cents])
  <2> HIDE DEF totals
  <2> QED BY <1>1, <1>2, <1>5, <1>6
<1> QED BY <1>7 DEF stored, list

(* The amount stored is what its items cost, line by line, what the first   *)
(* form signed, and within the configured maximum, whatever was posted      *)
(* (validate-payment-input.ts, validateTotals; sisp-amount.ts).             *)
THEOREM ChargedIsOrderedHolds == Spec => []ChargedIsOrdered
<1>1. IInv => ChargedIsOrdered
  <2> SUFFICES ASSUME IInv, row # None PROVE ChargedIsOrdered BY DEF ChargedIsOrdered
  <2>1. phase \in Stored /\ row.amount_cents = toCents(body.amount) BY RowFields
  <2>2. /\ toCents(body.amount) \in Nat \ {0} /\ toCents(body.amount) <= maxAmount
        /\ toThousandths(body.amount) = 10 * toCents(body.amount)
    BY <2>1, ValidAmount DEF IInv, Posted
  <2>3. maxAmount \in Nat
    BY BoundsAssumption DEF IInv, PhaseOK, maxAmount, positiveNumber
  <2>4. row.amount_cents \in 1 .. maxAmount BY <2>1, <2>2, <2>3
  <2>5. first.fingerprint[2] = 10 * row.amount_cents
    BY <2>1, <2>2, FirstForm DEF IInv, FirstOK
  <2>6. validatePaymentInput(body) /\ items = transactionItemCollection(body.items)
    BY <2>1 DEF IInv, PhaseOK, Posted, RowOK
  <2>7. /\ row.amount_cents =
              Total([i \in DOMAIN items |-> items[i].quantity * items[i].unit_price_cents])
        /\ row.amount_cents = Total([i \in DOMAIN items |-> items[i].total_price_cents])
    BY <2>1, <2>6, ItemCents
  <2> QED BY <2>4, <2>5, <2>7 DEF ChargedIsOrdered
<1> QED BY <1>1, InvariantHolds, PTL

(* Text survives the way through the customer's row.                        *)
LEMMA TextIsKept ==
    ASSUME NEW customer, NEW f \in CustomerFields, customer[f] = "text"
    PROVE  FilledIn(customerDataFrom(customer))[f] = "text"
<1>1. customerDataFrom(customer)[f] = "text" /\ f \in DOMAIN customerDataFrom(customer)
  BY DEF customerDataFrom
<1>2. "text" # None BY NoneAssumption
<1> QED BY <1>1, <1>2 DEF FilledIn

(* A retry signs the payment of the first form, under a session never used  *)
(* before (retry-payment.ts, create-retry-payment-attempt.ts). *)
THEOREM RetryChargesTheSameHolds == Spec => []RetryChargesTheSame
<1>1. IInv => RetryChargesTheSame
  <2> SUFFICES ASSUME IInv, row # None PROVE RetryChargesTheSame BY DEF RetryChargesTheSame
  <2>1. phase \in Stored /\ row.merchant_session = form.request.merchantSession BY RowFields
  <2>2. /\ form.fingerprint = generatePaymentFingerprint(form.request)
        /\ toThousandths(form.request.amount) = 10 * toCents(body.amount)
        /\ form.request.merchantRef = first.request.merchantRef
        /\ form.request.currency = first.request.currency
        /\ form.request.transactionCode = first.request.transactionCode
        /\ settings.is3DSec =>
              form.request.purchaseRequest
                \in {body.customer, FilledIn(customerDataFrom(body.customer))}
    BY <2>1 DEF IInv, FormOK
  <2>3. /\ first.fingerprint[2] = toThousandths(body.amount)
        /\ settings.is3DSec => first.request.purchaseRequest = body.customer
    BY <2>1, FirstForm DEF IInv, FirstOK
  <2>4. toThousandths(body.amount) = 10 * toCents(body.amount)
    BY <2>1, ValidAmount DEF IInv, Posted
  <2>5. form.fingerprint[2] = first.fingerprint[2]
    BY <2>2, <2>3, <2>4 DEF generatePaymentFingerprint
  <2>6. \A i, j \in DOMAIN sessions : sessions[i] = sessions[j] => i = j
    <3>1. /\ sessions \in Seq(Int) /\ sessions[1] \in {0, EmptySession, 1}
          /\ \A i \in DOMAIN sessions : i # 1 => sessions[i] = i
      BY <2>1 DEF IInv, SessionsOK
    <3>2. DOMAIN sessions \subseteq Nat \ {0} BY <3>1
    <3>3. \A i \in DOMAIN sessions : i # 1 => sessions[i] # sessions[1]
      BY <3>1, <3>2, SessionIsInt
    <3> QED BY <3>1, <3>2, <3>3
  <2>7. ASSUME settings.is3DSec, NEW f \in CustomerFields,
               first.request.purchaseRequest[f] = "text"
        PROVE  form.request.purchaseRequest[f] = "text"
    <3>1. body.customer[f] = "text" BY <2>3, <2>7
    <3>2. FilledIn(customerDataFrom(body.customer))[f] = "text" BY <3>1, TextIsKept
    <3> QED BY <2>2, <2>7, <3>1, <3>2
  <2> QED BY <2>1, <2>2, <2>5, <2>6, <2>7 DEF RetryChargesTheSame
<1> QED BY <1>1, InvariantHolds, PTL

(* However a payment is refunded in parts, the parts never exceed it, and   *)
(* make it up exactly when it is refunded (refund-transaction.ts,           *)
(* refundableThousandths).                                                  *)
THEOREM RefundsAddUpHolds == Spec => []RefundsAddUp
<1>1. IInv => RefundsAddUp
  <2> SUFFICES ASSUME IInv, row # None PROVE RefundsAddUp BY DEF RefundsAddUp
  <2>1. phase \in Stored /\ row.amount_cents = toCents(body.amount) BY RowFields
  <2>2. /\ refundedThousandths(refunds) <= 10 * toCents(body.amount)
        /\ refundedThousandths(refunds) = 10 * toCents(body.amount) <=> phase = "refunded"
    BY <2>1 DEF IInv, BalanceOK
  <2>3. \A i \in DOMAIN refunds : refunds[i].transactionCode = "total" => Len(refunds) = 1
    BY DEF IInv, RefundsOK
  <2> QED BY <2>1, <2>2, <2>3 DEF RefundsAddUp, refundedThousandths
<1> QED BY <1>1, InvariantHolds, PTL

(* The amount of a body is signed to half a thousandth.                     *)
LEMMA BodyIsNear ==
    ASSUME body \in Bodies, body.amount # None
    PROVE  Near(toThousandths(body.amount), body.amount)
<1>1. Amount(body.amount) BY AmountAssumption DEF Amount
<1> QED BY <1>1, ThousandthsAreNear

(* What is signed is at most half a thousandth from the number asked for,   *)
(* in every form and every refund, and half of the last digit that toFixed  *)
(* keeps when the number has more (sisp-amount.ts, toThousandths).          *)
THEOREM SignedIsAskedHolds == Spec => []SignedIsAsked
<1>1. IInv => SignedIsAsked
  <2> SUFFICES ASSUME IInv PROVE SignedIsAsked OBVIOUS
  <2>1. ASSUME form # None PROVE Near(form.fingerprint[2], body.amount)
    <3>1. phase \in Stored \cup {"unstored", "built"} BY <2>1 DEF IInv, PhaseOK
    <3>2. CASE phase = "unstored"
      <4>1. /\ body \in Bodies /\ body.amount # None
            /\ form.fingerprint[2] = toThousandths(body.amount)
        BY <3>2 DEF IInv, BuilderOK
      <4> QED BY <4>1, BodyIsNear
    <3>3. CASE phase \in Stored \cup {"built"}
      <4>1. /\ body \in Bodies /\ body.amount # None
            /\ toThousandths(body.amount) = 10 * toCents(body.amount)
        BY <3>3, ValidAmount DEF IInv, PhaseOK, Posted
      <4>2. form.fingerprint[2] = toThousandths(body.amount)
        <5>1. CASE phase = "built"
          BY <5>1, FirstForm DEF IInv, BuiltOK, FirstOK
        <5>2. CASE phase \in Stored
          <6>1. /\ form.fingerprint = generatePaymentFingerprint(form.request)
                /\ toThousandths(form.request.amount) = 10 * toCents(body.amount)
            BY <5>2 DEF IInv, FormOK
          <6> QED BY <4>1, <6>1 DEF generatePaymentFingerprint
        <5> QED BY <3>3, <5>1, <5>2
      <4> QED BY <4>1, <4>2, BodyIsNear
    <3> QED BY <3>1, <3>2, <3>3
  <2>2. ASSUME NEW i \in DOMAIN refunds
        PROVE  Near(toThousandths(refunds[i].amount), refunds[i].asked)
    <3>1. toThousandths(refunds[i].amount) = toThousandths(refunds[i].asked)
      BY DEF IInv, RefundsOK
    <3>2. refunds[i].asked \in Decimals
      <4>1. refunds[i] \in Refund BY DEF IInv, RefundsOK
      <4>2. \A refund \in Refund : refund.asked \in Decimals BY DEF Refund
      <4> QED BY <4>1, <4>2
    <3>3. Amount(refunds[i].asked) BY <3>2, AmountAssumption DEF Amount
    <3> QED BY <3>1, <3>3, ThousandthsAreNear
  <2> QED BY <2>1, <2>2 DEF SignedIsAsked, Near, Twice
<1> QED BY <1>1, InvariantHolds, PTL

(* Whoever is offered a retry gets a form: what canRetryPayment asks of the *)
(* row is enough for the purchase request.                                  *)
THEOREM RetryableCanBeBuiltHolds == Spec => []RetryableCanBeBuilt
<1>1. IInv => RetryableCanBeBuilt
  <2> SUFFICES ASSUME IInv, canRetryPayment, settings.is3DSec
               PROVE  CanBuild(extract(row, TRUE))
    BY DEF RetryableCanBeBuilt, CanBuild
  <2>1. phase = "failed" /\ phase \in Stored BY FailedIsStored
  <2>2. row = StoredRow(row.captured) BY <2>1 DEF IInv, RowOK
  <2>3. row.customer = customerDataFrom(body.customer) BY <2>2, StoredFields
  <2>4. CanBuild(paymentRequestDataFrom(body)) BY <2>1 DEF IInv, FirstOK
  <2>5. body.customer.country = "text"
    BY <2>4 DEF CanBuild, Supported, paymentRequestDataFrom
  <2> DEFINE customer == FilledIn(row.customer)
  <2>6. customer.country = "text" BY <2>3, <2>5, TextIsKept DEF CustomerFields
  <2>7. \A f \in CustomerFields : customer[f] # None
    <3>1. DOMAIN row.customer = CustomerFields BY <2>3 DEF customerDataFrom
    <3>2. ASSUME NEW f \in CustomerFields \ {"postalCode"} PROVE customer[f] # None
      <4>1. row.customer[f] # None BY DEF canRetryPayment
      <4>2. customer[f] = row.customer[f] BY <3>1 DEF FilledIn
      <4> QED BY <4>1, <4>2
    <3>3. customer.postalCode # None
      <4>1. "postalCode" \in DOMAIN row.customer BY <3>1 DEF CustomerFields
      <4>2. "fallback" # None BY NoneAssumption
      <4> QED BY <4>1, <4>2 DEF FilledIn
    <3> HIDE DEF customer
    <3>4. \A f \in CustomerFields : f = "postalCode" \/ f \in CustomerFields \ {"postalCode"}
      OBVIOUS
    <3> QED BY <3>2, <3>3, <3>4
  <2>8. extract(row, TRUE).customer = customer BY DEF extract
  <2> HIDE DEF customer
  <2> QED BY <2>6, <2>7, <2>8 DEF CanBuild, missingThreeDSecureFields, Supported
<1> QED BY <1>1, InvariantHolds, PTL

(* What the gateway's answer repeats of a form agrees with the row, in      *)
(* every phase and after every retry (sandbox.ts, ensure-callback-matches-  *)
(* transaction.ts).                                                         *)
THEOREM AnswersAreRecognisedHolds == Spec => []AnswersAreRecognised
<1>1. IInv => AnswersAreRecognised
  <2> SUFFICES ASSUME IInv, row # None, row.transaction_code # "",
                      NEW status \in {"success", "failed"}
               PROVE  matchesTransaction(row, callbackFields(form.request, status).post)
    BY DEF AnswersAreRecognised
  <2>1. /\ phase \in Stored
        /\ row.amount_cents = toCents(body.amount)
        /\ row.merchant_ref = first.request.merchantRef
        /\ row.merchant_session = form.request.merchantSession
        /\ row.currency = first.request.currency
        /\ row.transaction_code = first.request.transactionCode
    BY RowFields
  <2>2. /\ toThousandths(form.request.amount) = 10 * toCents(body.amount)
        /\ form.request.merchantRef = first.request.merchantRef
        /\ form.request.currency = first.request.currency
        /\ form.request.transactionCode = first.request.transactionCode
    BY <2>1 DEF IInv, FormOK
  <2>3. first.request.currency # None /\ first.request.transactionCode # None
    BY <2>1, FirstForm DEF IInv, FirstOK
  <2>4. toThousandths(fromCents(row.amount_cents)) = 10 * toCents(body.amount)
    <3>1. toCents(body.amount) \in Nat BY <2>1, ValidAmount DEF IInv, Posted
    <3> QED BY <2>1, <3>1, CentsBack
  <2>5. transactionCode(row) = row.transaction_code BY DEF transactionCode
  <2> DEFINE post == callbackFields(form.request, status).post
  <2>6. post = (IF status = "failed" THEN errorPost(form.request) ELSE successPost(form.request))
    BY DEF callbackFields
  <2> HIDE DEF post
  <2>7. /\ post.merchantRef = form.request.merchantRef
        /\ post.merchantSession = form.request.merchantSession
        /\ post.amount \in {None, form.request.amount}
        /\ post.currency \in {None, form.request.currency}
        /\ post.transactionCode \in {None, form.request.transactionCode}
    <3>1. CASE status = "failed" BY <2>6, <3>1 DEF errorPost
    <3>2. CASE status # "failed"
      <4>1. post = successPost(form.request) BY <2>6, <3>2
      <4>2. /\ OrElse(form.request.currency, Currency) = form.request.currency
            /\ OrElse(form.request.transactionCode, "configured") = form.request.transactionCode
        BY <2>2, <2>3 DEF OrElse
      <4> QED BY <4>1, <4>2 DEF successPost
    <3> QED BY <3>1, <3>2
  <2>8. matchesTransaction(row, post)
    <3>1. /\ row.merchant_ref = post.merchantRef /\ row.merchant_session = post.merchantSession
          /\ post.currency # None => row.currency = post.currency
          /\ post.transactionCode # None => transactionCode(row) = post.transactionCode
      BY <2>1, <2>2, <2>5, <2>7
    <3>2. post.amount # None =>
             toThousandths(fromCents(row.amount_cents)) = toThousandths(post.amount)
      BY <2>2, <2>4, <2>7
    <3> QED BY <3>1, <3>2 DEF matchesTransaction
  <2> QED BY <2>8 DEF post
<1> QED BY <1>1, InvariantHolds, PTL
=============================================================================
