----------------------------- MODULE MaskProofs -----------------------------
(***************************************************************************)
(* Proofs about Mask, for every width of a word.  What its recursive       *)
(* functions compute is proved by induction, in the form the provers can   *)
(* use: over a set of numbers instead of a predicate.                      *)
(***************************************************************************)
EXTENDS Mask, WellFoundedInduction, TLAPS

\* Induction: a set with 0 and every successor has all natural numbers.
LEMMA Induction ==
  ASSUME NEW S, 0 \in S, \A n \in Nat : n \in S => n + 1 \in S
  PROVE  Nat \subseteq S
<1> SUFFICES ASSUME Nat \ S # {} PROVE FALSE OBVIOUS
<1> DEFINE R == OpToRel(<, Nat)
<1>1. IsWellFoundedOn(R, Nat) BY NatLessThanWellFounded
<1>2. PICK x \in Nat \ S : \A y \in Nat \ S : <<y, x>> \notin R
  <2> HIDE DEF R
  <2> QED BY <1>1, WFMin
<1>3. \A y \in Nat \ S : ~(y < x) BY <1>2 DEF OpToRel
<1> HIDE DEF R
<1>4. x # 0 /\ x - 1 \in Nat BY SMT
<1>5. x - 1 \in S /\ x - 1 + 1 = x BY <1>3, <1>4
<1> QED BY <1>4, <1>5

\* f is F iterated from t up to n.
Iterates(F, t, n, f) == f[0] = t /\ \A i \in 0..(n - 1) : f[i + 1] = F[f[i]]

\* A function can be iterated any number of times.
LEMMA IterationUpTo ==
  ASSUME NEW T, NEW t \in T, NEW F \in [T -> T]
  PROVE  \A n \in Nat : \E f \in [0..n -> T] : Iterates(F, t, n, f)
<1> DEFINE S == {n \in Nat : \E f \in [0..n -> T] : Iterates(F, t, n, f)}
<1>1. 0 \in S
  <2>1. [i \in 0..0 |-> t] \in [0..0 -> T] /\ Iterates(F, t, 0, [i \in 0..0 |-> t])
    BY DEF Iterates
  <2> QED BY <2>1
<1>2. ASSUME NEW n \in Nat, n \in S PROVE n + 1 \in S
  <2>1. PICK f \in [0..n -> T] : Iterates(F, t, n, f) BY <1>2
  <2> DEFINE g == [i \in 0..(n + 1) |-> IF i <= n THEN f[i] ELSE F[f[n]]]
  <2>2. g \in [0..(n + 1) -> T] BY <2>1
  <2>3. g[0] = t BY <2>1 DEF Iterates
  <2>4. ASSUME NEW i \in 0..n PROVE g[i + 1] = F[g[i]]
    <3>1. CASE i = n BY <3>1
    <3>2. CASE i # n
      <4>1. i \in 0..(n - 1) /\ i + 1 \in 0..n BY <3>2
      <4> QED BY <2>1, <4>1 DEF Iterates
    <3> QED BY <3>1, <3>2
  <2>5. Iterates(F, t, n + 1, g)
    <3> HIDE DEF g
    <3> QED BY <2>3, <2>4 DEF Iterates
  <2> HIDE DEF g
  <2> QED BY <2>2, <2>5
<1> HIDE DEF S
<1>3. Nat \subseteq S BY <1>1, <1>2, Induction
<1> QED BY <1>3 DEF S

\* And in one way only, as far as two iterations go.
LEMMA IterationUnique ==
  ASSUME NEW F, NEW t, NEW m \in Nat, NEW n \in Nat, NEW f, NEW g,
         Iterates(F, t, m, f), Iterates(F, t, n, g)
  PROVE  \A i \in Nat : i <= m /\ i <= n => f[i] = g[i]
<1> DEFINE S == {i \in Nat : i <= m /\ i <= n => f[i] = g[i]}
<1>1. 0 \in S BY DEF Iterates
<1>2. ASSUME NEW i \in Nat, i \in S PROVE i + 1 \in S
  <2>1. CASE i + 1 <= m /\ i + 1 <= n
    <3>1. i \in 0..(m - 1) /\ i \in 0..(n - 1) /\ f[i] = g[i] BY <1>2, <2>1
    <3> QED BY <3>1 DEF Iterates
  <2> QED BY <2>1
<1> HIDE DEF S
<1>3. Nat \subseteq S BY <1>1, <1>2, Induction
<1> QED BY <1>3 DEF S

\* f is defined by recursion over the numbers.
IsRecursion(f, t, F) == f = [n \in Nat |-> IF n = 0 THEN t ELSE F[f[n - 1]]]

\* Such a function exists.
LEMMA Recursion ==
  ASSUME NEW T, NEW t \in T, NEW F \in [T -> T]
  PROVE  \E f \in [Nat -> T] : IsRecursion(f, t, F)
<1> DEFINE upTo(n) == CHOOSE f \in [0..n -> T] : Iterates(F, t, n, f)
           f == [n \in Nat |-> upTo(n)[n]]
<1>1. \A n \in Nat : upTo(n) \in [0..n -> T] /\ Iterates(F, t, n, upTo(n))
  BY IterationUpTo
<1>2. f \in [Nat -> T]
  <2> SUFFICES ASSUME NEW n \in Nat PROVE upTo(n)[n] \in T OBVIOUS
  <2> HIDE DEF upTo
  <2> QED BY <1>1
<1>3. ASSUME NEW n \in Nat, n # 0 PROVE upTo(n)[n] = F[upTo(n - 1)[n - 1]]
  <2> HIDE DEF upTo, f
  <2>1. n - 1 \in Nat /\ n - 1 \in 0..(n - 1) /\ n - 1 + 1 = n BY <1>3
  <2>2. upTo(n)[n] = F[upTo(n)[n - 1]] BY <1>1, <2>1 DEF Iterates
  <2>3. Iterates(F, t, n, upTo(n)) /\ Iterates(F, t, n - 1, upTo(n - 1)) BY <1>1, <2>1
  <2>4. upTo(n)[n - 1] = upTo(n - 1)[n - 1] BY <2>1, <2>3, IterationUnique
  <2> QED BY <2>2, <2>4
<1>4. upTo(0)[0] = t
  <2> HIDE DEF upTo, f
  <2> QED BY <1>1 DEF Iterates
<1>5. f = [n \in Nat |-> IF n = 0 THEN t ELSE F[f[n - 1]]]
  <2> HIDE DEF upTo
  <2>1. ASSUME NEW n \in Nat PROVE upTo(n)[n] = IF n = 0 THEN t ELSE F[f[n - 1]]
    <3>1. CASE n = 0 BY <1>4, <3>1
    <3>2. CASE n # 0
      <4>1. n - 1 \in Nat BY <3>2
      <4>2. f[n - 1] = upTo(n - 1)[n - 1] BY <4>1
      <4> QED BY <1>3, <3>2, <4>2
    <3> QED BY <3>1, <3>2
  <2> QED BY <2>1
<1> HIDE DEF f
<1>6. IsRecursion(f, t, F) BY <1>5 DEF IsRecursion
<1> QED BY <1>2, <1>6

-----------------------------------------------------------------------------
(* What Mask's recursive functions are.                                    *)

LEMMA Pow2Def ==
  /\ Pow2 \in [Nat -> Nat] /\ Pow2[0] = 1
  /\ \A n \in Nat : Pow2[n + 1] = 2 * Pow2[n]
<1> DEFINE T == Nat
           one == 1
           F == [v \in Nat |-> 2 * v]
<1>1. F \in [T -> T] /\ one \in T OBVIOUS
<1>2. PICK f \in [Nat -> T] : IsRecursion(f, one, F)
  <2> HIDE DEF T, one, F
  <2> QED BY <1>1, Recursion
<1>3. f = [n \in Nat |-> IF n = 0 THEN 1 ELSE 2 * f[n - 1]]
  <2>1. \A n \in Nat : n # 0 => f[n - 1] \in Nat OBVIOUS
  <2>2. \A n \in Nat : n # 0 => F[f[n - 1]] = 2 * f[n - 1] BY <2>1
  <2> HIDE DEF F
  <2> QED BY <1>2, <2>2 DEF IsRecursion
<1>4. Pow2 = [n \in Nat |-> IF n = 0 THEN 1 ELSE 2 * Pow2[n - 1]]
  BY <1>3 DEF Pow2
<1>5. Pow2[0] = 1 BY <1>4
<1>6. \A n \in Nat : Pow2[n + 1] = 2 * Pow2[n] BY <1>4
<1> DEFINE S == {n \in Nat : Pow2[n] \in Nat}
<1>7. Nat \subseteq S
  <2>1. 0 \in S BY <1>5
  <2>2. ASSUME NEW n \in Nat, n \in S PROVE n + 1 \in S BY <1>6, <2>2
  <2> HIDE DEF S
  <2> QED BY <2>1, <2>2, Induction
<1>8. Pow2 \in [Nat -> Nat] BY <1>4, <1>7
<1> QED BY <1>5, <1>6, <1>8

LEMMA AndBitsDef ==
  /\ AndBits \in [Nat -> [Nat -> [Nat -> Nat]]]
  /\ \A x, y \in Nat : AndBits[0][x][y] = 0
  /\ \A n, x, y \in Nat :
        AndBits[n + 1][x][y] = (x % 2) * (y % 2) + 2 * AndBits[n][x \div 2][y \div 2]
<1> DEFINE T == [Nat -> [Nat -> Nat]]
           zero == [x \in Nat |-> [y \in Nat |-> 0]]
           more(g) == [x \in Nat |-> [y \in Nat |->
                          (x % 2) * (y % 2) + 2 * g[x \div 2][y \div 2]]]
           F == [g \in T |-> more(g)]
<1>1. zero \in T OBVIOUS
<1>2. ASSUME NEW g \in T PROVE more(g) \in T
  <2> SUFFICES ASSUME NEW x \in Nat, NEW y \in Nat
               PROVE  (x % 2) * (y % 2) + 2 * g[x \div 2][y \div 2] \in Nat
    OBVIOUS
  <2>1. x \div 2 \in Nat /\ y \div 2 \in Nat /\ x % 2 \in {0, 1} /\ y % 2 \in {0, 1} OBVIOUS
  <2>2. g[x \div 2][y \div 2] \in Nat BY <2>1
  <2>3. (x % 2) * (y % 2) \in {0, 1} BY <2>1
  <2>4. \A a \in {0, 1}, c \in Nat : a + 2 * c \in Nat OBVIOUS
  <2> QED BY <2>2, <2>3, <2>4, Zenon
<1>3. F \in [T -> T]
  <2> HIDE DEF T, more
  <2> QED BY <1>2
<1>4. PICK f \in [Nat -> T] : IsRecursion(f, zero, F)
  <2> HIDE DEF T, zero, F
  <2> QED BY <1>1, <1>3, Recursion
<1>5. f = [n \in Nat |-> [x \in Nat |-> [y \in Nat |->
              IF n = 0 THEN 0
              ELSE (x % 2) * (y % 2) + 2 * f[n - 1][x \div 2][y \div 2]]]]
  <2>1. ASSUME NEW n \in Nat
        PROVE  f[n] = [x \in Nat |-> [y \in Nat |->
                   IF n = 0 THEN 0 ELSE (x % 2) * (y % 2) + 2 * f[n - 1][x \div 2][y \div 2]]]
    <3>1. CASE n = 0
      <4>1. f[n] = zero BY <1>4, <3>1 DEF IsRecursion
      <4> QED BY <3>1, <4>1
    <3>2. CASE n # 0
      <4>1. f[n - 1] \in T
        <5> HIDE DEF T
        <5> QED BY <3>2
      <4>2. f[n] = more(f[n - 1])
        <5> HIDE DEF T, more, zero
        <5> QED BY <1>4, <3>2, <4>1 DEF IsRecursion
      <4> QED BY <3>2, <4>2
    <3> QED BY <3>1, <3>2
  <2> QED BY <2>1
<1>6. AndBits = [n \in Nat |-> [x \in Nat |-> [y \in Nat |->
              IF n = 0 THEN 0
              ELSE (x % 2) * (y % 2) + 2 * AndBits[n - 1][x \div 2][y \div 2]]]]
  <2> HIDE DEF T
  <2> QED BY <1>5 DEF AndBits
<1>7. AndBits[0] = zero BY <1>6
<1>8. ASSUME NEW n \in Nat PROVE AndBits[n + 1] = more(AndBits[n])
  <2> DEFINE row(m, g) == [x \in Nat |-> [y \in Nat |->
                 IF m = 0 THEN 0 ELSE (x % 2) * (y % 2) + 2 * g[x \div 2][y \div 2]]]
  <2>1. AndBits = [m \in Nat |-> row(m, AndBits[m - 1])] BY <1>6, Zenon
  <2>2. AndBits[n + 1] = row(n + 1, AndBits[n])
    <3> HIDE DEF row
    <3>1. n + 1 \in Nat /\ n + 1 - 1 = n OBVIOUS
    <3> QED BY <2>1, <3>1
  <2>3. n + 1 # 0 OBVIOUS
  <2>4. \A g : row(n + 1, g) = more(g) BY <2>3
  <2> HIDE DEF row, more
  <2> QED BY <2>2, <2>4
<1> DEFINE S == {n \in Nat : AndBits[n] \in T}
<1>9. Nat \subseteq S
  <2>1. 0 \in S BY <1>1, <1>7
  <2>2. ASSUME NEW n \in Nat, n \in S PROVE n + 1 \in S
    <3> HIDE DEF T, more
    <3> QED BY <1>2, <1>8, <2>2
  <2> HIDE DEF S
  <2> QED BY <2>1, <2>2, Induction
<1>10. AndBits \in [Nat -> T]
  <2> HIDE DEF T
  <2> QED BY <1>6, <1>9
<1>11. \A n, x, y \in Nat :
          AndBits[n + 1][x][y] = (x % 2) * (y % 2) + 2 * AndBits[n][x \div 2][y \div 2]
  <2>1. ASSUME NEW n \in Nat, NEW x \in Nat, NEW y \in Nat
        PROVE  more(AndBits[n])[x][y] = (x % 2) * (y % 2) + 2 * AndBits[n][x \div 2][y \div 2]
    OBVIOUS
  <2> HIDE DEF more
  <2>2. ASSUME NEW n \in Nat, NEW x \in Nat, NEW y \in Nat
        PROVE  AndBits[n + 1][x][y] = (x % 2) * (y % 2) + 2 * AndBits[n][x \div 2][y \div 2]
    <3>1. AndBits[n + 1] = more(AndBits[n]) BY <1>8
    <3>2. AndBits[n + 1][x][y] = more(AndBits[n])[x][y] BY <3>1, Zenon
    <3> QED BY <2>1, <3>2, Zenon
  <2> QED BY <2>2, Zenon
<1>12. \A x, y \in Nat : AndBits[0][x][y] = 0 BY <1>7
<1> QED BY <1>10, <1>11, <1>12

-----------------------------------------------------------------------------
(* Arithmetic.                                                             *)

LEMMA Remainder ==
  ASSUME NEW q \in Nat, NEW m \in Nat, NEW r \in Nat, r < m
  PROVE  (q * m + r) % m = r
OBVIOUS

LEMMA Division ==
  ASSUME NEW x \in Nat, NEW m \in Nat \ {0}
  PROVE  x % m \in 0..(m - 1) /\ \E q \in Nat : x = q * m + (x % m)
<1>1. x % m \in 0..(m - 1) OBVIOUS
<1>2. x = (x \div m) * m + (x % m) /\ x \div m \in Nat OBVIOUS
<1> QED BY <1>1, <1>2, Zenon

LEMMA Halves ==
  ASSUME NEW x \in Nat
  PROVE  x \div 2 \in Nat /\ x % 2 \in {0, 1} /\ x = 2 * (x \div 2) + (x % 2)
OBVIOUS

LEMMA RemainderDoubled ==
  ASSUME NEW x \in Nat, NEW m \in Nat \ {0}
  PROVE  x % (2 * m) = (x % 2) + 2 * ((x \div 2) % m)
<1> DEFINE b == x % 2
           h == x \div 2
           r == h % m
<1>1. h \in Nat /\ b \in {0, 1} /\ x = 2 * h + b BY Halves
<1>2. PICK q \in Nat : h = q * m + r /\ r \in 0..(m - 1) BY <1>1, Division
<1> HIDE DEF b, h, r
<1>3. x = q * (2 * m) + (2 * r + b) BY <1>1, <1>2
<1>4. 2 * r + b \in Nat /\ 2 * r + b < 2 * m /\ 2 * m \in Nat BY <1>1, <1>2
<1>5. x % (2 * m) = 2 * r + b BY <1>3, <1>4, Remainder
<1> QED BY <1>1, <1>2, <1>5 DEF b, h, r

LEMMA RemainderTwice ==
  ASSUME NEW x \in Nat, NEW c \in Nat \ {0}, NEW m \in Nat \ {0}
  PROVE  (x % (c * m)) % m = x % m
<1> DEFINE cm == c * m
           s == x % cm
           r == s % m
<1>1. cm \in Nat \ {0} OBVIOUS
<1>2. PICK q \in Nat : x = q * cm + s /\ s \in Nat
  <2> HIDE DEF cm
  <2>1. s \in 0..(cm - 1) /\ \E q \in Nat : x = q * cm + s BY <1>1, Division, Zenon
  <2>2. s \in Nat BY <1>1, <2>1
  <2> QED BY <2>1, <2>2, Zenon
<1>3. PICK p \in Nat : s = p * m + r /\ r \in 0..(m - 1)
  <2> HIDE DEF s
  <2> QED BY <1>2, Division
<1>4. x = q * (c * m) + s BY <1>2
<1> HIDE DEF s, r
<1>5. x = (q * c + p) * m + r /\ q * c + p \in Nat BY <1>3, <1>4
<1>6. x % m = r BY <1>3, <1>5, Remainder
<1> QED BY <1>6 DEF s, r

LEMMA Pow2Grows ==
  ASSUME NEW j \in Nat, NEW n \in Nat, j <= n
  PROVE  \E c \in Nat \ {0} : Pow2[n] = c * Pow2[j] /\ Pow2[j] \in Nat \ {0} /\ Pow2[j] <= Pow2[n]
<1> DEFINE S == {i \in Nat : \E c \in Nat \ {0} : Pow2[j + i] = c * Pow2[j]}
           P == {i \in Nat : Pow2[i] # 0}
<1>1. Pow2[j] \in Nat \ {0}
  <2>1. 0 \in P BY Pow2Def
  <2>2. ASSUME NEW i \in Nat, i \in P PROVE i + 1 \in P
    <3>1. Pow2[i] \in Nat /\ Pow2[i] # 0 /\ Pow2[i + 1] = 2 * Pow2[i] BY <2>2, Pow2Def
    <3> QED BY <3>1
  <2> HIDE DEF P
  <2>3. Nat \subseteq P BY <2>1, <2>2, Induction
  <2> QED BY <2>3, Pow2Def DEF P
<1>2. 0 \in S BY <1>1
<1>3. ASSUME NEW i \in Nat, i \in S PROVE i + 1 \in S
  <2>1. PICK c \in Nat \ {0} : Pow2[j + i] = c * Pow2[j] BY <1>3
  <2>2. j + i \in Nat /\ j + (i + 1) = (j + i) + 1 OBVIOUS
  <2>3. Pow2[j + (i + 1)] = 2 * Pow2[j + i] BY <2>2, Pow2Def
  <2>4. Pow2[j + (i + 1)] = (2 * c) * Pow2[j] /\ 2 * c \in Nat \ {0} BY <1>1, <2>1, <2>3
  <2> QED BY <2>4
<1>4. Nat \subseteq S
  <2> HIDE DEF S
  <2> QED BY <1>2, <1>3, Induction
<1>5. n - j \in Nat /\ j + (n - j) = n OBVIOUS
<1>6. PICK c \in Nat \ {0} : Pow2[n] = c * Pow2[j] BY <1>4, <1>5
<1>7. Pow2[j] <= Pow2[n] BY <1>1, <1>6
<1> QED BY <1>1, <1>6, <1>7

-----------------------------------------------------------------------------
(* What the bitwise and does, on words of any width.                       *)

LEMMA AndType == ASSUME NEW n \in Nat, NEW x \in Nat, NEW y \in Nat PROVE AndBits[n][x][y] \in Nat
<1>1. AndBits[n] \in [Nat -> [Nat -> Nat]] BY AndBitsDef
<1>2. AndBits[n][x] \in [Nat -> Nat] BY <1>1
<1> QED BY <1>2

\* The and of a number and itself is that number.
LEMMA AndSame ==
  \A n \in Nat : \A x \in Nat : x < Pow2[n] => AndBits[n][x][x] = x
<1> DEFINE S == {n \in Nat : \A x \in Nat : x < Pow2[n] => AndBits[n][x][x] = x}
<1>1. 0 \in S
  <2> SUFFICES ASSUME NEW x \in Nat, x < Pow2[0] PROVE AndBits[0][x][x] = x OBVIOUS
  <2>1. x = 0 BY Pow2Def
  <2>2. AndBits[0][x][x] = 0 BY AndBitsDef
  <2> QED BY <2>1, <2>2
<1>2. ASSUME NEW n \in Nat, n \in S PROVE n + 1 \in S
  <2> SUFFICES ASSUME NEW x \in Nat, x < Pow2[n + 1] PROVE AndBits[n + 1][x][x] = x
    OBVIOUS
  <2>1. Pow2[n] \in Nat /\ Pow2[n + 1] = 2 * Pow2[n] BY Pow2Def
  <2> DEFINE h == x \div 2
             b == x % 2
  <2>2. h \in Nat /\ b \in {0, 1} /\ x = 2 * h + b BY Halves
  <2>3. AndBits[n + 1][x][x] = b * b + 2 * AndBits[n][h][h] BY AndBitsDef
  <2> HIDE DEF h, b
  <2>4. AndBits[n][h][h] = h BY <1>2, <2>1, <2>2
  <2> QED BY <2>2, <2>3, <2>4
<1> HIDE DEF S
<1>3. Nat \subseteq S BY <1>1, <1>2, Induction
<1> QED BY <1>3 DEF S

\* The and with a power of two less one is the remainder.
LEMMA AndMask ==
  \A n \in Nat : \A x \in Nat, k \in 0..n : AndBits[n][x][Pow2[k] - 1] = x % Pow2[k]
<1> DEFINE S == {n \in Nat : \A x \in Nat, k \in 0..n :
                                AndBits[n][x][Pow2[k] - 1] = x % Pow2[k]}
<1>1. 0 \in S
  <2> SUFFICES ASSUME NEW x \in Nat, NEW k \in 0..0
               PROVE  AndBits[0][x][Pow2[k] - 1] = x % Pow2[k]
    OBVIOUS
  <2>1. k = 0 /\ Pow2[k] = 1 /\ x % 1 = 0 BY Pow2Def
  <2>2. AndBits[0][x][0] = 0 BY AndBitsDef
  <2> QED BY <2>1, <2>2
<1>2. ASSUME NEW n \in Nat, n \in S PROVE n + 1 \in S
  <2> SUFFICES ASSUME NEW x \in Nat, NEW k \in 0..(n + 1)
               PROVE  AndBits[n + 1][x][Pow2[k] - 1] = x % Pow2[k]
    OBVIOUS
  <2> DEFINE h == x \div 2
             b == x % 2
  <2>1. h \in Nat /\ b \in {0, 1} BY Halves
  <2>2. \A y \in Nat : AndBits[n + 1][x][y] = b * (y % 2) + 2 * AndBits[n][h][y \div 2]
    BY AndBitsDef
  <2> HIDE DEF h, b
  <2>3. CASE k = 0
    <3>1. Pow2[k] = 1 /\ 0 \in 0..n BY <2>3, Pow2Def
    <3>2. AndBits[n][h][0] = h % 1 BY <1>2, <2>1, <3>1, <2>3
    <3>3. AndBits[n + 1][x][0] = b * (0 % 2) + 2 * AndBits[n][h][0 \div 2] BY <2>2
    <3>4. 0 % 2 = 0 /\ 0 \div 2 = 0 /\ h % 1 = 0 /\ x % 1 = 0 BY <2>1
    <3> QED BY <2>1, <3>1, <3>2, <3>3, <3>4
  <2>4. CASE k # 0
    <3> DEFINE m == Pow2[k - 1]
    <3>1. k - 1 \in 0..n /\ k - 1 \in Nat BY <2>4
    <3>2. m \in Nat \ {0} /\ Pow2[k] = 2 * m
      <4>1. m \in Nat \ {0} BY <3>1, Pow2Grows
      <4>2. k - 1 + 1 = k BY <3>1
      <4> QED BY <3>1, <4>1, <4>2, Pow2Def
    <3>3. AndBits[n][h][m - 1] = h % m BY <1>2, <2>1, <3>1
    <3> HIDE DEF m
    <3>4. /\ 2 * m - 1 \in Nat /\ (2 * m - 1) % 2 = 1 /\ (2 * m - 1) \div 2 = m - 1
      BY <3>2
    <3>5. AndBits[n + 1][x][2 * m - 1] = b * 1 + 2 * (h % m) BY <2>2, <3>3, <3>4
    <3>6. x % (2 * m) = b + 2 * (h % m) BY <3>2, RemainderDoubled DEF b, h
    <3> QED BY <2>1, <3>2, <3>5, <3>6
  <2> QED BY <2>3, <2>4
<1> HIDE DEF S
<1>3. Nat \subseteq S BY <1>1, <1>2, Induction
<1> QED BY <1>3 DEF S

\* The and of a number and the one before it is zero for powers of two only.
LEMMA AndPrevious ==
  \A n \in Nat : \A w \in 1..(Pow2[n] - 1) :
      AndBits[n][w][w - 1] = 0 <=> \E k \in 0..(n - 1) : w = Pow2[k]
<1> DEFINE S == {n \in Nat : \A w \in 1..(Pow2[n] - 1) :
                    AndBits[n][w][w - 1] = 0 <=> \E k \in 0..(n - 1) : w = Pow2[k]}
<1>1. 0 \in S
  <2>1. 1..(Pow2[0] - 1) = {} BY Pow2Def
  <2> QED BY <2>1
<1>2. ASSUME NEW n \in Nat, n \in S PROVE n + 1 \in S
  <2> SUFFICES ASSUME NEW w \in 1..(Pow2[n + 1] - 1)
               PROVE  AndBits[n + 1][w][w - 1] = 0 <=> \E k \in 0..n : w = Pow2[k]
    OBVIOUS
  <2> DEFINE h == w \div 2
             b == w % 2
  <2>1. /\ Pow2[n] \in Nat \ {0} /\ Pow2[n + 1] = 2 * Pow2[n] /\ Pow2[0] = 1
        /\ \A k \in Nat : Pow2[k] \in Nat /\ Pow2[k + 1] = 2 * Pow2[k]
    <3>1. Pow2[n] \in Nat \ {0}
      <4>1. n <= n OBVIOUS
      <4> QED BY <4>1, Pow2Grows
    <3> QED BY <3>1, Pow2Def
  <2>2. w \in Nat /\ w - 1 \in Nat BY <2>1
  <2>3. h \in Nat /\ b \in {0, 1} /\ w = 2 * h + b BY <2>2, Halves
  <2>4. AndBits[n + 1][w][w - 1] = b * ((w - 1) % 2) + 2 * AndBits[n][h][(w - 1) \div 2]
    BY <2>2, AndBitsDef
  <2> HIDE DEF h, b
  <2>5. CASE b = 1
    <3>1. (w - 1) % 2 = 0 /\ (w - 1) \div 2 = h /\ h < Pow2[n] BY <2>1, <2>3, <2>5
    <3>2. AndBits[n + 1][w][w - 1] = 2 * h BY <2>3, <2>4, <2>5, <3>1, AndSame
    <3>3. h = 0 => w = Pow2[0] /\ 0 \in 0..n BY <2>1, <2>3, <2>5
    <3>4. ASSUME NEW k \in 0..n, w = Pow2[k] PROVE h = 0
      <4>1. CASE k = 0 BY <2>1, <2>3, <2>5, <3>4, <4>1
      <4>2. CASE k # 0
        <5>1. k - 1 \in Nat /\ k - 1 + 1 = k BY <4>2
        <5>2. Pow2[k - 1] \in Nat /\ w = 2 * Pow2[k - 1] BY <2>1, <3>4, <5>1
        <5> QED BY <2>3, <2>5, <5>2
      <4> QED BY <4>1, <4>2
    <3> QED BY <2>3, <3>2, <3>3, <3>4
  <2>6. CASE b = 0
    <3>1. /\ (w - 1) % 2 = 1 /\ (w - 1) \div 2 = h - 1
          /\ h \in 1..(Pow2[n] - 1)
      BY <2>1, <2>3, <2>6
    <3>2. AndBits[n][h][h - 1] \in Nat
      <4>1. h \in Nat /\ h - 1 \in Nat BY <2>1, <3>1
      <4> QED BY <4>1, AndType
    <3>3. AndBits[n + 1][w][w - 1] = 2 * AndBits[n][h][h - 1] BY <2>4, <2>6, <3>1, <3>2
    <3>4. AndBits[n][h][h - 1] = 0 <=> \E k \in 0..(n - 1) : h = Pow2[k] BY <1>2, <3>1
    <3>5. ASSUME NEW k \in 0..(n - 1), h = Pow2[k] PROVE k + 1 \in 0..n /\ w = Pow2[k + 1]
      BY <2>1, <2>3, <2>6, <3>5
    <3>6. ASSUME NEW k \in 0..n, w = Pow2[k] PROVE k - 1 \in 0..(n - 1) /\ h = Pow2[k - 1]
      <4>1. k # 0 BY <2>1, <2>3, <2>6, <3>6
      <4>2. k - 1 \in Nat /\ k - 1 + 1 = k BY <4>1
      <4>3. Pow2[k - 1] \in Nat /\ w = 2 * Pow2[k - 1] BY <2>1, <3>6, <4>2
      <4> QED BY <2>3, <2>6, <4>1, <4>3
    <3> QED BY <3>2, <3>3, <3>4, <3>5, <3>6
  <2> QED BY <2>3, <2>5, <2>6
<1> HIDE DEF S
<1>3. Nat \subseteq S BY <1>1, <1>2, Induction
<1> QED BY <1>3 DEF S

-----------------------------------------------------------------------------
(* The masks of the program.                                               *)

LEMMA WordFacts ==
  /\ W \in Nat /\ W - 1 \in Nat /\ W - 2 \in Nat /\ Sent \in Nat
  /\ Pow2[W] \in Nat \ {0} /\ Pow2[W - 1] \in Nat \ {0} /\ Pow2[Sent] \in Nat \ {0}
  /\ Pow2[W] = 2 * Pow2[W - 1] /\ Pow2[W - 1] = 2 * Pow2[W - 2]
  /\ 0 \in Words /\ Words \subseteq Nat
<1>1. W \in Nat /\ W - 1 \in Nat /\ W - 2 \in Nat /\ Sent \in Nat BY WidthAssumption
<1>2. Pow2[W] \in Nat \ {0} /\ Pow2[W - 1] \in Nat \ {0} /\ Pow2[Sent] \in Nat \ {0}
  <2>1. \A n \in Nat : n <= n OBVIOUS
  <2> QED BY <1>1, <2>1, Pow2Grows
<1>3. Pow2[W] = 2 * Pow2[W - 1] /\ Pow2[W - 1] = 2 * Pow2[W - 2]
  <2>1. W - 1 + 1 = W /\ W - 2 + 1 = W - 1 BY <1>1
  <2> QED BY <1>1, <2>1, Pow2Def
<1> QED BY <1>1, <1>2, <1>3 DEF Words

\* count - 1 does not wrap around, except for zero.
LEMMA Previous == ASSUME NEW w \in Words, w # 0 PROVE Minus1(w) = w - 1 /\ w - 1 \in Words
<1>1. Pow2[W] \in Nat \ {0} /\ w - 1 \in Nat /\ w - 1 < Pow2[W] BY WordFacts DEF Words
<1>2. w + Pow2[W] - 1 = 1 * Pow2[W] + (w - 1) BY <1>1, WordFacts
<1>3. (1 * Pow2[W] + (w - 1)) % Pow2[W] = w - 1 BY <1>1, Remainder
<1> QED BY <1>1, <1>2, <1>3 DEF Minus1, Words

\* New's test accepts the positive powers of two (simulate/server.go:50-51).
LEMMA AcceptsPower ==
  ASSUME NEW w \in Words
  PROVE  Accepts(w) <=> \E n \in 0..(W - 2) : w = Pow2[n]
<1>1. Positive(w) => w \in 1..(Pow2[W] - 1) /\ w # 0 BY WordFacts DEF Positive
<1>2. ASSUME w \in 1..(Pow2[W] - 1)
      PROVE  BitAnd(w, Minus1(w)) = 0 <=> \E n \in 0..(W - 1) : w = Pow2[n]
  <2>1. Minus1(w) = w - 1 BY <1>2, Previous
  <2> QED BY <1>2, <2>1, WordFacts, AndPrevious DEF BitAnd
<1>3. ASSUME NEW n \in 0..(W - 2), w = Pow2[n] PROVE Positive(w) /\ n \in 0..(W - 1)
  <2>1. n \in Nat /\ n <= W - 2 BY WordFacts
  <2>2. Pow2[n] \in Nat \ {0} /\ Pow2[n] <= Pow2[W - 2] BY <2>1, WordFacts, Pow2Grows
  <2>3. Pow2[W - 2] \in Nat BY WordFacts, Pow2Def
  <2>4. w <= Pow2[W - 1] - 1 BY <1>3, <2>2, <2>3, WordFacts
  <2>5. n \in 0..(W - 1) BY <2>1, WordFacts
  <2>6. w \in Nat \ {0} /\ Pow2[W - 1] \in Nat BY <1>3, <2>2, WordFacts
  <2> QED BY <2>4, <2>5, <2>6 DEF Positive
<1>4. ASSUME NEW n \in 0..(W - 1), w = Pow2[n], Positive(w) PROVE n \in 0..(W - 2)
  <2>1. n # W - 1 BY <1>4, WordFacts DEF Positive
  <2> QED BY <2>1, WordFacts
<1>5. ASSUME Positive(w), BitAnd(w, Minus1(w)) = 0 PROVE \E n \in 0..(W - 2) : w = Pow2[n]
  <2>1. PICK n \in 0..(W - 1) : w = Pow2[n] BY <1>1, <1>2, <1>5
  <2> QED BY <1>4, <1>5, <2>1
<1>6. ASSUME NEW n \in 0..(W - 2), w = Pow2[n] PROVE BitAnd(w, Minus1(w)) = 0
  BY <1>1, <1>2, <1>3, <1>6
<1> QED BY <1>3, <1>5, <1>6 DEF Accepts

\* An id masked by an accepted count less one is its remainder.
LEMMA MaskedIsRemainder ==
  ASSUME NEW id \in Words, NEW w \in Words, Accepts(w)
  PROVE  BitAnd(id, Minus1(w)) = id % w /\ id % w \in Words /\ w \in Nat \ {0}
<1>1. PICK n \in 0..(W - 2) : w = Pow2[n] BY AcceptsPower
<1>2. n \in 0..W /\ w # 0 /\ w \in Nat
  <2>1. n \in Nat /\ n <= n /\ n \in 0..W BY WordFacts
  <2>2. Pow2[n] \in Nat \ {0} BY <2>1, Pow2Grows
  <2> QED BY <1>1, <2>1, <2>2
<1>3. BitAnd(id, Minus1(w)) = id % w
  <2>1. Minus1(w) = Pow2[n] - 1 BY <1>1, <1>2, Previous
  <2> QED BY <1>1, <1>2, <2>1, WordFacts, AndMask DEF BitAnd
<1>4. id % w \in 0..(w - 1) BY <1>2, WordFacts
<1>5. id % w \in Words
  <2>1. w <= Pow2[W] - 1 /\ Pow2[W] \in Nat BY WordFacts DEF Words
  <2> HIDE DEF Words
  <2>2. id % w \in 0..(Pow2[W] - 1) BY <1>2, <1>4, <2>1
  <2> QED BY <2>2 DEF Words
<1> QED BY <1>2, <1>3, <1>5

-----------------------------------------------------------------------------
(* The invariants.                                                         *)

\* What New decided, and that New and ToHandle mean the same mask.
Decided ==
    /\ server = "refused" => ~Accepts(count)
    /\ server = "running" => Accepts(count) /\ mask = Minus1(count)

\* The low bits of the id are the index, the key and what is sent.
Masked ==
    \A p \in {pkg, prev} :
        /\ p.sent = p.id % Pow2[Sent]
        /\ server = "running" => p.index = p.id % count /\ p.key = p.id % count
        /\ server # "running" => p.id = 0 /\ p.index = 0 /\ p.key = 0

MaskInv == TypeOK /\ Decided /\ Masked

LEMMA MaskInit == Init => MaskInv
BY WordFacts DEF Init, MaskInv, TypeOK, Decided, Masked, Package

LEMMA MaskStep == MaskInv /\ [Next]_vars => MaskInv'
<1> SUFFICES ASSUME MaskInv, [Next]_vars PROVE MaskInv' OBVIOUS
<1> USE DEF MaskInv
<1>1. CASE New
  <2>1. count # 0 /\ 0 % count = 0 /\ count \in Words /\ Accepts(count)
    BY <1>1, WordFacts DEF New, TypeOK, Accepts, Positive
  <2>2. Minus1(count) \in Words BY <2>1, Previous
  <2>3. TypeOK' BY <1>1, <2>2 DEF New, TypeOK
  <2>4. Decided' BY <1>1 DEF New, Decided, Accepts
  <2>5. Masked' BY <1>1, <2>1 DEF New, Masked
  <2> QED BY <2>3, <2>4, <2>5
<1>2. CASE NewRefuses
  <2>1. TypeOK' BY <1>2 DEF NewRefuses, TypeOK
  <2>2. Decided' BY <1>2 DEF NewRefuses, Decided, Accepts
  <2>3. Masked' BY <1>2 DEF NewRefuses, Masked
  <2> QED BY <2>1, <2>2, <2>3
<1>3. ASSUME NEW id \in Words, Handle(id) PROVE MaskInv'
  <2>1. /\ Index(id) = id % count /\ PoolKey(id) = id % count /\ id % count \in Words
    BY <1>3, MaskedIsRemainder DEF Handle, TypeOK, Decided, Index, PoolKey
  <2>2. /\ pkg'.id = id /\ pkg'.index = id % count /\ pkg'.key = id % count
        /\ pkg'.sent = id % Pow2[Sent] /\ prev' = pkg
        /\ server = "running" /\ UNCHANGED <<server, count, mask>>
    BY <1>3, <2>1 DEF Handle, Package
  <2>3. TypeOK' BY <2>1, <2>2 DEF TypeOK
  <2>4. Decided' BY <2>2 DEF Decided, Accepts
  <2>5. Masked' BY <2>2 DEF Masked
  <2> QED BY <2>3, <2>4, <2>5
<1>4. CASE UNCHANGED vars BY <1>4 DEF vars, TypeOK, Decided, Masked, Accepts
<1> QED BY <1>1, <1>2, <1>3, <1>4 DEF Next

LEMMA MaskInvariant == Spec => []MaskInv
BY MaskInit, MaskStep, PTL DEF Spec

\* Types: indices and pool keys are words.
THEOREM TypeCorrect == Spec => []TypeOK
BY MaskInvariant, PTL DEF MaskInv

\* New accepts the positive powers of two and nothing else, for words of any
\* width (simulate/server.go:50-51).
THEOREM PowersOfTwo == Spec => []AcceptsPowersOfTwo
<1>1. MaskInv => AcceptsPowersOfTwo
  <2> SUFFICES ASSUME MaskInv PROVE AcceptsPowersOfTwo OBVIOUS
  <2>1. Accepts(count) <=> \E n \in 0..(W - 2) : count = Pow2[n]
    BY AcceptsPower DEF MaskInv, TypeOK
  <2> QED BY <2>1 DEF MaskInv, Decided, AcceptsPowersOfTwo
<1> QED BY <1>1, MaskInvariant, PTL

\* The index is the remainder by the count, which Dispatcher's Index takes it
\* for (simulate/handle.go:75).
THEOREM IndexRemainder == Spec => []IndexIsRemainder
<1>1. MaskInv => IndexIsRemainder BY DEF MaskInv, Masked, IndexIsRemainder
<1> QED BY <1>1, MaskInvariant, PTL

\* Packages with the same pool key have the same worker, which Forwarder's one
\* writer per key rests on (simulate/handle.go:75, grpc/server.go:191).
THEOREM OneWorkerPerKey == Spec => []KeyHasOneWorker
<1>1. MaskInv => KeyHasOneWorker BY DEF MaskInv, Masked, KeyHasOneWorker
<1> QED BY <1>1, MaskInvariant, PTL

\* Packages sent under the same key have the same worker, for counts no larger
\* than the keys that are sent (simulate/handle.go:75, grpc/server.go:234-238).
THEOREM OneWorkerPerSentKey == Spec => []SentKeyHasOneWorker
<1>1. ASSUME MaskInv, count <= Pow2[Sent], pkg.sent = prev.sent PROVE pkg.index = prev.index
  <2>1. CASE server = "running"
    <3>1. PICK n \in 0..(W - 2) : count = Pow2[n]
      BY <1>1, <2>1, AcceptsPower DEF MaskInv, TypeOK, Decided
    <3>2. n \in Nat /\ Pow2[n] \in Nat /\ Pow2[Sent + 1] = 2 * Pow2[Sent]
      BY <3>1, WordFacts, Pow2Def
    <3>3. n <= Sent
      <4> SUFFICES ASSUME ~(n <= Sent) PROVE FALSE OBVIOUS
      <4>1. Sent + 1 \in Nat /\ Sent + 1 <= n BY <3>2, WordFacts
      <4>2. Pow2[Sent + 1] <= Pow2[n] BY <3>2, <4>1, Pow2Grows
      <4> QED BY <1>1, <3>1, <3>2, <4>2, WordFacts
    <3>4. PICK c \in Nat \ {0} : Pow2[Sent] = c * Pow2[n] /\ Pow2[n] \in Nat \ {0}
      BY <3>2, <3>3, WordFacts, Pow2Grows
    <3>5. \A id \in Words : (id % Pow2[Sent]) % count = id % count
      <4> SUFFICES ASSUME NEW id \in Words PROVE (id % Pow2[Sent]) % count = id % count
        OBVIOUS
      <4>1. id \in Nat BY WordFacts
      <4>2. (id % (c * Pow2[n])) % Pow2[n] = id % Pow2[n] BY <3>4, <4>1, RemainderTwice
      <4> QED BY <3>1, <3>4, <4>2
    <3>6. \A p \in {pkg, prev} : p.id \in Words /\ p.sent = p.id % Pow2[Sent] /\ p.index = p.id % count
      BY <1>1, <2>1 DEF MaskInv, TypeOK, Masked
    <3> QED BY <1>1, <3>5, <3>6
  <2>2. CASE server # "running" BY <1>1, <2>2 DEF MaskInv, Masked
  <2> QED BY <2>1, <2>2
<1>2. MaskInv => SentKeyHasOneWorker BY <1>1 DEF SentKeyHasOneWorker
<1> QED BY <1>2, MaskInvariant, PTL
=============================================================================
