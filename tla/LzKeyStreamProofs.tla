-------------------------- MODULE LzKeyStreamProofs --------------------------
(***************************************************************************)
(* Theorems about LzKeyStream, for every block size, radix, number of      *)
(* digits and size of the file: the key stream that starts at any offset   *)
(* is the one that starts at offset 0, and what was written in pieces      *)
(* reads back in one pass.                                                 *)
(***************************************************************************)
EXTENDS LzKeyStream, WellFoundedInduction, FiniteSetTheorems, TLAPS

-----------------------------------------------------------------------------
(***************************************************************************)
(* Induction, for a set of naturals instead of a predicate.                *)
(***************************************************************************)
LEMMA Induction ==
    ASSUME NEW T, 0 \in T, \A n \in Nat : n \in T => n + 1 \in T
    PROVE  \A n \in Nat : n \in T
  <1> SUFFICES ASSUME NEW m \in Nat, m \notin T PROVE FALSE
    OBVIOUS
  <1> DEFINE U == Nat \ T
  <1>1. U \subseteq Nat /\ U # {}
    OBVIOUS
  <1>2. \E x \in U : \A y \in U : ~(<<y, x>> \in OpToRel(<, Nat))
    <2> HIDE DEF U
    <2> QED
      BY <1>1, NatLessThanWellFounded, WFMin
  <1>3. PICK x \in U : \A y \in U : ~(y < x)
    BY <1>1, <1>2 DEF OpToRel
  <1>4. x \in Nat /\ x # 0
    BY <1>1
  <1>5. x - 1 \in Nat /\ x - 1 \notin U
    BY <1>3, <1>4
  <1> QED
    BY <1>3, <1>4, <1>5

\* g lists x and what F makes of it in up to m steps.
IsOrbit(g, S, F, x, m) ==
    /\ g \in [0..m -> S]
    /\ g = [n \in 0..m |-> IF n = 0 THEN x ELSE F[g[n - 1]]]

\* There is such a list, of any length.
LEMMA OrbitExists ==
    ASSUME NEW S, NEW F, \A y \in S : F[y] \in S, NEW x \in S
    PROVE  \A m \in Nat : \E g : IsOrbit(g, S, F, x, m)
  <1> DEFINE T == {m \in Nat : \E g : IsOrbit(g, S, F, x, m)}
  <1>1. 0 \in T
    <2> DEFINE g == [n \in 0..0 |-> x]
    <2>1. IsOrbit(g, S, F, x, 0)
      BY DEF IsOrbit
    <2> QED
      BY <2>1
  <1>2. ASSUME NEW m \in Nat, m \in T PROVE m + 1 \in T
    <2>1. PICK g : IsOrbit(g, S, F, x, m)
      BY <1>2
    <2> DEFINE h == [n \in 0..(m + 1) |-> IF n = m + 1 THEN F[g[m]] ELSE g[n]]
    <2>2. g \in [0..m -> S] /\ F[g[m]] \in S
      BY <2>1 DEF IsOrbit
    <2>3. h \in [0..(m + 1) -> S]
      BY <2>2
    <2>4. ASSUME NEW n \in 0..(m + 1)
          PROVE  h[n] = IF n = 0 THEN x ELSE F[h[n - 1]]
      <3>1. CASE n = m + 1
        BY <3>1
      <3>2. CASE n # m + 1
        <4>1. n \in 0..m
          BY <3>2
        <4>2. g[n] = IF n = 0 THEN x ELSE F[g[n - 1]]
          BY <2>1, <4>1 DEF IsOrbit
        <4>3. h[n] = g[n] /\ (n # 0 => h[n - 1] = g[n - 1])
          BY <4>1
        <4> QED
          BY <4>2, <4>3
      <3> QED
        BY <3>1, <3>2
    <2>5. h = [n \in 0..(m + 1) |-> IF n = 0 THEN x ELSE F[h[n - 1]]]
      <3> HIDE DEF h
      <3> QED
        BY <2>3, <2>4
    <2>6. IsOrbit(h, S, F, x, m + 1)
      <3> HIDE DEF h
      <3> QED
        BY <2>3, <2>5 DEF IsOrbit
    <2> QED
      BY <2>6
  <1> HIDE DEF T
  <1>3. \A m \in Nat : m \in T
    BY <1>1, <1>2, Induction
  <1> QED
    BY <1>3 DEF T

\* Two such lists agree as far as both go.
LEMMA OrbitUnique ==
    ASSUME NEW S, NEW F, NEW x, NEW m \in Nat, NEW k \in Nat, NEW g, NEW h,
           IsOrbit(g, S, F, x, m), IsOrbit(h, S, F, x, k)
    PROVE  \A n \in Nat : n <= m /\ n <= k => g[n] = h[n]
  <1> DEFINE T == {n \in Nat : n <= m /\ n <= k => g[n] = h[n]}
  <1>0. /\ \A n \in 0..m : g[n] = IF n = 0 THEN x ELSE F[g[n - 1]]
        /\ \A n \in 0..k : h[n] = IF n = 0 THEN x ELSE F[h[n - 1]]
    BY DEF IsOrbit
  <1>1. 0 \in T
    BY <1>0
  <1>2. ASSUME NEW n \in Nat, n \in T PROVE n + 1 \in T
    <2> SUFFICES ASSUME n + 1 <= m, n + 1 <= k PROVE g[n + 1] = h[n + 1]
      OBVIOUS
    <2>1. g[n] = h[n]
      BY <1>2
    <2>2. g[n + 1] = F[g[n]] /\ h[n + 1] = F[h[n]]
      <3>1. n + 1 \in 0..m /\ n + 1 \in 0..k /\ n + 1 # 0 /\ (n + 1) - 1 = n
        OBVIOUS
      <3> QED
        BY <1>0, <3>1
    <2> QED
      BY <2>1, <2>2
  <1> HIDE DEF T
  <1>3. \A n \in Nat : n \in T
    BY <1>1, <1>2, Induction
  <1> QED
    BY <1>3 DEF T

-----------------------------------------------------------------------------
(***************************************************************************)
(* Division.                                                               *)
(***************************************************************************)
\* A smaller factor, and a whole R less.
LEMMA MulMono ==
    ASSUME NEW R \in Nat, NEW a \in Int, NEW b \in Int, a < b
    PROVE  R * a + R <= R * b
  <1>1. PICK c \in Nat : b = a + 1 + c
    <2>1. b - a - 1 \in Nat /\ b = a + 1 + (b - a - 1)
      OBVIOUS
    <2> QED
      BY <2>1
  <1>2. R * b = R * a + R + R * c
    BY <1>1
  <1>3. R * c \in Nat /\ R * a \in Int
    OBVIOUS
  <1> QED
    BY <1>2, <1>3

\* Quotient and remainder.
LEMMA Quotient ==
    ASSUME NEW R \in Nat, R > 0, NEW x \in Nat
    PROVE  /\ x \div R \in Nat /\ x % R \in 0..(R - 1) /\ x % R \in Nat
           /\ x = R * (x \div R) + (x % R)
  <1>1. x \div R \in Nat /\ x % R \in 0..(R - 1) /\ x % R \in Nat
    OBVIOUS
  <1>2. x = R * (x \div R) + (x % R)
    OBVIOUS
  <1> QED
    BY <1>1, <1>2

\* No other numbers are quotient and remainder.
LEMMA QuotientUnique ==
    ASSUME NEW R \in Nat, R > 0, NEW q \in Nat, NEW r \in 0..(R - 1)
    PROVE  (R * q + r) \div R = q /\ (R * q + r) % R = r
  <1> DEFINE x == R * q + r
  <1>1. x \in Nat /\ R * q \in Int
    OBVIOUS
  <1>2. /\ x \div R \in Nat /\ x % R \in 0..(R - 1)
        /\ x = R * (x \div R) + (x % R)
    BY <1>1, Quotient
  <1>3. R * (x \div R) \in Int
    BY <1>2
  <1>4. ~(x \div R < q)
    <2> SUFFICES ASSUME x \div R < q PROVE FALSE
      OBVIOUS
    <2>1. R * (x \div R) + R <= R * q
      BY <1>2, MulMono
    <2> HIDE DEF x
    <2> QED
      BY <2>1, <1>1, <1>2, <1>3 DEF x
  <1>5. ~(q < x \div R)
    <2> SUFFICES ASSUME q < x \div R PROVE FALSE
      OBVIOUS
    <2>1. R * q + R <= R * (x \div R)
      BY <1>2, MulMono
    <2> QED
      BY <2>1, <1>1, <1>2, <1>3
  <1> QED
    BY <1>1, <1>2, <1>4, <1>5

\* The quotient moves when the remainder is the last one, and only then.
LEMMA QuotientNext ==
    ASSUME NEW R \in Nat, R > 0, NEW x \in Nat
    PROVE  (x + 1) \div R = (x \div R) + IF x % R = R - 1 THEN 1 ELSE 0
  <1> DEFINE q == x \div R
             r == x % R
  <1>1. q \in Nat /\ r \in 0..(R - 1) /\ x = R * q + r /\ R * q \in Nat
    BY Quotient
  <1>2. CASE r = R - 1
    <2>1. x + 1 = R * (q + 1) + 0
      BY <1>1, <1>2
    <2> QED
      BY <2>1, <1>1, <1>2, QuotientUnique
  <1>3. CASE r # R - 1
    <2>1. x + 1 = R * q + (r + 1) /\ r + 1 \in 0..(R - 1)
      BY <1>1, <1>3
    <2> QED
      BY <2>1, <1>1, <1>3, QuotientUnique
  <1> QED
    BY <1>2, <1>3

\* The remainder counts round.
LEMMA RemainderNext ==
    ASSUME NEW R \in Nat, R > 0, NEW x \in Nat
    PROVE  (x + 1) % R = ((x % R) + 1) % R
  <1> DEFINE q == x \div R
             r == x % R
  <1>1. q \in Nat /\ r \in 0..(R - 1) /\ x = R * q + r /\ R * q \in Nat
    BY Quotient
  <1>2. CASE r = R - 1
    <2>1. x + 1 = R * (q + 1) + 0 /\ r + 1 = R * 1 + 0
      BY <1>1, <1>2
    <2>2. 0 \in 0..(R - 1) /\ q + 1 \in Nat
      BY <1>1
    <2> HIDE DEF q, r
    <2>3. (x + 1) % R = 0
      BY <2>1, <2>2, QuotientUnique
    <2>4. (r + 1) % R = 0
      BY <2>1, <2>2, QuotientUnique
    <2> QED
      BY <2>3, <2>4 DEF r
  <1>3. CASE r # R - 1
    <2>1. x + 1 = R * q + (r + 1) /\ r + 1 = R * 0 + (r + 1) /\ r + 1 \in 0..(R - 1)
      BY <1>1, <1>3
    <2> HIDE DEF q, r
    <2>2. (x + 1) % R = r + 1
      BY <2>1, <1>1, QuotientUnique
    <2>3. (r + 1) % R = r + 1
      BY <2>1, QuotientUnique
    <2> QED
      BY <2>2, <2>3 DEF r
  <1> QED
    BY <1>2, <1>3

\* Division keeps the order.
LEMMA QuotientMono ==
    ASSUME NEW R \in Nat, R > 0, NEW x \in Nat, NEW y \in Nat, x <= y
    PROVE  x \div R <= y \div R
  <1>1. /\ x \div R \in Nat /\ x % R \in 0..(R - 1) /\ x = R * (x \div R) + (x % R)
        /\ y \div R \in Nat /\ y % R \in 0..(R - 1) /\ y = R * (y \div R) + (y % R)
        /\ R * (x \div R) \in Int /\ R * (y \div R) \in Int
    BY Quotient
  <1> SUFFICES ASSUME y \div R < x \div R PROVE FALSE
    BY <1>1
  <1>2. R * (y \div R) + R <= R * (x \div R)
    BY <1>1, MulMono
  <1> QED
    BY <1>1, <1>2

\* From the remainder of o on, i places lead where they lead from o.
LEMMA QuotientAdds ==
    ASSUME NEW R \in Nat, R > 0, NEW o \in Nat, NEW i \in Nat
    PROVE  /\ (o \div R) + (((o % R) + i) \div R) = (o + i) \div R
           /\ ((o % R) + i) % R = (o + i) % R
  <1> DEFINE q == o \div R
             z == (o % R) + i
             p == z \div R
             r == z % R
  <1>1. q \in Nat /\ o % R \in Nat /\ o = R * q + (o % R)
    BY Quotient
  <1>2. z \in Nat
    BY <1>1
  <1>3. p \in Nat /\ r \in 0..(R - 1) /\ z = R * p + r
    <2> HIDE DEF z
    <2> QED
      BY <1>2, Quotient
  <1>4. o + i = R * (q + p) + r
    <2>1. o + i = R * q + z
      <3>1. R * q \in Nat
        BY <1>1
      <3> QED
        BY <1>1, <3>1
    <2>2. R * (q + p) = R * q + R * p
      BY <1>1, <1>3
    <2>3. R * q \in Nat /\ R * p \in Nat
      BY <1>1, <1>3
    <2> HIDE DEF q, z, p, r
    <2> QED
      BY <1>1, <1>2, <1>3, <2>1, <2>2, <2>3
  <1>5. (o + i) \div R = q + p /\ (o + i) % R = r
    <2>1. q + p \in Nat /\ r \in 0..(R - 1) /\ o + i = R * (q + p) + r
      BY <1>1, <1>3, <1>4
    <2> DEFINE t == q + p
    <2> HIDE DEF q, p, r, t
    <2>2. t \in Nat /\ r \in 0..(R - 1) /\ o + i = R * t + r
      BY <2>1 DEF t
    <2>3. (R * t + r) \div R = t /\ (R * t + r) % R = r
      BY <2>2, QuotientUnique
    <2> QED
      BY <2>2, <2>3 DEF t
  <1> QED
    BY <1>5

-----------------------------------------------------------------------------
(***************************************************************************)
(* The digits of a block number.                                           *)
(***************************************************************************)
Shorter == [b \in Nat |-> b \div Radix]

\* The constants are numbers.
LEMMA Sizes ==
    /\ Block \in Nat /\ Block > 0 /\ Half \in Nat /\ Half > 0 /\ DataSize \in Nat /\ DataSize > 0
    /\ Radix \in Nat /\ Radix > 1 /\ Digits \in Nat /\ Digits = 2 * Half
  BY KeyStreamAssumption DEF Digits

\* Shift lists the shortenings of a number.
LEMMA ShiftOrbit ==
    ASSUME NEW b \in Nat, NEW n \in Nat
    PROVE  \E s : IsOrbit(s, Nat, Shorter, b, n) /\ Shift(b, n) = s[n]
  <1> DEFINE Lists(s) == s = [i \in 0..n |-> IF i = 0 THEN b ELSE s[i - 1] \div Radix]
  <1>1. \A y \in Nat : Shorter[y] \in Nat /\ Shorter[y] = y \div Radix
    BY Sizes, Quotient DEF Shorter
  <1>2. \E s : Lists(s)
    <2>1. PICK s : IsOrbit(s, Nat, Shorter, b, n)
      BY <1>1, OrbitExists
    <2>2. \A i \in 0..n : i # 0 => s[i - 1] \in Nat
      <3>1. s \in [0..n -> Nat]
        BY <2>1 DEF IsOrbit
      <3>2. \A i \in 0..n : i # 0 => i - 1 \in 0..n
        OBVIOUS
      <3> QED
        BY <3>1, <3>2
    <2>3. \A i \in 0..n : (IF i = 0 THEN b ELSE Shorter[s[i - 1]])
                            = IF i = 0 THEN b ELSE s[i - 1] \div Radix
      BY <1>1, <2>2
    <2>4. Lists(s)
      BY <2>1, <2>3 DEF IsOrbit
    <2> QED
      BY <2>4
  <1>3. PICK s : Lists(s) /\ Shift(b, n) = s[n]
    BY <1>2 DEF Shift
  <1>4. \A i \in 0..n : s[i] = IF i = 0 THEN b ELSE s[i - 1] \div Radix
    BY <1>3
  <1>5. \A i \in Nat : i <= n => s[i] \in Nat
    <2> DEFINE T == {i \in Nat : i <= n => s[i] \in Nat}
    <2>1. 0 \in T
      BY <1>4
    <2>2. ASSUME NEW i \in Nat, i \in T PROVE i + 1 \in T
      <3> SUFFICES ASSUME i + 1 <= n PROVE s[i + 1] \in Nat
        OBVIOUS
      <3>1. s[i] \in Nat
        BY <2>2
      <3>2. i + 1 \in 0..n /\ i + 1 # 0 /\ (i + 1) - 1 = i
        OBVIOUS
      <3>3. s[i + 1] = s[i] \div Radix
        BY <1>4, <3>2
      <3> QED
        BY <3>1, <3>3, Sizes, Quotient
    <2> HIDE DEF T
    <2>3. \A i \in Nat : i \in T
      BY <2>1, <2>2, Induction
    <2> QED
      BY <2>3 DEF T
  <1>6. IsOrbit(s, Nat, Shorter, b, n)
    <2>1. \A i \in 0..n : i # 0 => s[i - 1] \in Nat
      BY <1>5
    <2>2. \A i \in 0..n : (IF i = 0 THEN b ELSE Shorter[s[i - 1]])
                            = IF i = 0 THEN b ELSE s[i - 1] \div Radix
      BY <1>1, <2>1
    <2>3. s = [i \in 0..n |-> IF i = 0 THEN b ELSE Shorter[s[i - 1]]]
      BY <1>3, <2>2
    <2>4. s \in [0..n -> Nat]
      BY <1>3, <1>5
    <2> QED
      BY <2>3, <2>4 DEF IsOrbit
  <1> QED
    BY <1>3, <1>6

\* What Shift computes, one digit at a time.
LEMMA ShiftStep ==
    ASSUME NEW b \in Nat
    PROVE  /\ Shift(b, 0) = b
           /\ \A n \in Nat : /\ Shift(b, n) \in Nat
                             /\ Shift(b, n + 1) = Shift(b, n) \div Radix
  <1>1. Shift(b, 0) = b
    <2>1. PICK s : IsOrbit(s, Nat, Shorter, b, 0) /\ Shift(b, 0) = s[0]
      BY ShiftOrbit
    <2> QED
      BY <2>1 DEF IsOrbit
  <1>2. ASSUME NEW n \in Nat
        PROVE  Shift(b, n) \in Nat /\ Shift(b, n + 1) = Shift(b, n) \div Radix
    <2>1. PICK s : IsOrbit(s, Nat, Shorter, b, n) /\ Shift(b, n) = s[n]
      BY ShiftOrbit
    <2>2. PICK t : IsOrbit(t, Nat, Shorter, b, n + 1) /\ Shift(b, n + 1) = t[n + 1]
      BY ShiftOrbit
    <2>3. s[n] = t[n]
      BY <2>1, <2>2, OrbitUnique
    <2>4. s[n] \in Nat
      BY <2>1 DEF IsOrbit
    <2>5. t[n + 1] = Shorter[t[n]]
      <3>1. n + 1 \in 0..(n + 1) /\ n + 1 # 0 /\ (n + 1) - 1 = n
        OBVIOUS
      <3>2. \A i \in 0..(n + 1) : t[i] = IF i = 0 THEN b ELSE Shorter[t[i - 1]]
        BY <2>2 DEF IsOrbit
      <3> QED
        BY <3>1, <3>2
    <2> QED
      BY <2>1, <2>2, <2>3, <2>4, <2>5 DEF Shorter
  <1> QED
    BY <1>1, <1>2

\* Shortening keeps the order, so every block number of the file has Half digits.
LEMMA ShiftMono ==
    ASSUME NEW b \in Nat, NEW c \in Nat, b <= c
    PROVE  \A n \in Nat : Shift(b, n) <= Shift(c, n)
  <1> DEFINE T == {n \in Nat : Shift(b, n) <= Shift(c, n)}
  <1>1. 0 \in T
    BY ShiftStep
  <1>2. ASSUME NEW n \in Nat, n \in T PROVE n + 1 \in T
    <2>1. Shift(b, n) \in Nat /\ Shift(c, n) \in Nat /\ Shift(b, n) <= Shift(c, n)
      BY <1>2, ShiftStep
    <2>2. Shift(b, n) \div Radix <= Shift(c, n) \div Radix
      BY <2>1, Sizes, QuotientMono
    <2> QED
      BY <2>2, ShiftStep
  <1> HIDE DEF T
  <1>3. \A n \in Nat : n \in T
    BY <1>1, <1>2, Induction
  <1> QED
    BY <1>3 DEF T

\* The number of a block fits the lower half of the counter.
Fits(b) == b \in Nat /\ Shift(b, Half) = 0

\* The block of every byte of the file does.
LEMMA BlocksFit ==
    ASSUME NEW x \in 0..(DataSize - 1)
    PROVE  x \div Block \in Nat /\ Fits(x \div Block)
  <1>1. x \in Nat /\ DataSize - 1 \in Nat /\ x <= DataSize - 1
    BY Sizes
  <1>2. /\ x \div Block \in Nat /\ (DataSize - 1) \div Block \in Nat
        /\ x \div Block <= (DataSize - 1) \div Block
    BY <1>1, Sizes, Quotient, QuotientMono
  <1>3. Shift(x \div Block, Half) <= 0 /\ Shift(x \div Block, Half) \in Nat
    <2> DEFINE b == x \div Block
               c == (DataSize - 1) \div Block
    <2>1. b \in Nat /\ c \in Nat /\ b <= c /\ Shift(c, Half) = 0
      BY <1>2, BlocksAssumption
    <2> HIDE DEF b, c
    <2>2. Shift(b, Half) <= 0 /\ Shift(b, Half) \in Nat
      BY <2>1, Sizes, ShiftMono, ShiftStep
    <2> QED
      BY <2>2 DEF b
  <1> QED
    BY <1>2, <1>3 DEF Fits

\* The last n digits of b are the highest digit.
Full(b, n) == \A i \in Nat : i < n => Shift(b, i) % Radix = Radix - 1

\* A carry comes to digit n when all behind it are full.
LEMMA Carry ==
    ASSUME NEW b \in Nat
    PROVE  \A n \in Nat : Shift(b + 1, n) = Shift(b, n) + IF Full(b, n) THEN 1 ELSE 0
  <1> DEFINE T == {n \in Nat : Shift(b + 1, n) = Shift(b, n) + IF Full(b, n) THEN 1 ELSE 0}
  <1>1. 0 \in T
    BY ShiftStep DEF Full
  <1>2. ASSUME NEW n \in Nat, n \in T PROVE n + 1 \in T
    <2> DEFINE x == Shift(b, n)
    <2>1. x \in Nat /\ Shift(b, n + 1) = x \div Radix
      BY ShiftStep
    <2>2. Shift(b + 1, n + 1) = Shift(b + 1, n) \div Radix
      BY ShiftStep
    <2>3. Full(b, n + 1) <=> Full(b, n) /\ x % Radix = Radix - 1
      BY DEF Full
    <2>4. CASE Full(b, n)
      <3>1. Shift(b + 1, n) = x + 1
        BY <1>2, <2>4
      <3>2. (x + 1) \div Radix = (x \div Radix) + IF x % Radix = Radix - 1 THEN 1 ELSE 0
        BY <2>1, Sizes, QuotientNext
      <3> HIDE DEF x
      <3> QED
        BY <2>1, <2>2, <2>3, <2>4, <3>1, <3>2
    <2>5. CASE ~Full(b, n)
      <3>1. Shift(b + 1, n) = x + 0
        BY <1>2, <2>5
      <3> HIDE DEF x
      <3>2. x \div Radix \in Nat
        BY <2>1, Sizes, Quotient
      <3> QED
        BY <2>1, <2>2, <2>3, <2>5, <3>1, <3>2
    <2> QED
      BY <2>4, <2>5
  <1> HIDE DEF T
  <1>3. \A n \in Nat : n \in T
    BY <1>1, <1>2, Induction
  <1> QED
    BY <1>3 DEF T

\* The digits of a counter, each in range.
LEMMA CounterDigits ==
    ASSUME NEW b \in Nat
    PROVE  /\ IV(b) \in [1..Digits -> 0..(Radix - 1)]
           /\ \A d \in 1..Digits :
                 /\ d <= Half => IV(b)[d] = 0
                 /\ d > Half => Digits - d \in Nat /\ IV(b)[d] = Shift(b, Digits - d) % Radix
  <1>1. \A d \in 1..Digits : Digits - d \in Nat /\ d \in Nat
    BY Sizes
  <1>2. \A d \in 1..Digits : Shift(b, Digits - d) \in Nat
    BY <1>1, ShiftStep
  <1>3. \A d \in 1..Digits : Shift(b, Digits - d) % Radix \in 0..(Radix - 1)
    BY <1>2, Sizes, Quotient
  <1>4. 0 \in 0..(Radix - 1)
    BY Sizes
  <1> QED
    BY <1>1, <1>3, <1>4, Sizes DEF IV

\* What the cipher makes of the counter of a block is the counter of the next.
LEMMA IncrementIV ==
    ASSUME NEW b \in Nat, Fits(b + 1)
    PROVE  Increment(IV(b)) = IV(b + 1)
  <1>0. b + 1 \in Nat
    OBVIOUS
  <1>1. ~Full(b, Half)
    <2>1. Shift(b + 1, Half) = Shift(b, Half) + IF Full(b, Half) THEN 1 ELSE 0
      BY Sizes, Carry
    <2>2. Shift(b, Half) \in Nat /\ Shift(b + 1, Half) = 0
      BY Sizes, ShiftStep DEF Fits
    <2> QED
      BY <2>1, <2>2
  <1>2. ASSUME NEW d \in 1..Digits
        PROVE  (IF \A e \in (d + 1)..Digits : IV(b)[e] = Radix - 1
                THEN (IV(b)[d] + 1) % Radix ELSE IV(b)[d]) = IV(b + 1)[d]
    <2>0. d \in Nat /\ Digits \in Nat /\ Half \in Nat /\ Digits = 2 * Half
      BY Sizes
    <2>1. CASE d > Half
      <3> DEFINE n == Digits - d
      <3>1. n \in Nat /\ n < Half
        BY <2>0, <2>1
      <3>2. (\A e \in (d + 1)..Digits : IV(b)[e] = Radix - 1) <=> Full(b, n)
        <4>1. ASSUME Full(b, n), NEW e \in (d + 1)..Digits PROVE IV(b)[e] = Radix - 1
          <5>1. e \in 1..Digits /\ e > Half /\ Digits - e \in Nat /\ Digits - e < n
            BY <2>0, <2>1
          <5> QED
            BY <4>1, <5>1, CounterDigits DEF Full
        <4>2. ASSUME \A e \in (d + 1)..Digits : IV(b)[e] = Radix - 1, NEW i \in Nat, i < n
              PROVE  Shift(b, i) % Radix = Radix - 1
          <5>1. /\ Digits - i \in (d + 1)..Digits /\ Digits - i \in 1..Digits
                /\ Digits - i > Half /\ Digits - (Digits - i) = i
            BY <2>0, <2>1, <4>2
          <5>2. IV(b)[Digits - i] = Shift(b, Digits - (Digits - i)) % Radix
            BY <5>1, CounterDigits
          <5> QED
            BY <4>2, <5>1, <5>2
        <4> QED
          BY <4>1, <4>2 DEF Full
      <3> DEFINE x == Shift(b, n)
      <3>3. x \in Nat /\ IV(b)[d] = x % Radix /\ IV(b + 1)[d] = Shift(b + 1, n) % Radix
        BY <1>0, <2>1, <3>1, ShiftStep, CounterDigits
      <3>4. Shift(b + 1, n) = x + IF Full(b, n) THEN 1 ELSE 0
        BY <3>1, Carry
      <3> HIDE DEF x, n
      <3>5. (x + 1) % Radix = ((x % Radix) + 1) % Radix
        <4>1. x \in Nat /\ Radix \in Nat /\ Radix > 0
          BY <3>3, Sizes
        <4> QED
          BY <4>1, RemainderNext
      <3>6. CASE Full(b, n)
        BY <3>2, <3>3, <3>4, <3>5, <3>6
      <3>7. CASE ~Full(b, n)
        BY <3>2, <3>3, <3>4, <3>7
      <3> QED
        BY <3>6, <3>7
    <2>2. CASE d <= Half
      <3>1. PICK i \in Nat : i < Half /\ Shift(b, i) % Radix # Radix - 1
        BY <1>1 DEF Full
      <3>2. /\ Digits - i \in (d + 1)..Digits /\ Digits - i \in 1..Digits
            /\ Digits - i > Half /\ Digits - (Digits - i) = i
        BY <2>0, <2>2, <3>1
      <3>3. IV(b)[Digits - i] = Shift(b, Digits - (Digits - i)) % Radix
        BY <3>2, CounterDigits
      <3>4. ~(\A e \in (d + 1)..Digits : IV(b)[e] = Radix - 1)
        BY <3>1, <3>2, <3>3
      <3>5. IV(b)[d] = 0 /\ IV(b + 1)[d] = 0
        BY <1>0, <2>2, CounterDigits
      <3> QED
        BY <3>4, <3>5
    <2> QED
      BY <2>0, <2>1, <2>2
  <1>3. IV(b + 1) = [d \in 1..Digits |-> IV(b + 1)[d]]
    BY <1>0, CounterDigits
  <1>4. Increment(IV(b)) = [d \in 1..Digits |-> IV(b + 1)[d]]
    BY <1>2 DEF Increment
  <1> QED
    BY <1>3, <1>4

\* No two blocks have the same counter.
LEMMA CountersDiffer ==
    ASSUME NEW b \in Nat, NEW c \in Nat, Fits(b), Fits(c), IV(b) = IV(c)
    PROVE  b = c
  <1> DEFINE T == {j \in Nat : j <= Half => Shift(b, Half - j) = Shift(c, Half - j)}
  <1>1. 0 \in T
    BY Sizes DEF Fits
  <1>2. ASSUME NEW j \in Nat, j \in T PROVE j + 1 \in T
    <2> SUFFICES ASSUME j + 1 <= Half
                 PROVE  Shift(b, Half - (j + 1)) = Shift(c, Half - (j + 1))
      OBVIOUS
    <2> DEFINE n == Half - (j + 1)
               d == Digits - n
               x == Shift(b, n)
               y == Shift(c, n)
    <2>1. n \in Nat /\ n + 1 = Half - j /\ d \in 1..Digits /\ d > Half /\ Digits - d = n
      BY Sizes
    <2>2. x \div Radix = y \div Radix
      <3>1. Shift(b, n + 1) = Shift(c, n + 1)
        <4>1. Shift(b, Half - j) = Shift(c, Half - j)
          BY <1>2, Sizes
        <4> QED
          BY <2>1, <4>1
      <3> QED
        BY <2>1, <3>1, ShiftStep
    <2>3. x % Radix = y % Radix
      <3>1. IV(b)[d] = Shift(b, Digits - d) % Radix /\ IV(c)[d] = Shift(c, Digits - d) % Radix
        BY <2>1, CounterDigits
      <3> QED
        BY <2>1, <3>1
    <2>4. x \in Nat /\ y \in Nat
      BY <2>1, ShiftStep
    <2> HIDE DEF x, y
    <2>5. x = Radix * (x \div Radix) + (x % Radix) /\ y = Radix * (y \div Radix) + (y % Radix)
      BY <2>4, Sizes, Quotient
    <2>6. x = y
      BY <2>2, <2>3, <2>5
    <2> QED
      BY <2>6 DEF x, y
  <1> HIDE DEF T
  <1>3. \A j \in Nat : j \in T
    BY <1>1, <1>2, Induction
  <1>4. Half \in T /\ Half - Half = 0 /\ Half <= Half
    BY <1>3, Sizes
  <1> QED
    BY <1>4, ShiftStep DEF T

-----------------------------------------------------------------------------
(***************************************************************************)
(* The key stream.                                                         *)
(***************************************************************************)
\* The byte of the key stream at offset x of the file.
KeyByte(k, x) == <<k, IV(x \div Block), x % Block>>

\* A cipher started at block b gives the counters of the blocks from b on.
LEMMA StreamFrom ==
    ASSUME NEW k, NEW b \in Nat, NEW j \in Nat, Fits(b + (j \div Block))
    PROVE  StreamByte(k, IV(b), j) = <<k, IV(b + (j \div Block)), j % Block>>
  <1> DEFINE m == j \div Block
             Lists(c) == c = [n \in 0..m |-> IF n = 0 THEN IV(b) ELSE Increment(c[n - 1])]
  <1>1. m \in Nat
    BY Sizes, Quotient
  <1>2. ASSUME NEW n \in 0..m, n # 0 PROVE Increment(IV(b + (n - 1))) = IV(b + n)
    <2> DEFINE x == b + (n - 1)
               y == b + m
    <2>1. x \in Nat /\ x + 1 = b + n /\ y \in Nat /\ x + 1 <= y
      BY <1>1, <1>2
    <2>2. Shift(y, Half) = 0
      BY DEF Fits
    <2> HIDE DEF x, y
    <2>3. Shift(x + 1, Half) <= Shift(y, Half) /\ Shift(x + 1, Half) \in Nat
      BY <2>1, Sizes, ShiftMono, ShiftStep
    <2>4. Fits(x + 1)
      BY <2>1, <2>2, <2>3 DEF Fits
    <2>5. Increment(IV(x)) = IV(x + 1)
      BY <2>1, <2>4, IncrementIV
    <2> QED
      BY <2>1, <2>5 DEF x
  <1>3. \E c : Lists(c)
    <2> DEFINE g == [n \in 0..m |-> IV(b + n)]
    <2>1. ASSUME NEW n \in 0..m
          PROVE  g[n] = IF n = 0 THEN IV(b) ELSE Increment(g[n - 1])
      <3>1. CASE n = 0
        <4>1. b + 0 = b
          OBVIOUS
        <4> QED
          BY <3>1, <4>1
      <3>2. CASE n # 0
        <4>1. n - 1 \in 0..m
          BY <1>1, <3>2
        <4> QED
          BY <1>2, <3>2, <4>1
      <3> QED
        BY <3>1, <3>2
    <2>2. g = [n \in 0..m |-> g[n]]
      OBVIOUS
    <2>3. Lists(g)
      <3> HIDE DEF g, m
      <3> QED
        BY <2>1, <2>2
    <2> QED
      BY <2>3
  <1>4. PICK c : Lists(c) /\ StreamByte(k, IV(b), j) = <<k, c[m], j % Block>>
    BY <1>3 DEF StreamByte
  <1>5. \A n \in 0..m : c[n] = IF n = 0 THEN IV(b) ELSE Increment(c[n - 1])
    BY <1>4
  <1> DEFINE T == {n \in Nat : n <= m => c[n] = IV(b + n)}
  <1>6. 0 \in T
    <2>1. b + 0 = b /\ 0 \in 0..m
      BY <1>1
    <2> QED
      BY <1>5, <2>1
  <1>7. ASSUME NEW n \in Nat, n \in T PROVE n + 1 \in T
    <2> SUFFICES ASSUME n + 1 <= m PROVE c[n + 1] = IV(b + (n + 1))
      OBVIOUS
    <2>1. n + 1 \in 0..m /\ n + 1 # 0 /\ (n + 1) - 1 = n /\ n <= m
      BY <1>1
    <2>2. c[n] = IV(b + n)
      BY <1>7, <2>1
    <2>3. c[n + 1] = Increment(c[n])
      BY <1>5, <2>1
    <2>4. Increment(IV(b + n)) = IV(b + (n + 1))
      BY <1>2, <2>1
    <2> QED
      BY <2>2, <2>3, <2>4
  <1> HIDE DEF T
  <1>8. \A n \in Nat : n \in T
    BY <1>6, <1>7, Induction
  <1>9. c[m] = IV(b + m)
    BY <1>1, <1>8 DEF T
  <1> QED
    BY <1>4, <1>9

\* The byte at offset + i, for a cipher started at the block of offset.
LEMMA StreamAt ==
    ASSUME NEW k, NEW offset \in Nat, NEW i \in Nat, offset + i < DataSize
    PROVE  StreamByte(k, IV(offset \div Block), (offset % Block) + i) = KeyByte(k, offset + i)
  <1> DEFINE x == offset + i
             b == offset \div Block
             j == (offset % Block) + i
  <1>1. x \in 0..(DataSize - 1)
    BY Sizes
  <1>2. x \div Block \in Nat /\ Fits(x \div Block)
    BY <1>1, BlocksFit
  <1>3. b \in Nat /\ j \in Nat
    BY Sizes, Quotient
  <1>4. b + (j \div Block) = x \div Block /\ j % Block = x % Block
    BY Sizes, QuotientAdds
  <1> HIDE DEF x, b, j
  <1>5. StreamByte(k, IV(b), j) = KeyByte(k, x)
    BY <1>2, <1>3, <1>4, StreamFrom DEF KeyByte
  <1> QED
    BY <1>5 DEF x, b, j

\* What lz_crypto_process adds to the byte at offset + i of a piece that starts
\* at offset is the byte of the one key stream of the file: it depends on where
\* the byte lies and not on where the piece begins.
THEOREM PiecesOfOneStream ==
    \A k : \A offset, i \in Nat : offset + i < DataSize =>
        StreamByte(k, IV(offset \div Block), (offset % Block) + i)
          = StreamByte(k, IV(0), offset + i)
  <1> SUFFICES ASSUME NEW k, NEW offset \in Nat, NEW i \in Nat, offset + i < DataSize
               PROVE  KeyByte(k, offset + i) = StreamByte(k, IV(0), offset + i)
    BY StreamAt
  <1> DEFINE x == offset + i
  <1>1. x \in 0..(DataSize - 1) /\ x \in Nat
    BY Sizes
  <1>2. x \div Block \in Nat /\ Fits(x \div Block) /\ 0 + (x \div Block) = x \div Block
    BY <1>1, BlocksFit
  <1> HIDE DEF x
  <1>3. StreamByte(k, IV(0), x) = KeyByte(k, x)
    BY <1>1, <1>2, StreamFrom DEF KeyByte
  <1> QED
    BY <1>3 DEF x

-----------------------------------------------------------------------------
(***************************************************************************)
(* The inductive invariant.                                                *)
(***************************************************************************)
Area == 0..(DataSize - 1)
AnyPassword == Passwords \cup {NoPassword}
Messages == [off : Nat, len : Nat, pw : AnyPassword, ok : BOOLEAN]

\* The plain byte b at x, under password q, which may be none, and salt s.
Ciphered(b, q, s, x) ==
    [is |-> b, under |-> IF q = NoPassword THEN {} ELSE {KeyByte(DeriveKey(q, s), x)}]

\* Where the messages end: before a range under way, and before the padding.
End == IF pc = "copy" \/ used > DataSize THEN off ELSE used

\* The types, and at most one key-stream byte on every byte.
KeyStreamTypes ==
    /\ used \in Nat /\ off \in Nat /\ len \in Nat
    /\ salt \in Salts \cup {NoSalt} /\ pw \in AnyPassword /\ pws \subseteq AnyPassword
    /\ key = (IF pw = NoPassword THEN NoKey ELSE DeriveKey(pw, salt))
    /\ pc \in {"closed", "open", "copy", "encrypt", "pad", "encrypt_pad", "full"}
    /\ spoiled \in BOOLEAN
    /\ msgs \in Seq(Messages)
    /\ data = [x \in Area |-> data[x]]
    /\ \A x \in Area : data[x].under = {} \/ \E s : data[x].under = {s}

\* The range under way, in the file: a message up to used_size, or the rest of
\* the area behind the last message that fitted.
RangeInFile ==
    /\ off <= used /\ off + len <= DataSize
    /\ pc \in {"copy", "encrypt"} => off + len = used /\ len > 0
    /\ pc \in {"pad", "encrypt_pad"} => off + len = DataSize
    /\ pc \in {"pad", "encrypt_pad", "full"} => used > DataSize
    /\ pc \in {"open", "copy", "encrypt"} => used <= DataSize
    /\ pc \in {"encrypt", "encrypt_pad"} => key # NoKey
    /\ pc = "closed" => pw = NoPassword
    /\ pws # {} => used > 0
    /\ used > DataSize => off > 0

\* The messages lie one behind the other.
MessagesInOrder ==
    /\ \A m \in DOMAIN msgs : /\ msgs[m].len > 0 /\ msgs[m].off + msgs[m].len <= End
                              /\ msgs[m].pw \in pws
    /\ \A m, n \in DOMAIN msgs : m < n => msgs[m].off + msgs[m].len <= msgs[n].off

\* What was answered is there, under its password and the salt of the file.
AnsweredCiphered ==
    \A m \in DOMAIN msgs : msgs[m].ok =>
        \A x \in Bytes(m) : data[x] = Ciphered(<<m, x - msgs[m].off>>, msgs[m].pw, salt, x)

\* Before its encryption a range is plain.
CopiedPlain ==
    /\ pc = "encrypt" =>
          /\ Len(msgs) > 0 /\ ~msgs[Len(msgs)].ok
          /\ msgs[Len(msgs)].off = off /\ msgs[Len(msgs)].len = len /\ msgs[Len(msgs)].pw = pw
          /\ \A x \in off..(off + len - 1) : data[x] = Plain(<<Len(msgs), x - off>>)
    /\ pc = "encrypt_pad" =>
          pw \in pws /\ \A x \in Area : x >= off => data[x] = Plain(Zero)

\* Unless a call failed or was cut off, the messages fill the file up to their
\* end, and all are answered but the one under way.
Filled ==
    ~spoiled => /\ \A x \in Area : x < End => \E m \in DOMAIN msgs : x \in Bytes(m)
                /\ \A m \in DOMAIN msgs : msgs[m].ok \/ (pc = "encrypt" /\ m = Len(msgs))

\* The padding is zeros under the one password of the file.
PaddedZero ==
    ~spoiled /\ used > DataSize /\ pc \in {"closed", "full"} =>
        \A p \in AnyPassword : pws = {p} =>
            \A x \in Area : x >= off => data[x] = Ciphered(Zero, p, salt, x)

\* The inductive invariant of Spec.
KeyStreamInv == /\ KeyStreamTypes /\ RangeInFile /\ MessagesInOrder /\ AnsweredCiphered
                /\ CopiedPlain /\ Filled /\ PaddedZero

-----------------------------------------------------------------------------
(***************************************************************************)
(* Bytes.                                                                  *)
(***************************************************************************)
Byte(b, u) == [is |-> b, under |-> u]

\* A byte is the plain one and what lies on it.
LEMMA ByteFields ==
    ASSUME NEW b, NEW u
    PROVE  /\ Byte(b, u).is = b /\ Byte(b, u).under = u
           /\ \A v : [Byte(b, u) EXCEPT !.under = v] = Byte(b, v)
           /\ Plain(b) = Byte(b, {})
  BY DEF Byte, Plain

\* lz_crypto_process changes what lies on a byte, by one byte of the key stream.
LEMMA ProcessToggles ==
    ASSUME NEW k, NEW b, NEW u, NEW v, NEW offset \in Nat, NEW i \in Nat,
           offset + i < DataSize,
           v = IF KeyByte(k, offset + i) \in u THEN u \ {KeyByte(k, offset + i)}
                                               ELSE u \cup {KeyByte(k, offset + i)}
    PROVE  Process(k, Byte(b, u), offset, i) = Byte(b, v)
  <1> DEFINE s == StreamByte(k, IV(offset \div Block), (offset % Block) + i)
             t == KeyByte(k, offset + i)
  <1>1. s = t
    BY StreamAt
  <1>2. Process(k, Byte(b, u), offset, i) =
           IF s \in Byte(b, u).under THEN [Byte(b, u) EXCEPT !.under = Byte(b, u).under \ {s}]
                                     ELSE [Byte(b, u) EXCEPT !.under = Byte(b, u).under \cup {s}]
    BY DEF Process
  <1> HIDE DEF s, t
  <1>3. Byte(b, u).under = u
    BY ByteFields, Zenon
  <1>4. v = IF s \in u THEN u \ {s} ELSE u \cup {s}
    BY <1>1 DEF t
  <1>5. Process(k, Byte(b, u), offset, i) = [Byte(b, u) EXCEPT !.under = v]
    BY <1>2, <1>3, <1>4, Zenon
  <1> QED
    BY <1>5, Zenon DEF Byte

\* It puts the byte of the key stream on a plain byte and takes it off again.
LEMMA ProcessByte ==
    ASSUME NEW k, NEW b, NEW offset \in Nat, NEW i \in Nat, offset + i < DataSize
    PROVE  /\ Process(k, Byte(b, {}), offset, i) = Byte(b, {KeyByte(k, offset + i)})
           /\ Process(k, Byte(b, {KeyByte(k, offset + i)}), offset, i) = Byte(b, {})
  <1> DEFINE t == KeyByte(k, offset + i)
  <1>1. /\ {t} = IF t \in {} THEN {} \ {t} ELSE {} \cup {t}
        /\ {} = IF t \in {t} THEN {t} \ {t} ELSE {t} \cup {t}
    OBVIOUS
  <1> QED
    BY <1>1, ProcessToggles

\* A byte under a password, and no longer.
LEMMA CipheredByte ==
    ASSUME NEW b, NEW q, NEW s, NEW offset \in Nat, NEW x \in Nat, offset <= x, x < DataSize
    PROVE  /\ Plain(b) = Ciphered(b, NoPassword, s, x)
           /\ q # NoPassword =>
                 /\ Process(DeriveKey(q, s), Plain(b), offset, x - offset) = Ciphered(b, q, s, x)
                 /\ Process(DeriveKey(q, s), Ciphered(b, q, s, x), 0, x) = Plain(b)
  <1>1. /\ x - offset \in Nat /\ offset + (x - offset) = x /\ 0 + x = x
        /\ 0 \in Nat /\ DataSize \in Nat
    BY Sizes
  <1>2. Plain(b) = Byte(b, {}) /\ Ciphered(b, NoPassword, s, x) = Byte(b, {})
    BY DEF Plain, Byte, Ciphered
  <1>3. CASE q # NoPassword
    <2>1. Ciphered(b, q, s, x) = Byte(b, {KeyByte(DeriveKey(q, s), x)})
      BY <1>3 DEF Byte, Ciphered
    <2> DEFINE k == DeriveKey(q, s)
    <2> HIDE DEF k
    <2>2. Process(k, Byte(b, {}), offset, x - offset) = Byte(b, {KeyByte(k, x)})
      <3> DEFINE i == x - offset
      <3>1. i \in Nat /\ offset + i = x
        BY <1>1
      <3> HIDE DEF i
      <3>2. Process(k, Byte(b, {}), offset, i) = Byte(b, {KeyByte(k, offset + i)})
        BY <3>1, ProcessByte
      <3> QED
        BY <3>1, <3>2 DEF i
    <2>3. Process(k, Byte(b, {KeyByte(k, x)}), 0, x) = Byte(b, {})
      <3>1. Process(k, Byte(b, {KeyByte(k, 0 + x)}), 0, x) = Byte(b, {})
        BY <1>1, ProcessByte
      <3> QED
        BY <1>1, <3>1
    <2> QED
      BY <1>2, <2>1, <2>2, <2>3 DEF k
  <1> QED
    BY <1>2, <1>3

\* The pass over the whole file takes the password off.
LEMMA CipheredReads ==
    ASSUME NEW b, NEW q, q # NoPassword, NEW s, NEW x \in Nat, x < DataSize
    PROVE  Process(DeriveKey(q, s), Ciphered(b, q, s, x), 0, x) = Plain(b)
  <1> DEFINE o == 0
  <1>1. o \in Nat /\ o <= x
    OBVIOUS
  <1> HIDE DEF o
  <1> QED
    BY <1>1, CipheredByte

\* What lies on a byte.
LEMMA CipheredUnder ==
    ASSUME NEW b, NEW q, NEW s, NEW x
    PROVE  /\ Plain(b).under = {}
           /\ Ciphered(b, q, s, x).under = {} \/ \E t : Ciphered(b, q, s, x).under = {t}
  <1>1. Plain(b).under = {}
    BY DEF Plain
  <1>2. CASE q = NoPassword
    BY <1>1, <1>2 DEF Ciphered
  <1>3. CASE q # NoPassword
    <2>1. Ciphered(b, q, s, x).under = {KeyByte(DeriveKey(q, s), x)}
      BY <1>3 DEF Ciphered
    <2> QED
      BY <1>1, <2>1
  <1> QED
    BY <1>1, <1>2, <1>3

-----------------------------------------------------------------------------
(***************************************************************************)
(* Messages, and the invariant over the steps.                             *)
(***************************************************************************)
Message(o, n, q, ok) == [off |-> o, len |-> n, pw |-> q, ok |-> ok]
Answered(r) == [r EXCEPT !.ok = TRUE]

\* The fields of a message.
LEMMA MessageFields ==
    ASSUME NEW o \in Nat, NEW n \in Nat, NEW q \in AnyPassword, NEW ok \in BOOLEAN
    PROVE  /\ Message(o, n, q, ok) \in Messages
           /\ Message(o, n, q, ok).off = o /\ Message(o, n, q, ok).len = n
           /\ Message(o, n, q, ok).pw = q /\ Message(o, n, q, ok).ok = ok
  BY DEF Message, Messages

\* The types of the fields.
LEMMA MessageTypes ==
    ASSUME NEW r \in Messages
    PROVE  r.off \in Nat /\ r.len \in Nat /\ r.pw \in AnyPassword /\ r.ok \in BOOLEAN
  BY DEF Messages

\* An answer changes nothing else of a message.
LEMMA AnsweredFields ==
    ASSUME NEW r \in Messages
    PROVE  /\ Answered(r) \in Messages
           /\ Answered(r).off = r.off /\ Answered(r).len = r.len /\ Answered(r).pw = r.pw
           /\ Answered(r).ok = TRUE
  BY DEF Answered, Messages

\* What the invariant says about numbers.
LEMMA KeyStreamFacts ==
    ASSUME KeyStreamInv
    PROVE  /\ used \in Nat /\ off \in Nat /\ len \in Nat /\ DataSize \in Nat /\ DataSize > 0
           /\ End \in Nat /\ End <= DataSize /\ End <= used
           /\ Len(msgs) \in Nat /\ DOMAIN msgs = 1..Len(msgs)
           /\ \A m \in DOMAIN msgs : /\ msgs[m] \in Messages /\ msgs[m].off \in Nat
                                     /\ msgs[m].len \in Nat /\ msgs[m].pw \in AnyPassword
                                     /\ msgs[m].off + msgs[m].len <= End
           /\ \A m \in DOMAIN msgs : \A x \in Bytes(m) :
                 x \in Nat /\ x \in Area /\ msgs[m].off <= x /\ x < End
           /\ used = 0 => DOMAIN msgs = {}
           /\ (key = NoKey <=> pw = NoPassword)
  <1> USE DEF KeyStreamInv
  <1>1. /\ used \in Nat /\ off \in Nat /\ len \in Nat /\ DataSize \in Nat /\ DataSize > 0
        /\ Len(msgs) \in Nat /\ DOMAIN msgs = 1..Len(msgs) /\ msgs \in Seq(Messages)
    BY Sizes DEF KeyStreamTypes
  <1>2. End \in Nat /\ End <= DataSize /\ End <= used
    BY <1>1 DEF RangeInFile, End
  <1>3. \A m \in DOMAIN msgs : msgs[m] \in Messages
    BY <1>1
  <1>4. \A m \in DOMAIN msgs : /\ msgs[m].off \in Nat /\ msgs[m].len \in Nat
                               /\ msgs[m].pw \in AnyPassword
    BY <1>3, MessageTypes
  <1>5. \A m \in DOMAIN msgs : msgs[m].off + msgs[m].len <= End /\ msgs[m].len > 0
    BY DEF MessagesInOrder
  <1>6. \A m \in DOMAIN msgs : \A x \in Bytes(m) :
           x \in Nat /\ x \in Area /\ msgs[m].off <= x /\ x < End
    BY <1>1, <1>2, <1>4, <1>5 DEF Bytes, Area
  <1>7. used = 0 => DOMAIN msgs = {}
    BY <1>1, <1>2, <1>4, <1>5
  <1>8. key = NoKey <=> pw = NoPassword
    BY DEF KeyStreamTypes, NoKey, DeriveKey
  <1> QED
    BY <1>1, <1>2, <1>3, <1>4, <1>5, <1>6, <1>7, <1>8

\* An empty file.
LEMMA InitKeyStreamInv == Init => KeyStreamInv
  <1> SUFFICES ASSUME Init PROVE KeyStreamInv
    OBVIOUS
  <1>1. msgs = <<>> /\ DOMAIN msgs = {} /\ msgs \in Seq(Messages)
    BY DEF Init
  <1>2. data = [x \in Area |-> data[x]] /\ \A x \in Area : data[x] = Plain(Zero)
    BY DEF Init, Area
  <1>3. KeyStreamTypes
    BY <1>1, <1>2, CipheredUnder DEF Init, KeyStreamTypes, AnyPassword
  <1>4. RangeInFile /\ MessagesInOrder /\ AnsweredCiphered /\ CopiedPlain
    BY <1>1, Sizes DEF Init, RangeInFile, MessagesInOrder, AnsweredCiphered, CopiedPlain
  <1>5. Filled /\ PaddedZero
    BY <1>1, Sizes DEF Init, Filled, PaddedZero, End, Area
  <1> QED
    BY <1>3, <1>4, <1>5 DEF KeyStreamInv

\* Steps that leave messages and bytes alone: the file is opened and closed, or
\* the process ends.
Idle == OpenPlain \/ (\E p \in Passwords : OpenEncrypted(p)) \/ OpenFails \/ OpenPassesBy
        \/ Close \/ Crash \/ UNCHANGED vars

\* A salt is replaced only in a file without messages, and whatever cuts a call
\* off is remembered.
LEMMA IdleMoves ==
    ASSUME KeyStreamInv, Idle
    PROVE  /\ UNCHANGED <<used, data, off, len, msgs, pws>>
           /\ salt' \in Salts \cup {NoSalt} /\ (salt' = salt \/ used = 0)
           /\ pw' \in AnyPassword
           /\ key' = (IF pw' = NoPassword THEN NoKey ELSE DeriveKey(pw', salt'))
           /\ \/ pc' = pc /\ UNCHANGED <<key, pw, spoiled>>
              \/ /\ pc = "closed" /\ pc' = "open" /\ used < DataSize /\ spoiled' = spoiled
              \/ /\ pc' = "closed" /\ pw' = NoPassword /\ salt' = salt
                 /\ spoiled' = (spoiled \/ pc \notin {"open", "full"})
  <1>1. /\ salt \in Salts \cup {NoSalt} /\ pw \in AnyPassword
        /\ key = (IF pw = NoPassword THEN NoKey ELSE DeriveKey(pw, salt))
        /\ pc = "closed" => pw = NoPassword
        /\ NoPassword \in AnyPassword /\ NoPassword \notin Passwords /\ spoiled \in BOOLEAN
    BY KeyStreamAssumption DEF KeyStreamInv, KeyStreamTypes, RangeInFile, AnyPassword
  <1>2. SaltAtOpen \subseteq Salts \cup {NoSalt} /\ \A s \in SaltAtOpen : s = salt \/ used = 0
    BY <1>1 DEF SaltAtOpen
  <1>3. CASE OpenPlain
    BY <1>1, <1>3 DEF OpenPlain, file, history
  <1>4. CASE \E p \in Passwords : OpenEncrypted(p)
    BY <1>1, <1>2, <1>4 DEF OpenEncrypted, AnyPassword, history
  <1>5. CASE OpenFails
    <2>1. /\ UNCHANGED <<used, data, off, len, msgs, pws, pc, key, pw, spoiled>>
          /\ pc = "closed" /\ salt' \in SaltAtOpen \cup {salt}
      BY <1>5 DEF OpenFails, history
    <2> QED
      BY <1>1, <1>2, <2>1
  <1>6. CASE OpenPassesBy \/ UNCHANGED vars
    BY <1>1, <1>6 DEF OpenPassesBy, vars, file, history
  <1>7. CASE Close \/ Crash
    <2>1. /\ Shut /\ spoiled' = (spoiled \/ pc \notin {"open", "full"})
      BY <1>1, <1>7 DEF Close, Crash
    <2> QED
      BY <1>1, <2>1 DEF Shut, file
  <1> QED
    BY <1>3, <1>4, <1>5, <1>6, <1>7 DEF Idle

\* None of these steps breaks the invariant.
LEMMA IdleKeeps ==
    ASSUME KeyStreamInv, Idle
    PROVE  KeyStreamInv'
  <1>0. /\ KeyStreamTypes /\ RangeInFile /\ MessagesInOrder /\ AnsweredCiphered
        /\ CopiedPlain /\ Filled /\ PaddedZero
    BY DEF KeyStreamInv
  <1>1. KeyStreamTypes'
    BY <1>0, IdleMoves DEF KeyStreamTypes
  <1>2. RangeInFile'
    BY <1>0, IdleMoves, KeyStreamFacts DEF RangeInFile
  <1>3. End <= End' /\ End' \in Nat
    BY <1>0, IdleMoves, KeyStreamFacts DEF End, RangeInFile
  <1>4. MessagesInOrder'
    BY <1>0, <1>3, IdleMoves, KeyStreamFacts DEF MessagesInOrder
  <1>5. AnsweredCiphered'
    <2>1. CASE salt' = salt
      BY <1>0, <2>1, IdleMoves DEF AnsweredCiphered, Bytes
    <2>2. CASE used = 0
      BY <2>2, IdleMoves, KeyStreamFacts DEF AnsweredCiphered
    <2> QED
      BY <2>1, <2>2, IdleMoves
  <1>6. CopiedPlain'
    BY <1>0, IdleMoves DEF CopiedPlain
  <1>7. Filled'
    <2> SUFFICES ASSUME ~spoiled' PROVE Filled'
      BY DEF Filled
    <2>1. ~spoiled /\ (pc' = pc \/ pc \in {"closed", "open", "full"})
      BY <1>0, IdleMoves DEF KeyStreamTypes
    <2>2. End' = End /\ (pc = "encrypt" => pc' = "encrypt")
      BY <1>0, <2>1, IdleMoves DEF End
    <2> QED
      BY <1>0, <2>1, <2>2, IdleMoves DEF Filled, Bytes
  <1>8. PaddedZero'
    <2> SUFFICES ASSUME ~spoiled', used > DataSize, pc' \in {"closed", "full"} PROVE PaddedZero'
      BY IdleMoves DEF PaddedZero
    <2>1. ~spoiled /\ pc \in {"closed", "full"} /\ salt' = salt
      <3>1. used # 0 /\ pc # "open"
        BY <1>0, KeyStreamFacts DEF RangeInFile
      <3>2. salt' = salt
        BY <3>1, IdleMoves
      <3>3. ~spoiled /\ (pc' = pc \/ pc \in {"closed", "open", "full"})
        BY <1>0, IdleMoves DEF KeyStreamTypes
      <3> QED
        BY <3>1, <3>2, <3>3
    <2> QED
      BY <1>0, <2>1, IdleMoves DEF PaddedZero
  <1> QED
    BY <1>1, <1>2, <1>4, <1>5, <1>6, <1>7, <1>8 DEF KeyStreamInv

\* A range is taken: the messages end where it begins.
LEMMA TakeKeeps ==
    ASSUME KeyStreamInv, \E n \in Lens : Reserve(n) \/ Overflow(n)
    PROVE  KeyStreamInv'
  <1>0. /\ KeyStreamTypes /\ RangeInFile /\ MessagesInOrder /\ AnsweredCiphered
        /\ CopiedPlain /\ Filled /\ PaddedZero
    BY DEF KeyStreamInv
  <1>1. PICK n \in Lens : Reserve(n) \/ Overflow(n)
    OBVIOUS
  <1>2. n \in Nat /\ n > 0 /\ n <= DataSize
    BY KeyStreamAssumption, KeyStreamFacts
  <1>3. /\ pc = "open" /\ used' = used + n /\ off' = used
        /\ UNCHANGED <<salt, data, key, pw, msgs, pws, spoiled>>
        /\ \/ pc' = "copy" /\ used' <= DataSize /\ len' = n
           \/ /\ pc' = "pad" /\ used' > DataSize /\ used < DataSize /\ len' = DataSize - used
           \/ /\ pc' = "full" /\ used' > DataSize /\ used >= DataSize /\ len' = 0
    <2>1. used \in Nat /\ DataSize \in Nat
      BY KeyStreamFacts
    <2>2. CASE Reserve(n)
      BY <2>1, <2>2 DEF Reserve, history
    <2>3. CASE Overflow(n)
      BY <1>2, <2>1, <2>3 DEF Overflow, history
    <2> QED
      BY <1>1, <2>2, <2>3
  <1>4. used <= DataSize /\ End = used /\ End' = End
    BY <1>0, <1>2, <1>3, KeyStreamFacts DEF RangeInFile, End
  <1>5. KeyStreamTypes'
    <2>1. used' \in Nat /\ off' \in Nat /\ len' \in Nat
      BY <1>2, <1>3, KeyStreamFacts
    <2>2. pc' \in {"closed", "open", "copy", "encrypt", "pad", "encrypt_pad", "full"}
      BY <1>3
    <2> QED
      BY <1>0, <1>3, <2>1, <2>2 DEF KeyStreamTypes
  <1>6. RangeInFile'
    BY <1>0, <1>2, <1>3, <1>4, KeyStreamFacts DEF RangeInFile
  <1>7. MessagesInOrder' /\ AnsweredCiphered' /\ CopiedPlain'
    BY <1>0, <1>3, <1>4 DEF MessagesInOrder, AnsweredCiphered, CopiedPlain, Bytes
  <1>8. Filled'
    BY <1>0, <1>3, <1>4 DEF Filled, Bytes
  <1>9. PaddedZero'
    <2>1. pc' = "full" => \A x \in Area : ~(x >= off')
      BY <1>3, KeyStreamFacts DEF Area
    <2> QED
      BY <1>3, <2>1 DEF PaddedZero
  <1> QED
    BY <1>5, <1>6, <1>7, <1>8, <1>9 DEF KeyStreamInv

\* A call that fails leaves all bytes, and is remembered.
LEMMA FailureKeeps ==
    ASSUME KeyStreamInv, EncryptFails \/ EncryptPadFails
    PROVE  KeyStreamInv'
  <1>0. /\ KeyStreamTypes /\ RangeInFile /\ MessagesInOrder /\ AnsweredCiphered
        /\ CopiedPlain /\ Filled /\ PaddedZero
    BY DEF KeyStreamInv
  <1>1. /\ UNCHANGED <<used, salt, data, key, pw, off, len, msgs, pws>> /\ spoiled' = TRUE
        /\ \/ pc = "encrypt" /\ pc' = "open"
           \/ pc = "encrypt_pad" /\ pc' = "full"
    BY DEF EncryptFails, EncryptPadFails, file
  <1>2. End' = End
    BY <1>1 DEF End
  <1>3. KeyStreamTypes' /\ RangeInFile'
    BY <1>0, <1>1 DEF KeyStreamTypes, RangeInFile
  <1>4. MessagesInOrder' /\ AnsweredCiphered' /\ CopiedPlain'
    BY <1>0, <1>1, <1>2 DEF MessagesInOrder, AnsweredCiphered, CopiedPlain, Bytes
  <1>5. Filled' /\ PaddedZero'
    BY <1>1 DEF Filled, PaddedZero
  <1> QED
    BY <1>3, <1>4, <1>5 DEF KeyStreamInv

\* A message is copied: plain, behind all others.
LEMMA CopyKeeps ==
    ASSUME KeyStreamInv, Copy
    PROVE  KeyStreamInv'
  <1>0. /\ KeyStreamTypes /\ RangeInFile /\ MessagesInOrder /\ AnsweredCiphered
        /\ CopiedPlain /\ Filled /\ PaddedZero
    BY DEF KeyStreamInv
  <1> DEFINE n == Len(msgs) + 1
             ok == (key = NoKey)
             r == Message(off, len, pw, ok)
             InRange(x) == x \in off..(off + len - 1)
             Place(m) == msgs'[m].off..(msgs'[m].off + msgs'[m].len - 1)
  <1>1. /\ pc = "copy" /\ off + len = used /\ used <= DataSize /\ len > 0
        /\ used \in Nat /\ off \in Nat /\ len \in Nat /\ DataSize \in Nat
        /\ End = off /\ n \in Nat /\ DOMAIN msgs = 1..(n - 1)
    BY <1>0, KeyStreamFacts DEF Copy, RangeInFile, End
  <1>2. /\ UNCHANGED <<used, salt, key, pw, off, len, spoiled>>
        /\ pws' = pws \cup {pw}
        /\ pc' = IF key = NoKey THEN "open" ELSE "encrypt"
    BY DEF Copy
  <1>3. data' = [x \in Area |-> IF InRange(x) THEN Plain(<<n, x - off>>) ELSE data[x]]
    <2>1. DOMAIN data = Area
      BY <1>0 DEF KeyStreamTypes
    <2> QED
      BY <2>1 DEF Copy
  <1>4. /\ r \in Messages /\ r.off = off /\ r.len = len /\ r.pw = pw /\ r.ok = ok
        /\ ok <=> pw = NoPassword
    <2>1. pw \in AnyPassword /\ ok \in BOOLEAN
      BY <1>0 DEF KeyStreamTypes
    <2>2. ok <=> pw = NoPassword
      BY KeyStreamFacts
    <2> HIDE DEF ok
    <2>3. /\ r \in Messages /\ r.off = off /\ r.len = len /\ r.pw = pw /\ r.ok = ok
      BY <1>1, <2>1, MessageFields
    <2> QED
      BY <2>2, <2>3
  <1>5. msgs' = Append(msgs, r)
    BY DEF Copy, Message
  <1> HIDE DEF r, ok, n
  <1>6. /\ msgs' \in Seq(Messages) /\ DOMAIN msgs' = 1..n /\ Len(msgs') = n
        /\ msgs'[n] = r /\ \A m \in DOMAIN msgs : msgs'[m] = msgs[m] /\ m \in Nat /\ m < n
        /\ \A m \in DOMAIN msgs' : m \in DOMAIN msgs \/ m = n
    BY <1>0, <1>1, <1>4, <1>5, KeyStreamFacts DEF KeyStreamTypes, n
  <1>7. End' = used /\ used = off + len
    BY <1>1, <1>2 DEF End
  <1>8. \A m \in DOMAIN msgs : \A x \in Bytes(m) : x \in Area /\ ~InRange(x) /\ data'[x] = data[x]
    <2>1. \A m \in DOMAIN msgs : \A x \in Bytes(m) : x \in Area /\ x \in Nat /\ x < off
      BY <1>1, KeyStreamFacts
    <2> QED
      BY <1>1, <1>3, <2>1
  <1>9. \A x \in off..(off + len - 1) : x \in Area /\ data'[x] = Plain(<<n, x - off>>)
    BY <1>1, <1>3 DEF Area
  <1>10. \A m \in DOMAIN msgs : Place(m) = Bytes(m)
    BY <1>6 DEF Bytes
  <1>11. Place(n) = off..(off + len - 1)
    BY <1>4, <1>6
  <1>12. KeyStreamTypes'
    <2>1. \A x \in Area : data'[x].under = {} \/ \E s : data'[x].under = {s}
      <3> SUFFICES ASSUME NEW x \in Area
                   PROVE  data'[x].under = {} \/ \E s : data'[x].under = {s}
        OBVIOUS
      <3>1. CASE InRange(x)
        BY <1>3, <3>1, CipheredUnder
      <3>2. CASE ~InRange(x)
        BY <1>0, <1>3, <3>2 DEF KeyStreamTypes
      <3> QED
        BY <3>1, <3>2
    <2>2. data' = [x \in Area |-> data'[x]]
      BY <1>3
    <2>3. pws' \subseteq AnyPassword
      BY <1>0, <1>2 DEF KeyStreamTypes
    <2> QED
      BY <1>0, <1>2, <1>6, <2>1, <2>2, <2>3 DEF KeyStreamTypes
  <1>13. RangeInFile'
    BY <1>0, <1>1, <1>2 DEF RangeInFile
  <1>14. MessagesInOrder'
    <2>1. \A m \in DOMAIN msgs : /\ msgs[m].len > 0 /\ msgs[m].off + msgs[m].len <= off
                                 /\ msgs[m].off \in Nat /\ msgs[m].len \in Nat
                                 /\ msgs[m].pw \in pws'
      BY <1>0, <1>1, <1>2, KeyStreamFacts DEF MessagesInOrder
    <2>2. \A m \in DOMAIN msgs' : /\ msgs'[m].len > 0 /\ msgs'[m].off + msgs'[m].len <= End'
                                  /\ msgs'[m].pw \in pws'
      BY <1>1, <1>2, <1>4, <1>6, <1>7, <2>1
    <2>3. \A m, k \in DOMAIN msgs' : m < k => msgs'[m].off + msgs'[m].len <= msgs'[k].off
      <3> SUFFICES ASSUME NEW m \in DOMAIN msgs', NEW k \in DOMAIN msgs', m < k
                   PROVE  msgs'[m].off + msgs'[m].len <= msgs'[k].off
        OBVIOUS
      <3>1. m \in DOMAIN msgs
        BY <1>1, <1>6
      <3>2. CASE k \in DOMAIN msgs
        BY <1>0, <1>6, <3>1, <3>2 DEF MessagesInOrder
      <3>3. CASE k = n
        BY <1>4, <1>6, <2>1, <3>1, <3>3
      <3> QED
        BY <1>6, <3>2, <3>3
    <2> QED
      BY <2>2, <2>3 DEF MessagesInOrder
  <1>15. AnsweredCiphered'
    <2> SUFFICES ASSUME NEW m \in DOMAIN msgs', msgs'[m].ok, NEW x \in Place(m)
                 PROVE  data'[x] = Ciphered(<<m, x - msgs'[m].off>>, msgs'[m].pw, salt, x)
      BY <1>2 DEF AnsweredCiphered, Bytes
    <2>1. CASE m \in DOMAIN msgs
      BY <1>0, <1>6, <1>8, <1>10, <2>1 DEF AnsweredCiphered
    <2>2. CASE m = n
      <3>0. x \in off..(off + len - 1)
        BY <1>11, <2>2
      <3>1. data'[x] = Plain(<<n, x - off>>) /\ x \in Nat /\ off <= x /\ x < DataSize
        BY <1>1, <1>9, <3>0
      <3>2. msgs'[m].pw = NoPassword /\ msgs'[m].off = off
        BY <1>4, <1>6, <2>2
      <3>3. Plain(<<n, x - off>>) = Ciphered(<<n, x - off>>, NoPassword, salt, x)
        BY <1>1, <3>1, CipheredByte
      <3> QED
        BY <2>2, <3>1, <3>2, <3>3
    <2> QED
      BY <1>6, <2>1, <2>2
  <1>16. CopiedPlain'
    <2> SUFFICES ASSUME pc' = "encrypt"
                 PROVE  /\ n > 0 /\ ~msgs'[n].ok
                        /\ msgs'[n].off = off /\ msgs'[n].len = len /\ msgs'[n].pw = pw
                        /\ \A x \in off..(off + len - 1) : data'[x] = Plain(<<n, x - off>>)
      BY <1>2, <1>6 DEF CopiedPlain
    <2>1. ~ok
      BY <1>2 DEF ok
    <2>2. n > 0
      BY <1>1 DEF n
    <2> QED
      BY <1>4, <1>6, <1>9, <2>1, <2>2
  <1>17. Filled'
    <2> SUFFICES ASSUME ~spoiled PROVE Filled'
      BY <1>2 DEF Filled
    <2>1. ASSUME NEW x \in Area, x < End' PROVE \E m \in DOMAIN msgs' : x \in Place(m)
      <3>1. CASE x < off
        <4>1. PICK m \in DOMAIN msgs : x \in Bytes(m)
          BY <1>0, <1>1, <3>1 DEF Filled
        <4>2. m \in DOMAIN msgs'
          BY <1>1, <1>6
        <4>3. Place(m) = Bytes(m)
          BY <1>10
        <4> QED
          BY <4>1, <4>2, <4>3
      <3>2. CASE ~(x < off)
        <4>1. x \in off..(off + len - 1)
          BY <1>1, <1>7, <2>1, <3>2 DEF Area
        <4>2. n \in DOMAIN msgs'
          BY <1>1, <1>6 DEF n
        <4> QED
          BY <1>11, <4>1, <4>2
      <3> QED
        BY <3>1, <3>2
    <2>2. ASSUME NEW m \in DOMAIN msgs'
          PROVE  msgs'[m].ok \/ (pc' = "encrypt" /\ m = Len(msgs'))
      <3>1. CASE m \in DOMAIN msgs
        BY <1>0, <1>1, <1>6, <3>1 DEF Filled
      <3>2. CASE m = n
        BY <1>2, <1>4, <1>6, <3>2 DEF ok
      <3> QED
        BY <1>6, <3>1, <3>2
    <2> QED
      BY <2>1, <2>2 DEF Filled, Bytes
  <1>18. PaddedZero'
    BY <1>1, <1>2 DEF PaddedZero
  <1> QED
    BY <1>12, <1>13, <1>14, <1>15, <1>16, <1>17, <1>18 DEF KeyStreamInv

\* The rest of the area is zeroed, behind all messages.
LEMMA PadKeeps ==
    ASSUME KeyStreamInv, Pad
    PROVE  KeyStreamInv'
  <1>0. /\ KeyStreamTypes /\ RangeInFile /\ MessagesInOrder /\ AnsweredCiphered
        /\ CopiedPlain /\ Filled /\ PaddedZero
    BY DEF KeyStreamInv
  <1>1. /\ pc = "pad" /\ off + len = DataSize /\ used > DataSize /\ off <= used
        /\ used \in Nat /\ off \in Nat /\ len \in Nat /\ DataSize \in Nat /\ End = off
    BY <1>0, KeyStreamFacts DEF Pad, RangeInFile, End
  <1>2. /\ UNCHANGED <<used, salt, key, pw, off, len, msgs, spoiled>>
        /\ pws' = pws \cup {pw}
        /\ pc' = IF key = NoKey THEN "full" ELSE "encrypt_pad"
    BY DEF Pad
  <1>3. data' = [x \in Area |-> IF x >= off THEN Plain(Zero) ELSE data[x]]
    <2>1. DOMAIN data = Area
      BY <1>0 DEF KeyStreamTypes
    <2> QED
      BY <2>1 DEF Pad
  <1>4. End' = End
    BY <1>1, <1>2 DEF End
  <1>5. \A m \in DOMAIN msgs : \A x \in Bytes(m) : data'[x] = data[x]
    BY <1>1, <1>3, KeyStreamFacts
  <1>6. KeyStreamTypes'
    <2>1. \A x \in Area : data'[x].under = {} \/ \E s : data'[x].under = {s}
      <3> SUFFICES ASSUME NEW x \in Area
                   PROVE  data'[x].under = {} \/ \E s : data'[x].under = {s}
        OBVIOUS
      <3>1. CASE x >= off
        BY <1>3, <3>1, CipheredUnder
      <3>2. CASE ~(x >= off)
        BY <1>0, <1>3, <3>2 DEF KeyStreamTypes
      <3> QED
        BY <3>1, <3>2
    <2>2. data' = [x \in Area |-> data'[x]]
      BY <1>3
    <2>3. pws' \subseteq AnyPassword
      BY <1>0, <1>2 DEF KeyStreamTypes
    <2> QED
      BY <1>0, <1>2, <2>1, <2>2, <2>3 DEF KeyStreamTypes
  <1>7. RangeInFile'
    BY <1>0, <1>1, <1>2 DEF RangeInFile
  <1>8. MessagesInOrder'
    BY <1>0, <1>2, <1>4 DEF MessagesInOrder
  <1>9. AnsweredCiphered'
    BY <1>0, <1>2, <1>5 DEF AnsweredCiphered, Bytes
  <1>10. CopiedPlain'
    BY <1>0, <1>2, <1>3 DEF CopiedPlain
  <1>11. Filled'
    BY <1>0, <1>1, <1>2, <1>4 DEF Filled, Bytes
  <1>12. PaddedZero'
    <2> SUFFICES ASSUME key = NoKey, NEW p \in AnyPassword, pws' = {p},
                        NEW x \in Area, x >= off
                 PROVE  data'[x] = Ciphered(Zero, p, salt, x)
      BY <1>2 DEF PaddedZero
    <2>1. p = NoPassword
      BY <1>2, KeyStreamFacts
    <2>2. x \in Nat /\ x < DataSize
      BY <1>1 DEF Area
    <2>3. Plain(Zero) = Ciphered(Zero, NoPassword, salt, x)
      BY <1>1, <2>2, CipheredByte
    <2> QED
      BY <1>3, <2>1, <2>3
  <1> QED
    BY <1>6, <1>7, <1>8, <1>9, <1>10, <1>11, <1>12 DEF KeyStreamInv

\* What lz_crypto_process makes of a range that was plain.
LEMMA EncryptedRange ==
    ASSUME KeyStreamInv, pc \in {"encrypt", "encrypt_pad"}, data' = Encrypted
    PROVE  /\ off + len <= DataSize /\ pw # NoPassword
           /\ data' = [x \in Area |-> data'[x]]
           /\ \A x \in Area : ~(x \in off..(off + len - 1)) => data'[x] = data[x]
           /\ \A x \in off..(off + len - 1) : \A b : data[x] = Plain(b) =>
                 x \in Area /\ data'[x] = Ciphered(b, pw, salt, x)
           /\ \A x \in Area : (x \in off..(off + len - 1) => \E b : data[x] = Plain(b)) =>
                 data'[x].under = {} \/ \E s : data'[x].under = {s}
  <1>0. KeyStreamTypes /\ RangeInFile
    BY DEF KeyStreamInv
  <1>1. /\ off \in Nat /\ len \in Nat /\ DataSize \in Nat /\ off + len <= DataSize
        /\ pw # NoPassword /\ key = DeriveKey(pw, salt)
    BY <1>0, KeyStreamFacts DEF RangeInFile, KeyStreamTypes
  <1>2. data' = [x \in Area |-> IF x \in off..(off + len - 1)
                                THEN Process(key, data[x], off, x - off) ELSE data[x]]
    BY <1>0 DEF Encrypted, KeyStreamTypes
  <1>3. data' = [x \in Area |-> data'[x]]
    BY <1>2
  <1>4. \A x \in Area : ~(x \in off..(off + len - 1)) => data'[x] = data[x]
    BY <1>2
  <1>5. ASSUME NEW x \in off..(off + len - 1), NEW b, data[x] = Plain(b)
        PROVE  x \in Area /\ data'[x] = Ciphered(b, pw, salt, x)
    <2>1. x \in Area /\ x \in Nat /\ off <= x /\ x < DataSize
      BY <1>1 DEF Area
    <2>2. data'[x] = Process(key, Plain(b), off, x - off)
      BY <1>2, <1>5, <2>1
    <2>3. Process(DeriveKey(pw, salt), Plain(b), off, x - off) = Ciphered(b, pw, salt, x)
      BY <1>1, <2>1, CipheredByte
    <2> QED
      BY <1>1, <2>1, <2>2, <2>3
  <1>6. ASSUME NEW x \in Area, x \in off..(off + len - 1) => \E b : data[x] = Plain(b)
        PROVE  data'[x].under = {} \/ \E s : data'[x].under = {s}
    <2>1. CASE x \in off..(off + len - 1)
      <3>1. PICK b : data[x] = Plain(b)
        BY <1>6, <2>1
      <3>2. data'[x] = Ciphered(b, pw, salt, x)
        BY <1>5, <2>1, <3>1
      <3> QED
        BY <3>2, CipheredUnder
    <2>2. CASE ~(x \in off..(off + len - 1))
      BY <1>0, <1>4, <2>2 DEF KeyStreamTypes
    <2> QED
      BY <2>1, <2>2
  <1> QED
    BY <1>1, <1>3, <1>4, <1>5, <1>6

\* The message is encrypted and answered.
LEMMA EncryptKeeps ==
    ASSUME KeyStreamInv, Encrypt
    PROVE  KeyStreamInv'
  <1>0. /\ KeyStreamTypes /\ RangeInFile /\ MessagesInOrder /\ AnsweredCiphered
        /\ CopiedPlain /\ Filled /\ PaddedZero
    BY DEF KeyStreamInv
  <1> DEFINE n == Len(msgs)
             InRange(x) == x \in off..(off + len - 1)
             Place(m) == msgs'[m].off..(msgs'[m].off + msgs'[m].len - 1)
  <1>1. /\ pc = "encrypt" /\ off + len = used /\ used <= DataSize /\ len > 0
        /\ used \in Nat /\ off \in Nat /\ len \in Nat /\ DataSize \in Nat
        /\ End = used /\ n \in Nat /\ n > 0 /\ DOMAIN msgs = 1..n /\ n \in DOMAIN msgs
    BY <1>0, KeyStreamFacts DEF Encrypt, RangeInFile, CopiedPlain, End
  <1>2. /\ UNCHANGED <<used, salt, key, pw, off, len, pws, spoiled>>
        /\ pc' = "open" /\ data' = Encrypted /\ msgs' = [msgs EXCEPT ![n] = Answered(msgs[n])]
    BY DEF Encrypt, Answered
  <1>3. /\ msgs[n].off = off /\ msgs[n].len = len /\ msgs[n].pw = pw /\ ~msgs[n].ok
        /\ \A x \in off..(off + len - 1) : data[x] = Plain(<<n, x - off>>)
    BY <1>0, <1>1 DEF CopiedPlain
  <1> HIDE DEF n
  <1>4. /\ msgs' \in Seq(Messages) /\ DOMAIN msgs' = DOMAIN msgs
        /\ \A m \in DOMAIN msgs : /\ msgs'[m].off = msgs[m].off /\ msgs'[m].len = msgs[m].len
                                  /\ msgs'[m].pw = msgs[m].pw
                                  /\ m # n => msgs'[m].ok = msgs[m].ok
        /\ msgs'[n].ok
    <2>1. msgs \in Seq(Messages) /\ msgs[n] \in Messages
      BY <1>0, <1>1, KeyStreamFacts DEF KeyStreamTypes
    <2>2. /\ Answered(msgs[n]) \in Messages /\ Answered(msgs[n]).off = msgs[n].off
          /\ Answered(msgs[n]).len = msgs[n].len /\ Answered(msgs[n]).pw = msgs[n].pw
          /\ Answered(msgs[n]).ok = TRUE
      BY <2>1, AnsweredFields
    <2> DEFINE a == Answered(msgs[n])
    <2> HIDE DEF a
    <2>3. msgs' = [msgs EXCEPT ![n] = a]
      BY <1>2 DEF a
    <2>4. msgs' \in Seq(Messages) /\ DOMAIN msgs' = DOMAIN msgs
      BY <1>1, <2>1, <2>2, <2>3 DEF a
    <2>5. msgs'[n] = a /\ \A m \in DOMAIN msgs : m # n => msgs'[m] = msgs[m]
      BY <1>1, <2>1, <2>3
    <2> QED
      BY <2>2, <2>4, <2>5 DEF a
  <1>5. End' = End
    BY <1>1, <1>2 DEF End
  <1>6. \A m \in DOMAIN msgs : Place(m) = Bytes(m)
    BY <1>4 DEF Bytes
  <1>7. \A m \in DOMAIN msgs : m # n => \A x \in Bytes(m) : data'[x] = data[x]
    <2> SUFFICES ASSUME NEW m \in DOMAIN msgs, m # n, NEW x \in Bytes(m)
                 PROVE  data'[x] = data[x]
      OBVIOUS
    <2>1. m < n
      BY <1>1
    <2>2. msgs[m].off + msgs[m].len <= off
      BY <1>0, <1>1, <1>3, <2>1 DEF MessagesInOrder
    <2>3. x \in Area /\ x < off /\ x \in Nat
      BY <1>1, <2>2, KeyStreamFacts DEF Bytes
    <2> QED
      BY <1>1, <1>2, <2>3, EncryptedRange
  <1>8. KeyStreamTypes'
    <2>1. \A x \in Area : data'[x].under = {} \/ \E s : data'[x].under = {s}
      BY <1>1, <1>2, <1>3, EncryptedRange
    <2>2. data' = [x \in Area |-> data'[x]]
      BY <1>1, <1>2, EncryptedRange
    <2> QED
      BY <1>0, <1>2, <1>4, <2>1, <2>2 DEF KeyStreamTypes
  <1>9. RangeInFile'
    BY <1>0, <1>1, <1>2 DEF RangeInFile
  <1>10. MessagesInOrder'
    BY <1>0, <1>2, <1>4, <1>5 DEF MessagesInOrder
  <1>11. AnsweredCiphered'
    <2> SUFFICES ASSUME NEW m \in DOMAIN msgs', msgs'[m].ok, NEW x \in Place(m)
                 PROVE  data'[x] = Ciphered(<<m, x - msgs'[m].off>>, msgs'[m].pw, salt, x)
      BY <1>2 DEF AnsweredCiphered, Bytes
    <2>1. CASE m # n
      <3>1. m \in DOMAIN msgs /\ msgs[m].ok /\ x \in Bytes(m) /\ data'[x] = data[x]
        BY <1>4, <1>6, <1>7, <2>1
      <3>2. data[x] = Ciphered(<<m, x - msgs[m].off>>, msgs[m].pw, salt, x)
        BY <1>0, <3>1 DEF AnsweredCiphered
      <3> QED
        BY <1>4, <3>1, <3>2
    <2>2. CASE m = n
      <3>1. x \in off..(off + len - 1) /\ msgs'[m].off = off /\ msgs'[m].pw = pw
        BY <1>1, <1>3, <1>4, <2>2
      <3>2. data'[x] = Ciphered(<<n, x - off>>, pw, salt, x)
        BY <1>1, <1>2, <1>3, <3>1, EncryptedRange
      <3> QED
        BY <2>2, <3>1, <3>2
    <2> QED
      BY <2>1, <2>2
  <1>12. CopiedPlain'
    BY <1>2 DEF CopiedPlain
  <1>13. Filled'
    <2> SUFFICES ASSUME ~spoiled PROVE Filled'
      BY <1>2 DEF Filled
    <2>1. \A x \in Area : x < End' => \E m \in DOMAIN msgs' : x \in Place(m)
      BY <1>0, <1>4, <1>5, <1>6 DEF Filled
    <2>2. \A m \in DOMAIN msgs' : msgs'[m].ok
      BY <1>0, <1>1, <1>4 DEF Filled, n
    <2> QED
      BY <2>1, <2>2 DEF Filled, Bytes
  <1>14. PaddedZero'
    BY <1>1, <1>2 DEF PaddedZero
  <1> QED
    BY <1>8, <1>9, <1>10, <1>11, <1>12, <1>13, <1>14 DEF KeyStreamInv

\* The padding is encrypted.
LEMMA EncryptPadKeeps ==
    ASSUME KeyStreamInv, EncryptPad
    PROVE  KeyStreamInv'
  <1>0. /\ KeyStreamTypes /\ RangeInFile /\ MessagesInOrder /\ AnsweredCiphered
        /\ CopiedPlain /\ Filled /\ PaddedZero
    BY DEF KeyStreamInv
  <1>1. /\ pc = "encrypt_pad" /\ off + len = DataSize /\ used > DataSize
        /\ used \in Nat /\ off \in Nat /\ len \in Nat /\ DataSize \in Nat /\ End = off
        /\ pw \in pws /\ \A x \in Area : x >= off => data[x] = Plain(Zero)
    BY <1>0, KeyStreamFacts DEF EncryptPad, RangeInFile, CopiedPlain, End
  <1>2. /\ UNCHANGED <<used, salt, key, pw, off, len, msgs, pws, spoiled>>
        /\ pc' = "full" /\ data' = Encrypted
    BY DEF EncryptPad, history
  <1>3. End' = End
    BY <1>1, <1>2 DEF End
  <1>4. \A x \in Area : x \in off..(off + len - 1) <=> x >= off
    BY <1>1 DEF Area
  <1>5. \A m \in DOMAIN msgs : \A x \in Bytes(m) : data'[x] = data[x]
    BY <1>1, <1>2, <1>4, KeyStreamFacts, EncryptedRange
  <1>6. KeyStreamTypes'
    <2>1. \A x \in Area : data'[x].under = {} \/ \E s : data'[x].under = {s}
      BY <1>1, <1>2, <1>4, EncryptedRange
    <2>2. data' = [x \in Area |-> data'[x]]
      BY <1>1, <1>2, EncryptedRange
    <2> QED
      BY <1>0, <1>2, <2>1, <2>2 DEF KeyStreamTypes
  <1>7. RangeInFile'
    BY <1>0, <1>1, <1>2 DEF RangeInFile
  <1>8. MessagesInOrder'
    BY <1>0, <1>2, <1>3 DEF MessagesInOrder
  <1>9. AnsweredCiphered'
    BY <1>0, <1>2, <1>5 DEF AnsweredCiphered, Bytes
  <1>10. CopiedPlain'
    BY <1>2 DEF CopiedPlain
  <1>11. Filled'
    BY <1>0, <1>1, <1>2, <1>3 DEF Filled, Bytes
  <1>12. PaddedZero'
    <2> SUFFICES ASSUME NEW p \in AnyPassword, pws = {p}, NEW x \in Area, x >= off
                 PROVE  data'[x] = Ciphered(Zero, p, salt, x)
      BY <1>2 DEF PaddedZero
    <2>1. p = pw
      BY <1>1
    <2> QED
      BY <1>1, <1>2, <1>4, <2>1, EncryptedRange
  <1> QED
    BY <1>6, <1>7, <1>8, <1>9, <1>10, <1>11, <1>12 DEF KeyStreamInv

\* KeyStreamInv holds in every behaviour.
LEMMA KeyStreamInvariant == Spec => []KeyStreamInv
  <1>1. KeyStreamInv /\ [Next]_vars => KeyStreamInv'
    BY IdleKeeps, TakeKeeps, FailureKeeps, CopyKeeps, PadKeeps, EncryptKeeps, EncryptPadKeeps
    DEF Next, Idle
  <1> QED
    BY <1>1, InitKeyStreamInv, PTL DEF Spec

-----------------------------------------------------------------------------
(***************************************************************************)
(* The properties.                                                         *)
(***************************************************************************)
\* Every block of the file has a number that fits.
LEMMA BlockNumbers ==
    ASSUME NEW b \in 0..((DataSize - 1) \div Block)
    PROVE  Fits(b)
  <1> DEFINE c == (DataSize - 1) \div Block
  <1>1. c \in Nat /\ b \in Nat /\ b <= c /\ Shift(c, Half) = 0
    BY Sizes, Quotient, BlocksAssumption
  <1> HIDE DEF c
  <1>2. Shift(b, Half) <= Shift(c, Half) /\ Shift(b, Half) \in Nat
    BY <1>1, Sizes, ShiftMono, ShiftStep
  <1> QED
    BY <1>1, <1>2 DEF Fits

\* KSTypeOK: no two blocks of a file share a counter, of whatever size the file
\* is, and the file and the call under way are well formed.
THEOREM KeyStreamTyped == Spec => []KSTypeOK
  <1>1. KeyStreamInv => KSTypeOK
    <2> SUFFICES ASSUME KeyStreamInv PROVE KSTypeOK
      OBVIOUS
    <2>1. ASSUME NEW b \in 0..((DataSize - 1) \div Block)
          PROVE  /\ IV(b) \in [1..Digits -> 0..(Radix - 1)]
                 /\ \A c \in 0..(b - 1) : IV(b) # IV(c)
      <3>1. b \in Nat /\ Fits(b)
        BY BlockNumbers DEF Fits
      <3>2. IV(b) \in [1..Digits -> 0..(Radix - 1)]
        BY <3>1, CounterDigits
      <3>3. ASSUME NEW c \in 0..(b - 1) PROVE IV(b) # IV(c)
        <4>0. (DataSize - 1) \div Block \in Nat
          BY Sizes, Quotient
        <4>1. c \in 0..((DataSize - 1) \div Block) /\ c \in Nat /\ b # c
          BY <3>1, <4>0
        <4>2. Fits(c)
          BY <4>1, BlockNumbers
        <4> QED
          BY <3>1, <4>1, <4>2, CountersDiffer
      <3> QED
        BY <3>2, <3>3
    <2>2. \A x \in Area : Cardinality(data[x].under) <= 1
      <3> SUFFICES ASSUME NEW x \in Area PROVE Cardinality(data[x].under) <= 1
        OBVIOUS
      <3>1. CASE data[x].under = {}
        BY <3>1, FS_EmptySet
      <3>2. CASE \E s : data[x].under = {s}
        <4>1. PICK s : data[x].under = {s}
          BY <3>2
        <4>2. Cardinality({s}) = 1
          BY FS_Singleton, Zenon
        <4> QED
          BY <4>1, <4>2
      <3> QED
        BY <3>1, <3>2 DEF KeyStreamInv, KeyStreamTypes
    <2> QED
      BY <2>1, <2>2 DEF KeyStreamInv, KeyStreamTypes, RangeInFile, KSTypeOK, Area, AnyPassword
  <1> QED
    BY <1>1, KeyStreamInvariant, PTL

\* What was answered reads as it was written.
LEMMA AnsweredReads ==
    ASSUME KeyStreamInv, NEW m \in DOMAIN msgs, msgs[m].ok, NEW x \in Bytes(m)
    PROVE  Plain(<<m, x - msgs[m].off>>) =
              IF msgs[m].pw = NoPassword THEN data[x]
              ELSE Process(DeriveKey(msgs[m].pw, salt), data[x], 0, x)
  <1> DEFINE b == <<m, x - msgs[m].off>>
             q == msgs[m].pw
  <1>1. data[x] = Ciphered(b, q, salt, x)
    BY DEF KeyStreamInv, AnsweredCiphered
  <1>2. x \in Nat /\ x < DataSize /\ 0 <= x /\ 0 \in Nat
    BY KeyStreamFacts
  <1> HIDE DEF b, q
  <1>3. /\ Plain(b) = Ciphered(b, NoPassword, salt, x)
        /\ q # NoPassword => Process(DeriveKey(q, salt), Ciphered(b, q, salt, x), 0, x) = Plain(b)
    <2>1. Plain(b) = Ciphered(b, NoPassword, salt, x)
      BY <1>2, CipheredByte, Zenon
    <2>2. ASSUME q # NoPassword
          PROVE  Process(DeriveKey(q, salt), Ciphered(b, q, salt, x), 0, x) = Plain(b)
      BY <1>2, <2>2, CipheredReads
    <2> QED
      BY <2>1, <2>2
  <1> QED
    BY <1>1, <1>3 DEF b, q

\* StoredReadable: what lz_logger_write answered success for reads back in one
\* pass over the file from offset 0, wherever in a block its bytes begin.
THEOREM AnsweredReadable == Spec => []StoredReadable
  <1>1. KeyStreamInv => StoredReadable
    BY AnsweredReads DEF StoredReadable
  <1> QED
    BY <1>1, KeyStreamInvariant, PTL

\* What the tool decrypts where the file has one password and no call failed:
\* the messages, one behind the other from offset 0, and zeros behind them.
LEMMA ClearText ==
    ASSUME KeyStreamInv, NEW p \in Passwords, pws = {p}, ~spoiled,
           pc \in {"closed", "open", "full"}, NEW x \in 0..(Clip - 1)
    PROVE  /\ x < End => \E m \in DOMAIN msgs :
                 /\ x \in Bytes(m)
                 /\ Process(DeriveKey(p, salt), data[x], 0, x) = Plain(<<m, x - msgs[m].off>>)
           /\ x >= End => Process(DeriveKey(p, salt), data[x], 0, x) = Plain(Zero)
  <1>1. /\ used \in Nat /\ DataSize \in Nat /\ End \in Nat /\ p # NoPassword
        /\ p \in AnyPassword /\ pc # "encrypt"
    BY KeyStreamFacts, KeyStreamAssumption DEF AnyPassword
  <1>2. Clip \in Nat /\ Clip <= DataSize
    BY <1>1 DEF Clip
  <1>3. x \in Area /\ x \in Nat /\ x < DataSize /\ x < Clip
    BY <1>1, <1>2 DEF Area
  <1>4. CASE x < End
    <2>1. PICK m \in DOMAIN msgs : x \in Bytes(m) /\ msgs[m].ok
      BY <1>1, <1>3, <1>4 DEF KeyStreamInv, Filled
    <2>2. msgs[m].pw = p
      BY DEF KeyStreamInv, MessagesInOrder
    <2>3. Process(DeriveKey(p, salt), data[x], 0, x) = Plain(<<m, x - msgs[m].off>>)
      BY <1>1, <2>1, <2>2, AnsweredReads
    <2> QED
      BY <1>1, <1>3, <1>4, <2>1, <2>3
  <1>5. CASE x >= End
    <2>1. used > DataSize /\ pc \in {"closed", "full"} /\ x >= off
      <3>1. used > 0
        BY DEF KeyStreamInv, RangeInFile
      <3>2. used > DataSize
        BY <1>1, <1>3, <1>5, <3>1 DEF Clip, End
      <3>3. End = off /\ (pc = "open" => used <= DataSize)
        BY <3>2 DEF End, KeyStreamInv, RangeInFile
      <3> QED
        BY <1>1, <1>5, <3>2, <3>3
    <2>2. data[x] = Ciphered(Zero, p, salt, x)
      BY <1>1, <1>3, <2>1 DEF KeyStreamInv, PaddedZero
    <2>3. Process(DeriveKey(p, salt), Ciphered(Zero, p, salt, x), 0, x) = Plain(Zero)
      BY <1>1, <1>3, CipheredReads
    <2> QED
      BY <1>1, <1>3, <1>5, <2>2, <2>3
  <1> QED
    BY <1>4, <1>5

\* The messages are all that remove_trailing_zeros leaves.
LEMMA ToolShows ==
    ASSUME KeyStreamInv, NEW p \in Passwords, pws = {p}, ~spoiled,
           pc \in {"closed", "open", "full"}
    PROVE  ToolOutput(p) = [x \in UNION {Bytes(m) : m \in DOMAIN msgs} |->
                               LET m == CHOOSE m \in DOMAIN msgs : x \in Bytes(m)
                               IN  Plain(<<m, x - msgs[m].off>>)]
  <1> DEFINE clear == [x \in 0..(Clip - 1) |-> Process(DeriveKey(p, salt), data[x], 0, x)]
             At(x) == CHOOSE m \in DOMAIN msgs : x \in Bytes(m)
             Last == {x \in 0..(Clip - 1) : clear[x] # Plain(Zero)
                                     /\ \A y \in (x + 1)..(Clip - 1) : clear[y] = Plain(Zero)}
  <1>1. /\ used \in Nat /\ DataSize \in Nat /\ DataSize > 0 /\ End \in Nat
        /\ End <= DataSize /\ End <= used /\ off \in Nat
    BY KeyStreamFacts
  <1>2. used > 0 /\ End > 0
    BY <1>1 DEF KeyStreamInv, RangeInFile, End
  <1>3. Clip \in Nat /\ End <= Clip
    BY <1>1, <1>2 DEF Clip
  <1>4. ASSUME NEW m \in DOMAIN msgs, NEW x, x \in Bytes(m)
        PROVE  At(x) = m /\ x \in 0..(End - 1)
    <2>1. \A k \in DOMAIN msgs : x \in Bytes(k) => k = m
      <3> SUFFICES ASSUME NEW k \in DOMAIN msgs, x \in Bytes(k), k # m PROVE FALSE
        OBVIOUS
      <3>1. k < m \/ m < k
        BY KeyStreamFacts
      <3>2. msgs[k].off + msgs[k].len <= msgs[m].off \/ msgs[m].off + msgs[m].len <= msgs[k].off
        BY <3>1 DEF KeyStreamInv, MessagesInOrder
      <3>3. /\ msgs[k].off \in Nat /\ msgs[k].len \in Nat /\ msgs[m].off \in Nat
            /\ msgs[m].len \in Nat
        BY KeyStreamFacts
      <3> QED
        BY <1>4, <3>2, <3>3 DEF Bytes
    <2>2. x \in Nat /\ x < End
      BY <1>4, KeyStreamFacts
    <2> QED
      BY <1>1, <1>4, <2>1, <2>2
  <1>5. ASSUME NEW x \in 0..(End - 1)
        PROVE  /\ x \in 0..(Clip - 1) /\ At(x) \in DOMAIN msgs /\ x \in Bytes(At(x))
               /\ clear[x] = Plain(<<At(x), x - msgs[At(x)].off>>)
    <2>1. x \in 0..(Clip - 1) /\ x < End
      BY <1>1, <1>3
    <2>2. PICK m \in DOMAIN msgs :
             /\ x \in Bytes(m)
             /\ Process(DeriveKey(p, salt), data[x], 0, x) = Plain(<<m, x - msgs[m].off>>)
      BY <2>1, ClearText
    <2>3. At(x) = m
      BY <1>4, <2>2
    <2> QED
      BY <2>1, <2>2, <2>3
  <1>6. ASSUME NEW x \in 0..(Clip - 1), ~(x < End) PROVE clear[x] = Plain(Zero)
    BY <1>1, <1>3, <1>6, ClearText
  <1> HIDE DEF clear, At
  <1>7. \A x \in 0..(End - 1) : clear[x] # Plain(Zero)
    <2> SUFFICES ASSUME NEW x \in 0..(End - 1) PROVE clear[x] # Plain(Zero)
      OBVIOUS
    <2> DEFINE m == At(x)
               j == x - msgs[m].off
    <2>0. m \in DOMAIN msgs /\ clear[x] = Plain(<<m, j>>)
      BY <1>5
    <2> HIDE DEF m, j
    <2>1. m \in Nat /\ m # 0 /\ clear[x] = Plain(<<m, j>>)
      BY <2>0, KeyStreamFacts
    <2>2. Plain(<<m, j>>).is = <<m, j>> /\ Plain(Zero).is = <<0, 0>>
      BY DEF Plain, Zero
    <2> QED
      BY <2>1, <2>2
  <1>8. Last = {End - 1}
    <2>1. ASSUME NEW x \in Last PROVE x = End - 1
      BY <1>1, <1>2, <1>3, <1>6, <1>7
    <2>2. End - 1 \in Last
      BY <1>1, <1>2, <1>3, <1>6, <1>7
    <2> HIDE DEF Last
    <2> QED
      BY <2>1, <2>2
  <1>9. Stripped(clear, Clip) = 0..(End - 1)
    <2>1. Stripped(clear, Clip) = {x \in 0..(Clip - 1) : \E y \in Last : x <= y}
      BY DEF Stripped
    <2> HIDE DEF Last
    <2> QED
      BY <1>1, <1>2, <1>3, <1>8, <2>1
  <1>10. UNION {Bytes(m) : m \in DOMAIN msgs} = 0..(End - 1)
    <2>1. \A x \in UNION {Bytes(m) : m \in DOMAIN msgs} : x \in 0..(End - 1)
      BY <1>4
    <2>2. \A x \in 0..(End - 1) : x \in UNION {Bytes(m) : m \in DOMAIN msgs}
      BY <1>5
    <2> QED
      BY <2>1, <2>2
  <1>11. ToolOutput(p) = [x \in Stripped(clear, Clip) |-> clear[x]]
    BY DEF ToolOutput, clear
  <1>12. ToolOutput(p) = [x \in 0..(End - 1) |-> Plain(<<At(x), x - msgs[At(x)].off>>)]
    BY <1>5, <1>9, <1>11
  <1> QED
    BY <1>10, <1>12 DEF At

\* ToolShowsLog: the output of decrypt_log_file is the messages, all of them, in
\* order, and nothing else, wherever each began in its block and whether or not
\* the rest of the file was padded.
THEOREM ToolShowsWholeLog == Spec => []ToolShowsLog
  <1>1. KeyStreamInv => ToolShowsLog
    BY ToolShows DEF ToolShowsLog
  <1> QED
    BY <1>1, KeyStreamInvariant, PTL

=============================================================================
