---- MODULE MosClock_proofs ----
(***************************************************************************)
(* Proofs about MosClock for numbers of any number of bytes and bytes of   *)
(* any number of values: the types, that the two stores are one clock,     *)
(* that every tick is counted, and that the timer's event comes on time.   *)
(***************************************************************************)
EXTENDS MosClock, WellFoundedInduction, TLAPS

\* What is in a set of naturals by induction: a number that is not would have
\* a least one, since < is well-founded.
LEMMA SetInduction ==
    ASSUME NEW T, 0 \in T, \A n \in Nat : n \in T => n + 1 \in T
    PROVE  \A n \in Nat : n \in T
<1> SUFFICES ASSUME NEW n \in Nat, n \notin T
             PROVE  FALSE
  OBVIOUS
<1> DEFINE Less == OpToRel(<, Nat)
           Out == Nat \ T
<1>1. IsWellFoundedOn(Less, Nat) /\ Out \subseteq Nat /\ Out # {}
  BY NatLessThanWellFounded
<1>2. \A x, y \in Nat : <<x, y>> \in Less <=> x < y
  BY DEF OpToRel
<1> HIDE DEF Less
<1>3. PICK m \in Out : \A k \in Out : <<k, m>> \notin Less
  BY <1>1, WFMin
<1>4. m # 0 /\ m - 1 \in Nat /\ (m - 1) + 1 = m
  <2>1. m \in Nat /\ m \notin T
    BY <1>3
  <2>2. m # 0
    BY <2>1
  <2> QED
    BY <2>1, <2>2
<1>5. m - 1 \in T
  <2>1. m \in Nat /\ m - 1 < m
    BY <1>3
  <2>2. <<m - 1, m>> \in Less
    BY <1>2, <1>4, <2>1
  <2>3. m - 1 \notin Out
    BY <1>3, <2>2
  <2> QED
    BY <1>4, <2>3
<1> QED
  BY <1>3, <1>4, <1>5

-----------------------------------------------------------------------------
(* Powers and numbers. *)
\* The equation that the definition of Power names has a solution.
LEMMA PowerEquation ==
    \A n \in Nat : Power[n] = IF n = 0 THEN 1 ELSE Radix * Power[n - 1]
<1> DEFINE Solves(f, n) == f = [i \in 0..n |-> IF i = 0 THEN 1 ELSE Radix * f[i - 1]]
           T == {n \in Nat : \E f : Solves(f, n)}
<1>1. 0 \in T
  <2>1. Solves([i \in 0..0 |-> 1], 0)
    OBVIOUS
  <2> QED
    BY <2>1
<1>2. ASSUME NEW n \in Nat, n \in T
      PROVE  n + 1 \in T
  <2>1. PICK f : Solves(f, n)
    BY <1>2
  <2> DEFINE g == [i \in 0..(n + 1) |-> IF i = n + 1 THEN Radix * f[n] ELSE f[i]]
  <2>2. Solves(g, n + 1)
    BY <2>1
  <2> HIDE DEF g
  <2> QED
    BY <2>2
<1>3. \A n \in Nat : n \in T
  <2> HIDE DEF T
  <2> QED
    BY <1>1, <1>2, SetInduction
<1> DEFINE F(n) == CHOOSE f : Solves(f, n)
<1>4. \A n \in Nat : Solves(F(n), n)
  BY <1>3
<1> HIDE DEF F
<1>5. \A n, m \in Nat : m <= n => F(n)[m] = F(m)[m]
  <2> DEFINE S == {m \in Nat : \A n \in Nat : m <= n => F(n)[m] = F(m)[m]}
  <2>1. 0 \in S
    BY <1>4
  <2>2. ASSUME NEW m \in Nat, m \in S
        PROVE  m + 1 \in S
    <3>1. ASSUME NEW n \in Nat, m + 1 <= n
          PROVE  F(n)[m + 1] = Radix * F(m)[m]
      <4>1. m + 1 \in 0..n /\ m + 1 # 0 /\ m + 1 - 1 = m /\ m <= n
        BY <3>1
      <4>2. F(n) = [i \in 0..n |-> IF i = 0 THEN 1 ELSE Radix * F(n)[i - 1]]
        BY <1>4
      <4> HIDE DEF Solves, T
      <4>3. F(n)[m + 1] = Radix * F(n)[m + 1 - 1]
        BY <4>1, <4>2
      <4>4. F(n)[m] = F(m)[m]
        BY <2>2, <4>1
      <4> QED
        BY <4>1, <4>3, <4>4
    <3> QED
      <4> SUFFICES ASSUME NEW n \in Nat, m + 1 <= n
                   PROVE  F(n)[m + 1] = F(m + 1)[m + 1]
        OBVIOUS
      <4>1. m + 1 \in Nat /\ m + 1 <= m + 1
        OBVIOUS
      <4> QED
        BY <3>1, <4>1
  <2> HIDE DEF S
  <2>3. \A m \in Nat : m \in S
    BY <2>1, <2>2, SetInduction
  <2> QED
    BY <2>3 DEF S
<1> DEFINE p == [n \in Nat |-> F(n)[n]]
<1>6. p = [n \in Nat |-> IF n = 0 THEN 1 ELSE Radix * p[n - 1]]
  <2>1. ASSUME NEW n \in Nat
        PROVE  F(n)[n] = IF n = 0 THEN 1 ELSE Radix * p[n - 1]
    BY <1>4, <1>5
  <2> QED
    BY <2>1
<1> HIDE DEF p
<1>7. Power = [n \in Nat |-> IF n = 0 THEN 1 ELSE Radix * Power[n - 1]]
  BY <1>6 DEF Power
<1> QED
  BY <1>7

\* The two cases of Power, each power from the one below.
LEMMA PowerStep ==
    ASSUME NEW n \in Nat
    PROVE  Power[0] = 1 /\ Power[n + 1] = Radix * Power[n]
BY PowerEquation

\* Every power of the radix is a positive number.
LEMMA PowerPositive ==
    ASSUME NEW n \in Nat
    PROVE  Power[n] \in Nat /\ Power[n] > 0
<1> DEFINE T == {m \in Nat : Power[m] \in Nat /\ Power[m] > 0}
<1>1. 0 \in T
  BY PowerStep
<1>2. ASSUME NEW m \in Nat, m \in T
      PROVE  m + 1 \in T
  <2>1. Power[m + 1] = Radix * Power[m] /\ Power[m] \in Nat /\ Power[m] > 0
    BY <1>2, PowerStep
  <2>2. \A x \in Nat, y \in Nat : x > 0 /\ y > 0 => x * y \in Nat /\ x * y > 0
    OBVIOUS
  <2> QED
    BY <2>1, <2>2, RadixAssumption
<1> HIDE DEF T
<1>3. n \in T
  BY <1>1, <1>2, SetInduction
<1> QED
  BY <1>3 DEF T

\* The value of the first i digits.
Prefix(s) == CHOOSE v : v = [i \in 0..Bytes |-> IF i = 0 THEN 0 ELSE v[i - 1] * Radix + s[i]]

\* The recursion of Value over the bytes has a solution: the values of the
\* first i bytes.
LEMMA PrefixStep ==
    ASSUME NEW s
    PROVE  /\ Prefix(s)[0] = 0 /\ Value(s) = Prefix(s)[Bytes]
           /\ \A i \in 1..Bytes : Prefix(s)[i] = Prefix(s)[i - 1] * Radix + s[i]
<1> DEFINE Solves(v, n) == v = [i \in 0..n |-> IF i = 0 THEN 0 ELSE v[i - 1] * Radix + s[i]]
           T == {n \in Nat : \E v : Solves(v, n)}
<1>1. 0 \in T
  <2>1. Solves([i \in 0..0 |-> 0], 0)
    OBVIOUS
  <2> QED
    BY <2>1
<1>2. ASSUME NEW n \in Nat, n \in T
      PROVE  n + 1 \in T
  <2>1. PICK v : Solves(v, n)
    BY <1>2
  <2> DEFINE w == [i \in 0..(n + 1) |-> IF i = n + 1 THEN v[n] * Radix + s[n + 1] ELSE v[i]]
  <2>2. Solves(w, n + 1)
    BY <2>1
  <2> HIDE DEF w
  <2> QED
    BY <2>2
<1>3. Bytes \in T
  <2> HIDE DEF T
  <2> QED
    BY <1>1, <1>2, SetInduction, BytesAssumption
<1>4. Solves(Prefix(s), Bytes)
  BY <1>3 DEF Prefix
<1>5. Value(s) = Prefix(s)[Bytes]
  BY DEF Value, Prefix
<1>6. Bytes \in Nat
  BY BytesAssumption
<1> DEFINE P == Prefix(s)
<1>7. P = [i \in 0..Bytes |-> IF i = 0 THEN 0 ELSE P[i - 1] * Radix + s[i]]
  BY <1>4
<1> HIDE DEF P
<1>8. P[0] = 0 /\ \A i \in 1..Bytes : P[i] = P[i - 1] * Radix + s[i]
  <2>1. \A i \in 0..Bytes : P[i] = IF i = 0 THEN 0 ELSE P[i - 1] * Radix + s[i]
    BY <1>7
  <2>2. \A i \in 1..Bytes : i \in 0..Bytes /\ i # 0
    BY <1>6
  <2> QED
    BY <1>6, <2>1, <2>2
<1> QED
  BY <1>5, <1>8 DEF P

\* Numbers are not negative and below the power of their length.
LEMMA DigitAdded ==
    ASSUME NEW p \in Nat \ {0}, NEW a \in 0..(p - 1), NEW d \in Byte
    PROVE  /\ a * Radix + d \in 0..(Radix * p - 1)
           /\ a * Radix + d = Radix * p - 1 <=> a = p - 1 /\ d = Radix - 1
<1> DEFINE c == p - 1 - a
<1>1. c \in Nat /\ p = a + c + 1 /\ a \in Nat /\ d \in Nat /\ d <= Radix - 1 /\ Radix \in Nat
  BY RadixAssumption DEF Byte
<1>2. Radix * p - 1 - (a * Radix + d) = Radix * c + (Radix - 1 - d)
  BY <1>1
<1>3. Radix * c \in Nat /\ a * Radix \in Nat /\ (Radix * c = 0 <=> c = 0)
  BY <1>1, RadixAssumption
<1>4. Radix * p \in Nat
  BY <1>1
<1> QED
  BY <1>1, <1>2, <1>3, <1>4

\* The first n digits make a number below the n-th power of the radix.
LEMMA PrefixBound ==
    ASSUME NEW s \in Number, NEW n \in 0..Bytes
    PROVE  Prefix(s)[n] \in 0..(Power[n] - 1)
<1> DEFINE T == {i \in Nat : i <= Bytes => Prefix(s)[i] \in 0..(Power[i] - 1)}
<1>1. 0 \in T
  BY PrefixStep, PowerStep
<1>2. ASSUME NEW i \in Nat, i \in T, i + 1 <= Bytes
      PROVE  Prefix(s)[i + 1] \in 0..(Power[i + 1] - 1)
  <2>1. i + 1 \in 1..Bytes /\ s[i + 1] \in Byte
    BY <1>2, BytesAssumption DEF Number
  <2>2. Prefix(s)[i + 1] = Prefix(s)[i] * Radix + s[i + 1]
    BY <2>1, PrefixStep
  <2>3. Power[i] \in Nat \ {0} /\ Prefix(s)[i] \in 0..(Power[i] - 1)
    BY <1>2, PowerPositive, BytesAssumption
  <2> QED
    BY <2>1, <2>2, <2>3, DigitAdded, PowerStep
<1>3. \A i \in Nat : i \in T => i + 1 \in T
  BY <1>2
<1> HIDE DEF T
<1>4. n \in T
  BY <1>1, <1>3, SetInduction, BytesAssumption
<1> QED
  BY <1>4, BytesAssumption DEF T

\* A clock's value is one of Span values.
LEMMA ValueBound ==
    ASSUME NEW s \in Number
    PROVE  Value(s) \in 0..(Span - 1) /\ Span \in Nat /\ Span > 0
BY PrefixBound, PrefixStep, PowerPositive, BytesAssumption DEF Span

\* Only the digits that are all the highest make the highest number.
LEMMA PrefixFull ==
    ASSUME NEW s \in Number, NEW n \in 0..Bytes
    PROVE  Prefix(s)[n] = Power[n] - 1 <=> \A j \in 1..n : s[j] = Radix - 1
<1> DEFINE T == {i \in Nat : i <= Bytes =>
                   (Prefix(s)[i] = Power[i] - 1 <=> \A j \in 1..i : s[j] = Radix - 1)}
<1>1. 0 \in T
  BY PrefixStep, PowerStep
<1>2. ASSUME NEW i \in Nat, i \in T, i + 1 <= Bytes
      PROVE  Prefix(s)[i + 1] = Power[i + 1] - 1 <=> \A j \in 1..(i + 1) : s[j] = Radix - 1
  <2>1. i + 1 \in 1..Bytes /\ s[i + 1] \in Byte /\ i \in 0..Bytes
    BY <1>2, BytesAssumption DEF Number
  <2>2. Prefix(s)[i + 1] = Prefix(s)[i] * Radix + s[i + 1] /\ Power[i + 1] = Radix * Power[i]
    BY <2>1, PrefixStep, PowerStep
  <2>3. Power[i] \in Nat \ {0} /\ Prefix(s)[i] \in 0..(Power[i] - 1)
    BY <2>1, PowerPositive, PrefixBound
  <2>4. Prefix(s)[i + 1] = Power[i + 1] - 1 <=> Prefix(s)[i] = Power[i] - 1 /\ s[i + 1] = Radix - 1
    BY <2>1, <2>2, <2>3, DigitAdded
  <2>5. Prefix(s)[i] = Power[i] - 1 <=> \A j \in 1..i : s[j] = Radix - 1
    BY <1>2, <2>1
  <2> QED
    BY <2>4, <2>5
<1>3. \A i \in Nat : i \in T => i + 1 \in T
  BY <1>2
<1> HIDE DEF T
<1>4. n \in T
  BY <1>1, <1>3, SetInduction, BytesAssumption
<1> QED
  BY <1>4, BytesAssumption DEF T

-----------------------------------------------------------------------------
(* What a tick and a write do to the number. *)
LEMMA AddOneNumber ==
    ASSUME NEW s \in Number
    PROVE  AddOne(s) \in Number
BY RadixAssumption DEF AddOne, Number, Byte

\* The carry: the first i digits change when all the digits below are the
\* highest, and then they become the next number or start again.
LEMMA Carry ==
    ASSUME NEW s \in Number, NEW n \in 0..Bytes
    PROVE  Prefix(AddOne(s))[n] =
             IF ~Full(s, n) THEN Prefix(s)[n]
             ELSE IF Prefix(s)[n] = Power[n] - 1 THEN 0 ELSE Prefix(s)[n] + 1
<1> DEFINE A == AddOne(s)
           C(i) == Prefix(A)[i] = IF ~Full(s, i) THEN Prefix(s)[i]
                                  ELSE IF Prefix(s)[i] = Power[i] - 1 THEN 0 ELSE Prefix(s)[i] + 1
           T == {i \in Nat : i <= Bytes => C(i)}
<1>1. 0 \in T
  BY PrefixStep, PowerStep
<1>2. ASSUME NEW i \in Nat, i \in T, i + 1 <= Bytes
      PROVE  C(i + 1)
  <2>1. i + 1 \in 1..Bytes /\ s[i + 1] \in Byte /\ i \in 0..Bytes
    BY <1>2, BytesAssumption DEF Number
  <2>2. /\ Prefix(s)[i + 1] = Prefix(s)[i] * Radix + s[i + 1]
        /\ Prefix(A)[i + 1] = Prefix(A)[i] * Radix + A[i + 1]
        /\ Power[i + 1] = Radix * Power[i]
    BY <2>1, PrefixStep, PowerStep
  <2>3. Power[i] \in Nat \ {0} /\ Prefix(s)[i] \in 0..(Power[i] - 1)
    BY <2>1, PowerPositive, PrefixBound
  <2>4. Prefix(s)[i + 1] = Power[i + 1] - 1 <=> Prefix(s)[i] = Power[i] - 1 /\ s[i + 1] = Radix - 1
    BY <2>1, <2>2, <2>3, DigitAdded
  <2>5. Full(s, i) <=> Full(s, i + 1) /\ s[i + 1] = Radix - 1
    BY <2>1, BytesAssumption DEF Full
  <2>6. A[i + 1] = IF Full(s, i + 1) THEN (s[i + 1] + 1) % Radix ELSE s[i + 1]
    BY <2>1 DEF AddOne
  <2>7. C(i)
    BY <1>2, <2>1
  <2>8. CASE ~Full(s, i + 1)
    BY <2>2, <2>5, <2>6, <2>7, <2>8
  <2>9. CASE Full(s, i + 1) /\ s[i + 1] # Radix - 1
    <3>1. A[i + 1] = s[i + 1] + 1
      BY <2>1, <2>6, <2>9, RadixAssumption DEF Byte
    <3>2. Prefix(A)[i] = Prefix(s)[i]
      BY <2>5, <2>7, <2>9
    <3>3. Prefix(A)[i + 1] = Prefix(s)[i + 1] + 1
      <4>1. Prefix(s)[i] * Radix \in Int /\ s[i + 1] \in Int
        BY <2>1, <2>3, RadixAssumption DEF Byte
      <4> QED
        BY <2>2, <3>1, <3>2, <4>1
    <3> QED
      BY <2>4, <2>9, <3>3
  <2>10. CASE Full(s, i + 1) /\ s[i + 1] = Radix - 1
    <3>1. A[i + 1] = 0
      BY <2>6, <2>10, RadixAssumption
    <3>2. CASE Prefix(s)[i] = Power[i] - 1
      <4>1. Prefix(A)[i] = 0
        BY <2>5, <2>7, <2>10, <3>2
      <4>2. Prefix(A)[i + 1] = 0
        BY <2>2, <3>1, <4>1, RadixAssumption
      <4> QED
        BY <2>4, <2>10, <3>2, <4>2
    <3>3. CASE Prefix(s)[i] # Power[i] - 1
      <4>1. Prefix(A)[i] = Prefix(s)[i] + 1
        BY <2>5, <2>7, <2>10, <3>3
      <4>2. Prefix(A)[i + 1] = Prefix(s)[i + 1] + 1
        <5>1. Prefix(A)[i + 1] = (Prefix(s)[i] + 1) * Radix
          BY <2>2, <2>3, <3>1, <4>1, RadixAssumption
        <5>2. Prefix(s)[i + 1] = Prefix(s)[i] * Radix + (Radix - 1)
          BY <2>2, <2>10
        <5> QED
          BY <2>3, <5>1, <5>2, RadixAssumption
      <4> QED
        BY <2>4, <2>10, <3>3, <4>2
    <3> QED
      BY <3>2, <3>3
  <2> QED
    BY <2>8, <2>9, <2>10
<1>3. \A i \in Nat : i \in T => i + 1 \in T
  <2> HIDE DEF C
  <2> QED
    BY <1>2
<1> HIDE DEF T
<1>4. n \in T
  BY <1>1, <1>3, SetInduction, BytesAssumption
<1> QED
  BY <1>4, BytesAssumption DEF T

\* The carry through all the bytes adds one to the value, modulo Span.
LEMMA AddOneValue ==
    ASSUME NEW s \in Number
    PROVE  /\ Value(AddOne(s)) = (Value(s) + 1) % Span
           /\ Value(s) # Span - 1 => Value(AddOne(s)) = Value(s) + 1
<1>1. Full(s, Bytes)
  BY BytesAssumption DEF Full
<1>2. Value(AddOne(s)) = IF Value(s) = Span - 1 THEN 0 ELSE Value(s) + 1
  BY <1>1, Carry, PrefixStep, BytesAssumption DEF Span
<1> QED
  BY <1>2, ValueBound

\* Division with a remainder has one result.
LEMMA Quotient ==
    ASSUME NEW n \in Nat \ {0}, NEW q \in Nat, NEW r \in 0..(n - 1)
    PROVE  (n * q + r) \div n = q /\ (n * q + r) % n = r
<1> DEFINE v == n * q + r
           a == v \div n
           b == v % n
<1>1. v \in Nat
  BY SMT
<1>2. a \in Int /\ b \in 0..(n - 1) /\ v = n * a + b
  BY <1>1, SMTT(30)
<1> HIDE DEF a, b
<1>3. n * (a - q) = r - b
  <2>1. n * a + b = n * q + r
    BY <1>2 DEF v
  <2> QED
    BY <1>2, <2>1
<1>4. a - q \in Int /\ r - b < n /\ r - b > -n
  BY <1>2
<1>5. a = q
  <2>1. ASSUME a - q >= 1 PROVE FALSE
    <3>1. n * (a - q) >= n
      BY <1>4, <2>1
    <3> QED
      BY <1>3, <1>4, <3>1
  <2>2. ASSUME a - q <= -1 PROVE FALSE
    <3>1. n * (a - q) <= -n
      BY <1>4, <2>2
    <3> QED
      BY <1>3, <1>4, <3>1
  <2> QED
    BY <1>2, <2>1, <2>2
<1>6. b = r
  BY <1>2, <1>3, <1>5
<1> QED
  BY <1>5, <1>6 DEF a, b, v

\* The quotient and the remainder of a division.
LEMMA Division ==
    ASSUME NEW v \in Nat, NEW n \in Nat \ {0}
    PROVE  v \div n \in Nat /\ v % n \in 0..(n - 1) /\ v = n * (v \div n) + (v % n)
BY SMTT(30)

\* Dividing by a product is dividing by the one and then by the other.
LEMMA DivideTwice ==
    ASSUME NEW v \in Nat, NEW n \in Nat \ {0}, NEW m \in Nat \ {0}
    PROVE  v \div (m * n) = (v \div n) \div m
<1> DEFINE a == v \div n
           b == v % n
           c == a \div m
           d == a % m
<1>1. a \in Nat /\ b \in 0..(n - 1) /\ v = n * a + b
  BY Division
<1>2. c \in Nat /\ d \in 0..(m - 1) /\ a = m * c + d
  BY <1>1, Division
<1> HIDE DEF a, b, c, d
<1>3. v = (m * n) * c + (n * d + b)
  <2>1. n * a = n * (m * c) + n * d
    BY <1>2
  <2>2. n * (m * c) = (m * n) * c
    BY <1>2
  <2> QED
    BY <1>1, <1>2, <2>1, <2>2
<1>4. n * d + b \in 0..(m * n - 1) /\ m * n \in Nat \ {0}
  <2>1. n * d <= n * (m - 1) /\ n * d >= 0
    BY <1>2
  <2>2. n * (m - 1) = m * n - n
    OBVIOUS
  <2> QED
    BY <1>1, <1>2, <2>1, <2>2
<1>5. v \div (m * n) = c
  <2> DEFINE k == m * n
             r == n * d + b
  <2>1. k \in Nat \ {0} /\ r \in 0..(k - 1) /\ v = k * c + r
    BY <1>3, <1>4
  <2> HIDE DEF k, r
  <2>2. v \div k = c
    BY <1>2, <2>1, Quotient
  <2> QED
    BY <2>2 DEF k
<1> QED
  BY <1>5 DEF a, c

\* The digits of a number are its value.
LEMMA DigitsPrefix ==
    ASSUME NEW v \in 0..(Span - 1), NEW n \in 0..Bytes
    PROVE  Prefix(Digits(v))[n] = v \div Power[Bytes - n]
<1> DEFINE D == Digits(v)
           T == {i \in Nat : i <= Bytes => Prefix(D)[i] = v \div Power[Bytes - i]}
<1>0. v \in Nat /\ Span \in Nat \ {0} /\ Bytes \in Nat
  BY PowerPositive, BytesAssumption DEF Span
<1>1. 0 \in T
  <2>1. v = Span * 0 + v
    BY <1>0
  <2>2. v \div Span = 0
    BY <1>0, <2>1, Quotient
  <2>3. Power[Bytes - 0] = Span
    BY <1>0 DEF Span
  <2> QED
    BY <2>2, <2>3, PrefixStep
<1>2. ASSUME NEW i \in Nat, i \in T, i + 1 <= Bytes
      PROVE  Prefix(D)[i + 1] = v \div Power[Bytes - (i + 1)]
  <2> DEFINE k == Bytes - (i + 1)
             q == v \div Power[k]
  <2>1. i + 1 \in 1..Bytes /\ k \in Nat /\ Bytes - i = k + 1
    BY <1>0, <1>2
  <2>2. Power[k + 1] = Radix * Power[k] /\ Power[k] \in Nat \ {0} /\ Radix \in Nat \ {0}
    BY <2>1, PowerStep, PowerPositive, RadixAssumption
  <2>3. v \div Power[Bytes - i] = q \div Radix
    BY <1>0, <2>1, <2>2, DivideTwice
  <2>4. D[i + 1] = q % Radix
    BY <2>1 DEF Digits
  <2>5. Prefix(D)[i + 1] = (q \div Radix) * Radix + (q % Radix)
    <3>1. Prefix(D)[i] = q \div Radix
      <4>1. i <= Bytes
        BY <1>0, <1>2
      <4>2. Prefix(D)[i] = v \div Power[Bytes - i]
        BY <1>2, <4>1
      <4> QED
        BY <2>3, <4>2
    <3>2. Prefix(D)[i + 1] = Prefix(D)[i] * Radix + D[i + 1]
      <4>1. (i + 1) - 1 = i
        BY <1>2
      <4> QED
        BY <2>1, <4>1, PrefixStep
    <3> QED
      BY <2>4, <3>1, <3>2
  <2>6. q \in Nat
    BY <1>0, <2>2, Division
  <2> HIDE DEF q
  <2>7. q \div Radix \in Nat /\ q = Radix * (q \div Radix) + (q % Radix)
    BY <2>2, <2>6, Division
  <2>8. Prefix(D)[i + 1] = q
    BY <2>2, <2>5, <2>7
  <2> QED
    BY <2>8 DEF q
<1>3. \A i \in Nat : i \in T => i + 1 \in T
  BY <1>2
<1> HIDE DEF T
<1>4. n \in T
  BY <1>1, <1>3, SetInduction, BytesAssumption
<1> QED
  BY <1>0, <1>4 DEF T

\* Digits is the inverse of Value.
LEMMA DigitsValue ==
    ASSUME NEW v \in 0..(Span - 1)
    PROVE  Digits(v) \in Number /\ Value(Digits(v)) = v
<1>1. v \in Nat /\ Bytes \in Nat
  BY PowerPositive, BytesAssumption DEF Span
<1>2. Digits(v) \in Number
  <2>1. ASSUME NEW i \in 1..Bytes
        PROVE  (v \div Power[Bytes - i]) % Radix \in Byte
    <3>1. Power[Bytes - i] \in Nat \ {0}
      BY <1>1, PowerPositive
    <3>2. v \div Power[Bytes - i] \in Nat
      BY <1>1, <3>1, Division
    <3> QED
      BY <3>2, RadixAssumption, Division DEF Byte
  <2> QED
    BY <2>1 DEF Digits, Number
<1>3. Value(Digits(v)) = v \div Power[0]
  BY <1>1, PrefixStep, DigitsPrefix
<1>4. v \div 1 = v
  <2>1. v = 1 * v + 0
    BY <1>1
  <2> QED
    BY <1>1, <2>1, Quotient
<1> QED
  BY <1>2, <1>3, <1>4, PowerStep

-----------------------------------------------------------------------------
(* The types. *)
LEMMA IncrementNumber ==
    ASSUME NEW s \in Number
    PROVE  Increment(s) \in Number
BY AddOneNumber, BytesAssumption DEF Increment, Number

\* Counting INKEY's time down leaves two bytes.
LEMMA DecrementBytes ==
    ASSUME NEW k \in Byte \X Byte
    PROVE  Decrement(k) \in Byte \X Byte
<1>1. k[1] \in Byte /\ k[2] \in Byte
  OBVIOUS
<1>2. 0 \in Byte /\ Radix - 1 \in Byte /\ \A b \in Byte : b # 0 => b - 1 \in Byte
  BY RadixAssumption DEF Byte
<1> QED
  BY <1>1, <1>2 DEF Decrement

\* The clocks and the timer begin as numbers of bytes.
LEMMA InitTypes == Init => TypeOK
<1> SUFFICES ASSUME Init PROVE TypeOK
  OBVIOUS
<1>1. 0 \in Byte /\ 0 \in 0..(Span - 1) /\ 0 \in 0..Span
  BY RadixAssumption, BytesAssumption, PowerPositive DEF Byte, Span
<1>2. store \in [{1, 2} -> Number]
  BY DEF Init
<1>3. timer \in Number
  BY <1>1 DEF Init, Number
<1>4. call \in TheClock!Call
  BY DEF Init, TheClock!Call
<1> QED
  BY <1>1, <1>2, <1>3, <1>4 DEF Init, TypeOK

\* What the tick, a read and a write are noted as.
LEMMA Labels ==
    /\ TheClock!NextTick \in TheClock!Call
    /\ <<"read">> \in TheClock!Call
    /\ \A v \in 0..(Span - 1) : <<"write", v>> \in TheClock!Call
BY DEF TheClock!Call, TheClock!NextTick

\* The tick, a write, a read and INKEY leave every byte a byte.
LEMMA NextTypes == TypeOK /\ [Next]_vars => TypeOK'
<1> SUFFICES ASSUME TypeOK, [Next]_vars
             PROVE  TypeOK'
  OBVIOUS
<1> USE DEF TypeOK
<1>0. 3 - switch \in {1, 2} /\ Span \in Nat \ {0} /\ 0 \in 0..Span
  BY BytesAssumption, PowerPositive DEF Span
<1>1. CASE Tick
  <2>1. AddOne(store[switch]) \in Number /\ Increment(timer) \in Number
    BY AddOneNumber, IncrementNumber
  <2>2. store' \in [{1, 2} -> Number] /\ switch' \in {1, 2} /\ timer' \in Number
    BY <1>0, <1>1, <2>1 DEF Tick
  <2>3. inkey' \in Byte \X Byte
    BY <1>1, DecrementBytes DEF Tick
  <2>4. due' \in 0..Span /\ crossed' \in BOOLEAN
    BY <1>0, <1>1 DEF Tick, Crosses, Full
  <2>5. call' \in TheClock!Call
    BY <1>1, Labels DEF Tick
  <2> QED
    BY <1>1, <2>2, <2>3, <2>4, <2>5 DEF Tick
<1>2. CASE ReadClock
  BY <1>2, ValueBound, Labels DEF ReadClock, interval, wait
<1>3. ASSUME NEW v \in 0..(Span - 1), WriteClock(v)
      PROVE  TypeOK'
  BY <1>0, <1>3, DigitsValue, Labels DEF WriteClock, interval, wait
<1>4. ASSUME NEW v \in TimerValues, WriteTimer(v)
      PROVE  TypeOK'
  <2>1. v \in 0..(Span - 1)
    BY TimerAssumption
  <2>2. timer' \in Number /\ crossed' = FALSE
    BY <1>4, <2>1, DigitsValue DEF WriteTimer
  <2>3. due' \in 0..Span
    BY <1>0, <1>4, <2>1 DEF WriteTimer
  <2> QED
    BY <1>4, <2>2, <2>3 DEF WriteTimer, clock, wait
<1>5. ASSUME NEW l \in Limits, Inkey(l)
      PROVE  TypeOK'
  <2>1. l \in Byte \X Byte
    BY LimitsAssumption DEF Byte
  <2>2. inkey' \in Byte \X Byte /\ acc' \in Byte
    BY <1>5, <2>1 DEF Inkey
  <2> QED
    BY <1>5, <2>2 DEF Inkey, clock, interval
<1>6. CASE InkeyStore
  <2>1. inkey' \in Byte \X Byte
    BY <1>6 DEF InkeyStore
  <2> QED
    BY <1>6, <2>1 DEF InkeyStore, clock, interval
<1>7. CASE Poll
  BY <1>7 DEF Poll, clock, interval
<1>8. CASE ReadLow
  BY <1>8 DEF ReadLow, clock, interval
<1>9. CASE ReadHigh
  BY <1>9 DEF ReadHigh, clock, interval
<1>10. CASE Keyboard
  BY <1>10 DEF Keyboard, clock, interval
<1>11. CASE UNCHANGED vars
  BY <1>11 DEF vars, clock, interval, wait
<1> QED
  BY <1>1, <1>2, <1>3, <1>4, <1>5, <1>6, <1>7, <1>8, <1>9, <1>10, <1>11 DEF Next, RDCH

\* Type correctness for bytes of any size and numbers of any length: the carry
\* of the tick, the writes and the countdown leave every byte a byte.
THEOREM TypeCorrect == Spec => []TypeOK
<1>1. Spec => Init /\ [][Next]_vars
  BY PTL DEF Spec
<1> QED
  BY <1>1, InitTypes, NextTypes, PTL

-----------------------------------------------------------------------------
(* The two stores are one clock. *)
\* A tick is a tick of the abstract clock.
LEMMA TickIsTick == TypeOK /\ Tick => TheClock!Tick
<1> SUFFICES ASSUME TypeOK, Tick
             PROVE  TheClock!Tick
  OBVIOUS
<1>1. store[switch] \in Number /\ 3 - switch \in {1, 2}
  BY DEF TypeOK
<1>2. /\ store'[switch'] = AddOne(store[switch]) /\ ret' = ret
      /\ call' = TheClock!NextTick
  BY <1>1 DEF TypeOK, Tick
<1> QED
  BY <1>1, <1>2, AddOneValue DEF TheClock!Tick

\* A tick, a read and a write are those of the abstract clock; other steps
\* stutter.
LEMMA NextImplemented == TypeOK /\ [Next]_vars => [TheClock!Next]_(TheClock!vars)
<1> SUFFICES ASSUME TypeOK, [Next]_vars
             PROVE  TheClock!Next \/ UNCHANGED <<Value(store[switch]), ret, call>>
  BY DEF TheClock!vars
<1>1. CASE Tick
  BY <1>1, TickIsTick DEF TheClock!Next
<1>2. CASE ReadClock
  BY <1>2 DEF ReadClock, TheClock!Next, TheClock!Read
<1>3. ASSUME NEW v \in 0..(Span - 1), WriteClock(v)
      PROVE  TheClock!Next
  <2>1. store'[switch'] = Digits(v) /\ ret' = ret /\ call' = <<"write", v>>
    BY <1>3 DEF WriteClock, TypeOK
  <2>2. TheClock!Write(v)
    BY <2>1, DigitsValue DEF TheClock!Write
  <2> QED
    BY <2>2 DEF TheClock!Next
<1>4. ASSUME store' = store, switch' = switch, ret' = ret, call' = call
      PROVE  UNCHANGED <<Value(store[switch]), ret, call>>
  BY <1>4
<1>5. CASE \E v \in TimerValues : WriteTimer(v)
  BY <1>4, <1>5 DEF WriteTimer, clock
<1>6. CASE RDCH \/ Keyboard \/ \E l \in Limits : Inkey(l)
  BY <1>4, <1>6 DEF RDCH, InkeyStore, Poll, ReadLow, ReadHigh, Keyboard, Inkey, clock
<1>7. CASE UNCHANGED vars
  BY <1>4, <1>7 DEF vars, clock
<1> QED
  BY <1>1, <1>2, <1>3, <1>5, <1>6, <1>7 DEF Next

\* Whatever the order of ticks, writes and reads, the two stores behave as one
\* counter: each tick adds one, each write sets its value, and a read returns
\* the last write and the ticks since it.
THEOREM ClockImplemented == Spec => ImplementsClock
<1>1. Init => TheClock!Init
  <2> SUFFICES ASSUME Init PROVE TheClock!Init
    OBVIOUS
  <2>1. store[switch] \in Number /\ ret = 0 /\ call = <<"none">>
    BY DEF Init
  <2> QED
    BY <2>1, ValueBound DEF TheClock!Init
<1>2. Spec => Init /\ [][Next]_vars
  BY PTL DEF Spec
<1> QED
  BY <1>1, <1>2, NextImplemented, TypeCorrect, PTL DEF ImplementsClock, TheClock!Spec

\* Every tick adds one to the clock, with the carry through all its bytes.
THEOREM TicksCounted == Spec => TicksAreCounted
<1>1. TypeOK /\ [Next]_vars => [Tick => TheClock!Tick]_vars
  BY TickIsTick
<1>2. Spec => [][Next]_vars
  BY PTL DEF Spec
<1> QED
  BY <1>1, <1>2, TypeCorrect, PTL DEF TicksAreCounted

-----------------------------------------------------------------------------
(* The event of the interval timer. *)
\* While ticks are due, the timer is that far from its highest value and its
\* highest byte, which the tick never increases, is &FF.
Due == due # 0 => Value(timer) = Span - due /\ timer[1] = Radix - 1

\* The tick that finds a timer with all bytes &FF is the one before zero.
LEMMA CrossesLast ==
    ASSUME NEW s \in Number
    PROVE  Value(s) = Span - 1 <=> Crosses(s) /\ s[1] = Radix - 1
<1>1. Value(s) = Span - 1 <=> \A j \in 1..Bytes : s[j] = Radix - 1
  BY PrefixFull, PrefixStep, BytesAssumption DEF Span
<1> QED
  BY <1>1, BytesAssumption DEF Crosses, Full

\* A small -n has the highest byte &FF.
LEMMA SmallHighest ==
    ASSUME NEW v \in Small
    PROVE  v \in 0..(Span - 1) /\ Digits(v)[1] = Radix - 1
<1> DEFINE q == Power[Bytes - 1]
           r == v - q * (Radix - 1)
<1>1. q \in Nat \ {0} /\ Span = Radix * q /\ v \in (Span - q)..(Span - 1)
  BY BytesAssumption, PowerPositive, PowerStep DEF Span, Small
<1>2. 1 \in 1..Bytes /\ Digits(v)[1] = (v \div q) % Radix
  BY BytesAssumption DEF Digits
<1> HIDE DEF q
<1>3. Radix * q = q * (Radix - 1) + q /\ q * (Radix - 1) \in Nat
  BY <1>1, RadixAssumption
<1>4. v \in 0..(Span - 1)
  BY <1>1, <1>3
<1>5. r \in 0..(q - 1) /\ v = q * (Radix - 1) + r
  BY <1>1, <1>3
<1> HIDE DEF r
<1>6. v \div q = Radix - 1
  BY <1>1, <1>5, Quotient, RadixAssumption, SMTT(30)
<1>7. (Radix - 1) % Radix = Radix - 1
  BY RadixAssumption
<1> QED
  BY <1>2, <1>4, <1>6, <1>7

\* A tick brings a small timer one nearer to its event; other steps keep the
\* distance or set it anew.
LEMMA NextDue == TypeOK /\ Due /\ [Next]_vars => Due'
<1> SUFFICES ASSUME TypeOK, Due, [Next]_vars
             PROVE  Due'
  OBVIOUS
<1>1. CASE Tick
  <2> SUFFICES ASSUME due' # 0
               PROVE  Value(timer') = Span - due' /\ timer'[1] = Radix - 1
    BY DEF Due
  <2>1. due \in Nat /\ due # 0 /\ due # 1 /\ due' = due - 1
    BY <1>1, ValueBound DEF Tick, TypeOK
  <2>2. Value(timer) = Span - due /\ timer[1] = Radix - 1 /\ timer \in Number
    BY <2>1 DEF Due, TypeOK
  <2>3. Span \in Nat /\ Value(timer) # Span - 1
    BY <2>1, <2>2, ValueBound
  <2>4. ~Full(timer, 1)
    BY <2>2, <2>3, CrossesLast DEF Crosses
  <2>5. Increment(timer) = AddOne(timer)
    <3>1. AddOne(timer)[1] = timer[1]
      BY <2>4, BytesAssumption DEF AddOne
    <3> QED
      BY <3>1 DEF Increment, AddOne
  <2>6. timer' = AddOne(timer) /\ timer'[1] = timer[1]
    BY <1>1, <2>4, <2>5, BytesAssumption DEF Tick, AddOne
  <2>7. Value(timer') = Value(timer) + 1
    BY <2>2, <2>3, <2>6, AddOneValue
  <2> QED
    BY <2>1, <2>2, <2>3, <2>6, <2>7
<1>2. ASSUME NEW v \in TimerValues, WriteTimer(v)
      PROVE  Due'
  <2> SUFFICES ASSUME due' # 0
               PROVE  Value(timer') = Span - due' /\ timer'[1] = Radix - 1
    BY DEF Due
  <2>1. v \in Small /\ due' = Span - v /\ timer' = Digits(v)
    BY <1>2 DEF WriteTimer
  <2>2. v \in 0..(Span - 1) /\ timer'[1] = Radix - 1 /\ Value(timer') = v
    BY <2>1, SmallHighest, DigitsValue
  <2> QED
    BY <2>1, <2>2, PowerPositive, BytesAssumption DEF Span
<1>3. ASSUME timer' = timer, due' = due
      PROVE  Due'
  BY <1>3 DEF Due
<1>4. CASE ReadClock \/ \E v \in 0..(Span - 1) : WriteClock(v)
  BY <1>3, <1>4 DEF ReadClock, WriteClock, interval
<1>5. CASE RDCH \/ Keyboard \/ \E l \in Limits : Inkey(l)
  BY <1>3, <1>5 DEF RDCH, InkeyStore, Poll, ReadLow, ReadHigh, Keyboard, Inkey, interval
<1>6. CASE UNCHANGED vars
  BY <1>3, <1>6 DEF vars, interval
<1> QED
  BY <1>1, <1>2, <1>4, <1>5, <1>6 DEF Next

\* The event of a timer that was set to a small -n comes at the n-th tick and
\* at none before it.
THEOREM EventInTime == Spec => EventOnTime
<1>1. Init => Due
  BY DEF Init, Due
<1>2. Spec => Init /\ [][Next]_vars
  BY PTL DEF Spec
<1>3. Spec => []Due
  BY <1>1, <1>2, NextDue, TypeCorrect, PTL
<1>4. TypeOK /\ Due /\ [Next]_vars => [due # 0 /\ Tick => (crossed' <=> due = 1)]_vars
  <2> SUFFICES ASSUME TypeOK, Due, due # 0, Tick
               PROVE  crossed' <=> due = 1
    OBVIOUS
  <2>1. timer \in Number /\ Value(timer) = Span - due /\ timer[1] = Radix - 1
    BY DEF Due, TypeOK
  <2>2. Crosses(timer) <=> Value(timer) = Span - 1
    BY <2>1, CrossesLast
  <2>3. Value(timer) = Span - 1 <=> due = 1
    BY <2>1, ValueBound DEF TypeOK
  <2> QED
    BY <2>2, <2>3 DEF Tick
<1> QED
  BY <1>2, <1>3, <1>4, TypeCorrect, PTL DEF EventOnTime
====
