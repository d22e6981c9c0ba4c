---- MODULE SoftKeys_proofs ----
(***************************************************************************)
(* Proofs about SoftKeys for any number of keys and a page of any size:    *)
(* the types, that every key keeps its string, and that an expansion reads *)
(* the string.                                                             *)
(***************************************************************************)
EXTENDS SoftKeys, SequenceTheorems, WellFoundedInduction, TLAPS

\* The pointers are the first bytes of the page.
LEMMA Sizes ==
    /\ Keys \in Nat /\ Keys > 0 /\ Page \in Nat /\ Page > Keys + 1
    /\ Key \subseteq Pointer /\ Pointer \subseteq Byte /\ Keys \in Pointer /\ Keys \notin Key
    /\ \A i \in Pointer : i \in Key \/ i = Keys
    /\ Key \in SUBSET Int /\ Byte \in SUBSET Nat /\ Pointer \in SUBSET Nat
BY PageAssumption DEF Key, Pointer, Byte

\* Bytes are numbers modulo Page.
LEMMA Modulo ==
    ASSUME NEW a \in Int
    PROVE  a % Page \in Byte /\ (a \in Byte => a % Page = a)
<1> DEFINE q == a \div Page
           r == a % Page
<1>1. Page \in Nat \ {0}
  BY Sizes
<1>2. q \in Int /\ r \in 0..(Page - 1) /\ a = Page * q + r
  BY <1>1, SMTT(30)
<1> HIDE DEF q, r
<1>3. ASSUME a \in 0..(Page - 1) PROVE r = a
  <2>1. CASE q >= 1
    <3>1. Page * q >= Page
      BY <1>1, <1>2, <2>1
    <3> QED
      BY <1>1, <1>2, <1>3, <3>1
  <2>2. CASE q <= -1
    <3>1. Page * q <= -Page
      BY <1>1, <1>2, <2>2
    <3> QED
      BY <1>1, <1>2, <1>3, <3>1
  <2>3. CASE q = 0
    BY <1>1, <1>2, <2>3
  <2> QED
    BY <1>2, <2>1, <2>2, <2>3
<1> QED
  BY <1>2, <1>3 DEF Byte, r

LEMMA ModuloByte ==
    ASSUME NEW a \in Byte
    PROVE  a % Page = a
<1>1. a \in Int
  BY Sizes
<1> QED
  BY <1>1, Modulo

\* A remainder taken half way does not change the remainder of a sum.
LEMMA ModuloPlus ==
    ASSUME NEW a \in Nat, NEW i \in Nat
    PROVE  ((a % Page) + i) % Page = (a + i) % Page
<1> DEFINE r == a % Page
           q == a \div Page
           u == (r + i) % Page
           v == (r + i) \div Page
           w == (a + i) % Page
           z == (a + i) \div Page
<1>1. Page \in Nat \ {0}
  BY Sizes
<1>2. q \in Int /\ r \in 0..(Page - 1) /\ a = Page * q + r
  BY <1>1, SMTT(30)
<1> HIDE DEF q, r
<1>3. v \in Int /\ u \in 0..(Page - 1) /\ r + i = Page * v + u
  BY <1>1, <1>2, SMTT(30)
<1>4. z \in Int /\ w \in 0..(Page - 1) /\ a + i = Page * z + w
  BY <1>1, SMTT(30)
<1> HIDE DEF u, v, w, z
<1>5. PICK d \in Int : d = z - q - v
  BY <1>2, <1>3, <1>4
<1>6. Page * z = Page * q + Page * v + Page * d
  BY <1>1, <1>2, <1>3, <1>4, <1>5, SMTT(30)
<1>7. Page * d = u - w
  <2>1. Page * q \in Int /\ Page * v \in Int /\ Page * d \in Int
    BY <1>1, <1>2, <1>3, <1>5
  <2> DEFINE x == Page * q
             y == Page * v
             t == Page * d
             c == Page * z
  <2>2. x \in Int /\ y \in Int /\ t \in Int /\ c = x + y + t
    BY <1>6, <2>1
  <2>3. a = x + r /\ r + i = y + u /\ a + i = c + w
    BY <1>2, <1>3, <1>4
  <2>4. r \in Int /\ u \in Int /\ w \in Int
    BY <1>1, <1>2, <1>3, <1>4
  <2> HIDE DEF x, y, t, c
  <2>5. t = u - w
    BY <2>2, <2>3, <2>4
  <2> QED
    BY <2>5 DEF t
<1>8. CASE d >= 1
  <2>1. Page * d >= Page
    BY <1>1, <1>5, <1>8, SMTT(30)
  <2> QED
    BY <1>1, <1>3, <1>4, <1>7, <2>1
<1>9. CASE d <= -1
  <2>1. Page * d <= -Page
    BY <1>1, <1>5, <1>9, SMTT(30)
  <2> QED
    BY <1>1, <1>3, <1>4, <1>7, <2>1
<1>10. CASE d = 0
  BY <1>1, <1>3, <1>4, <1>7, <1>10 DEF u, w, r
<1> QED
  BY <1>5, <1>8, <1>9, <1>10 DEF u, w, r

LEMMA Bytes == \A a \in Byte : a \in Nat /\ a < Page
BY Sizes DEF Byte

LEMMA Pointers == \A i \in Pointer : i \in Byte /\ i \in Nat /\ i <= Keys
BY Sizes DEF Pointer

\* Every set of naturals has a least one.
LEMMA Least ==
    ASSUME NEW S \in SUBSET Nat, S # {}
    PROVE  \E n \in S : \A m \in S : n <= m
<1> DEFINE Less == OpToRel(<, Nat)
<1>1. IsWellFoundedOn(Less, Nat)
  BY NatLessThanWellFounded
<1>2. \A x, y \in Nat : <<x, y>> \in Less <=> x < y
  BY DEF OpToRel
<1> HIDE DEF Less
<1>3. PICK n \in S : \A m \in S : <<m, n>> \notin Less
  BY <1>1, WFMin
<1>4. ASSUME NEW m \in S PROVE n <= m
  <2>1. m \in Nat /\ n \in Nat /\ <<m, n>> \notin Less
    BY <1>3
  <2>2. ~ m < n
    BY <1>2, <2>1
  <2> QED
    BY <2>1, <2>2
<1> QED
  BY <1>4

(* The length of a string. *)
Ends(p, k) ==
    {(p[Keys] - p[k]) % Page} \cup {p[i] - p[k] : i \in {j \in Pointer : p[j] > p[k]}}

\* The pointers are bytes, so the distances between them are.
LEMMA EndsAreBytes ==
    ASSUME NEW p \in [Byte -> Byte], NEW k \in Key
    PROVE  Ends(p, k) \in SUBSET Byte
<1>1. p[k] \in Byte /\ p[Keys] \in Byte /\ \A j \in Pointer : p[j] \in Byte
  BY Sizes
<1>2. \A j \in Pointer : p[j] > p[k] => p[j] - p[k] \in Byte
  <2>1. \A a, b \in Byte : a > b => a - b \in Byte
    BY PageAssumption DEF Byte
  <2> QED
    BY <1>1, <2>1
<1>3. p[Keys] - p[k] \in Int
  BY <1>1, Bytes
<1> QED
  BY <1>2, <1>3, Modulo DEF Ends

LEMMA LengthType ==
    ASSUME NEW p \in [Byte -> Byte], NEW k \in Key
    PROVE  LengthOf(p, k) \in Byte
<1>1. Ends(p, k) \in SUBSET Nat /\ Ends(p, k) # {}
  BY EndsAreBytes, Sizes DEF Ends
<1>2. \E n \in Ends(p, k) : \A m \in Ends(p, k) : n <= m
  BY <1>1, Least
<1>3. LengthOf(p, k) = CHOOSE n \in Ends(p, k) : \A m \in Ends(p, k) : n <= m
  BY DEF LengthOf, Ends
<1>4. LengthOf(p, k) \in Ends(p, k)
  BY <1>2, <1>3
<1> QED
  BY <1>4, EndsAreBytes

\* The code finds the least of the distances.
LEMMA LengthIs ==
    ASSUME NEW p \in [Byte -> Byte], NEW k \in Key, NEW n \in Ends(p, k),
           \A m \in Ends(p, k) : n <= m
    PROVE  LengthOf(p, k) = n
<1>1. LengthOf(p, k) = CHOOSE x \in Ends(p, k) : \A m \in Ends(p, k) : x <= m
  BY DEF LengthOf, Ends
<1>2. Ends(p, k) \in SUBSET Nat
  BY EndsAreBytes, Sizes
<1>3. LengthOf(p, k) \in Ends(p, k) /\ \A m \in Ends(p, k) : LengthOf(p, k) <= m
  BY <1>1
<1> QED
  BY <1>2, <1>3
-----------------------------------------------------------------------------
(* The invariant: what the page of pointers p and the strings w have to do  *)
(* with each other, and what holds at each place of *KEY.                   *)
\* Key k has a string: it goes up to the next pointer above its own.
Holds(p, w, k) ==
    /\ Len(w[k]) > 0
    /\ \E j \in Pointer : p[j] = p[k] + Len(w[k])
    /\ \A j \in Pointer : p[j] > p[k] => p[j] >= p[k] + Len(w[k])
    /\ \A i \in 1..Len(w[k]) : p[p[k] + i] = w[k][i]

\* The strings of the keys ks end at e; a key that points there has none.
Filled(p, w, e, ks) ==
    \A k \in ks : IF p[k] < e THEN Holds(p, w, k) /\ \A j \in Key : p[j] = p[k] => j = k
                  ELSE w[k] = <<>>

\* What has been read of the new string is stored from the pointer e.
Stored(e) ==
    /\ end = e + Len(text)
    /\ \A i \in 1..Len(text) : page[e + i] = text[i]

\* No string is being changed, or the new one is behind the others.
Whole ==
    /\ \A i \in Pointer : page[i] <= page[Keys]
    /\ Filled(page, want, page[Keys], Key)

\* The pointers at the old end, which the string removed reached, go down to
\* where it began.
Lowering ==
    /\ end = page[key] /\ text = <<>>
    /\ \A i \in Pointer : page[i] <= end \/ (i >= at /\ page[i] = end + gone)
    /\ page[Keys] = IF at <= Keys THEN end + gone ELSE end
    /\ Filled(page, want, end, Key \ {key})

Reading == Whole /\ page[key] = page[Keys] /\ Stored(page[Keys])

\* The key has its string, and the keys without one point at it.
Sharing ==
    /\ \A i \in Key : page[i] <= page[key]
    /\ page[Keys] = end /\ want[key] = text
    /\ Stored(page[key])
    /\ Filled(page, want, page[key], Key \ {key})

Laid ==
    /\ \A i \in Pointer : page[i] >= Keys
    /\ pc = "idle" => Whole
    /\ pc = "remove" => Whole /\ end = page[Keys] /\ text = <<>>
    /\ pc = "lower" => Lowering
    /\ pc \in {"read", "store"} => Reading
    /\ pc = "raise" => Reading /\ gone = 0
    /\ pc = "share" => Sharing

\* The flag tells where *KEY is, which does not run during an expansion.
Apart ==
    /\ changing = (pc \in {"remove", "lower", "store", "raise"})
    /\ length # 0 => pc = "idle"
    /\ at # 0 => pc \in {"lower", "raise"}

Inv == Apart /\ ExpansionIsString /\ (spoilt = {} => Laid)

(* What the layout says of the code's arithmetic. *)
\* The length that the code finds is that of the string, which is below the end.
LEMMA LengthHeld ==
    ASSUME TypeOK, Whole, NEW k \in Key
    PROVE  /\ LengthOf(page, k) = Len(want[k]) /\ Len(want[k]) \in Nat
           /\ page[k] + Len(want[k]) <= page[Keys]
           /\ After(page, k) = page[k] + Len(want[k])
           /\ page[k] \in Byte /\ page[Keys] \in Byte
           /\ page[k] \in Nat /\ page[Keys] \in Nat
<1> DEFINE n == Len(want[k])
           a == page[k]
           e == page[Keys]
           d == e - a
<1>1. page \in [Byte -> Byte] /\ a \in Byte /\ e \in Byte /\ a <= e
  BY Sizes DEF TypeOK, Whole
<1>2. n \in Nat /\ (want[k] = <<>> => n = 0)
  <2>1. want[k] \in Seq(Char)
    BY DEF TypeOK
  <2> QED
    BY <2>1, EmptySeq, LenProperties
<1>3. \A j \in Pointer : page[j] \in Nat /\ page[j] <= e
  BY <1>1, Sizes DEF Whole
<1>4. a < e => Holds(page, want, k)
  BY DEF Whole, Filled
<1>5. ~ a < e => want[k] = <<>>
  BY DEF Whole, Filled
<1>6. Ends(page, k) = {d % Page} \cup {page[i] - a : i \in {j \in Pointer : page[j] > a}}
  BY DEF Ends
<1>7. After(page, k) = (a + LengthOf(page, k)) % Page
  BY DEF After
<1> HIDE DEF n, a, e
<1>8. d \in Byte
  BY <1>1, Sizes DEF Byte
<1>9. d % Page = d
  BY <1>8, ModuloByte
<1>10. n \in Ends(page, k) /\ (\A m \in Ends(page, k) : n <= m) /\ a + n <= e
  <2>1. CASE a < e
    <3>1. PICK j \in Pointer : page[j] = a + n
      BY <1>4, <2>1 DEF Holds, a, n
    <3>2. n > 0 /\ \A i \in Pointer : page[i] > a => page[i] >= a + n
      BY <1>4, <2>1 DEF Holds, a, n
    <3>3. page[j] > a /\ page[j] - a = n
      BY <1>1, <1>2, <3>1, <3>2, Sizes
    <3>4. e >= a + n
      BY <2>1, <3>2, Sizes DEF e
    <3> QED
      BY <1>1, <1>2, <1>3, <1>6, <1>9, <3>2, <3>3, <3>4, Sizes
  <2>2. CASE a = e
    <3>1. n = 0 /\ d = 0
      BY <1>1, <1>2, <1>5, <2>2, Sizes
    <3> QED
      BY <1>1, <1>3, <1>6, <1>9, <2>2, <3>1, Sizes
  <2> QED
    BY <1>1, <2>1, <2>2, Sizes
<1>11. LengthOf(page, k) = n
  BY <1>1, <1>10, LengthIs
<1>12. a + n \in Byte
  BY <1>1, <1>2, <1>10, Sizes DEF Byte
<1>13. (a + n) % Page = a + n
  BY <1>12, ModuloByte
<1> QED
  BY <1>1, <1>2, <1>7, <1>10, <1>11, <1>13, Bytes DEF n, a, e

\* A page that is laid out gives every key its string.
LEMMA WholeIsKept == TypeOK /\ Whole => Kept
<1> SUFFICES ASSUME TypeOK, Whole, NEW k \in Key
             PROVE  Definition(page, k) = want[k]
  BY DEF Kept
<1> DEFINE n == Len(want[k])
<1>1. /\ LengthOf(page, k) = n /\ n \in Nat /\ page[k] + n <= page[Keys]
  BY LengthHeld
<1>2. want[k] \in [1..n -> Char]
  BY LenProperties DEF TypeOK
<1>3. page[k] \in Byte /\ page[Keys] \in Byte
  BY Sizes DEF TypeOK
<1> HIDE DEF n
<1>4. ASSUME NEW i \in 1..n PROVE page[(page[k] + i) % Page] = want[k][i]
  <2>1. page[k] + i \in Byte
    BY <1>1, <1>3, Sizes DEF Byte
  <2>2. (page[k] + i) % Page = page[k] + i
    BY <2>1, ModuloByte
  <2>3. page[k] < page[Keys]
    BY <1>1, <1>3, Sizes DEF Byte
  <2>4. Holds(page, want, k)
    BY <2>3 DEF Whole, Filled
  <2> QED
    BY <2>2, <2>4 DEF Holds, n
<1>5. Definition(page, k) = [i \in 1..n |-> page[(page[k] + i) % Page]]
  BY <1>1 DEF Definition
<1> QED
  BY <1>2, <1>4, <1>5

\* What the strings below e depend on: the pointers and the bytes below e.
LEMMA FilledKept ==
    ASSUME NEW p \in [Byte -> Byte], NEW q \in [Byte -> Byte],
           NEW w \in [Key -> Seq(Char)], NEW v, NEW e \in Byte, NEW ks \in SUBSET Key,
           Filled(p, w, e, ks),
           \A i \in Pointer : p[i] >= Keys,
           \E m \in Pointer : p[m] = e,
           \E m \in Pointer : q[m] = e,
           \A i \in Pointer : IF p[i] < e THEN q[i] = p[i] ELSE q[i] >= e,
           \A x \in Byte : x > Keys /\ x <= e => q[x] = p[x],
           \A k \in ks : v[k] = w[k]
    PROVE  Filled(q, v, e, ks)
<1> SUFFICES ASSUME NEW k \in ks
             PROVE  IF q[k] < e THEN Holds(q, v, k) /\ \A j \in Key : q[j] = q[k] => j = k
                    ELSE v[k] = <<>>
  BY DEF Filled
<1> DEFINE n == Len(w[k])
<1>1. /\ k \in Pointer /\ k \in Byte /\ v[k] = w[k] /\ n \in Nat /\ e \in Nat
      /\ \A i \in Pointer : p[i] \in Nat /\ q[i] \in Nat
  BY Sizes, LenProperties
<1>2. CASE p[k] >= e
  <2>1. q[k] >= e /\ w[k] = <<>>
    BY <1>1, <1>2 DEF Filled
  <2> QED
    BY <1>1, <2>1
<1>3. CASE p[k] < e
  <2>1. Holds(p, w, k) /\ \A j \in Key : p[j] = p[k] => j = k
    BY <1>3 DEF Filled
  <2>2. /\ n > 0 /\ \E j \in Pointer : p[j] = p[k] + n
        /\ \A j \in Pointer : p[j] > p[k] => p[j] >= p[k] + n
        /\ \A i \in 1..n : p[p[k] + i] = w[k][i]
    BY <2>1 DEF Holds
  <2> HIDE DEF n
  <2>3. q[k] = p[k] /\ p[k] + n <= e
    BY <1>1, <1>3, <2>2
  <2>4. \E j \in Pointer : q[j] = q[k] + n
    <3>1. PICK j \in Pointer : p[j] = p[k] + n
      BY <2>2
    <3>2. CASE p[j] < e
      BY <2>3, <3>1, <3>2
    <3>3. CASE p[j] = e
      BY <2>3, <3>1, <3>3
    <3> QED
      BY <1>1, <2>3, <3>1, <3>2, <3>3
  <2>5. \A j \in Pointer : q[j] > q[k] => q[j] >= q[k] + n
    <3> SUFFICES ASSUME NEW j \in Pointer, q[j] > q[k] PROVE q[j] >= q[k] + n
      OBVIOUS
    <3>1. CASE p[j] < e
      BY <2>2, <2>3, <3>1
    <3>2. CASE p[j] >= e
      BY <1>1, <2>3, <3>2
    <3> QED
      BY <1>1, <3>1, <3>2
  <2>6. \A i \in 1..n : q[q[k] + i] = w[k][i]
    <3> SUFFICES ASSUME NEW i \in 1..n PROVE q[q[k] + i] = w[k][i]
      OBVIOUS
    <3>1. p[k] \in Nat /\ p[k] >= Keys /\ e < Page /\ p[k] + n <= e
      BY <1>1, <2>3, Sizes DEF Byte
    <3>2. p[k] + i \in Nat /\ p[k] + i > Keys /\ p[k] + i <= e
      BY <1>1, <3>1, PageAssumption
    <3>3. p[k] + i \in Byte
      BY <1>1, <3>1, <3>2, PageAssumption DEF Byte
    <3> QED
      BY <2>2, <2>3, <3>2, <3>3
  <2>7. \A j \in Key : q[j] = q[k] => j = k
    <3> SUFFICES ASSUME NEW j \in Key, q[j] = q[k] PROVE j = k
      OBVIOUS
    <3>1. j \in Pointer /\ p[j] < e
      BY <1>1, <1>3, <2>3, Sizes
    <3> QED
      BY <2>1, <2>3, <3>1
  <2>8. Holds(q, v, k)
    BY <1>1, <2>2, <2>4, <2>5, <2>6 DEF Holds, n
  <2> QED
    BY <1>3, <2>3, <2>7, <2>8
<1> QED
  BY <1>1, <1>2, <1>3
\* While nothing is expanded, what is left to read is nothing.
LEMMA NothingAhead ==
    ASSUME ExpansionIsString, length = 0, length' = length, ahead' = ahead, spoilt \subseteq spoilt'
    PROVE  ExpansionIsString'
<1> SUFFICES ASSUME spoilt' = {} PROVE ahead' = [i \in 1..length' |-> page'[(next' + i) % Page]]
  BY DEF ExpansionIsString
<1>1. ahead = [i \in 1..length |-> page[(next + i) % Page]]
  BY DEF ExpansionIsString
<1>2. \A i : i \notin 1..0
  OBVIOUS
<1> QED
  BY <1>1, <1>2

\* What the code moves is in the page.
LEMMA WholeInPage ==
    ASSUME TypeOK, Whole, NEW k \in Key, NEW e \in Byte, page[Keys] <= e
    PROVE  InPage(page, k, e)
<1> DEFINE n == Len(want[k])
           a == page[k]
           b == page[Keys]
<1>1. n \in Nat /\ a + n <= b /\ After(page, k) = a + n /\ a \in Nat /\ b \in Nat
  BY LengthHeld
<1>3. e \in Nat /\ b <= e
  BY Bytes
<1> HIDE DEF n, a, b
<1>2. a <= a + n /\ a + n <= e
  BY <1>1, <1>3
<1> QED
  BY <1>1, <1>2 DEF InPage, a

\* All keys point at the end of an empty page.
LEMMA ClearedWhole ==
    ASSUME NEW p, p = Cleared, NEW w, w = NoStrings
    PROVE  /\ p \in [Byte -> Byte] /\ w \in [Key -> Seq(Char)]
           /\ \A i \in Pointer : p[i] = Keys
           /\ Filled(p, w, p[Keys], Key)
<1>1. Keys \in Byte /\ \A i \in Pointer : p[i] = Keys
  BY Sizes DEF Cleared, Byte
<1>2. \A k \in Key : w[k] = <<>> /\ p[k] = Keys /\ p[Keys] = Keys
  BY <1>1, Sizes DEF NoStrings
<1>3. <<>> \in Seq(Char)
  BY EmptySeq
<1> QED
  BY <1>1, <1>2, <1>3, Sizes DEF Cleared, NoStrings, Filled

LEMMA InvInit == Init => TypeOK /\ Inv
<1> SUFFICES ASSUME Init PROVE TypeOK /\ Inv
  OBVIOUS
<1>1. /\ page \in [Byte -> Byte] /\ want \in [Key -> Seq(Char)]
      /\ \A i \in Pointer : page[i] = Keys
      /\ Filled(page, want, page[Keys], Key)
  BY ClearedWhole DEF Init
<1>2. 0 \in Byte /\ 0 \in Key /\ 0 \in 0..(Keys + 1) /\ <<>> \in Seq(Char)
  BY Sizes, EmptySeq DEF Byte, Key
<1>3. TypeOK
  BY <1>1, <1>2 DEF Init, TypeOK
<1>4. Whole
  BY <1>1, Sizes DEF Whole
<1>5. Laid
  BY <1>1, <1>4, Sizes DEF Init, Laid
<1>6. ExpansionIsString
  <2>1. ahead = <<>> /\ length = 0
    BY DEF Init
  <2>2. [i \in 1..0 |-> page[(next + i) % Page]] = <<>>
    OBVIOUS
  <2> QED
    BY <2>1, <2>2 DEF ExpansionIsString
<1> QED
  <2>1. Apart
    <3>1. pc = "idle" /\ changing = FALSE /\ length = 0 /\ at = 0
      BY DEF Init
    <3>2. (pc \in {"remove", "lower", "store", "raise"}) = FALSE
      BY <3>1
    <3> QED
      BY <3>1, <3>2, Zenon DEF Apart
  <2> QED
    BY <1>3, <1>5, <1>6, <2>1 DEF Inv

(* The steps. *)
LEMMA StepStarKey ==
    ASSUME TypeOK, Inv, NEW k \in Key, StarKey(k)
    PROVE  TypeOK' /\ Inv'
<1>1. /\ pc = "idle" /\ length = 0 /\ key' = k /\ end' = page[Keys] /\ text' = <<>>
      /\ changing' = TRUE /\ pc' = "remove"
      /\ UNCHANGED <<page, length, next, ahead, gone, at, want, spoilt>>
  BY DEF StarKey, expansion, history
<1>2. /\ page[Keys] \in Byte /\ <<>> \in Seq(Char) /\ Len(<<>>) = 0 /\ 0 < Page - Keys
  BY Sizes, EmptySeq DEF TypeOK
<1>3. spoilt = {} => Laid /\ Whole
  BY <1>1 DEF Inv, Laid
<1>4. spoilt = {} => InPage(page, k, page[Keys])
  <2>1. page[Keys] <= page[Keys]
    BY <1>2, Bytes
  <2> QED
    BY <1>2, <1>3, <2>1, WholeInPage
<1>5. TypeOK'
  BY <1>1, <1>2, <1>4 DEF TypeOK, InPage, After
<1>6. spoilt' = {} => Laid'
  <2> SUFFICES ASSUME spoilt = {} PROVE Laid'
    BY <1>1
  <2>1. Whole'
    BY <1>1, <1>3 DEF Whole
  <2>2. \A i \in Pointer : page'[i] >= Keys
    BY <1>1, <1>3 DEF Laid
  <2> QED
    BY <1>1, <2>1, <2>2 DEF Laid
<1>7. ExpansionIsString'
  BY <1>1, NothingAhead DEF Inv
<1> QED
  BY <1>1, <1>5, <1>6, <1>7 DEF Inv, Apart

\* The copy leaves an unspoilt page as it is: the string is the last, or empty.
LEMMA CopyIs ==
    ASSUME TypeOK, Laid, Copy, spoilt' = {}
    PROVE  /\ page' = page
           /\ pc = "remove" =>
                /\ end' = page[key] /\ gone' = Len(want[key])
                /\ page[key] + Len(want[key]) = page[Keys]
           /\ pc = "store" => end' = end /\ gone' = 0
<1> DEFINE n == Len(want[key])
           a == page[key]
           e == page[Keys]
<1>1. /\ pc \in {"remove", "store"} /\ InPage(page, key, end)
      /\ page' = CloseUp(page, key, end) /\ gone' = LengthOf(page, key)
      /\ end' = a + Count(page, key, end)
      /\ After(page, key) \in {a, end}
  BY DEF Copy
<1>2. Whole /\ key \in Key /\ page \in [Byte -> Byte] /\ end \in Byte
  BY <1>1 DEF Laid, Reading, TypeOK
<1>3. /\ LengthOf(page, key) = n /\ n \in Nat /\ a + n <= e /\ After(page, key) = a + n
      /\ a \in Nat /\ e \in Nat /\ end \in Nat
  BY <1>2, LengthHeld, Bytes
<1>4. pc = "remove" => end = e
  BY DEF Laid
<1>5. pc = "store" => a = e /\ want[key] = <<>>
  <2> SUFFICES ASSUME pc = "store" PROVE a = e /\ want[key] = <<>>
    OBVIOUS
  <2>1. page[key] = page[Keys] /\ Filled(page, want, page[Keys], Key)
    BY DEF Laid, Reading, Whole
  <2>2. ~ page[key] < page[Keys]
    BY <1>3, <2>1, Bytes
  <2> QED
    BY <1>2, <2>1, <2>2 DEF Filled
<1>6. want[key] = <<>> => n = 0
  BY EmptySeq
<1>7. want[key] # <<>> => n > 0
  <2>1. want[key] \in Seq(Char)
    BY <1>2 DEF TypeOK
  <2> QED
    BY <2>1, EmptySeq
<1>8. ~ a < e => want[key] = <<>>
  BY <1>2 DEF Whole, Filled
<1>14. a < e => want[key] # <<>>
  <2>1. a < e => n > 0
    BY <1>2 DEF Whole, Filled, Holds
  <2> QED
    BY <1>6, <2>1
<1> HIDE DEF n, a, e
<1>9. a + n <= end
  BY <1>1, <1>3 DEF InPage, a
<1>10. Count(page, key, end) = end - (a + n)
  <2> DEFINE d == end - (a + n)
  <2>1. d \in Byte
    BY <1>2, <1>3, <1>9, PageAssumption DEF Byte
  <2> HIDE DEF d
  <2>2. d % Page = d
    BY <2>1, ModuloByte
  <2>3. Count(page, key, end) = d % Page
    BY <1>3 DEF Count, d
  <2> QED
    BY <2>2, <2>3 DEF d
<1>11. /\ page' = [i \in Byte |-> IF i \in a..(a + (end - (a + n)) - 1)
                                 THEN page[i - a + (a + n)] ELSE page[i]]
       /\ end' = a + (end - (a + n))
  BY <1>1, <1>3, <1>10 DEF CloseUp, a
<1>12. CASE pc = "remove"
  <2>1. a + n = e
    <3>1. a + n \in {a, e}
      BY <1>1, <1>3, <1>4, <1>12 DEF a
    <3>2. n = 0 => ~ a < e
      BY <1>6, <1>7, <1>14
    <3> QED
      BY <1>3, <3>1, <3>2
  <2>2. end' = a /\ \A i \in Byte : i \notin a..(a + (end - (a + n)) - 1)
    BY <1>2, <1>3, <1>4, <1>11, <1>12, <2>1, Bytes
  <2>3. page' = page
    BY <1>2, <1>11, <2>2
  <2> QED
    BY <1>1, <1>3, <1>12, <2>1, <2>2, <2>3 DEF a, n, e
<1>13. CASE pc = "store"
  <2>1. a = e /\ n = 0
    BY <1>5, <1>6, <1>13
  <2>2. end' = end /\ \A i \in Byte : i - a + (a + n) = i
    BY <1>2, <1>3, <1>11, <2>1, Bytes
  <2>3. page' = page
    BY <1>2, <1>11, <2>2
  <2> QED
    BY <1>1, <1>3, <1>13, <2>1, <2>2, <2>3
<1> QED
  BY <1>1, <1>12, <1>13

LEMMA StepCopy == TypeOK /\ Inv /\ Copy => TypeOK' /\ Inv'
<1> SUFFICES ASSUME TypeOK, Inv, Copy PROVE TypeOK' /\ Inv'
  OBVIOUS
<1>1. /\ pc \in {"remove", "store"} /\ InPage(page, key, end)
      /\ page' = CloseUp(page, key, end) /\ gone' = LengthOf(page, key)
      /\ end' = page[key] + Count(page, key, end)
      /\ pc' = IF pc = "remove" THEN "lower" ELSE "raise"
      /\ spoilt \subseteq spoilt' /\ spoilt' \subseteq spoilt \cup {"redefinition"}
      /\ UNCHANGED <<changing, length, next, ahead, key, at, text, want>>
  BY DEF Copy, expansion
<1>2. /\ page \in [Byte -> Byte] /\ key \in Key /\ end \in Byte /\ page[key] \in Byte
      /\ gone' \in Byte
  BY <1>1, LengthType, Sizes DEF TypeOK
<1>3. page' \in [Byte -> Byte] /\ end' \in Byte
  <2> DEFINE a == page[key]
             b == After(page, key)
             c == Count(page, key, end)
  <2>1. a <= b /\ b <= end /\ b \in Int
    <3>1. a + LengthOf(page, key) \in Int
      BY <1>2, LengthType, Bytes
    <3>2. b \in Byte
      BY <3>1, Modulo DEF After
    <3> QED
      BY <1>1, <3>2, Bytes DEF InPage
  <2>6. a \in Byte
    BY <1>2
  <2>2. c = end - b
    <3>1. end - b \in Byte /\ c = (end - b) % Page
      <4> HIDE DEF a, b
      <4>1. end - b \in Byte
        BY <1>2, <2>1, <2>6, PageAssumption DEF Byte
      <4> QED
        BY <4>1 DEF Count, b
    <3> QED
      BY <3>1, ModuloByte
  <2>3. page' = [i \in Byte |-> IF i \in a..(a + c - 1) THEN page[i - a + b] ELSE page[i]]
    BY <1>1 DEF CloseUp
  <2>7. end' = a + c
    BY <1>1
  <2> HIDE DEF a, b, c
  <2>8. a \in Nat /\ end \in Nat /\ end < Page /\ b \in Nat
    BY <1>2, <2>1, <2>6, Bytes
  <2>4. \A i \in Byte : i \in a..(a + c - 1) => i - a + b \in Byte
    <3> SUFFICES ASSUME NEW i \in Byte, i \in a..(a + c - 1) PROVE i - a + b \in Byte
      OBVIOUS
    <3>1. i \in Nat /\ i - a + b >= b /\ i - a + b < end
      BY <2>1, <2>2, <2>8
    <3> QED
      BY <2>8, <3>1, PageAssumption DEF Byte
  <2>5. a + c \in Byte
    BY <2>1, <2>2, <2>8, PageAssumption DEF Byte
  <2> QED
    BY <1>1, <1>2, <2>3, <2>4, <2>5, <2>7
<1>4. TypeOK'
  <2>1. spoilt' = {} => spoilt = {} /\ pc # "idle"
    BY <1>1
  <2> QED
    BY <1>1, <1>2, <1>3, <2>1 DEF TypeOK
<1>5. ASSUME spoilt' = {} PROVE Laid'
  <2>1. Laid
    BY <1>1, <1>5 DEF Inv
  <2>2. /\ page' = page
        /\ pc = "remove" =>
             /\ end' = page[key] /\ gone' = Len(want[key])
             /\ page[key] + Len(want[key]) = page[Keys]
        /\ pc = "store" => end' = end /\ gone' = 0
    BY <1>5, <2>1, CopyIs
  <2>3. \A i \in Pointer : page'[i] >= Keys
    BY <2>1, <2>2 DEF Laid
  <2>4. CASE pc = "remove"
    <3> DEFINE n == Len(want[key])
               a == page[key]
               e == page[Keys]
    <3>1. Whole /\ text = <<>> /\ at = 0
      BY <2>1, <2>4 DEF Laid, Inv, Apart
    <3>2. n \in Nat /\ a + n = e /\ a \in Nat /\ e \in Nat /\ gone' = n /\ end' = a
      BY <1>2, <2>2, <2>4, <3>1, LengthHeld
    <3>3. \A i \in Pointer : page[i] \in Nat /\ page[i] <= e
      BY <1>2, <3>1, Sizes, Bytes DEF Whole
    <3>4. a < e => Holds(page, want, key) /\ \A j \in Key : page[j] = a => j = key
      BY <1>2, <3>1 DEF Whole, Filled
    <3>5. \A i \in Pointer : page[i] > a => page[i] = e
      <4> SUFFICES ASSUME NEW i \in Pointer, page[i] > a PROVE page[i] = e
        OBVIOUS
      <4>1. a < e
        BY <3>2, <3>3
      <4>2. page[i] >= a + n
        BY <3>4, <4>1 DEF Holds
      <4> QED
        BY <3>2, <3>3, <4>2
    <3>6. Filled(page, want, a, Key \ {key})
      <4> SUFFICES ASSUME NEW k \in Key, k # key
                   PROVE  IF page[k] < a THEN Holds(page, want, k)
                                              /\ \A j \in Key : page[j] = page[k] => j = k
                          ELSE want[k] = <<>>
        BY DEF Filled
      <4>1. IF page[k] < e THEN Holds(page, want, k) /\ \A j \in Key : page[j] = page[k] => j = k
            ELSE want[k] = <<>>
        BY <3>1 DEF Whole, Filled
      <4>2. page[k] \in Nat /\ page[k] <= e
        BY <3>3, Sizes
      <4>3. CASE page[k] < a
        BY <3>2, <4>1, <4>2, <4>3
      <4>4. CASE page[k] = a
        BY <1>2, <3>2, <3>4, <4>1, <4>4
      <4>5. CASE page[k] > a
        <5>1. page[k] = e
          BY <3>5, <4>5, Sizes
        <5> QED
          BY <3>2, <4>1, <4>5, <5>1
      <4> QED
        BY <3>2, <4>2, <4>3, <4>4, <4>5
    <3>7. Lowering'
      <4>1. \A i \in Pointer : page[i] <= a \/ (i >= 0 /\ page[i] = a + n)
        BY <3>2, <3>3, <3>5, Sizes
      <4> HIDE DEF n, a, e
      <4>2. at' = 0 /\ 0 <= Keys /\ text' = <<>>
        BY <1>1, <3>1, Sizes
      <4>3. /\ end' = page'[key'] /\ end' = a /\ gone' = n /\ page'[Keys] = a + n
            /\ page' = page /\ key' = key /\ want' = want
        BY <1>1, <2>2, <3>2 DEF a, e
      <4> QED
        BY <3>6, <4>1, <4>2, <4>3 DEF Lowering
    <3> QED
      BY <1>1, <2>3, <2>4, <3>7 DEF Laid
  <2>5. CASE pc = "store"
    <3>1. Reading
      BY <2>1, <2>5 DEF Laid
    <3>2. Reading'
      BY <1>1, <2>2, <2>5, <3>1 DEF Reading, Whole, Stored
    <3> QED
      BY <1>1, <2>2, <2>3, <2>5, <3>2 DEF Laid
  <2> QED
    BY <1>1, <2>4, <2>5
<1>6. ExpansionIsString'
  <2>1. length = 0
    BY <1>1 DEF Inv, Apart
  <2> QED
    BY <1>1, <2>1, NothingAhead DEF Inv
<1> QED
  BY <1>1, <1>4, <1>5, <1>6 DEF Inv, Apart

LEMMA StepLower == TypeOK /\ Inv /\ Lower => TypeOK' /\ Inv'
<1> SUFFICES ASSUME TypeOK, Inv, Lower PROVE TypeOK' /\ Inv'
  OBVIOUS
<1> DEFINE low == IF page[at] > page[key] THEN (page[at] - gone) % Page ELSE page[at]
<1>1. /\ pc \in {"lower", "raise"} /\ at <= Keys
      /\ page' = [page EXCEPT ![at] = low] /\ at' = at + 1
      /\ UNCHANGED <<changing, length, next, ahead, pc, key, end, gone, text, want, spoilt>>
  BY DEF Lower, expansion, history
<1>2. /\ page \in [Byte -> Byte] /\ key \in Key /\ end \in Nat /\ gone \in Byte /\ gone \in Nat
      /\ at \in Nat /\ at \in Pointer /\ at \in Byte /\ want \in [Key -> Seq(Char)]
  BY <1>1, Sizes, Bytes DEF TypeOK, Pointer
<1>3. \A i \in Pointer : page[i] \in Byte /\ page[i] \in Nat
  BY <1>2, Sizes, Bytes
<1>4. page' \in [Byte -> Byte]
  <2>1. page[at] - gone \in Int
    BY <1>2, <1>3
  <2>2. low \in Byte
    BY <1>2, <1>3, <2>1, Modulo
  <2> QED
    BY <1>1, <1>2, <2>2
<1>5. TypeOK'
  <2>1. at' \in 0..(Keys + 1)
    BY <1>1, <1>2, Sizes
  <2>2. text \in Seq(Char) /\ (pc # "idle" /\ spoilt = {} => Len(text) < Page - Keys)
    BY DEF TypeOK
  <2> QED
    BY <1>1, <1>4, <2>1, <2>2 DEF TypeOK
<1>6. ASSUME spoilt' = {} PROVE Laid'
  <2>1. Laid
    BY <1>1, <1>6 DEF Inv
  <2>2. \A i \in Pointer : page[i] >= Keys
    BY <2>1 DEF Laid
  <2>3. CASE pc = "lower"
    <3>1. Lowering
      BY <2>1, <2>3 DEF Laid
    <3>2. /\ end = page[key] /\ text = <<>> /\ page[Keys] = end + gone
          /\ \A i \in Pointer : page[i] <= end \/ (i >= at /\ page[i] = end + gone)
          /\ Filled(page, want, end, Key \ {key})
      BY <1>1, <3>1 DEF Lowering
    <3>3. low = IF page[at] > end THEN end ELSE page[at]
      <4>1. CASE page[at] > end
        <5>1. page[at] - gone = end /\ end \in Byte
          BY <1>2, <1>3, <3>2, <4>1, Sizes
        <5> QED
          BY <3>2, <4>1, <5>1, ModuloByte
      <4>2. CASE ~ page[at] > end
        BY <3>2, <4>2
      <4> QED
        BY <4>1, <4>2
    <3> HIDE DEF low
    <3>4. \A i \in Pointer : page'[i] = IF i = at THEN low ELSE page[i]
      BY <1>1, <1>2, Sizes
    <3>5. page'[key] = end
      BY <1>2, <3>2, <3>3, <3>4, Sizes
    <3>6. \A i \in Pointer : page'[i] <= end \/ (i >= at + 1 /\ page'[i] = end + gone)
      <4> SUFFICES ASSUME NEW i \in Pointer
                   PROVE  page'[i] <= end \/ (i >= at + 1 /\ page'[i] = end + gone)
        OBVIOUS
      <4>1. CASE i = at
        BY <1>2, <1>3, <3>3, <3>4, <4>1
      <4>2. CASE i # at
        <5>1. page'[i] = page[i] /\ i \in Nat
          BY <3>4, <4>2, Sizes
        <5>2. i >= at => i >= at + 1
          BY <1>2, <4>2, <5>1
        <5> QED
          BY <3>2, <5>1, <5>2
      <4> QED
        BY <4>1, <4>2
    <3>7. page'[Keys] = IF at + 1 <= Keys THEN end + gone ELSE end
      <4>1. CASE at = Keys
        BY <1>2, <1>3, <3>2, <3>3, <3>4, <4>1, Sizes
      <4>2. CASE at # Keys
        BY <1>1, <1>2, <3>2, <3>4, <4>2, Sizes
      <4> QED
        BY <4>1, <4>2
    <3>8. \A i \in Pointer : IF page[i] < end THEN page'[i] = page[i] ELSE page'[i] >= end
      BY <1>2, <1>3, <3>3, <3>4
    <3>9. Filled(page', want', end, Key \ {key})
      <4>1. \A x \in Byte : x > Keys /\ x <= end => page'[x] = page[x]
        BY <1>1, <1>2, Sizes, Bytes
      <4>2. key \in Pointer /\ end \in Byte /\ Key \ {key} \in SUBSET Key
        BY <1>2, <3>2, Sizes
      <4>3. \E m \in Pointer : page[m] = end
        BY <3>2, <4>2
      <4>4. \E m \in Pointer : page'[m] = end
        BY <3>5, <4>2
      <4>5. \A k \in Key \ {key} : want'[k] = want[k]
        BY <1>1
      <4> QED
        <5>1. Filled(page, want, end, Key \ {key})
          BY <3>2
        <5> QED
          BY <1>2, <1>4, <2>2, <3>8, <4>1, <4>2, <4>3, <4>4, <4>5, <5>1, FilledKept, ZenonT(30)
    <3>10. Lowering'
      BY <1>1, <3>2, <3>5, <3>6, <3>7, <3>9 DEF Lowering
    <3>11. \A i \in Pointer : page'[i] >= Keys
      BY <1>2, <1>3, <2>2, <3>2, <3>3, <3>4, Sizes
    <3> QED
      BY <1>1, <2>3, <3>10, <3>11 DEF Laid
  <2>4. CASE pc = "raise"
    <3>1. Reading /\ gone = 0
      BY <2>1, <2>4 DEF Laid
    <3>2. low = page[at]
      <4>1. page[at] - gone = page[at]
        BY <1>2, <1>3, <3>1
      <4> QED
        BY <1>2, <1>3, <4>1, ModuloByte
    <3>3. page' = page
      BY <1>1, <1>2, <3>2
    <3>4. Reading'
      BY <1>1, <3>1, <3>3 DEF Reading, Whole, Stored
    <3> QED
      BY <1>1, <2>2, <2>4, <3>1, <3>3, <3>4 DEF Laid
  <2> QED
    BY <1>1, <2>3, <2>4
<1>7. ExpansionIsString'
  <2>1. length = 0
    BY <1>1 DEF Inv, Apart
  <2> QED
    BY <1>1, <2>1, NothingAhead DEF Inv
<1> QED
  BY <1>1, <1>5, <1>6, <1>7 DEF Inv, Apart

LEMMA StepLowered == TypeOK /\ Inv /\ Lowered => TypeOK' /\ Inv'
<1> SUFFICES ASSUME TypeOK, Inv, Lowered PROVE TypeOK' /\ Inv'
  OBVIOUS
<1>1. /\ pc \in {"lower", "raise"} /\ at > Keys /\ at' = 0
      /\ page' = [page EXCEPT ![key] = page[Keys], ![Keys] = end]
      /\ changing' = FALSE /\ want' = [want EXCEPT ![key] = text]
      /\ (pc = "lower" => pc' \in {"read", "idle"}) /\ (pc = "raise" => pc' = "share")
      /\ UNCHANGED <<length, next, ahead, key, end, gone, text, spoilt>>
  BY DEF Lowered, expansion
<1>2. /\ page \in [Byte -> Byte] /\ key \in Key /\ end \in Byte /\ end \in Nat /\ at \in Nat
      /\ text \in Seq(Char) /\ want \in [Key -> Seq(Char)] /\ key \in Pointer
      /\ Keys \in Pointer /\ Keys # key
  BY Sizes, Bytes DEF TypeOK
<1>3. \A i \in Pointer : i \in Byte /\ i \in Nat /\ i <= Keys /\ page[i] \in Byte /\ page[i] \in Nat
  BY <1>2, Pointers, Bytes
<1>4. /\ page' \in [Byte -> Byte] /\ want' \in [Key -> Seq(Char)]
      /\ \A i \in Pointer : page'[i] = IF i = Keys THEN end
                                      ELSE IF i = key THEN page[Keys] ELSE page[i]
      /\ \A x \in Byte : x > Keys => page'[x] = page[x]
      /\ want'[key] = text /\ \A k \in Key \ {key} : want'[k] = want[k]
  <2>1. \A x \in Byte : x > Keys => x # Keys /\ x # key
    BY <1>2, <1>3, Bytes
  <2> QED
    BY <1>1, <1>2, <1>3, <2>1
<1>5. TypeOK'
  <2>1. pc # "idle" /\ spoilt = {} => Len(text) < Page - Keys
    BY DEF TypeOK
  <2>2. 0 \in 0..(Keys + 1)
    BY Sizes
  <2> QED
    BY <1>1, <1>4, <2>1, <2>2 DEF TypeOK
<1>6. ASSUME spoilt' = {} PROVE Laid'
  <2>1. Laid /\ \A i \in Pointer : page[i] >= Keys
    BY <1>1, <1>6 DEF Inv, Laid
  <2>2. Key \ {key} \in SUBSET Key
    OBVIOUS
  <2>3. CASE pc = "lower"
    <3>1. /\ end = page[key] /\ text = <<>> /\ page[Keys] = end
          /\ \A i \in Pointer : page[i] <= end
          /\ Filled(page, want, end, Key \ {key})
      <4>1. Lowering
        BY <2>1, <2>3 DEF Laid
      <4>2. ~ at <= Keys /\ \A i \in Pointer : ~ i >= at
        BY <1>1, <1>2, <1>3, Sizes
      <4> QED
        BY <4>1, <4>2 DEF Lowering
    <3>2. page' = page
      BY <1>1, <1>2, <3>1
    <3>3. Filled(page, want', end, Key \ {key})
      <4>1. \A i \in Pointer : IF page[i] < end THEN page[i] = page[i] ELSE page[i] >= end
        BY <1>2, <1>3
      <4>2. \E m \in Pointer : page[m] = end
        BY <1>2, <3>1
      <4> QED
        BY <1>2, <1>4, <2>1, <2>2, <3>1, <4>1, <4>2, FilledKept
    <3>4. Filled(page, want', end, Key)
      <4>1. ~ page[key] < end
        BY <1>2, <3>1
      <4> QED
        BY <1>4, <3>1, <3>3, <4>1 DEF Filled
    <3>5. Whole'
      BY <3>1, <3>2, <3>4 DEF Whole
    <3>6. Stored(page[Keys])'
      <4>1. Len(text) = 0
        BY <3>1
      <4>2. end = page[Keys] + Len(text) /\ \A i : i \notin 1..Len(text)
        BY <1>2, <3>1, <4>1
      <4> QED
        BY <1>1, <3>2, <4>2 DEF Stored
    <3>7. Reading'
      BY <1>1, <3>1, <3>2, <3>5, <3>6 DEF Reading
    <3> QED
      BY <1>1, <2>1, <2>3, <3>2, <3>5, <3>7 DEF Laid
  <2>4. CASE pc = "raise"
    <3> DEFINE e == page[Keys]
    <3>1. /\ page[key] = e /\ end = e + Len(text) /\ Filled(page, want, e, Key)
          /\ \A i \in 1..Len(text) : page[e + i] = text[i]
          /\ \A i \in Pointer : page[i] <= e
      BY <2>1, <2>4 DEF Laid, Reading, Whole, Stored
    <3>2. Len(text) \in Nat /\ e \in Nat /\ e \in Byte /\ e >= Keys
      BY <1>2, <1>3, <2>1, LenProperties
    <3>3. \A i \in Pointer : page'[i] = IF i = Keys THEN end ELSE page[i]
      BY <1>4, <3>1
    <3> HIDE DEF e
    <3>4. e <= end /\ page'[key] = e /\ page'[Keys] = end
      BY <1>2, <3>1, <3>2, <3>3
    <3>5. Filled(page', want', e, Key \ {key})
      <4>1. Filled(page, want, e, Key \ {key})
        BY <3>1 DEF Filled
      <4>2. \A i \in Pointer : IF page[i] < e THEN page'[i] = page[i] ELSE page'[i] >= e
        BY <1>3, <3>2, <3>3, <3>4 DEF e
      <4>3. \E m \in Pointer : page[m] = e
        BY <1>2, <3>1
      <4>4. \E m \in Pointer : page'[m] = e
        BY <1>2, <3>4
      <4> QED
        BY <1>2, <1>4, <2>1, <2>2, <3>2, <4>1, <4>2, <4>3, <4>4, FilledKept
    <3>6. \A i \in 1..Len(text) : page'[e + i] = text[i]
      <4> SUFFICES ASSUME NEW i \in 1..Len(text) PROVE page'[e + i] = text[i]
        OBVIOUS
      <4>1. e + i > Keys /\ e + i <= end /\ e + i \in Nat
        BY <3>1, <3>2, Sizes
      <4>2. e + i \in Byte
        BY <1>2, <4>1, PageAssumption DEF Byte
      <4> QED
        BY <1>4, <3>1, <4>1, <4>2
    <3>7. \A i \in Key : page'[i] <= e
      BY <3>1, <3>3, Sizes
    <3>8. Sharing'
      <4>1. Stored(page[key])'
        <5>1. page'[key'] = e /\ text' = text /\ end' = e + Len(text)
          BY <1>1, <3>1, <3>4
        <5> QED
          BY <3>6, <5>1 DEF Stored
      <4>2. (\A i \in Key : page[i] <= page[key])'
        BY <1>1, <3>4, <3>7
      <4>3. Filled(page', want', page'[key'], Key \ {key'})
        BY <1>1, <3>4, <3>5
      <4>4. (page[Keys] = end /\ want[key] = text)'
        BY <1>1, <1>4, <3>4
      <4> QED
        BY <4>1, <4>2, <4>3, <4>4 DEF Sharing
    <3>9. \A i \in Pointer : page'[i] >= Keys
      BY <1>2, <2>1, <3>2, <3>3, <3>4, Sizes
    <3> QED
      BY <1>1, <2>4, <3>8, <3>9 DEF Laid
  <2> QED
    BY <1>1, <2>3, <2>4
<1>7. ExpansionIsString'
  <2>1. length = 0
    BY <1>1 DEF Inv, Apart
  <2> QED
    BY <1>1, <2>1, NothingAhead DEF Inv
<1>8. length' = 0
  BY <1>1 DEF Inv, Apart
<1>9. Apart'
  <2>1. (pc' \in {"remove", "lower", "store", "raise"}) = FALSE
    BY <1>1
  <2> QED
    BY <1>1, <1>8, <2>1, Zenon DEF Apart
<1> QED
  BY <1>1, <1>5, <1>6, <1>7, <1>9 DEF Inv

LEMMA StepRead ==
    ASSUME TypeOK, Inv, NEW c \in Char, Read(c)
    PROVE  TypeOK' /\ Inv'
<1>1. /\ pc = "read" /\ end + 1 < Page /\ end' = end + 1
      /\ page' = [page EXCEPT ![end + 1] = c] /\ text' = Append(text, c)
      /\ UNCHANGED <<changing, length, next, ahead, pc, key, gone, at, want, spoilt>>
  BY DEF Read, expansion, history
<1>2. /\ page \in [Byte -> Byte] /\ key \in Key /\ end \in Byte /\ end \in Nat /\ c \in Byte
      /\ text \in Seq(Char) /\ want \in [Key -> Seq(Char)] /\ Len(text) \in Nat
  BY CharAssumption, Bytes, LenProperties DEF TypeOK, Byte
<1>3. end + 1 \in Byte
  BY <1>1, <1>2, PageAssumption DEF Byte
<1>4. page' \in [Byte -> Byte] /\ \A x \in Byte : page'[x] = IF x = end + 1 THEN c ELSE page[x]
  BY <1>1, <1>2, <1>3
<1>5. /\ text' \in Seq(Char) /\ Len(text') = Len(text) + 1
      /\ \A i \in 1..Len(text') : text'[i] = IF i = Len(text) + 1 THEN c ELSE text[i]
  BY <1>1, <1>2, AppendProperties
<1>6. \A i \in Pointer : i \in Byte /\ i \in Nat /\ i <= Keys /\ page[i] \in Byte /\ page[i] \in Nat
  BY <1>2, Pointers, Bytes
<1>7. ASSUME spoilt = {} PROVE Laid' /\ Len(text') < Page - Keys
  <2> DEFINE e == page[Keys]
  <2>1. Laid /\ Reading /\ \A i \in Pointer : page[i] >= Keys
    BY <1>1, <1>7 DEF Inv, Laid
  <2>2. /\ page[key] = e /\ end = e + Len(text) /\ Filled(page, want, e, Key)
        /\ \A i \in 1..Len(text) : page[e + i] = text[i]
        /\ \A i \in Pointer : page[i] <= e
    BY <2>1 DEF Reading, Whole, Stored
  <2>3. e \in Nat /\ e \in Byte /\ e >= Keys /\ end >= Keys
    BY <1>2, <1>6, <2>1, <2>2, Sizes
  <2>4. \A i \in Pointer : page'[i] = page[i]
    BY <1>2, <1>4, <1>6, <2>3, Sizes
  <2>5. page'[Keys] = e /\ page'[key] = e
    BY <1>2, <2>2, <2>4, Sizes
  <2> HIDE DEF e
  <2>6. Filled(page', want', e, Key)
    <3>1. \A i \in Pointer : IF page[i] < e THEN page'[i] = page[i] ELSE page'[i] >= e
      BY <1>6, <2>3, <2>4
    <3>2. \A x \in Byte : x > Keys /\ x <= e => page'[x] = page[x]
      BY <1>2, <1>4, <2>2, <2>3, Bytes
    <3>3. key \in Pointer
      BY <1>2, Sizes
    <3>4. \E m \in Pointer : page[m] = e
      BY <2>2, <3>3
    <3>5. \E m \in Pointer : page'[m] = e
      BY <2>5, <3>3
    <3>6. \A k \in Key : want'[k] = want[k]
      BY <1>1
    <3> QED
      <4>1. Filled(page, want, e, Key) /\ Key \in SUBSET Key
        BY <2>2
      <4>2. \A i \in Pointer : page[i] >= Keys
        BY <2>1
      <4> QED
        BY <1>2, <1>4, <2>3, <3>1, <3>2, <3>4, <3>5, <3>6, <4>1, <4>2, FilledKept, ZenonT(30)
  <2>7. \A i \in 1..Len(text') : page'[e + i] = text'[i]
    <3> SUFFICES ASSUME NEW i \in 1..Len(text') PROVE page'[e + i] = text'[i]
      OBVIOUS
    <3>1. i \in Nat /\ e + i \in Nat /\ e + i <= end + 1 /\ (e + i = end + 1 <=> i = Len(text) + 1)
      BY <1>2, <1>5, <2>2, <2>3
    <3>2. e + i \in Byte
      BY <1>1, <1>2, <3>1, PageAssumption DEF Byte
    <3>3. i # Len(text) + 1 => i \in 1..Len(text)
      BY <1>2, <1>5
    <3> QED
      BY <1>4, <1>5, <2>2, <3>1, <3>2, <3>3
  <2>8. end' = e + Len(text')
    BY <1>1, <1>2, <1>5, <2>2, <2>3
  <2>9. Reading'
    <3>1. Stored(page[Keys])'
      BY <2>5, <2>7, <2>8 DEF Stored
    <3>2. Whole'
      BY <2>2, <2>4, <2>5, <2>6 DEF Whole
    <3> QED
      BY <1>1, <2>5, <3>1, <3>2 DEF Reading
  <2>10. Laid'
    BY <1>1, <2>1, <2>4, <2>9 DEF Laid
  <2>11. Len(text') < Page - Keys
    BY <1>1, <1>2, <1>5, <2>2, <2>3, Sizes
  <2> QED
    BY <2>10, <2>11
<1>8. TypeOK'
  BY <1>1, <1>2, <1>3, <1>4, <1>5, <1>7 DEF TypeOK
<1>9. ExpansionIsString'
  <2>1. length = 0
    BY <1>1 DEF Inv, Apart
  <2> QED
    BY <1>1, <2>1, NothingAhead DEF Inv
<1> QED
  BY <1>1, <1>7, <1>8, <1>9 DEF Inv, Apart

LEMMA StepBad == TypeOK /\ Inv /\ Bad => TypeOK' /\ Inv'
<1> SUFFICES ASSUME TypeOK, Inv, Bad PROVE TypeOK' /\ Inv'
  OBVIOUS
<1>1. /\ pc = "read" /\ pc' = "idle"
      /\ UNCHANGED <<page, changing, length, next, ahead, key, end, gone, at, text, want, spoilt>>
  BY DEF Bad, strings, expansion, history
<1>2. length = 0 /\ at = 0
  BY <1>1 DEF Inv, Apart
<1>3. TypeOK'
  BY <1>1 DEF TypeOK
<1>4. spoilt' = {} => Laid'
  BY <1>1 DEF Inv, Laid, Reading, Whole
<1>5. ExpansionIsString'
  BY <1>1, <1>2, NothingAhead DEF Inv
<1> QED
  BY <1>1, <1>2, <1>3, <1>4, <1>5 DEF Inv, Apart

LEMMA StepReadEnd == TypeOK /\ Inv /\ ReadEnd => TypeOK' /\ Inv'
<1> SUFFICES ASSUME TypeOK, Inv, ReadEnd PROVE TypeOK' /\ Inv'
  OBVIOUS
<1>1. /\ pc = "read" /\ changing' = TRUE /\ pc' = "store"
      /\ UNCHANGED <<page, length, next, ahead, key, end, gone, at, text, want, spoilt>>
  BY DEF ReadEnd, expansion, history
<1>2. length = 0 /\ at = 0
  BY <1>1 DEF Inv, Apart
<1>3. spoilt = {} => Laid /\ Reading
  BY <1>1 DEF Inv, Laid
<1>4. spoilt = {} => InPage(page, key, end)
  <2> SUFFICES ASSUME spoilt = {} PROVE InPage(page, key, end)
    OBVIOUS
  <2>1. Whole /\ end = page[Keys] + Len(text)
    BY <1>3 DEF Reading, Stored
  <2>2. text \in Seq(Char) /\ key \in Key /\ end \in Byte /\ page[Keys] \in Byte
    BY Sizes DEF TypeOK
  <2>3. page[Keys] <= end
    <3>1. page[Keys] \in Nat /\ Len(text) \in Nat
      BY <2>2, LenProperties, Bytes
    <3> QED
      BY <2>1, <3>1
  <2> QED
    BY <2>1, <2>2, <2>3, WholeInPage
<1>5. TypeOK'
  <2>1. InPage(page', key', end') <=> InPage(page, key, end)
    BY <1>1
  <2> QED
    BY <1>1, <1>4, <2>1 DEF TypeOK
<1>6. spoilt' = {} => Laid'
  <2> SUFFICES ASSUME spoilt = {} PROVE Laid'
    BY <1>1
  <2>1. Reading'
    BY <1>1, <1>3 DEF Reading, Whole, Stored
  <2> QED
    BY <1>1, <1>3, <2>1 DEF Laid
<1>7. ExpansionIsString'
  BY <1>1, <1>2, NothingAhead DEF Inv
<1> QED
  BY <1>1, <1>2, <1>5, <1>6, <1>7 DEF Inv, Apart

LEMMA StepShare == TypeOK /\ Inv /\ Share => TypeOK' /\ Inv'
<1> SUFFICES ASSUME TypeOK, Inv, Share PROVE TypeOK' /\ Inv'
  OBVIOUS
<1>1. /\ pc = "share" /\ pc' = "idle"
      /\ page' = [i \in Byte |-> IF i \in Pointer \ {key} /\ page[i] = page[key]
                                THEN page[Keys] ELSE page[i]]
      /\ UNCHANGED <<changing, length, next, ahead, key, end, gone, at, text, want, spoilt>>
  BY DEF Share, expansion, history
<1>2. length = 0 /\ at = 0
  BY <1>1 DEF Inv, Apart
<1>3. /\ page \in [Byte -> Byte] /\ key \in Key /\ key \in Pointer /\ Keys \in Pointer /\ Keys # key
      /\ text \in Seq(Char) /\ Len(text) \in Nat /\ want \in [Key -> Seq(Char)]
      /\ end \in Byte /\ end \in Nat
  BY Sizes, Bytes, LenProperties DEF TypeOK
<1>4. \A i \in Pointer : i \in Byte /\ i \in Nat /\ i <= Keys /\ page[i] \in Byte /\ page[i] \in Nat
  BY <1>3, Pointers, Bytes
<1>5. page' \in [Byte -> Byte]
  BY <1>1, <1>3, <1>4
<1>6. /\ \A i \in Pointer : page'[i] = IF i # key /\ page[i] = page[key]
                                      THEN page[Keys] ELSE page[i]
      /\ \A x \in Byte : x > Keys => page'[x] = page[x]
  <2>1. \A x \in Byte : x > Keys => x \notin Pointer
    BY <1>4, Bytes, PageAssumption
  <2> QED
    BY <1>1, <1>3, <1>4, <2>1
<1>7. TypeOK'
  BY <1>1, <1>5 DEF TypeOK
<1>8. ASSUME spoilt = {} PROVE Laid'
  <2> DEFINE e == page[key]
             n == Len(text)
  <2>1. Laid /\ Sharing /\ \A i \in Pointer : page[i] >= Keys
    BY <1>1, <1>8 DEF Inv, Laid
  <2>2. /\ \A i \in Key : page[i] <= e
        /\ page[Keys] = end /\ want[key] = text /\ end = e + n
        /\ \A i \in 1..n : page[e + i] = text[i]
        /\ Filled(page, want, e, Key \ {key})
    BY <2>1 DEF Sharing, Stored
  <2>3. e \in Nat /\ e \in Byte /\ e >= Keys /\ n \in Nat /\ e <= end
    BY <1>3, <1>4, <2>1, <2>2
  <2>4. /\ page'[key] = e /\ page'[Keys] = end
        /\ \A i \in Pointer : i # key => page'[i] = IF page[i] = e THEN end ELSE page[i]
    BY <1>3, <1>6, <2>2
  <2> HIDE DEF e, n
  <2>5. \A i \in Pointer : page'[i] <= end /\ page'[i] >= Keys
    <3> SUFFICES ASSUME NEW i \in Pointer PROVE page'[i] <= end /\ page'[i] >= Keys
      OBVIOUS
    <3>1. CASE i = Keys
      BY <1>3, <2>3, <2>4, <3>1, Sizes
    <3>2. CASE i = key
      BY <2>3, <2>4, <3>2
    <3>3. CASE i # key /\ i # Keys
      <4>1. i \in Key
        BY <3>3, Sizes
      <4>2. page[i] <= e /\ page[i] >= Keys /\ page[i] \in Nat
        BY <1>4, <2>1, <2>2, <4>1
      <4> QED
        BY <1>3, <2>3, <2>4, <3>3, <4>2, Sizes
    <3> QED
      BY <3>1, <3>2, <3>3
  <2>6. Filled(page', want, e, Key \ {key})
    <3>1. \A i \in Pointer : IF page[i] < e THEN page'[i] = page[i] ELSE page'[i] >= e
      BY <1>3, <1>4, <2>3, <2>4 DEF e
    <3>2. Key \ {key} \in SUBSET Key /\ \A k \in Key \ {key} : want[k] = want[k]
      OBVIOUS
    <3>3. \E m \in Pointer : page[m] = e
      BY <1>3 DEF e
    <3>4. \E m \in Pointer : page'[m] = e
      BY <1>3, <2>4
    <3> QED
      BY <1>3, <1>5, <1>6, <2>1, <2>2, <2>3, <3>1, <3>2, <3>3, <3>4, FilledKept
  <2>7. Filled(page', want, end, Key)
    <3> SUFFICES ASSUME NEW k \in Key
                 PROVE  IF page'[k] < end
                        THEN Holds(page', want, k) /\ \A j \in Key : page'[j] = page'[k] => j = k
                        ELSE want[k] = <<>>
      BY DEF Filled
    <3>1. k \in Pointer /\ \A j \in Key : j \in Pointer
      BY Sizes
    <3>2. CASE k # key
      <4>1. IF page'[k] < e THEN Holds(page', want, k)
                                 /\ \A j \in Key : page'[j] = page'[k] => j = k
            ELSE want[k] = <<>>
        BY <2>6, <3>2 DEF Filled
      <4>2. page[k] \in Nat /\ page[k] <= e
        BY <1>4, <2>2, <3>1
      <4>3. page'[k] = end \/ page'[k] < e
        BY <2>3, <2>4, <3>1, <3>2, <4>2
      <4>4. CASE page'[k] = end
        <5>1. ~ page'[k] < e /\ ~ page'[k] < end
          BY <1>3, <2>3, <4>4
        <5> QED
          BY <4>1, <5>1
      <4>5. CASE page'[k] < e
        <5>1. page'[k] < end
          <6>1. page'[k] \in Nat
            BY <1>5, <3>1, Bytes, Pointers
          <6> QED
            BY <1>3, <2>3, <4>5, <6>1
        <5> QED
          BY <4>1, <4>5, <5>1
      <4> QED
        BY <4>3, <4>4, <4>5
    <3>3. CASE k = key /\ n = 0
      <4>1. text = <<>>
        BY <1>3, <3>3, EmptySeq DEF n
      <4>2. page'[k] = end
        BY <2>2, <2>3, <2>4, <3>3
      <4> QED
        BY <1>3, <2>2, <3>3, <4>1, <4>2
    <3>4. CASE k = key /\ n > 0
      <4>1. want[k] = text /\ Len(want[k]) = n /\ page'[k] = e /\ page'[k] < end
        BY <2>2, <2>3, <2>4, <3>4 DEF n
      <4>2. \E j \in Pointer : page'[j] = e + n
        BY <1>3, <2>2, <2>4
      <4>3. \A j \in Pointer : page'[j] > e => page'[j] = e + n
        <5> SUFFICES ASSUME NEW j \in Pointer, page'[j] > e PROVE page'[j] = e + n
          OBVIOUS
        <5>1. CASE j = Keys
          BY <2>2, <2>4, <5>1
        <5>2. CASE j # Keys
          <6>1. j \in Key /\ page[j] \in Nat /\ page[j] <= e
            BY <1>4, <2>2, <5>2, Sizes
          <6> QED
            BY <2>2, <2>3, <2>4, <6>1
        <5> QED
          BY <5>1, <5>2
      <4>4. \A i \in 1..n : page'[e + i] = text[i]
        <5> SUFFICES ASSUME NEW i \in 1..n PROVE page'[e + i] = text[i]
          OBVIOUS
        <5>1. e + i \in Nat /\ e + i > Keys /\ e + i <= end
          BY <2>2, <2>3, PageAssumption
        <5>2. e + i \in Byte
          BY <1>3, <5>1, PageAssumption DEF Byte
        <5> QED
          BY <1>6, <2>2, <5>1, <5>2
      <4>5. \A j \in Key : page'[j] = e => j = k
        BY <1>3, <2>2, <2>3, <2>4, <3>1, <3>4, <4>1
      <4>6. Holds(page', want, k)
        <5>1. e + n \in Nat
          BY <2>3
        <5> QED
          BY <3>4, <4>1, <4>2, <4>3, <4>4, <5>1 DEF Holds
      <4> QED
        BY <4>1, <4>5, <4>6
    <3> QED
      BY <2>3, <3>2, <3>3, <3>4
  <2>8. Whole'
    BY <1>1, <2>4, <2>5, <2>7 DEF Whole
  <2> QED
    BY <1>1, <2>5, <2>8 DEF Laid
<1>9. ExpansionIsString'
  BY <1>1, <1>2, NothingAhead DEF Inv
<1> QED
  BY <1>1, <1>2, <1>7, <1>8, <1>9 DEF Inv, Apart

\* An expansion that is over has nothing left to read.
LEMMA NoneAhead ==
    ASSUME spoilt' = {} => length' = 0 /\ ahead' = <<>>
    PROVE  ExpansionIsString'
<1>1. [i \in 1..0 |-> page'[(next' + i) % Page]] = <<>>
  OBVIOUS
<1> QED
  BY <1>1 DEF ExpansionIsString

LEMMA StepReset == TypeOK /\ Inv /\ ResetKeys => TypeOK' /\ Inv'
<1> SUFFICES ASSUME TypeOK, Inv, ResetKeys PROVE TypeOK' /\ Inv'
  OBVIOUS
<1>1. /\ pc = "idle" /\ page' = Cleared /\ changing' = FALSE /\ want' = NoStrings
      /\ (length = 0 => ahead' = <<>> /\ spoilt' = {})
      /\ (length # 0 => ahead' = ahead /\ spoilt' = spoilt \cup {"cleared"})
      /\ UNCHANGED <<length, next, pc, key, end, gone, at, text>>
  BY DEF ResetKeys, command
<1>2. /\ page' \in [Byte -> Byte] /\ want' \in [Key -> Seq(Char)]
      /\ \A i \in Pointer : page'[i] = Keys
      /\ Filled(page', want', page'[Keys], Key)
  BY <1>1, ClearedWhole
<1>3. TypeOK'
  <2>1. ahead' \in Seq(Char)
    BY <1>1, EmptySeq DEF TypeOK
  <2>2. spoilt' \in SUBSET {"redefinition", "break", "cleared"}
    BY <1>1 DEF TypeOK
  <2> QED
    BY <1>1, <1>2, <2>1, <2>2 DEF TypeOK
<1>4. spoilt' = {} => Laid'
  <2>1. Whole' /\ \A i \in Pointer : page'[i] >= Keys
    BY <1>2, Sizes DEF Whole
  <2> QED
    BY <1>1, <2>1 DEF Laid
<1>5. ExpansionIsString'
  BY <1>1, NoneAhead
<1>6. Apart'
  <2>1. (pc' \in {"remove", "lower", "store", "raise"}) = FALSE
    BY <1>1
  <2>2. at' = 0
    BY <1>1 DEF Inv, Apart
  <2> QED
    BY <1>1, <2>1, <2>2, Zenon DEF Apart
<1> QED
  BY <1>3, <1>4, <1>5, <1>6 DEF Inv

LEMMA StepBreak == TypeOK /\ Inv /\ Break => TypeOK' /\ Inv'
<1> SUFFICES ASSUME TypeOK, Inv, Break PROVE TypeOK' /\ Inv'
  OBVIOUS
<1>1. /\ pc' = "idle" /\ at' = 0 /\ length' = 0 /\ next' = 0 /\ ahead' = <<>>
      /\ changing' = FALSE
      /\ UNCHANGED <<key, end, gone, text>>
      /\ \/ page' = Cleared /\ want' = NoStrings /\ spoilt' = {}
         \/ /\ ~ changing /\ UNCHANGED <<page, want>>
            /\ spoilt' = IF pc = "share" THEN spoilt \cup {"break"} ELSE spoilt
  BY DEF Break
<1>2. /\ page' \in [Byte -> Byte] /\ want' \in [Key -> Seq(Char)]
      /\ spoilt' \in SUBSET {"redefinition", "break", "cleared"}
  BY <1>1, ClearedWhole DEF TypeOK
<1>3. TypeOK'
  <2>1. 0 \in Byte /\ 0 \in 0..(Keys + 1) /\ <<>> \in Seq(Char)
    BY Sizes, EmptySeq DEF Byte
  <2> QED
    BY <1>1, <1>2, <2>1 DEF TypeOK
<1>4. ASSUME spoilt' = {} PROVE Laid'
  <2>1. CASE page' = Cleared /\ want' = NoStrings
    <3>1. \A i \in Pointer : page'[i] = Keys
      BY <2>1, ClearedWhole
    <3>2. Filled(page', want', page'[Keys], Key)
      BY <2>1, ClearedWhole
    <3>3. Whole' /\ \A i \in Pointer : page'[i] >= Keys
      BY <3>1, <3>2, Sizes DEF Whole
    <3> QED
      BY <1>1, <3>3 DEF Laid
  <2>2. CASE ~ changing /\ UNCHANGED <<page, want>>
             /\ spoilt' = IF pc = "share" THEN spoilt \cup {"break"} ELSE spoilt
    <3>1. spoilt = {} /\ pc # "share"
      BY <1>4, <2>2
    <3>2. pc \in {"idle", "read"}
      BY <2>2, <3>1 DEF Inv, Apart, TypeOK
    <3>3. Whole /\ \A i \in Pointer : page[i] >= Keys
      BY <3>1, <3>2 DEF Inv, Laid, Reading
    <3>4. Whole' /\ \A i \in Pointer : page'[i] >= Keys
      BY <2>2, <3>3 DEF Whole
    <3> QED
      BY <1>1, <3>4 DEF Laid
  <2> QED
    BY <1>1, <2>1, <2>2
<1>5. ExpansionIsString'
  BY <1>1, NoneAhead
<1>6. Apart'
  <2>1. (pc' \in {"remove", "lower", "store", "raise"}) = FALSE
    BY <1>1
  <2> QED
    BY <1>1, <2>1, Zenon DEF Apart
<1> QED
  BY <1>3, <1>4, <1>5, <1>6 DEF Inv

LEMMA StepExpand ==
    ASSUME TypeOK, Inv, NEW k \in Key, Expand(k)
    PROVE  TypeOK' /\ Inv'
<1>1. /\ pc = "idle" /\ next' = page[k] /\ length' = LengthOf(page, k) /\ ahead' = want[k]
      /\ UNCHANGED <<page, changing, pc, key, end, gone, at, text, want, spoilt>>
  BY DEF Expand, strings, command, history
<1>2. /\ page \in [Byte -> Byte] /\ page[k] \in Byte /\ LengthOf(page, k) \in Byte
      /\ want[k] \in Seq(Char)
  BY LengthType, Sizes DEF TypeOK
<1>3. TypeOK'
  <2>1. page \in [Byte -> Byte] /\ LengthOf(page, k) \in Byte /\ page[k] \in Byte
    BY <1>2
  <2> QED
    BY <1>1, <1>2 DEF TypeOK
<1>4. spoilt' = {} => Laid'
  BY <1>1 DEF Inv, Laid, Whole
<1>5. ExpansionIsString'
  <2> SUFFICES ASSUME spoilt = {}
               PROVE  ahead' = [i \in 1..length' |-> page'[(next' + i) % Page]]
    BY <1>1 DEF ExpansionIsString
  <2>1. Whole
    BY <1>1 DEF Inv, Laid
  <2>2. Definition(page, k) = want[k]
    BY <2>1, WholeIsKept DEF Kept
  <2> QED
    BY <1>1, <2>2 DEF Definition
<1>6. Apart'
  BY <1>1 DEF Inv, Apart
<1> QED
  BY <1>1, <1>3, <1>4, <1>5, <1>6 DEF Inv

LEMMA StepNextChar == TypeOK /\ Inv /\ NextChar => TypeOK' /\ Inv'
<1> SUFFICES ASSUME TypeOK, Inv, NextChar PROVE TypeOK' /\ Inv'
  OBVIOUS
<1>1. /\ pc = "idle" /\ length # 0 /\ next' = (next + 1) % Page /\ length' = length - 1
      /\ ahead' = (IF ahead = <<>> THEN ahead ELSE Tail(ahead))
      /\ UNCHANGED <<page, changing, pc, key, end, gone, at, text, want, spoilt>>
  BY DEF NextChar, strings, command, history
<1>2. next \in Byte /\ next \in Nat /\ length \in Byte /\ length \in Nat /\ ahead \in Seq(Char)
  BY Bytes DEF TypeOK
<1>3. TypeOK'
  <2>1. next' \in Byte
    BY <1>1, <1>2, Modulo
  <2>2. length' \in Byte
    BY <1>1, <1>2, PageAssumption DEF Byte
  <2>3. ahead' \in Seq(Char)
    BY <1>1, <1>2, HeadTailProperties
  <2> QED
    BY <1>1, <2>1, <2>2, <2>3 DEF TypeOK
<1>4. spoilt' = {} => Laid'
  BY <1>1 DEF Inv, Laid, Whole
<1>5. ExpansionIsString'
  <2> SUFFICES ASSUME spoilt = {}
               PROVE  ahead' = [i \in 1..length' |-> page'[(next' + i) % Page]]
    BY <1>1 DEF ExpansionIsString
  <2>1. ahead = [i \in 1..length |-> page[(next + i) % Page]]
    BY DEF Inv, ExpansionIsString
  <2>2. Len(ahead) = length
    BY <1>2, <2>1
  <2>3. ahead # <<>> /\ ahead' = Tail(ahead)
    BY <1>1, <2>2, EmptySeq
  <2>4. Tail(ahead) = [i \in 1..(length - 1) |-> ahead[i + 1]]
    <3>1. Tail(ahead) \in Seq(Char) /\ Len(Tail(ahead)) = length - 1
      BY <1>2, <2>2, <2>3, HeadTailProperties
    <3>2. Tail(ahead) \in [1..(length - 1) -> Char]
      BY <3>1, LenProperties
    <3>3. \A i \in 1..(length - 1) : Tail(ahead)[i] = ahead[i + 1]
      BY <1>2, <2>2, <2>3, <3>1, HeadTailProperties
    <3> QED
      BY <3>2, <3>3
  <2>5. ASSUME NEW i \in 1..(length - 1)
        PROVE  ahead[i + 1] = page[(next' + i) % Page]
    <3>1. i + 1 \in 1..length /\ (next + 1) + i = next + (i + 1) /\ i \in Nat
      BY <1>2
    <3>2. (((next + 1) % Page) + i) % Page = ((next + 1) + i) % Page
      BY <1>2, <3>1, ModuloPlus
    <3> QED
      BY <1>1, <2>1, <3>1, <3>2
  <2> QED
    BY <1>1, <2>3, <2>4, <2>5
<1>6. Apart'
  BY <1>1 DEF Inv, Apart
<1> QED
  BY <1>3, <1>4, <1>5, <1>6 DEF Inv

LEMMA StepFlush == TypeOK /\ Inv /\ Flush => TypeOK' /\ Inv'
<1> SUFFICES ASSUME TypeOK, Inv, Flush PROVE TypeOK' /\ Inv'
  OBVIOUS
<1>1. /\ pc = "idle" /\ length' = 0 /\ ahead' = <<>>
      /\ UNCHANGED <<page, changing, next, pc, key, end, gone, at, text, want, spoilt>>
  BY DEF Flush, strings, command, history
<1>2. TypeOK'
  <2>1. 0 \in Byte /\ <<>> \in Seq(Char)
    BY Sizes, EmptySeq DEF Byte
  <2> QED
    BY <1>1, <2>1 DEF TypeOK
<1>3. spoilt' = {} => Laid'
  BY <1>1 DEF Inv, Laid, Whole
<1>4. ExpansionIsString'
  BY <1>1, NoneAhead
<1>5. Apart'
  BY <1>1 DEF Inv, Apart
<1> QED
  BY <1>2, <1>3, <1>4, <1>5 DEF Inv

LEMMA StepAll == TypeOK /\ Inv /\ [Next]_vars => TypeOK' /\ Inv'
<1> SUFFICES ASSUME TypeOK, Inv, [Next]_vars PROVE TypeOK' /\ Inv'
  OBVIOUS
<1>1. ASSUME UNCHANGED vars PROVE TypeOK' /\ Inv'
  <2>1. UNCHANGED <<page, changing, length, next, ahead, pc, key, end, gone, at, text,
                    want, spoilt>>
    BY <1>1 DEF vars, strings, expansion, command, history
  <2>2. TypeOK'
    BY <2>1 DEF TypeOK, InPage, After, LengthOf
  <2>3. Laid => Laid'
    BY <2>1 DEF Laid, Whole, Lowering, Reading, Sharing, Stored
  <2>4. Apart' /\ ExpansionIsString'
    BY <2>1 DEF Inv, Apart, ExpansionIsString
  <2> QED
    BY <2>1, <2>2, <2>3, <2>4 DEF Inv
<1>2. ASSUME NEW k \in Key, StarKey(k) PROVE TypeOK' /\ Inv'
  BY <1>2, StepStarKey
<1>3. ASSUME NEW k \in Key, Expand(k) PROVE TypeOK' /\ Inv'
  BY <1>3, StepExpand
<1>4. ASSUME NEW c \in Char, Read(c) PROVE TypeOK' /\ Inv'
  BY <1>4, StepRead
<1> QED
  BY <1>1, <1>2, <1>3, <1>4, StepCopy, StepLower, StepLowered, StepBad, StepReadEnd,
     StepShare, StepReset, StepBreak, StepNextChar, StepFlush DEF Next
-----------------------------------------------------------------------------
LEMMA Invariant == Spec => [](TypeOK /\ Inv)
<1>1. Init => TypeOK /\ Inv
  BY InvInit
<1>2. TypeOK /\ Inv /\ [Next]_vars => (TypeOK /\ Inv)'
  BY StepAll
<1> QED
  BY <1>1, <1>2, PTL DEF Spec

\* Pointers, text and counts are bytes; while the page is unspoilt, *KEY never
\* stores more text than the page has room for, and the bytes that
\* x_set_up_soft_key_definition moves down are in the page.
THEOREM TypeCorrect == Spec => []TypeOK
BY Invariant, PTL

\* Whatever the keys were given, however commands failed half way, and whenever
\* BREAK came: while *KEY is not changing the page and nothing has spoilt it, the
\* length that x_get_keydef_length finds, and the bytes there, are the string
\* the key was last given.
THEOREM StringsAreKept == Spec => []StringsKept
<1>1. TypeOK /\ Inv => StringsKept
  BY WholeIsKept DEF Inv, Laid, Reading, StringsKept
<1> QED
  BY <1>1, Invariant, PTL

\* What RDCH has still to return of a key being expanded is the rest of the
\* string the key was given: no *KEY comes between, and OSBYTE 18 spoils it.
THEOREM ExpansionReadsString == Spec => []ExpansionIsString
<1>1. Inv => ExpansionIsString
  BY DEF Inv
<1> QED
  BY <1>1, Invariant, PTL
====
