--------------------------- MODULE AsmCode_proofs ---------------------------
(***************************************************************************)
(* Proofs about AsmCode for all programs and sections.                     *)
(***************************************************************************)
EXTENDS AsmCode, SequenceTheorems, FiniteSetTheorems, WellFoundedInduction, TLAPS

USE DEF None, Inefficient, Illegal, Inconsistent, OutOfRange, Syntax, Data, Fatal

Level == None .. Fatal

LEMMA RaiseType ==
    ASSUME NEW lev \in Level, NEW type \in Level, NEW wrong \in BOOLEAN
    PROVE  /\ Raise(lev, type) \in Level /\ RaiseIf(wrong, lev, type) \in Level
           /\ Raise(None, type) = type
BY DEF Raise, RaiseIf, Level

-----------------------------------------------------------------------------
(* The pieces of code that instructions make. *)
\* A field of 1, 2 or 4 bytes is what one call emits.
LEMMA FieldIsPiece ==
    ASSUME NEW v \in Int, NEW n \in {1, 2, 4}
    PROVE  Field(n, v) \in Piece /\ Len(Field(n, v)) = n
<1> DEFINE b(i) == (v \div 256 ^ (n - i)) % 256
           f == [i \in 1 .. n |-> b(i)]
<1>1. \A i \in 1 .. n : b(i) \in Byte
  <2> SUFFICES ASSUME NEW i \in 1 .. n PROVE b(i) \in Byte
    OBVIOUS
  <2> DEFINE k == n - i
  <2>1. k = 0 \/ k = 1 \/ k = 2 \/ k = 3
    OBVIOUS
  <2> DEFINE Positive == {m \in Nat : m > 0}
  <2>2. /\ 256 ^ 0 \in Positive /\ 256 ^ 1 \in Positive
        /\ 256 ^ 2 \in Positive /\ 256 ^ 3 \in Positive
    OBVIOUS
  <2> HIDE DEF k, Positive
  <2> DEFINE p == 256 ^ k
  <2>3. p \in Positive
    BY <2>1, <2>2, Zenon
  <2> HIDE DEF p
  <2>4. (v \div p) % 256 \in 0 .. 255
    BY <2>3 DEF Positive
  <2> QED
    BY <2>4 DEF p, k, Byte
<1> HIDE DEF b
<1>2. f \in Seq(Byte)
  BY <1>1, IsASeq
<1>3. Len(f) = n
  OBVIOUS
<1>4. Field(n, v) = f
  BY DEF Field, b
<1> HIDE DEF f
<1>5. n \in 1 .. 4
  OBVIOUS
<1> QED
  BY <1>2, <1>3, <1>4, <1>5 DEF Piece

LEMMA OpcodeInts ==
    ASSUME NEW op, OpcodeOK(op)
    PROVE  op.imm \in Int /\ op.direct \in Int /\ op.indexed \in Int /\ op.extended \in Int
<1>1. Form \subseteq Int
  BY DEF Form
<1>2. -1 \in Int
  OBVIOUS
<1> HIDE DEF Form
<1> QED
  BY <1>1, <1>2 DEF OpcodeOK

LEMMA IntsHaveValues ==
    ASSUME NEW args, ArgumentsOK(args), NEW i \in 1 .. Len(args)
    PROVE  IsInt(args[i]) => args[i].val \in Int
BY DEF ArgumentsOK, ArgumentOK

LEMMA OpIsPiece ==
    ASSUME NEW op \in Int
    PROVE  Op(op) \in Piece /\ Len(Op(op)) \in {1, 2}
BY FieldIsPiece DEF Op

\* What an encoder returns.
MadeOK(made) == made.code \in Seq(Piece) /\ made.error \in Level

LEMMA MadeIsOK ==
    ASSUME NEW code \in Seq(Piece), NEW error \in Level
    PROVE  MadeOK(Made(code, error))
BY DEF MadeOK, Made

LEMMA NothingMade == MadeOK(Made(<< >>, Syntax))
<1>1. << >> \in Seq(Piece) /\ Syntax \in Level
  BY EmptySeq DEF Level
<1> QED
  BY <1>1, MadeIsOK, Zenon

LEMMA PiecesMade ==
    /\ \A p \in Piece : <<p>> \in Seq(Piece)
    /\ \A p, q \in Piece : <<p, q>> \in Seq(Piece)
    /\ \A p, q, r \in Piece : <<p, q, r>> \in Seq(Piece)
<1>1. ASSUME NEW p \in Piece
      PROVE  <<p>> \in Seq(Piece)
  OBVIOUS
<1>2. ASSUME NEW p \in Piece, NEW q \in Piece
      PROVE  <<p, q>> \in Seq(Piece)
  OBVIOUS
<1>3. ASSUME NEW p \in Piece, NEW q \in Piece, NEW r \in Piece
      PROVE  <<p, q, r>> \in Seq(Piece)
  OBVIOUS
<1> QED
  BY <1>1, <1>2, <1>3

LEMMA WidthType == \A ext : Width(ext) \in {1, 2, 4}
<1> SUFFICES ASSUME NEW ext PROVE Width(ext) \in {1, 2, 4}
  OBVIOUS
<1>1. CASE ext \in {"imm8", "rel8"}
  BY <1>1 DEF Width
<1>2. CASE ext \in {"imm16", "rel16"}
  BY <1>2 DEF Width
<1>3. CASE ext \notin {"imm8", "rel8", "imm16", "rel16"}
  BY <1>3 DEF Width
<1> QED
  BY <1>1, <1>2, <1>3

LEMMA ImmediateType ==
    ASSUME NEW op, NEW args, OpcodeOK(op), ArgumentsOK(args)
    PROVE  MadeOK(Immediate(op, args))
<1> DEFINE v == IF IsInt(args[1]) THEN args[1].val ELSE 0
           code == <<Op(op.imm), Field(Width(op.ext), v)>>
<1>1. CASE Len(args) = 1
  <2>1. v \in Int
    BY <1>1, IntsHaveValues
  <2> HIDE DEF v
  <2>2. Op(op.imm) \in Piece /\ Field(Width(op.ext), v) \in Piece
    BY <2>1, WidthType, OpIsPiece, FieldIsPiece, OpcodeInts
  <2>3. code \in Seq(Piece)
    BY <2>2, PiecesMade
  <2>4. Immediate(op, args) = Made(code, None)
    BY <1>1 DEF Immediate, v
  <2> HIDE DEF code
  <2> QED
    BY <2>3, <2>4, MadeIsOK DEF Level
<1>2. CASE Len(args) # 1
  <2>1. Immediate(op, args) = Made(<< >>, Syntax)
    BY <1>2 DEF Immediate
  <2> QED
    BY <2>1, NothingMade
<1> QED
  BY <1>1, <1>2

LEMMA RelType ==
    ASSUME NEW op, NEW args, NEW pc \in Int, OpcodeOK(op), ArgumentsOK(args)
    PROVE  MadeOK(Rel(op, args, pc))
<1>1. CASE Len(args) # 1
  <2>1. Rel(op, args, pc) = Made(<< >>, Syntax)
    BY <1>1 DEF Rel
  <2> QED
    BY <2>1, NothingMade
<1>2. CASE Len(args) = 1 /\ ~ IsInt(args[1])
  <2> DEFINE code == <<Op(op.imm), Field(Width(op.ext), 0)>>
  <2>1. Op(op.imm) \in Piece /\ Field(Width(op.ext), 0) \in Piece
    BY WidthType, OpIsPiece, FieldIsPiece, OpcodeInts
  <2>2. code \in Seq(Piece)
    BY <2>1, PiecesMade
  <2>3. Rel(op, args, pc) = Made(code, None)
    BY <1>2 DEF Rel
  <2> HIDE DEF code
  <2> QED
    BY <2>2, <2>3, MadeIsOK DEF Level
<1>3. CASE Len(args) = 1 /\ IsInt(args[1])
  <2> DEFINE rel8 == Distance(args[1].val, pc + Len(Op(op.imm)))
             far == rel8 \notin -128 .. 127
             short == <<Op(op.imm), Field(1, rel8)>>
             long == <<Op(op.imm), Field(2, rel8 - 1)>>
             e1 == IF far THEN OutOfRange ELSE None
             e2 == IF ~ far /\ args[1].attr # "16bit" THEN Inefficient ELSE None
  <2>1. args[1].val \in Int /\ Len(Op(op.imm)) \in Int
    BY <1>3, OpIsPiece, OpcodeInts, IntsHaveValues
  <2>2. rel8 \in Int
    BY <2>1 DEF Distance, ToRel16
  <2>3. Rel(op, args, pc) = IF op.ext = "rel8" THEN Made(short, e1) ELSE Made(long, e2)
    BY <1>3 DEF Rel
  <2>4. e1 \in Level /\ e2 \in Level
    BY DEF Level
  <2> HIDE DEF rel8, e1, e2
  <2>5. Op(op.imm) \in Piece /\ Field(1, rel8) \in Piece /\ Field(2, rel8 - 1) \in Piece
    BY <2>2, OpIsPiece, FieldIsPiece, OpcodeInts
  <2>6. short \in Seq(Piece) /\ long \in Seq(Piece)
    BY <2>5, PiecesMade
  <2> HIDE DEF short, long
  <2> QED
    BY <2>3, <2>4, <2>6, MadeIsOK
<1> QED
  BY <1>1, <1>2, <1>3

\* What a postbyte is built from.
LEMMA NibbleType == \A reg : TfrNibble(reg) \in -1 .. 15
<1> SUFFICES ASSUME NEW reg PROVE TfrNibble(reg) \in -1 .. 15
  OBVIOUS
<1> QED
  BY DEF TfrNibble

LEMMA NibblesType ==
    ASSUME NEW m \in Int, NEW n \in Int
    PROVE  Nibbles(m, n) \in Int
BY DEF Nibbles

LEMMA SelectType == \A reg : IndexSelect(reg) \in {0, 32, 64, 96}
<1> SUFFICES ASSUME NEW reg PROVE IndexSelect(reg) \in {0, 32, 64, 96}
  OBVIOUS
<1> QED
  BY DEF IndexSelect

\* The greatest of two or three errors.
LEMMA WorstType ==
    ASSUME NEW a \in Level, NEW b \in Level, NEW c \in Level
    PROVE  Max({a, b, c}) \in Level /\ Max({a, b}) \in Level
<1>1. \E x \in {a, b, c} : \A y \in {a, b, c} : x >= y
  BY DEF Level
<1>2. \E x \in {a, b} : \A y \in {a, b} : x >= y
  BY DEF Level
<1> QED
  BY <1>1, <1>2 DEF Max

LEMMA StackType ==
    ASSUME NEW op, NEW args, NEW stack, OpcodeOK(op)
    PROVE  MadeOK(Stack(op, args, stack))
<1> DEFINE bit(b) == IF \E i \in 1 .. Len(args) : b \in StackBits(args[i].reg) THEN 2 ^ b ELSE 0
           sum == bit(0) + bit(1) + bit(2) + bit(3) + bit(4) + bit(5) + bit(6) + bit(7)
           wrong == \E i \in 1 .. Len(args) :
                       ~ IsReg(args[i]) \/ args[i].reg = stack \/ StackBits(args[i].reg) = {}
           code == <<Op(op.imm), Field(1, sum)>>
<1>1. /\ bit(0) \in Int /\ bit(1) \in Int /\ bit(2) \in Int /\ bit(3) \in Int
      /\ bit(4) \in Int /\ bit(5) \in Int /\ bit(6) \in Int /\ bit(7) \in Int
  OBVIOUS
<1>2. Stack(op, args, stack) = IF wrong THEN Made(<< >>, Syntax) ELSE Made(code, None)
  BY DEF Stack
<1> HIDE DEF bit, wrong
<1>3. sum \in Int
  BY <1>1
<1> HIDE DEF sum
<1>4. Op(op.imm) \in Piece /\ Field(1, sum) \in Piece
  BY <1>3, OpIsPiece, FieldIsPiece, OpcodeInts
<1>5. code \in Seq(Piece)
  BY <1>4, PiecesMade
<1> HIDE DEF code
<1>6. MadeOK(Made(code, None))
  BY <1>5, MadeIsOK DEF Level
<1> QED
  BY <1>2, <1>6, NothingMade

LEMMA PairType ==
    ASSUME NEW op, NEW args, OpcodeOK(op), ArgumentsOK(args)
    PROVE  MadeOK(Pair(op, args))
<1> DEFINE nibble(a) == IF IsReg(a) THEN TfrNibble(a.reg) ELSE IF a.val = 0 THEN 12 ELSE a.val % 16
           sizes(a) == IF IsReg(a) THEN TfrSizes(a.reg) ELSE {8, 16}
           wrong(a) == IF IsReg(a) \/ a.val = 0 THEN None
                       ELSE IF a.val \notin 0 .. 15 THEN OutOfRange ELSE Illegal
           unequal == IF sizes(args[1]) \cap sizes(args[2]) = {} THEN Illegal ELSE None
           bad == Len(args) # 2 \/ \E i \in 1 .. Len(args) : args[i].type \notin {"reg", "int"}
           post == Nibbles(nibble(args[1]), nibble(args[2]))
           code == <<Op(op.imm), Field(1, post)>>
           error == Max({unequal, wrong(args[1]), wrong(args[2])})
<1>1. Pair(op, args) = IF bad THEN Made(<< >>, Syntax) ELSE Made(code, error)
  BY DEF Pair
<1>2. CASE bad
  BY <1>1, <1>2, NothingMade
<1>3. CASE ~ bad
  <2>1. \A i \in 1 .. 2 : IsReg(args[i]) \/ (IsInt(args[i]) /\ args[i].val \in Int)
    <3>1. Len(args) = 2 /\ \A i \in 1 .. Len(args) : args[i].type \in {"reg", "int"}
      BY <1>3
    <3> HIDE DEF bad
    <3> SUFFICES ASSUME NEW i \in 1 .. 2
                 PROVE  IsReg(args[i]) \/ (IsInt(args[i]) /\ args[i].val \in Int)
      OBVIOUS
    <3>2. args[i].type \in {"reg", "int"} /\ i \in 1 .. Len(args)
      BY <3>1
    <3>3. IsInt(args[i]) => args[i].val \in Int
      BY <3>2, IntsHaveValues
    <3> QED
      BY <3>2, <3>3 DEF IsReg, IsInt
  <2>2. nibble(args[1]) \in Int /\ nibble(args[2]) \in Int
    BY <2>1, NibbleType
  <2>3. wrong(args[1]) \in Level /\ wrong(args[2]) \in Level /\ unequal \in Level
    BY DEF Level
  <2> HIDE DEF nibble, wrong, unequal
  <2>4. post \in Int /\ error \in Level
    BY <2>2, <2>3, NibblesType, WorstType
  <2> HIDE DEF post, error
  <2>5. Op(op.imm) \in Piece /\ Field(1, post) \in Piece
    BY <2>4, OpIsPiece, FieldIsPiece, OpcodeInts
  <2>6. code \in Seq(Piece)
    BY <2>5, PiecesMade
  <2>7. Pair(op, args) = Made(code, error)
    BY <1>1, <1>3
  <2> HIDE DEF code
  <2> QED
    BY <2>4, <2>6, <2>7, MadeIsOK
<1> QED
  BY <1>2, <1>3

\* A set of naturals has a least element.
LEMMA LeastElement ==
    ASSUME NEW S \in SUBSET Nat, S # {}
    PROVE  Min(S) \in S /\ Min(S) \in Nat /\ \A y \in S : Min(S) <= y
<1> DEFINE Less == OpToRel(<, Nat)
<1>1. IsWellFoundedOn(Less, Nat)
  BY NatLessThanWellFounded
<1>2. \A x, y \in Nat : <<x, y>> \in Less <=> x < y
  BY DEF OpToRel
<1> HIDE DEF Less
<1>3. PICK m \in S : \A k \in S : <<k, m>> \notin Less
  BY <1>1, WFMin
<1>4. \A y \in S : m <= y
  <2> SUFFICES ASSUME NEW y \in S PROVE m <= y
    OBVIOUS
  <2>1. m \in Nat /\ y \in Nat
    BY <1>3
  <2>2. ~ (y < m)
    BY <1>2, <1>3, <2>1
  <2> QED
    BY <2>1, <2>2
<1> QED
  BY <1>3, <1>4 DEF Min

LEMMA TfmType ==
    ASSUME NEW op, NEW args, OpcodeOK(op), ArgumentsOK(args)
    PROVE  MadeOK(Tfm(op, args))
<1> DEFINE kinds == {i \in 1 .. 4 : TfmKinds[i] = <<args[1].attr, args[2].attr>>}
           nibble(a) == IF IsReg(a) THEN TfrNibble(a.reg) ELSE a.val % 16
           wrong(a) == IF IsReg(a) THEN None
                       ELSE IF a.val \notin 0 .. 4 THEN OutOfRange ELSE Illegal
           bad == \/ Len(args) # 2
                  \/ \E i \in 1 .. Len(args) :
                       \/ args[i].type \notin {"reg", "int"}
                       \/ IsReg(args[i]) /\ TfrNibble(args[i].reg) \notin 0 .. 4
                  \/ kinds = {}
           post == Nibbles(nibble(args[1]), nibble(args[2]))
           first == op.imm + Min(kinds) - 1
           code == <<Op(first), Field(1, post)>>
           error == Max({wrong(args[1]), wrong(args[2])})
<1>1. Tfm(op, args) = IF bad THEN Made(<< >>, Syntax) ELSE Made(code, error)
  BY DEF Tfm
<1>2. CASE bad
  BY <1>1, <1>2, NothingMade
<1>3. CASE ~ bad
  <2>1. \A i \in 1 .. 2 : IsReg(args[i]) \/ (IsInt(args[i]) /\ args[i].val \in Int)
    <3>1. Len(args) = 2 /\ \A i \in 1 .. Len(args) : args[i].type \in {"reg", "int"}
      BY <1>3
    <3> HIDE DEF bad
    <3> SUFFICES ASSUME NEW i \in 1 .. 2
                 PROVE  IsReg(args[i]) \/ (IsInt(args[i]) /\ args[i].val \in Int)
      OBVIOUS
    <3>2. args[i].type \in {"reg", "int"} /\ i \in 1 .. Len(args)
      BY <3>1
    <3>3. IsInt(args[i]) => args[i].val \in Int
      BY <3>2, IntsHaveValues
    <3> QED
      BY <3>2, <3>3 DEF IsReg, IsInt
  <2>2. nibble(args[1]) \in Int /\ nibble(args[2]) \in Int
    BY <2>1, NibbleType
  <2>3. wrong(args[1]) \in Level /\ wrong(args[2]) \in Level
    BY DEF Level
  <2>8. kinds \in SUBSET (1 .. 4) /\ kinds # {}
    BY <1>3
  <2> HIDE DEF nibble, wrong, kinds
  <2>9. first \in Int
    <3>1. kinds \in SUBSET Nat
      BY <2>8
    <3>2. Min(kinds) \in Nat
      BY <2>8, <3>1, LeastElement, Zenon
    <3> QED
      BY <3>2, OpcodeInts
  <2>4. post \in Int /\ error \in Level
    BY <2>2, <2>3, NibblesType, WorstType
  <2> HIDE DEF post, error, first
  <2>5. Op(first) \in Piece /\ Field(1, post) \in Piece
    BY <2>4, <2>9, OpIsPiece, FieldIsPiece
  <2>6. code \in Seq(Piece)
    BY <2>5, PiecesMade
  <2>7. Tfm(op, args) = Made(code, error)
    BY <1>1, <1>3
  <2> HIDE DEF code
  <2> QED
    BY <2>4, <2>6, <2>7, MadeIsOK
<1> QED
  BY <1>2, <1>3

\* What is in a set of naturals by induction: a number that is not would have
\* a least one.
LEMMA SetInduction ==
    ASSUME NEW T, 0 \in T, \A n \in Nat : n \in T => n + 1 \in T
    PROVE  \A n \in Nat : n \in T
<1> SUFFICES ASSUME NEW n \in Nat, n \notin T
             PROVE  FALSE
  OBVIOUS
<1> DEFINE Out == Nat \ T
           m == Min(Out)
<1>1. Out \in SUBSET Nat /\ Out # {}
  OBVIOUS
<1> HIDE DEF Out
<1>2. m \in Out /\ m \in Nat /\ \A y \in Out : m <= y
  BY <1>1, LeastElement, Zenon
<1> HIDE DEF m
<1>3. m # 0 /\ m - 1 \in Nat /\ (m - 1) + 1 = m
  BY <1>2 DEF Out
<1>4. m - 1 \in T
  <2>1. m - 1 \notin Out
    BY <1>2, <1>3
  <2> QED
    BY <1>3, <2>1 DEF Out
<1> QED
  BY <1>2, <1>3, <1>4 DEF Out

\* The pieces up to the i-th, put together.
Flat(seqs) ==
    CHOOSE flatten : flatten = [i \in 1 .. Len(seqs) |->
                                  IF i = 1 THEN seqs[i] ELSE flatten[i - 1] \o seqs[i]]

\* The recursion of FlattenSeq has a solution.
LEMMA FlatStep ==
    ASSUME NEW seqs, Len(seqs) \in Nat \ {0}
    PROVE  /\ FlattenSeq(seqs) = Flat(seqs)[Len(seqs)]
           /\ Flat(seqs)[1] = seqs[1]
           /\ \A i \in 2 .. Len(seqs) : Flat(seqs)[i] = Flat(seqs)[i - 1] \o seqs[i]
<1> DEFINE Solves(f, n) == f = [i \in 1 .. n |-> IF i = 1 THEN seqs[i] ELSE f[i - 1] \o seqs[i]]
           T == {n \in Nat : \E f : Solves(f, n)}
           P == Flat(seqs)
           N == Len(seqs)
<1>1. 0 \in T
  <2>1. Solves([i \in 1 .. 0 |-> 0], 0)
    OBVIOUS
  <2> QED
    BY <2>1
<1>2. ASSUME NEW n \in Nat, n \in T
      PROVE  n + 1 \in T
  <2>1. PICK f : Solves(f, n)
    BY <1>2
  <2> DEFINE e == IF n = 0 THEN seqs[n + 1] ELSE f[n] \o seqs[n + 1]
  <2> DEFINE g == [i \in 1 .. (n + 1) |-> IF i = n + 1 THEN e ELSE f[i]]
  <2>2. ASSUME NEW i \in 1 .. (n + 1)
        PROVE  g[i] = IF i = 1 THEN seqs[i] ELSE g[i - 1] \o seqs[i]
    <3>1. CASE i = n + 1
      <4>1. i # 1 => n # 0 /\ i - 1 = n /\ g[i - 1] = f[n]
        BY <3>1
      <4> QED
        BY <3>1, <4>1
    <3>2. CASE i # n + 1
      <4>1. i \in 1 .. n /\ g[i] = f[i] /\ (i # 1 => g[i - 1] = f[i - 1])
        BY <3>2
      <4>2. f[i] = IF i = 1 THEN seqs[i] ELSE f[i - 1] \o seqs[i]
        BY <2>1, <4>1
      <4> QED
        BY <4>1, <4>2
    <3> QED
      BY <3>1, <3>2
  <2>3. g = [i \in 1 .. (n + 1) |-> g[i]]
    OBVIOUS
  <2> HIDE DEF g
  <2>4. Solves(g, n + 1)
    BY <2>2, <2>3
  <2> HIDE DEF Solves
  <2> QED
    BY <2>4
<1>3. N \in T
  <2> HIDE DEF T
  <2> QED
    BY <1>1, <1>2, SetInduction
<1>4. Solves(P, N)
  BY <1>3 DEF Flat
<1>5. FlattenSeq(seqs) = P[N]
  BY DEF FlattenSeq, Flat
<1> HIDE DEF P
<1>6. \A i \in 1 .. N : P[i] = IF i = 1 THEN seqs[i] ELSE P[i - 1] \o seqs[i]
  BY <1>4
<1>7. 1 \in 1 .. N /\ \A i \in 2 .. N : i \in 1 .. N /\ i # 1
  OBVIOUS
<1>8. P[1] = seqs[1] /\ \A i \in 2 .. N : P[i] = P[i - 1] \o seqs[i]
  BY <1>6, <1>7
<1> QED
  BY <1>5, <1>8 DEF P

\* Sequences put together are a sequence over the same set.
LEMMA FlattenType ==
    ASSUME NEW S, NEW seqs \in Seq(Seq(S))
    PROVE  FlattenSeq(seqs) \in Seq(S)
<1>1. CASE Len(seqs) = 0
  <2>1. seqs = << >>
    BY <1>1, EmptySeq
  <2> QED
    BY <1>1, <2>1, EmptySeq DEF FlattenSeq
<1>2. CASE Len(seqs) # 0
  <2> DEFINE T == {n \in Nat : n \in 1 .. Len(seqs) => Flat(seqs)[n] \in Seq(S)}
             f == Flat(seqs)
             k == Len(seqs)
  <2>1. k \in Nat \ {0} /\ \A i \in 1 .. k : seqs[i] \in Seq(S)
    BY <1>2
  <2>2. /\ FlattenSeq(seqs) = f[k] /\ f[1] = seqs[1]
        /\ \A i \in 2 .. k : f[i] = f[i - 1] \o seqs[i]
    BY <2>1, FlatStep
  <2>3. 0 \in T
    OBVIOUS
  <2>4. ASSUME NEW n \in Nat, n \in T
        PROVE  n + 1 \in T
    <3> SUFFICES ASSUME n + 1 \in 1 .. k PROVE f[n + 1] \in Seq(S)
      OBVIOUS
    <3>1. CASE n = 0
      BY <2>1, <2>2, <3>1
    <3>2. CASE n # 0
      <4> DEFINE i == n + 1
      <4>1. i \in 2 .. k /\ i - 1 = n /\ n \in 1 .. k /\ i \in 1 .. k
        BY <2>1, <3>2
      <4>2. f[n] \in Seq(S) /\ seqs[i] \in Seq(S)
        BY <2>1, <2>4, <4>1
      <4> HIDE DEF i, f, k
      <4>3. f[i] = f[n] \o seqs[i]
        BY <2>2, <4>1
      <4>4. f[i] \in Seq(S)
        BY <4>2, <4>3, ConcatProperties
      <4> QED
        BY <4>4 DEF i
    <3> QED
      BY <3>1, <3>2
  <2>5. k \in T
    <3> HIDE DEF T, k
    <3> QED
      BY <2>1, <2>3, <2>4, SetInduction
  <2> QED
    BY <2>1, <2>2, <2>5
<1> QED
  BY <1>1, <1>2

LEMMA RegMemType ==
    ASSUME NEW op, NEW args, OpcodeOK(op), ArgumentsOK(args)
    PROVE  MadeOK(RegMem(op, args))
<1> DEFINE reg == IF ~ IsReg(args[1]) THEN 192
                  ELSE CASE args[1].reg = "cc" -> 0 [] args[1].reg = "a" -> 64 [] OTHER -> 128
           wrong(a) == IsInt(a) /\ a.val \notin 0 .. 7
           bit(a) == IF IsInt(a) /\ ~ wrong(a) THEN a.val ELSE 0
           bad == \/ Len(args) # 4 \/ args[1].type \notin {"reg", "int", "undef"}
                  \/ IsReg(args[1]) /\ args[1].reg \notin {"cc", "a", "b"}
           post == reg + bit(args[2]) * 8 + bit(args[3])
           low == IF IsInt(args[4]) THEN args[4].val ELSE 0
           code == <<Op(op.direct), Field(1, post), Field(1, low)>>
           error == IF wrong(args[2]) \/ wrong(args[3]) THEN OutOfRange
                    ELSE IF IsInt(args[1]) THEN Illegal ELSE None
<1>1. RegMem(op, args) = IF bad THEN Made(<< >>, Syntax) ELSE Made(code, error)
  BY DEF RegMem
<1>2. CASE bad
  BY <1>1, <1>2, NothingMade
<1>3. CASE ~ bad
  <2>1. reg \in Int
    OBVIOUS
  <2>2. bit(args[2]) \in Int /\ bit(args[3]) \in Int
    OBVIOUS
  <2>3. low \in Int
    <3>1. 4 \in 1 .. Len(args)
      BY <1>3
    <3> QED
      BY <3>1, IntsHaveValues
  <2>4. error \in Level
    BY DEF Level
  <2>5. RegMem(op, args) = Made(code, error)
    BY <1>1, <1>3
  <2> HIDE DEF reg, bit, low, error
  <2>6. post \in Int
    BY <2>1, <2>2
  <2> HIDE DEF post
  <2>7. Op(op.direct) \in Piece /\ Field(1, post) \in Piece /\ Field(1, low) \in Piece
    BY <2>3, <2>6, OpIsPiece, FieldIsPiece, OpcodeInts
  <2>8. code \in Seq(Piece)
    BY <2>7, PiecesMade
  <2> HIDE DEF code
  <2> QED
    BY <2>4, <2>5, <2>8, MadeIsOK
<1> QED
  BY <1>2, <1>3

LEMMA AbsoluteType ==
    ASSUME NEW indirect \in BOOLEAN, NEW a, IsInt(a) => a.val \in Int
    PROVE  MadeOK(Absolute(indirect, a))
<1> DEFINE n == IF indirect THEN 159 ELSE 143
           v == IF IsInt(a) THEN a.val ELSE 0
           code == <<Field(1, n), Field(2, v)>>
           error == IF indirect THEN None ELSE Illegal
           bad == a.type \notin {"undef", "int"} \/ a.attr \notin {"undef", "none", "16bit"}
<1>1. Absolute(indirect, a) = IF bad THEN Made(<< >>, Syntax) ELSE Made(code, error)
  BY DEF Absolute
<1>2. n \in Int /\ v \in Int /\ error \in Level
  BY DEF Level
<1> HIDE DEF n, v, error, bad
<1>3. Field(1, n) \in Piece /\ Field(2, v) \in Piece
  BY <1>2, FieldIsPiece
<1>4. code \in Seq(Piece)
  BY <1>3, PiecesMade
<1> HIDE DEF code
<1>5. MadeOK(Made(code, error))
  BY <1>2, <1>4, MadeIsOK
<1> QED
  BY <1>1, <1>5, NothingMade

LEMMA ModeType ==
    \A i \in 1 .. 20 : IndexedModes[i].post \in Int
BY DEF IndexedModes, Mode

LEMMA Indexed2Type ==
    ASSUME NEW indirect \in BOOLEAN, NEW a, NEW r, NEW pc \in Int, IsInt(a) => a.val \in Int
    PROVE  MadeOK(Indexed2(indirect, a, r, pc))
<1> DEFINE fits == {i \in 1 .. Len(IndexedModes) :
                      LET m == IndexedModes[i] IN
                      /\ m.index = IndexType(r.reg) /\ m.attr = r.attr
                      /\ Compatible(m.off, r.reg, a, pc)
                      /\ ~ (indirect /\ m.indirect = "impossible")}
           m == IndexedModes[Min(fits)]
           given == IsInt(a) /\ ~ (a.attr = "none" /\ a.val = 0)
           off == IF ~ given THEN 0
                  ELSE IF r.reg = "pcr" /\ m.off \in {"8bit", "16bit"} THEN a.val - PcrBase(m.off, pc)
                  ELSE a.val
           short == IF m.off = "5bit" THEN off % 32 ELSE 0
           bit == IF ~ indirect THEN 0 ELSE IF m.indirect = "ok_6309" THEN 1 ELSE 16
           post == m.post + IndexSelect(r.reg) + short + bit
           tail == CASE m.off = "8bit" -> <<Field(1, off)>> [] m.off = "16bit" -> <<Field(2, off)>>
                     [] OTHER -> << >>
           code == <<Field(1, post)>> \o tail
           error == IF indirect /\ m.indirect = "illegal" THEN Illegal ELSE None
           undef == a.type = "undef" \/ r.type = "undef"
           bad == ~ IsReg(r) \/ IndexType(r.reg) \notin {"xyus", "pcr", "w"} \/ fits = {}
<1>1. Indexed2(indirect, a, r, pc) =
        IF undef THEN Made(<<Field(1, 0)>>, None)
        ELSE IF bad THEN Made(<< >>, Syntax)
        ELSE Made(code, error)
  BY DEF Indexed2
<1>2. CASE undef
  <2>1. <<Field(1, 0)>> \in Seq(Piece)
    BY FieldIsPiece, PiecesMade
  <2>2. Indexed2(indirect, a, r, pc) = Made(<<Field(1, 0)>>, None)
    BY <1>1, <1>2
  <2>3. None \in Level
    BY DEF Level
  <2> QED
    BY <2>1, <2>2, <2>3, MadeIsOK, Zenon
<1>3. CASE ~ undef /\ bad
  BY <1>1, <1>3, NothingMade
<1>4. CASE ~ undef /\ ~ bad
  <2>1. Indexed2(indirect, a, r, pc) = Made(code, error)
    BY <1>1, <1>4
  <2>2. fits \in SUBSET Nat /\ fits # {} /\ fits \in SUBSET (1 .. 20)
    <3>1. Len(IndexedModes) = 20
      BY DEF IndexedModes
    <3>2. fits \in SUBSET (1 .. 20)
      BY <3>1
    <3>3. fits # {}
      BY <1>4
    <3> HIDE DEF fits
    <3> QED
      BY <3>2, <3>3
  <2> HIDE DEF fits
  <2>3. Min(fits) \in fits
    BY <2>2, LeastElement, Zenon
  <2>4. Min(fits) \in 1 .. 20
    BY <2>2, <2>3, Zenon
  <2>5. m.post \in Int
    BY <2>4, ModeType
  <2>6. PcrBase(m.off, pc) \in Int
    BY DEF PcrBase
  <2> HIDE DEF m
  <2>7. off \in Int
    BY <2>6
  <2>8. error \in Level
    BY DEF Level
  <2> HIDE DEF off, error
  <2>9. IndexSelect(r.reg) \in Int /\ short \in Int /\ bit \in Int
    BY <2>7, SelectType
  <2> HIDE DEF short, bit
  <2>10. post \in Int
    BY <2>5, <2>9
  <2> HIDE DEF post
  <2>11. Field(1, post) \in Piece /\ Field(1, off) \in Piece /\ Field(2, off) \in Piece
    BY <2>7, <2>10, FieldIsPiece
  <2>12. tail \in Seq(Piece)
    BY <2>11, PiecesMade, EmptySeq
  <2>13. <<Field(1, post)>> \in Seq(Piece)
    BY <2>11, PiecesMade
  <2> HIDE DEF tail
  <2>14. code \in Seq(Piece)
    BY <2>12, <2>13, ConcatProperties
  <2> HIDE DEF code
  <2> QED
    BY <2>1, <2>8, <2>14, MadeIsOK
<1> QED
  BY <1>2, <1>3, <1>4

LEMMA IndexedAsType ==
    ASSUME NEW op, NEW args, NEW imm \in Seq(Piece), NEW pc \in Int,
           OpcodeOK(op), ArgumentsOK(args)
    PROVE  MadeOK(Indexed(op, args, imm, pc))
<1> DEFINE indirect == Len(args) = 1 /\ args[1].type = "array"
           as == IF indirect THEN args[1].args ELSE args
           before == <<Op(op.indexed)>> \o imm
           after == pc + Len(FlattenSeq(before))
           rest == IF Len(as) = 1 THEN Absolute(indirect, as[1])
                   ELSE Indexed2(indirect, as[1], as[2], after)
<1>1. Indexed(op, args, imm, pc) =
        IF Len(as) \notin 1 .. 2 THEN Made(<< >>, Syntax) ELSE Made(before \o rest.code, rest.error)
  BY DEF Indexed
<1>2. CASE Len(as) \notin 1 .. 2
  BY <1>1, <1>2, NothingMade
<1>3. CASE Len(as) \in 1 .. 2
  <2>1. before \in Seq(Piece)
    <3>1. <<Op(op.indexed)>> \in Seq(Piece)
      BY OpIsPiece, PiecesMade, OpcodeInts
    <3> QED
      BY <3>1, ConcatProperties
  <2>2. after \in Int
    <3> HIDE DEF before
    <3>1. before \in Seq(Seq(Byte))
      <4>1. Piece \subseteq Seq(Byte)
        BY DEF Piece
      <4> QED
        BY <2>1, <4>1, SeqMonotonic
    <3>2. FlattenSeq(before) \in Seq(Byte)
      BY <3>1, FlattenType
    <3>3. Len(FlattenSeq(before)) \in Nat
      BY <3>2, LenProperties
    <3> QED
      BY <3>3
  <2>3. IsInt(as[1]) => as[1].val \in Int
    <3>1. 1 \in 1 .. Len(as)
      BY <1>3
    <3>2. CASE indirect
      <4>1. 1 \in 1 .. Len(args) /\ 1 \in 1 .. Len(args[1].args)
        BY <3>1, <3>2
      <4> QED
        BY <3>2, <4>1 DEF ArgumentsOK, ArgumentOK
    <3>3. CASE ~ indirect
      BY <3>1, <3>3, IntsHaveValues
    <3> QED
      BY <3>2, <3>3
  <2>4. indirect \in BOOLEAN
    OBVIOUS
  <2>5. Indexed(op, args, imm, pc) = Made(before \o rest.code, rest.error)
    BY <1>1, <1>3
  <2> HIDE DEF indirect, as, before, after
  <2>6. MadeOK(rest)
    BY <2>2, <2>3, <2>4, AbsoluteType, Indexed2Type
  <2> HIDE DEF rest
  <2>7. before \o rest.code \in Seq(Piece) /\ rest.error \in Level
    BY <2>1, <2>6, ConcatProperties DEF MadeOK
  <2> QED
    BY <2>5, <2>7, MadeIsOK, Zenon
<1> QED
  BY <1>2, <1>3

LEMMA AddressType ==
    ASSUME NEW op, NEW args, NEW imm \in Seq(Piece), NEW pc \in Int, NEW dp \in Int,
           OpcodeOK(op), ArgumentsOK(args)
    PROVE  MadeOK(Address(op, args, imm, pc, dp))
<1> DEFINE a == args[1]
           known == IsInt(a)
           attr == IF known THEN a.attr ELSE "16bit"
           addr == IF known THEN a.val % 65536 ELSE pc
           bad == Len(args) \notin 1 .. 2 \/ ("indexed" \notin op.mem /\ Len(args) > 1)
           indexed == Len(args) = 2 \/ a.type = "array"
           direct == IsDirect(op, attr, addr, dp)
           extended == "extended" \in op.mem /\ attr \in {"16bit", "none"}
           low == <<Op(op.direct)>> \o imm \o <<Field(1, addr)>>
           full == <<Op(op.extended)>> \o imm \o <<Field(2, addr)>>
<1>1. Address(op, args, imm, pc, dp) =
        IF bad THEN Made(<< >>, Syntax)
        ELSE IF indexed THEN Indexed(op, args, imm, pc)
        ELSE IF direct THEN Made(low, None)
        ELSE IF extended THEN Made(full, None)
        ELSE Indexed(op, args, imm, pc)
  BY DEF Address
<1>2. MadeOK(Indexed(op, args, imm, pc))
  BY IndexedAsType
<1>3. CASE bad
  BY <1>1, <1>3, NothingMade
<1>4. CASE ~ bad
  <2>1. addr \in Int
    <3>1. 1 \in 1 .. Len(args)
      <4>1. CASE Len(args) = 1
        BY <4>1
      <4>2. CASE Len(args) = 2
        BY <4>2
      <4> QED
        BY <1>4, <4>1, <4>2
    <3>2. known => a.val \in Int
      BY <3>1, IntsHaveValues
    <3> QED
      BY <3>2
  <2> HIDE DEF addr, attr, bad, indexed, direct, extended
  <2>2. /\ <<Op(op.direct)>> \in Seq(Piece) /\ <<Op(op.extended)>> \in Seq(Piece)
        /\ <<Field(1, addr)>> \in Seq(Piece) /\ <<Field(2, addr)>> \in Seq(Piece)
    BY <2>1, OpIsPiece, FieldIsPiece, PiecesMade, OpcodeInts
  <2>3. /\ <<Op(op.direct)>> \o imm \in Seq(Piece) /\ <<Op(op.extended)>> \o imm \in Seq(Piece)
    BY <2>2, ConcatProperties
  <2>4. low \in Seq(Piece) /\ full \in Seq(Piece)
    BY <2>2, <2>3, ConcatProperties
  <2> HIDE DEF low, full
  <2>5. None \in Level
    BY DEF Level
  <2>6. MadeOK(Made(low, None)) /\ MadeOK(Made(full, None))
    BY <2>4, <2>5, MadeIsOK, Zenon
  <2> QED
    BY <1>1, <1>2, <2>6, NothingMade
<1> QED
  BY <1>3, <1>4

LEMMA TailOK ==
    ASSUME NEW args, ArgumentsOK(args), Len(args) > 0
    PROVE  ArgumentsOK(Tail(args))
<1> DEFINE tail == Tail(args)
<1>1. args \in Seq(Range(args)) /\ args # << >>
  BY EmptySeq DEF ArgumentsOK
<1>2. /\ tail \in Seq(Range(args)) /\ Len(tail) = Len(args) - 1
      /\ \A i \in 1 .. Len(tail) : tail[i] = args[i + 1]
  BY <1>1, HeadTailProperties
<1>3. tail \in Seq(Range(tail))
  BY <1>2, SeqOfRange
<1> HIDE DEF tail
<1>4. \A i \in 1 .. Len(tail) : i + 1 \in 1 .. Len(args)
  <2>1. Len(args) \in Nat
    BY <1>1, LenProperties
  <2> QED
    BY <1>2, <2>1
<1> QED
  BY <1>2, <1>3, <1>4 DEF ArgumentsOK, tail

LEMMA Imm8MemType ==
    ASSUME NEW op, NEW args, NEW pc \in Int, NEW dp \in Int, OpcodeOK(op), ArgumentsOK(args)
    PROVE  MadeOK(Imm8Mem(op, args, pc, dp))
<1> DEFINE bad == Len(args) \notin 2 .. 3 \/ ("indexed" \notin op.mem /\ Len(args) > 2)
           v == IF IsInt(args[1]) THEN args[1].val ELSE 0
<1>1. Imm8Mem(op, args, pc, dp) =
        IF bad THEN Made(<< >>, Syntax) ELSE Address(op, Tail(args), <<Field(1, v)>>, pc, dp)
  BY DEF Imm8Mem
<1>2. CASE bad
  BY <1>1, <1>2, NothingMade
<1>3. CASE ~ bad
  <2>1. Len(args) > 0 /\ 1 \in 1 .. Len(args)
    BY <1>3
  <2>2. v \in Int
    BY <2>1, IntsHaveValues
  <2> HIDE DEF v, bad
  <2>3. <<Field(1, v)>> \in Seq(Piece)
    BY <2>2, FieldIsPiece, PiecesMade
  <2>4. ArgumentsOK(Tail(args))
    BY <2>1, TailOK
  <2> QED
    BY <1>1, <1>3, <2>3, <2>4, AddressType
<1> QED
  BY <1>2, <1>3

\* Whatever its arguments, what an instruction makes is pieces of code, none of
\* them empty, and a type of error.
LEMMA EncodeType ==
    ASSUME NEW op, NEW args, NEW pc \in Int, NEW dp \in Int, OpcodeOK(op), ArgumentsOK(args)
    PROVE  MadeOK(Encode(op, args, pc, dp))
<1> DEFINE plain == Made(<<Op(op.imm)>>, IF args # << >> THEN Syntax ELSE None)
           made == Encode(op, args, pc, dp)
<1>1. MadeOK(plain)
  <2>1. <<Op(op.imm)>> \in Seq(Piece)
    BY OpIsPiece, PiecesMade, OpcodeInts
  <2>2. (IF args # << >> THEN Syntax ELSE None) \in Level
    BY DEF Level
  <2> QED
    BY <2>1, <2>2, MadeIsOK, Zenon
<1>2. << >> \in Seq(Piece)
  BY EmptySeq
<1> DEFINE arm == CASE op.ext \in {"rel8", "rel16"} -> Rel(op, args, pc)
                    [] op.ext = "stacku"  -> Stack(op, args, "u")
                    [] op.ext = "stacks"  -> Stack(op, args, "s")
                    [] op.ext = "pair"    -> Pair(op, args)
                    [] op.ext = "tfm"     -> Tfm(op, args)
                    [] op.ext = "reg_mem" -> RegMem(op, args)
                    [] OTHER              -> Made(<< >>, Syntax)
<1>3. \/ made = plain \/ made = Immediate(op, args) \/ made = Imm8Mem(op, args, pc, dp)
      \/ made = Address(op, args, << >>, pc, dp) \/ made = arm
  BY DEF Encode
<1>7. \/ arm = Rel(op, args, pc) \/ arm = Stack(op, args, "u") \/ arm = Stack(op, args, "s")
      \/ arm = Pair(op, args) \/ arm = Tfm(op, args) \/ arm = RegMem(op, args)
      \/ arm = Made(<< >>, Syntax)
  OBVIOUS
<1> HIDE DEF plain, made, arm
<1>4. /\ MadeOK(Immediate(op, args)) /\ MadeOK(Imm8Mem(op, args, pc, dp))
      /\ MadeOK(Address(op, args, << >>, pc, dp)) /\ MadeOK(Rel(op, args, pc))
  BY <1>2, ImmediateType, Imm8MemType, AddressType, RelType
<1>5. /\ MadeOK(Stack(op, args, "u")) /\ MadeOK(Stack(op, args, "s")) /\ MadeOK(Pair(op, args))
      /\ MadeOK(Tfm(op, args)) /\ MadeOK(RegMem(op, args)) /\ MadeOK(Made(<< >>, Syntax))
  BY StackType, PairType, TfmType, RegMemType, NothingMade
<1>6. MadeOK(made)
  BY <1>1, <1>3, <1>4, <1>5, <1>7
<1> QED
  BY <1>6 DEF made

-----------------------------------------------------------------------------
(* Emission into spans. *)
Cell == [at : Nat, byte : Byte]

Sect == [pc : Int, put : Nat, dp : Unset .. 255, spans : Seq(SpanType)]

\* What section_emit() has to do with while a line is assembled.
Emitting == [sect : Sect, count : Nat, wrong : BOOLEAN, memory : Seq(Cell)]

\* The end of a sequence.
LEMMA FrontLast ==
    ASSUME NEW S, NEW s \in Seq(S), s # << >>
    PROVE  /\ Front(s) \in Seq(S) /\ Len(s) \in Nat /\ Len(s) > 0
           /\ Len(Front(s)) = Len(s) - 1 /\ Last(s) \in S /\ Last(s) = s[Len(s)]
           /\ \A i \in 1 .. Len(s) - 1 : Front(s)[i] = s[i]
<1> DEFINE n == Len(s)
<1>1. n \in Nat /\ n > 0 /\ \A i \in 1 .. n : s[i] \in S
  BY EmptySeq, LenProperties
<1> HIDE DEF n
<1>2. \A i \in 1 .. n - 1 : s[i] \in S
  BY <1>1
<1>3. /\ Front(s) \in Seq(S)
      /\ Len(Front(s)) = IF 1 <= n - 1 THEN (n - 1) - 1 + 1 ELSE 0
      /\ \A i \in 1 .. (n - 1) - 1 + 1 : Front(s)[i] = s[1 + i - 1]
  BY <1>1, <1>2, SubSeqProperties DEF Front, n
<1>4. \A i \in 1 .. n - 1 : Front(s)[i] = s[i]
  <2> SUFFICES ASSUME NEW i \in 1 .. n - 1 PROVE Front(s)[i] = s[i]
    OBVIOUS
  <2>1. i \in 1 .. (n - 1) - 1 + 1 /\ 1 + i - 1 = i
    BY <1>1
  <2> QED
    BY <1>3, <2>1
<1>5. Len(Front(s)) = n - 1
  BY <1>1, <1>3
<1>6. Last(s) = s[n] /\ s[n] \in S
  BY <1>1 DEF Last, n
<1> QED
  BY <1>1, <1>3, <1>4, <1>5, <1>6 DEF n

LEMMA PieceFacts ==
    ASSUME NEW piece \in Piece
    PROVE  /\ piece \in Seq(Byte) /\ Len(piece) \in Nat /\ 1 <= Len(piece) /\ Len(piece) <= 4
           /\ \A i \in 1 .. Len(piece) : piece[i] \in Byte
<1>1. piece \in Seq(Byte) /\ Len(piece) \in 1 .. 4
  BY DEF Piece
<1> DEFINE n == Len(piece)
<1> HIDE DEF n
<1>2. n \in 1 .. 4
  BY <1>1 DEF n
<1>3. n \in Nat /\ 1 <= n /\ n <= 4
  BY <1>2
<1>4. \A i \in 1 .. Len(piece) : piece[i] \in Byte
  BY <1>1
<1> QED
  BY <1>1, <1>3, <1>4 DEF n

\* The span that a piece is put into.
Grown(t, piece) ==
    LET s == t.sect
        span == IF GoesOn(s) THEN Last(s.spans) ELSE Span(t.count, s.put, s.pc) IN
    [span EXCEPT !.data = @ \o piece, !.room = Room(span, s.pc + Len(piece), Len(piece))]

\* The cells that a piece fills.
Filled(put, piece) == [i \in 1 .. Len(piece) |-> [at |-> put + i - 1, byte |-> piece[i]]]

LEMMA GrownType ==
    ASSUME NEW t \in Emitting, NEW piece \in Piece
    PROVE  /\ Grown(t, piece) \in SpanType
           /\ GoesOn(t.sect) =>
                LET last == t.sect.spans[Len(t.sect.spans)] IN
                /\ t.sect.spans # << >> /\ last \in SpanType
                /\ t.sect.put = SpanEnd(last)
                /\ Grown(t, piece).seq = last.seq /\ Grown(t, piece).put = last.put
                /\ Grown(t, piece).data = last.data \o piece
                /\ Len(last.data) <= last.room =>
                     Len(Grown(t, piece).data) <= Grown(t, piece).room
           /\ ~ GoesOn(t.sect) =>
                /\ Grown(t, piece).seq = t.count /\ Grown(t, piece).put = t.sect.put
                /\ Grown(t, piece).data = piece
                /\ Len(Grown(t, piece).data) <= Grown(t, piece).room
<1> DEFINE s == t.sect
           span == IF GoesOn(s) THEN Last(s.spans) ELSE Span(t.count, s.put, s.pc)
           pc == s.pc + Len(piece)
           room == Room(span, pc, Len(piece))
           g == Grown(t, piece)
<1>1. /\ s \in Sect /\ t.count \in Nat /\ s.pc \in Int /\ s.put \in Nat /\ s.spans \in Seq(SpanType)
      /\ piece \in Seq(Byte) /\ Len(piece) \in Nat /\ Len(piece) <= 4
  BY PieceFacts DEF Emitting, Sect
<1>2. ASSUME NEW sp \in SpanType
      PROVE  /\ sp.seq \in Nat /\ sp.put \in Nat /\ sp.org \in Int /\ sp.room \in Nat
             /\ sp.data \in Seq(Byte) /\ Len(sp.data) \in Nat
  BY DEF SpanType
<1>3. Span(t.count, s.put, s.pc) \in SpanType
  BY <1>1, EmptySeq DEF Span, SpanType
<1>4. GoesOn(s) => /\ s.spans # << >> /\ Last(s.spans) = s.spans[Len(s.spans)]
                   /\ s.put = SpanEnd(Last(s.spans)) /\ Last(s.spans) \in SpanType
                   /\ s.pc = Last(s.spans).org + Len(Last(s.spans).data)
  BY <1>1, FrontLast DEF GoesOn
<1> HIDE DEF s
<1>5. span \in SpanType
  BY <1>3, <1>4
<1>6. s.pc = span.org + Len(span.data)
  <2>1. CASE GoesOn(s)
    BY <1>4, <2>1
  <2>2. CASE ~ GoesOn(s)
    BY <1>1, <2>2 DEF Span
  <2> QED
    BY <2>1, <2>2
<1>7. g = [span EXCEPT !.data = @ \o piece, !.room = room]
  BY DEF Grown, s
<1> HIDE DEF span
<1>8. /\ span.seq \in Nat /\ span.put \in Nat /\ span.org \in Int /\ span.room \in Nat
      /\ span.data \in Seq(Byte) /\ Len(span.data) \in Nat
  BY <1>2, <1>5
<1>9. /\ span.data \o piece \in Seq(Byte)
      /\ Len(span.data \o piece) = Len(span.data) + Len(piece)
  BY <1>1, <1>8, ConcatProperties
<1>10. room \in Nat /\ (Len(span.data) <= span.room => Len(span.data) + Len(piece) <= room)
  <2>1. room = IF pc >= span.org + span.room THEN span.room + 128 ELSE span.room
    BY DEF Room
  <2>2. pc = span.org + Len(span.data) + Len(piece)
    BY <1>1, <1>6, <1>8
  <2> DEFINE n == Len(span.data)
             k == Len(piece)
             r == span.room
             o == span.org
  <2>3. k \in Nat /\ k <= 4 /\ n \in Nat /\ r \in Nat /\ o \in Int
    BY <1>1, <1>8
  <2>4. pc = o + n + k /\ room = IF pc >= o + r THEN r + 128 ELSE r
    BY <2>1, <2>2
  <2> HIDE DEF room, pc, n, k, r, o
  <2>5. room \in Nat /\ (n <= r => n + k <= room)
    BY <2>3, <2>4
  <2> QED
    BY <2>5 DEF n, k, r
<1> HIDE DEF room, g
<1>11. /\ g \in SpanType /\ g.seq = span.seq /\ g.put = span.put
       /\ g.data = span.data \o piece /\ g.room = room
  <2>0. span = [seq |-> span.seq, put |-> span.put, org |-> span.org, room |-> span.room,
                data |-> span.data]
    BY <1>5 DEF SpanType
  <2>1. g = [seq |-> span.seq, put |-> span.put, org |-> span.org, room |-> room,
             data |-> span.data \o piece]
    BY <1>7, <2>0
  <2> QED
    BY <1>8, <1>9, <1>10, <2>1 DEF SpanType
<1>12. Len(span.data) <= span.room => Len(g.data) <= g.room
  BY <1>9, <1>10, <1>11
<1>13. CASE GoesOn(s)
  BY <1>4, <1>11, <1>12, <1>13 DEF span, g, s
<1>14. CASE ~ GoesOn(s)
  <2>1. span = Span(t.count, s.put, s.pc)
    BY <1>14 DEF span
  <2>2. /\ span.seq = t.count /\ span.put = s.put /\ span.data = << >> /\ span.room = 0
        /\ Len(span.data) = 0
    BY <2>1, EmptySeq DEF Span
  <2>3. << >> \o piece = piece
    BY <1>1, ConcatEmptySeq
  <2>4. Len(g.data) <= g.room /\ g.data = piece
    BY <1>11, <1>12, <2>2, <2>3
  <2> QED
    BY <1>11, <1>14, <2>2, <2>4 DEF g, s
<1> QED
  BY <1>13, <1>14 DEF s

LEMMA FilledType ==
    ASSUME NEW put \in Nat, NEW piece \in Piece
    PROVE  /\ Filled(put, piece) \in Seq(Cell) /\ Len(Filled(put, piece)) = Len(piece)
           /\ \A i \in 1 .. Len(piece) :
                Filled(put, piece)[i].at = put + i - 1 /\ Filled(put, piece)[i].byte = piece[i]
<1> DEFINE n == Len(piece)
           e(i) == [at |-> put + i - 1, byte |-> piece[i]]
<1>1. n \in Nat /\ \A i \in 1 .. n : piece[i] \in Byte
  BY PieceFacts
<1>2. Filled(put, piece) = [i \in 1 .. n |-> e(i)]
  BY DEF Filled
<1> HIDE DEF n
<1>3. \A i \in 1 .. n : e(i) \in Cell
  <2> SUFFICES ASSUME NEW i \in 1 .. n PROVE e(i) \in Cell
    OBVIOUS
  <2>1. put + i - 1 \in Nat /\ piece[i] \in Byte
    BY <1>1
  <2> QED
    BY <2>1 DEF Cell
<1>4. Filled(put, piece) \in Seq(Cell)
  <2> HIDE DEF e
  <2> QED
    BY <1>1, <1>2, <1>3, IsASeq
<1>5. Len(Filled(put, piece)) = n
  BY <1>1, <1>2
<1>6. \A i \in 1 .. n : Filled(put, piece)[i] = e(i)
  BY <1>2
<1>7. \A i \in 1 .. n : /\ Filled(put, piece)[i].at = put + i - 1
                         /\ Filled(put, piece)[i].byte = piece[i]
  <2> SUFFICES ASSUME NEW i \in 1 .. n
               PROVE  /\ Filled(put, piece)[i].at = put + i - 1
                      /\ Filled(put, piece)[i].byte = piece[i]
    OBVIOUS
  <2>1. Filled(put, piece)[i] = e(i)
    BY <1>6
  <2>2. e(i).at = put + i - 1 /\ e(i).byte = piece[i]
    OBVIOUS
  <2> QED
    BY <2>1, <2>2
<1> QED
  BY <1>4, <1>5, <1>7 DEF n

\* A piece goes to the end of the last span, or into a new one.
LEMMA EmittedFacts ==
    ASSUME NEW t \in Emitting, NEW piece \in Piece
    PROVE  LET r == Emitted(t, piece)
               g == Grown(t, piece)
               n == Len(t.sect.spans)
               k == IF GoesOn(t.sect) THEN n ELSE n + 1 IN
           /\ r \in Emitting
           /\ r.memory = t.memory \o Filled(t.sect.put, piece)
           /\ r.sect.put = t.sect.put + Len(piece)
           /\ r.count = IF GoesOn(t.sect) THEN t.count ELSE t.count + 1
           /\ Len(r.sect.spans) = k /\ r.sect.spans[k] = g
           /\ \A i \in 1 .. k - 1 : r.sect.spans[i] = t.sect.spans[i]
<1> DEFINE r == Emitted(t, piece)
           s == t.sect
           g == Grown(t, piece)
           n == Len(s.spans)
           goes == GoesOn(s)
           k == IF goes THEN n ELSE n + 1
           new == Span(t.count, s.put, s.pc)
           spans == IF goes THEN s.spans ELSE Append(s.spans, new)
           pc == s.pc + Len(piece)
           m == t.memory \o Filled(s.put, piece)
<1>1. /\ s \in Sect /\ t.count \in Nat /\ t.wrong \in BOOLEAN /\ t.memory \in Seq(Cell)
      /\ s.pc \in Int /\ s.put \in Nat /\ s.spans \in Seq(SpanType) /\ s.dp \in Unset .. 255
      /\ Len(piece) \in Nat /\ n \in Nat
  BY PieceFacts DEF Emitting, Sect
<1>2. g \in SpanType
  BY GrownType
<1>3. goes => s.spans # << >> /\ n \in Nat \ {0}
  BY <1>1, EmptySeq DEF GoesOn
<1>4. new \in SpanType
  BY <1>1, EmptySeq DEF Span, SpanType
<1> HIDE DEF new, g
<1>5. /\ spans \in Seq(SpanType) /\ Len(spans) = k /\ spans # << >>
      /\ \A i \in 1 .. n : spans[i] = s.spans[i]
      /\ ~ goes => spans[n + 1] = new
  BY <1>1, <1>3, <1>4, AppendProperties, SMTT(30)
<1>6. Last(spans) = IF goes THEN Last(s.spans) ELSE new
  BY <1>5 DEF Last
<1>7. /\ Front(spans) \in Seq(SpanType) /\ Len(Front(spans)) = k - 1 /\ k \in Nat /\ k > 0
      /\ \A i \in 1 .. k - 1 : Front(spans)[i] = spans[i]
  <2> HIDE DEF spans, k
  <2> QED
    BY <1>5, FrontLast
<1>8. g = [Last(spans) EXCEPT !.data = @ \o piece,
                              !.room = Room(Last(spans), pc, Len(piece))]
  <2>1. CASE goes
    BY <1>6, <2>1 DEF g, Grown
  <2>2. CASE ~ goes
    BY <1>6, <2>2 DEF g, Grown, new
  <2> QED
    BY <2>1, <2>2
<1> DEFINE new2 == [pc |-> pc, put |-> s.put + Len(piece), dp |-> s.dp,
                    spans |-> Append(Front(spans), g)]
           wrong2 == t.wrong \/ s.pc < 0 \/ pc > 65536
           count2 == IF goes THEN t.count ELSE t.count + 1
<1>9. r = [sect |-> new2, count |-> count2, wrong |-> wrong2, memory |-> m]
  BY <1>8 DEF Emitted, Filled, new
<1> HIDE DEF r
<1>10. /\ Append(Front(spans), g) \in Seq(SpanType) /\ Len(Append(Front(spans), g)) = k
       /\ Append(Front(spans), g)[k] = g
       /\ \A i \in 1 .. k - 1 : Append(Front(spans), g)[i] = spans[i]
  <2> HIDE DEF spans, k
  <2> QED
    BY <1>2, <1>7, AppendProperties
<1>11. m \in Seq(Cell)
  BY <1>1, FilledType, ConcatProperties
<1>12. new2 \in Sect
  <2>1. pc \in Int /\ s.put + Len(piece) \in Nat
    BY <1>1
  <2> HIDE DEF pc, spans, s
  <2> QED
    BY <1>1, <1>10, <2>1 DEF Sect
<1>13. wrong2 \in BOOLEAN /\ count2 \in Nat
  BY <1>1
<1> HIDE DEF new2, wrong2, count2, m
<1>14. r.sect = new2 /\ r.count = count2 /\ r.memory = m
  BY <1>9
<1>15. r \in Emitting
  BY <1>9, <1>11, <1>12, <1>13 DEF Emitting
<1>16. /\ r.sect.spans = Append(Front(spans), g)
       /\ r.sect.put = s.put + Len(piece)
  BY <1>14 DEF new2
<1>17. \A i \in 1 .. k - 1 : spans[i] = s.spans[i]
  BY <1>1, <1>5
<1> QED
  BY <1>10, <1>14, <1>15, <1>16, <1>17 DEF r, g, m, count2

-----------------------------------------------------------------------------
(* The spans and what was emitted. *)
CellsOf(span) == {[at |-> span.put + i - 1, byte |-> span.data[i]] : i \in 1 .. Len(span.data)}

InMem(m) == {m[i] : i \in 1 .. Len(m)}

TwiceIn(m) == \E i, j \in 1 .. Len(m) : i < j /\ m[i].at = m[j].at

Meet(a, b) == a.put < SpanEnd(b) /\ b.put < SpanEnd(a)

Overlapping(A) == \E a, b \in A : a # b /\ Meet(a, b)

\* The spans hold what was emitted, and nothing else; where a byte was emitted
\* to an address that had one, two spans overlap.
Ledger(A, n, m) ==
    /\ A \subseteq SpanType
    /\ \A a \in A : a.data # << >> /\ Len(a.data) <= a.room /\ a.seq < n
    /\ \A a, b \in A : a.seq = b.seq => a = b
    /\ \A c : c \in InMem(m) <=> \E a \in A : c \in CellsOf(a)
    /\ TwiceIn(m) <=> Overlapping(A)

LEMMA SpanFacts ==
    ASSUME NEW a \in SpanType
    PROVE  /\ a.seq \in Nat /\ a.put \in Nat /\ a.org \in Int /\ a.room \in Nat
           /\ a.data \in Seq(Byte) /\ Len(a.data) \in Nat
           /\ SpanEnd(a) = a.put + Len(a.data) /\ SpanEnd(a) \in Nat
           /\ a.data # << >> => a.put < SpanEnd(a)
<1>1. /\ a.seq \in Nat /\ a.put \in Nat /\ a.org \in Int /\ a.room \in Nat
      /\ a.data \in Seq(Byte)
  BY DEF SpanType
<1>2. Len(a.data) \in Nat /\ (a.data # << >> => Len(a.data) > 0)
  BY <1>1, EmptySeq, LenProperties
<1> QED
  BY <1>1, <1>2 DEF SpanEnd

LEMMA FilledCells ==
    ASSUME NEW m \in Seq(Cell), NEW put \in Nat, NEW piece \in Piece
    PROVE  InMem(m \o Filled(put, piece))
             = InMem(m) \cup {[at |-> put + i - 1, byte |-> piece[i]] : i \in 1 .. Len(piece)}
<1> DEFINE f == Filled(put, piece)
           n == Len(piece)
           e(i) == [at |-> put + i - 1, byte |-> piece[i]]
           k == Len(m)
<1>1. f \in Seq(Cell) /\ Len(f) = n /\ n \in Nat /\ k \in Nat
  BY FilledType, PieceFacts, LenProperties
<1>2. \A i \in 1 .. n : f[i] = e(i)
  BY DEF Filled
<1> HIDE DEF f, n, e, k
<1>3. /\ Len(m \o f) = k + n
      /\ \A i \in 1 .. k + n : (m \o f)[i] = IF i <= k THEN m[i] ELSE f[i - k]
  BY <1>1, ConcatProperties DEF k
<1>4. ASSUME NEW c \in InMem(m \o f) PROVE c \in InMem(m) \cup {e(i) : i \in 1 .. n}
  <2>1. PICK i \in 1 .. k + n : c = (m \o f)[i]
    BY <1>3 DEF InMem
  <2>2. CASE i <= k
    BY <1>1, <1>3, <2>1, <2>2 DEF InMem, k
  <2>3. CASE i > k
    <3>1. i - k \in 1 .. n /\ c = f[i - k]
      BY <1>1, <1>3, <2>1, <2>3
    <3> QED
      BY <1>2, <3>1
  <2> QED
    BY <1>1, <2>2, <2>3
<1>5. ASSUME NEW c \in InMem(m) PROVE c \in InMem(m \o f)
  <2>1. PICK i \in 1 .. k : c = m[i]
    BY DEF InMem, k
  <2>2. i \in 1 .. k + n /\ (m \o f)[i] = c
    BY <1>1, <1>3, <2>1
  <2> QED
    BY <1>3, <2>2 DEF InMem
<1>6. ASSUME NEW i \in 1 .. n PROVE e(i) \in InMem(m \o f)
  <2>1. k + i \in 1 .. k + n /\ ~ (k + i <= k) /\ (k + i) - k = i
    BY <1>1
  <2>2. (m \o f)[k + i] = e(i)
    BY <1>2, <1>3, <2>1
  <2> QED
    BY <1>3, <2>1, <2>2 DEF InMem
<1>7. InMem(m \o f) = InMem(m) \cup {e(i) : i \in 1 .. n}
  BY <1>4, <1>5, <1>6
<1> QED
  BY <1>7 DEF e, n, f

LEMMA TwiceGrows ==
    ASSUME NEW m \in Seq(Cell), NEW put \in Nat, NEW piece \in Piece
    PROVE  TwiceIn(m \o Filled(put, piece))
             <=> \/ TwiceIn(m)
                 \/ \E c \in InMem(m) : put <= c.at /\ c.at < put + Len(piece)
<1> DEFINE f == Filled(put, piece)
           n == Len(piece)
           k == Len(m)
           mf == m \o f
<1>1. f \in Seq(Cell) /\ Len(f) = n /\ n \in Nat /\ k \in Nat
  BY FilledType, PieceFacts, LenProperties
<1>2. \A i \in 1 .. n : f[i].at = put + i - 1
  BY FilledType
<1> HIDE DEF f, n, k
<1>3. /\ Len(mf) = k + n
      /\ \A i \in 1 .. k + n : mf[i] = IF i <= k THEN m[i] ELSE f[i - k]
  BY <1>1, ConcatProperties DEF k
<1>4. \A i \in 1 .. k : m[i] \in Cell /\ m[i].at \in Nat
  <2>1. \A i \in 1 .. k : m[i] \in Cell
    BY ElementOfSeq DEF k
  <2>2. \A c \in Cell : c.at \in Nat
    BY DEF Cell
  <2> QED
    BY <2>1, <2>2
<1> HIDE DEF mf
<1>5. ASSUME TwiceIn(mf)
      PROVE  TwiceIn(m) \/ \E c \in InMem(m) : put <= c.at /\ c.at < put + n
  <2>1. PICK i \in 1 .. k + n, j \in 1 .. k + n : i < j /\ mf[i].at = mf[j].at
    BY <1>3, <1>5 DEF TwiceIn
  <2>a. i \in Int /\ j \in Int /\ 1 <= i /\ i < j /\ j <= k + n
    BY <1>1, <2>1
  <2>b. /\ i <= k => mf[i] = m[i]
        /\ j <= k => mf[j] = m[j]
        /\ ~ (i <= k) => mf[i] = f[i - k]
        /\ ~ (j <= k) => mf[j] = f[j - k]
    BY <1>3
  <2>2. CASE j <= k
    <3>1. i \in 1 .. k /\ j \in 1 .. k /\ mf[i] = m[i] /\ mf[j] = m[j]
      BY <1>1, <2>a, <2>b, <2>2
    <3> QED
      BY <2>1, <3>1 DEF TwiceIn, k
  <2>3. CASE i <= k /\ j > k
    <3>1. j - k \in 1 .. n /\ i \in 1 .. k /\ mf[j] = f[j - k] /\ mf[i] = m[i]
      BY <1>1, <1>3, <2>1, <2>3
    <3>2. f[j - k].at = put + (j - k) - 1
      BY <1>2, <3>1
    <3>3. m[i].at = put + (j - k) - 1
      BY <2>1, <3>1, <3>2
    <3>4. put <= m[i].at /\ m[i].at < put + n
      BY <1>1, <3>1, <3>3
    <3>5. m[i] \in InMem(m)
      BY <3>1 DEF InMem, k
    <3> QED
      BY <3>4, <3>5
  <2>4. CASE i > k
    <3>1. i - k \in 1 .. n /\ j - k \in 1 .. n /\ mf[i] = f[i - k] /\ mf[j] = f[j - k]
      BY <1>1, <2>a, <2>b, <2>4
    <3>2. put + (i - k) - 1 = put + (j - k) - 1
      BY <1>2, <2>1, <3>1
    <3> QED
      BY <1>1, <2>1, <3>2
  <2> QED
    BY <1>1, <2>1, <2>2, <2>3, <2>4
<1>6. ASSUME TwiceIn(m) PROVE TwiceIn(mf)
  <2>1. PICK i \in 1 .. k, j \in 1 .. k : i < j /\ m[i].at = m[j].at
    BY <1>6 DEF TwiceIn, k
  <2>2. i \in 1 .. k + n /\ j \in 1 .. k + n /\ mf[i] = m[i] /\ mf[j] = m[j]
    BY <1>1, <1>3, <2>1
  <2> QED
    BY <1>3, <2>1, <2>2 DEF TwiceIn
<1>7. ASSUME NEW c \in InMem(m), put <= c.at, c.at < put + n PROVE TwiceIn(mf)
  <2>1. PICK i \in 1 .. k : c = m[i]
    BY DEF InMem, k
  <2> DEFINE j == c.at - put + 1
  <2>0. c.at \in Nat
    BY <1>4, <2>1
  <2>2. c.at \in Nat /\ j \in 1 .. n /\ k + j \in 1 .. k + n /\ ~ (k + j <= k) /\ (k + j) - k = j
    BY <1>1, <1>7, <2>0
  <2>3. f[j].at = c.at
    <3>1. f[j].at = put + j - 1
      BY <1>2, <2>2
    <3> QED
      BY <2>2, <3>1
  <2> HIDE DEF j
  <2>4. mf[k + j] = f[j] /\ mf[i] = c /\ i < k + j /\ i \in 1 .. k + n
    BY <1>1, <1>3, <2>1, <2>2
  <2> QED
    BY <1>3, <2>2, <2>3, <2>4 DEF TwiceIn
<1> QED
  BY <1>5, <1>6, <1>7 DEF mf, f, n

\* An emission hits a byte exactly where it meets a span.
LEMMA HitsSpan ==
    ASSUME NEW A, NEW n \in Nat, NEW m, Ledger(A, n, m), NEW put \in Nat, NEW k \in Nat, k > 0
    PROVE  (\E c \in InMem(m) : put <= c.at /\ c.at < put + k)
             <=> \E a \in A : a.put < put + k /\ put < SpanEnd(a)
<1>1. /\ A \subseteq SpanType
      /\ \A c : c \in InMem(m) <=> \E a \in A : c \in CellsOf(a)
      /\ \A a \in A : a.data # << >>
  BY DEF Ledger
<1>2. ASSUME NEW c \in InMem(m), put <= c.at, c.at < put + k
      PROVE  \E a \in A : a.put < put + k /\ put < SpanEnd(a)
  <2>1. PICK a \in A : c \in CellsOf(a)
    BY <1>1
  <2>2. PICK i \in 1 .. Len(a.data) : c = [at |-> a.put + i - 1, byte |-> a.data[i]]
    BY <2>1 DEF CellsOf
  <2>3. c.at = a.put + i - 1 /\ a.put \in Nat /\ Len(a.data) \in Nat /\ SpanEnd(a) = a.put + Len(a.data)
    BY <1>1, <2>2, SpanFacts
  <2>4. a.put < put + k /\ put < SpanEnd(a)
    BY <1>2, <2>3
  <2> QED
    BY <2>4
<1>3. ASSUME NEW a \in A, a.put < put + k, put < SpanEnd(a)
      PROVE  \E c \in InMem(m) : put <= c.at /\ c.at < put + k
  <2>1. /\ a.put \in Nat /\ Len(a.data) \in Nat /\ SpanEnd(a) = a.put + Len(a.data)
        /\ a.put < SpanEnd(a)
    BY <1>1, SpanFacts
  <2> DEFINE at == IF a.put < put THEN put ELSE a.put
             i == at - a.put + 1
             c == [at |-> a.put + i - 1, byte |-> a.data[i]]
  <2>2. at \in Nat /\ put <= at /\ at < put + k /\ a.put <= at /\ at < SpanEnd(a)
    BY <1>3, <2>1
  <2> HIDE DEF at
  <2>3. i \in 1 .. Len(a.data) /\ a.put + i - 1 = at
    BY <2>1, <2>2
  <2>4. c.at = at
    BY <2>3
  <2>5. c \in CellsOf(a)
    BY <2>3 DEF CellsOf
  <2> QED
    BY <1>1, <2>2, <2>4, <2>5
<1> QED
  BY <1>2, <1>3

LEMMA NewSpan ==
    ASSUME NEW A, NEW n \in Nat, NEW m \in Seq(Cell), Ledger(A, n, m),
           NEW put \in Nat, NEW piece \in Piece, NEW g \in SpanType,
           g.seq = n, g.put = put, g.data = piece, Len(g.data) <= g.room
    PROVE  Ledger(A \cup {g}, n + 1, m \o Filled(put, piece))
<1> DEFINE B == A \cup {g}
           k == Len(piece)
           mf == m \o Filled(put, piece)
<1>1. /\ A \subseteq SpanType
      /\ \A c : c \in InMem(m) <=> \E a \in A : c \in CellsOf(a)
      /\ \A a \in A : a.data # << >> /\ Len(a.data) <= a.room /\ a.seq < n
      /\ \A a, b \in A : a.seq = b.seq => a = b
      /\ TwiceIn(m) <=> Overlapping(A)
  BY DEF Ledger
<1>2. k \in Nat /\ k > 0 /\ g.data # << >>
  BY PieceFacts, EmptySeq
<1>3. \A a \in A : a.seq \in Nat /\ a.seq < n
  BY <1>1, SpanFacts
<1>4. g \notin A /\ \A a \in A : a # g
  BY <1>3
<1>5. \A c : c \in InMem(mf) <=> \E a \in B : c \in CellsOf(a)
  <2>1. InMem(mf) = InMem(m) \cup CellsOf(g)
    BY FilledCells DEF CellsOf
  <2> HIDE DEF mf
  <2> QED
    BY <1>1, <2>1
<1>6. SpanEnd(g) = put + k
  BY DEF SpanEnd
<1>7. TwiceIn(mf) <=> TwiceIn(m) \/ \E a \in A : Meet(a, g)
  <2>1. TwiceIn(mf) <=> \/ TwiceIn(m)
                        \/ \E c \in InMem(m) : put <= c.at /\ c.at < put + k
    BY TwiceGrows
  <2> HIDE DEF mf
  <2>2. (\E c \in InMem(m) : put <= c.at /\ c.at < put + k)
          <=> \E a \in A : a.put < put + k /\ put < SpanEnd(a)
    <3> HIDE DEF k
    <3> QED
      BY <1>2, HitsSpan
  <2> QED
    BY <1>6, <2>1, <2>2 DEF Meet
<1>8. Overlapping(B) <=> Overlapping(A) \/ \E a \in A : Meet(a, g)
  <2>1. ASSUME Overlapping(B) PROVE Overlapping(A) \/ \E a \in A : Meet(a, g)
    <3>1. PICK a \in B, b \in B : a # b /\ Meet(a, b)
      BY <2>1 DEF Overlapping
    <3>2. \A x, y : Meet(x, y) => Meet(y, x)
      BY DEF Meet
    <3> QED
      BY <3>1, <3>2, Zenon DEF Overlapping
  <2>2. ASSUME Overlapping(A) PROVE Overlapping(B)
    BY <2>2, Zenon DEF Overlapping
  <2>3. ASSUME NEW a \in A, Meet(a, g) PROVE Overlapping(B)
    BY <1>4, <2>3, Zenon DEF Overlapping
  <2> QED
    BY <2>1, <2>2, <2>3
<1>9. B \subseteq SpanType /\ \A a, b \in B : a.seq = b.seq => a = b
  BY <1>1, <1>3
<1>10. \A a \in B : a.data # << >> /\ Len(a.data) <= a.room /\ a.seq < n + 1
  BY <1>1, <1>2, <1>3
<1> HIDE DEF B, mf
<1>11. Ledger(B, n + 1, mf)
  BY <1>1, <1>5, <1>7, <1>8, <1>9, <1>10 DEF Ledger
<1> QED
  BY <1>11 DEF B, mf

LEMMA LongerSpan ==
    ASSUME NEW A, NEW n \in Nat, NEW m \in Seq(Cell), Ledger(A, n, m),
           NEW put \in Nat, NEW piece \in Piece, NEW g \in SpanType, NEW last \in A,
           put = SpanEnd(last), g.seq = last.seq, g.put = last.put,
           g.data = last.data \o piece, Len(g.data) <= g.room
    PROVE  Ledger((A \ {last}) \cup {g}, n, m \o Filled(put, piece))
<1> DEFINE C == A \ {last}
           B == C \cup {g}
           k == Len(piece)
           mf == m \o Filled(put, piece)
<1>1. /\ A \subseteq SpanType
      /\ \A c : c \in InMem(m) <=> \E a \in A : c \in CellsOf(a)
      /\ \A a \in A : a.data # << >> /\ Len(a.data) <= a.room /\ a.seq < n
      /\ \A a, b \in A : a.seq = b.seq => a = b
      /\ TwiceIn(m) <=> Overlapping(A)
  BY DEF Ledger
<1>2. k \in Nat /\ k > 0 /\ piece \in Seq(Byte)
  BY PieceFacts
<1>3. \A a \in A : /\ a.seq \in Nat /\ a.put \in Nat /\ SpanEnd(a) \in Nat
                   /\ a.put < SpanEnd(a)
  BY <1>1, SpanFacts
<1>4. /\ last.data \in Seq(Byte) /\ Len(last.data) \in Nat /\ last.put \in Nat
      /\ SpanEnd(last) = last.put + Len(last.data)
  BY <1>1, SpanFacts
<1>5. /\ Len(g.data) = Len(last.data) + k
      /\ \A i \in 1 .. Len(last.data) + k :
           g.data[i] = IF i <= Len(last.data) THEN last.data[i] ELSE piece[i - Len(last.data)]
  BY <1>2, <1>4, ConcatProperties
<1>6. SpanEnd(g) = put + k /\ g.put = last.put
  BY <1>2, <1>4, <1>5 DEF SpanEnd
<1>7. \A a \in C : a.seq # g.seq /\ a # g /\ a # last
  BY <1>1
<1>8. CellsOf(g) = CellsOf(last) \cup {[at |-> put + i - 1, byte |-> piece[i]] : i \in 1 .. k}
  <2> DEFINE l == Len(last.data)
             e(i) == [at |-> put + i - 1, byte |-> piece[i]]
             f(i) == [at |-> last.put + i - 1, byte |-> last.data[i]]
             h(i) == [at |-> g.put + i - 1, byte |-> g.data[i]]
  <2>0. l \in Nat /\ put = last.put + l /\ k \in Nat
    BY <1>2, <1>4
  <2>1. Len(g.data) = l + k /\ \A i \in 1 .. l + k : g.data[i] = IF i <= l THEN last.data[i]
                                                              ELSE piece[i - l]
    BY <1>5
  <2> HIDE DEF l, k
  <2>2. \A i \in 1 .. l : h(i) = f(i) /\ i \in 1 .. l + k
    <3> SUFFICES ASSUME NEW i \in 1 .. l PROVE h(i) = f(i) /\ i \in 1 .. l + k
      OBVIOUS
    <3>1. i \in 1 .. l + k /\ i <= l
      BY <2>0
    <3>2. g.data[i] = last.data[i]
      BY <2>1, <3>1
    <3> QED
      BY <1>6, <3>1, <3>2
  <2>3. \A i \in 1 .. k : h(l + i) = e(i) /\ l + i \in 1 .. l + k
    <3> SUFFICES ASSUME NEW i \in 1 .. k PROVE h(l + i) = e(i) /\ l + i \in 1 .. l + k
      OBVIOUS
    <3>1. l + i \in 1 .. l + k /\ ~ (l + i <= l) /\ (l + i) - l = i /\ i \in Int
      BY <2>0
    <3>2. g.data[l + i] = piece[i]
      BY <2>1, <3>1
    <3>3. g.put + (l + i) - 1 = put + i - 1
      BY <1>4, <1>6, <2>0, <3>1
    <3> QED
      BY <3>1, <3>2, <3>3
  <2> HIDE DEF h, e, f
  <2>4. {h(i) : i \in 1 .. l + k} = {f(i) : i \in 1 .. l} \cup {e(i) : i \in 1 .. k}
    <3>1. ASSUME NEW i \in 1 .. l + k
          PROVE  h(i) \in {f(j) : j \in 1 .. l} \cup {e(j) : j \in 1 .. k}
      <4>1. CASE i <= l
        <5>1. i \in 1 .. l
          BY <2>0, <4>1
        <5> QED
          BY <2>2, <5>1
      <4>2. CASE i > l
        <5>1. i - l \in 1 .. k /\ l + (i - l) = i
          BY <2>0, <4>2
        <5>2. h(i) = e(i - l)
          BY <2>3, <5>1
        <5> QED
          BY <5>1, <5>2
      <4> QED
        BY <2>0, <4>1, <4>2
    <3> QED
      BY <2>2, <2>3, <3>1
  <2>5. {h(i) : i \in 1 .. l + k} = CellsOf(g)
    BY <2>1 DEF CellsOf, h
  <2>6. {f(i) : i \in 1 .. l} = CellsOf(last)
    BY DEF CellsOf, f, l
  <2> QED
    BY <2>4, <2>5, <2>6 DEF e, k
<1>9. \A c : c \in InMem(mf) <=> \E a \in B : c \in CellsOf(a)
  <2>1. InMem(mf) = InMem(m) \cup {[at |-> put + i - 1, byte |-> piece[i]] : i \in 1 .. k}
    BY FilledCells
  <2> HIDE DEF mf
  <2>2. A = C \cup {last}
    OBVIOUS
  <2> DEFINE D == {[at |-> put + i - 1, byte |-> piece[i]] : i \in 1 .. k}
  <2> HIDE DEF C, D
  <2> QED
    BY <1>1, <1>8, <2>1, <2>2, Zenon DEF D
<1> DEFINE Hit(a) == a.put < put + k /\ put < SpanEnd(a)
<1>10. TwiceIn(mf) <=> Overlapping(A) \/ \E a \in C : Hit(a)
  <2>1. TwiceIn(mf) <=> \/ TwiceIn(m)
                        \/ \E c \in InMem(m) : put <= c.at /\ c.at < put + k
    BY TwiceGrows
  <2> HIDE DEF mf
  <2>2. (\E c \in InMem(m) : put <= c.at /\ c.at < put + k) <=> \E a \in A : Hit(a)
    <3> HIDE DEF k
    <3> QED
      BY <1>2, HitsSpan
  <2>3. ~ Hit(last)
    OBVIOUS
  <2> HIDE DEF Hit
  <2> QED
    BY <1>1, <2>1, <2>2, <2>3
<1>11. \A a \in C : Meet(a, g) <=> Meet(a, last) \/ Hit(a)
  <2> SUFFICES ASSUME NEW a \in C PROVE Meet(a, g) <=> Meet(a, last) \/ Hit(a)
    OBVIOUS
  <2>1. a.put \in Nat /\ SpanEnd(a) \in Nat /\ a.put < SpanEnd(a) /\ last.put < SpanEnd(last)
    BY <1>3
  <2> HIDE DEF C, k
  <2> QED
    BY <1>2, <1>4, <1>6, <2>1 DEF Meet
<1>12. \A x, y : Meet(x, y) => Meet(y, x)
  BY DEF Meet
<1>13. Overlapping(B) <=> Overlapping(A) \/ \E a \in C : Hit(a)
  <2> HIDE DEF Hit
  <2>0. last \notin C /\ g \notin C /\ A = C \cup {last}
    BY <1>7
  <2>1. Overlapping(A) <=> \/ \E a, b \in C : a # b /\ Meet(a, b)
                           \/ \E a \in C : Meet(a, last)
    <3> HIDE DEF C
    <3> QED
      BY <1>12, <2>0, Zenon DEF Overlapping
  <2>2. Overlapping(B) <=> \/ \E a, b \in C : a # b /\ Meet(a, b)
                           \/ \E a \in C : Meet(a, g)
    <3> HIDE DEF C
    <3> QED
      BY <1>12, <2>0, Zenon DEF Overlapping
  <2> QED
    BY <1>11, <2>1, <2>2
<1>14. B \subseteq SpanType /\ \A a, b \in B : a.seq = b.seq => a = b
  BY <1>1, <1>7
<1>15. \A a \in B : a.data # << >> /\ Len(a.data) <= a.room /\ a.seq < n
  <2>1. g.data # << >>
    <3>1. Len(g.data) # 0
      BY <1>2, <1>4, <1>5
    <3> QED
      BY <3>1, EmptySeq
  <2> QED
    BY <1>1, <2>1
<1> HIDE DEF B, mf, C, Hit
<1>16. Ledger(B, n, mf)
  BY <1>9, <1>10, <1>13, <1>14, <1>15 DEF Ledger
<1> QED
  BY <1>16 DEF B, C, mf

\* The spans of sections.
Spans(ss) == UNION {{ss[s].spans[i] : i \in 1 .. Len(ss[s].spans)} : s \in SectNames}

\* No two places have one number.
Placed(ss) ==
    \A s, u \in SectNames : \A i \in 1 .. Len(ss[s].spans), j \in 1 .. Len(ss[u].spans) :
        ss[s].spans[i].seq = ss[u].spans[j].seq => s = u /\ i = j

World(ss, n, m) ==
    /\ ss \in [SectNames -> Sect] /\ n \in Nat /\ m \in Seq(Cell)
    /\ Placed(ss) /\ Ledger(Spans(ss), n, m)

LEMMA InSpans ==
    ASSUME NEW ss, NEW x
    PROVE  x \in Spans(ss) <=> \E s \in SectNames : \E i \in 1 .. Len(ss[s].spans) :
                                 x = ss[s].spans[i]
<1> DEFINE T(s) == {ss[s].spans[i] : i \in 1 .. Len(ss[s].spans)}
<1>1. \A s : x \in T(s) <=> \E i \in 1 .. Len(ss[s].spans) : x = ss[s].spans[i]
  OBVIOUS
<1>2. Spans(ss) = UNION {T(s) : s \in SectNames}
  BY DEF Spans
<1> HIDE DEF T
<1>3. x \in Spans(ss) <=> \E s \in SectNames : x \in T(s)
  BY <1>2
<1> QED
  BY <1>1, <1>3

LEMMA EmittedWorld ==
    ASSUME NEW ss \in [SectNames -> Sect], NEW c \in SectNames, NEW t \in Emitting,
           World([ss EXCEPT ![c] = t.sect], t.count, t.memory), NEW piece \in Piece
    PROVE  LET r == Emitted(t, piece) IN
           r \in Emitting /\ World([ss EXCEPT ![c] = r.sect], r.count, r.memory)
<1> DEFINE r == Emitted(t, piece)
           g == Grown(t, piece)
           p == t.sect.spans
           q == r.sect.spans
           n == Len(p)
           goes == GoesOn(t.sect)
           k == IF goes THEN n ELSE n + 1
           old == [ss EXCEPT ![c] = t.sect]
           new == [ss EXCEPT ![c] = r.sect]
           put == t.sect.put
<1>1. /\ r \in Emitting /\ r.memory = t.memory \o Filled(put, piece)
      /\ r.count = IF goes THEN t.count ELSE t.count + 1
      /\ Len(q) = k /\ q[k] = g /\ \A i \in 1 .. k - 1 : q[i] = p[i]
  BY EmittedFacts
<1>2. /\ t.sect \in Sect /\ t.count \in Nat /\ t.memory \in Seq(Cell)
      /\ p \in Seq(SpanType) /\ put \in Nat /\ n \in Nat
  BY DEF Emitting, Sect
<1>3. /\ r.sect \in Sect /\ r.count \in Nat /\ r.memory \in Seq(Cell)
  BY <1>1 DEF Emitting
<1>4. /\ g \in SpanType
      /\ goes => /\ p # << >> /\ p[n] \in SpanType /\ put = SpanEnd(p[n])
                 /\ g.seq = p[n].seq /\ g.put = p[n].put /\ g.data = p[n].data \o piece
                 /\ Len(p[n].data) <= p[n].room => Len(g.data) <= g.room
      /\ ~ goes => g.seq = t.count /\ g.put = put /\ g.data = piece /\ Len(g.data) <= g.room
  BY GrownType
<1>5. goes => n > 0
  <2>1. Len(p) = n /\ n \in Nat
    BY <1>2
  <2>2. goes => p # << >>
    BY <1>4
  <2> HIDE DEF g, goes, p, n
  <2>3. n = 0 => p = << >>
    BY <1>2, <2>1, EmptySeq, Zenon
  <2> QED
    BY <2>1, <2>2, <2>3
<1> HIDE DEF r, g, goes, p, q, n, put
<1>6. k \in Nat /\ k > 0 /\ (~ goes => k = n + 1) /\ (goes => k = n)
  BY <1>2, <1>5
<1> HIDE DEF k
<1>7. /\ old \in [SectNames -> Sect] /\ new \in [SectNames -> Sect]
      /\ old[c].spans = p /\ new[c].spans = q
      /\ \A s \in SectNames \ {c} : old[s] = ss[s] /\ new[s] = ss[s]
  BY <1>2, <1>3 DEF p, q
<1>8. Placed(old) /\ Ledger(Spans(old), t.count, t.memory)
  BY DEF World
<1> HIDE DEF old, new
<1>9. /\ \A s \in SectNames \ {c} : old[s].spans = new[s].spans
      /\ \A i \in 1 .. n : p[i] \in Spans(old)
      /\ \A s \in SectNames : \A i \in 1 .. Len(old[s].spans) : old[s].spans[i] \in Spans(old)
  BY <1>7, InSpans DEF n
<1>10. \A x : x \in Spans(old) <=>
           \/ \E s \in SectNames \ {c} : \E i \in 1 .. Len(old[s].spans) : x = old[s].spans[i]
           \/ \E i \in 1 .. n : x = p[i]
  <2>1. n = Len(old[c].spans) /\ c \in SectNames
    BY <1>7 DEF n
  <2> QED
    BY <1>7, <2>1, InSpans
<1>11. \A x : x \in Spans(new) <=>
           \/ \E s \in SectNames \ {c} : \E i \in 1 .. Len(old[s].spans) : x = old[s].spans[i]
           \/ \E i \in 1 .. k : x = q[i]
  <2>1. k = Len(new[c].spans) /\ c \in SectNames
    BY <1>1, <1>7
  <2> QED
    BY <1>7, <1>9, <2>1, InSpans
<1>12. \A x : (\E i \in 1 .. k : x = q[i]) <=> x = g \/ \E i \in 1 .. k - 1 : x = p[i]
  <2>1. \A i \in 1 .. k : i = k \/ i \in 1 .. k - 1
    BY <1>6
  <2>2. k \in 1 .. k /\ \A i \in 1 .. k - 1 : i \in 1 .. k
    BY <1>6
  <2> QED
    BY <1>1, <2>1, <2>2, Zenon
<1>13. CASE ~ goes
  <2>1. k - 1 = n /\ r.count = t.count + 1
    BY <1>1, <1>2, <1>6, <1>13
  <2>2. Spans(new) = Spans(old) \cup {g}
    <3>1. \A x : x \in Spans(new) <=> x \in Spans(old) \/ x = g
      BY <1>10, <1>11, <1>12, <2>1, Zenon
    <3> QED
      BY <3>1
  <2>3. Ledger(Spans(new), r.count, r.memory)
    <3>1. g.seq = t.count /\ g.put = put /\ g.data = piece /\ Len(g.data) <= g.room /\ g \in SpanType
      BY <1>4, <1>13
    <3>2. /\ t.count \in Nat /\ t.memory \in Seq(Cell) /\ put \in Nat
          /\ Ledger(Spans(old), t.count, t.memory)
      BY <1>2, <1>8
    <3>3. Ledger(Spans(old) \cup {g}, t.count + 1, t.memory \o Filled(put, piece))
      BY <3>1, <3>2, NewSpan, SMTT(30)
    <3>4. r.memory = t.memory \o Filled(put, piece)
      BY <1>1
    <3> QED
      BY <2>1, <2>2, <3>3, <3>4
  <2>4. \A x \in Spans(old) : x.seq < t.count /\ x.seq \in Nat
    BY <1>8, SpanFacts DEF Ledger
  <2>5. \A x \in Spans(old) : x.seq # g.seq
    BY <1>2, <1>4, <1>13, <2>4
  <2>6. Placed(new)
    <3> SUFFICES ASSUME NEW s \in SectNames, NEW u \in SectNames,
                        NEW i \in 1 .. Len(new[s].spans), NEW j \in 1 .. Len(new[u].spans),
                        new[s].spans[i].seq = new[u].spans[j].seq
                 PROVE  s = u /\ i = j
      BY DEF Placed
    <3> DEFINE Fresh(v, h) == v = c /\ h = k
    <3>1. ASSUME NEW v \in SectNames, NEW h \in 1 .. Len(new[v].spans), ~ Fresh(v, h)
          PROVE  h \in 1 .. Len(old[v].spans) /\ new[v].spans[h] = old[v].spans[h]
      <4>1. CASE v # c
        BY <1>9, <3>1, <4>1
      <4>2. CASE v = c
        <5>1. h \in 1 .. k /\ h # k
          BY <1>1, <1>7, <3>1, <4>2
        <5>2. h \in 1 .. k - 1
          BY <1>6, <5>1
        <5> QED
          BY <1>1, <1>7, <2>1, <4>2, <5>2 DEF n
      <4> QED
        BY <4>1, <4>2
    <3>2. new[c].spans[k] = g
      BY <1>1, <1>7
    <3>3. CASE Fresh(s, i) /\ Fresh(u, j)
      BY <3>3
    <3>4. CASE ~ Fresh(s, i) /\ ~ Fresh(u, j)
      <4>1. /\ i \in 1 .. Len(old[s].spans) /\ j \in 1 .. Len(old[u].spans)
            /\ old[s].spans[i].seq = old[u].spans[j].seq
        BY <3>1, <3>4
      <4> QED
        BY <1>8, <4>1 DEF Placed
    <3>5. CASE Fresh(s, i) /\ ~ Fresh(u, j)
      <4>1. new[u].spans[j] \in Spans(old) /\ new[s].spans[i] = g
        BY <1>9, <3>1, <3>2, <3>5
      <4> QED
        BY <2>5, <4>1
    <3>6. CASE ~ Fresh(s, i) /\ Fresh(u, j)
      <4>1. new[s].spans[i] \in Spans(old) /\ new[u].spans[j] = g
        BY <1>9, <3>1, <3>2, <3>6
      <4> QED
        BY <2>5, <4>1
    <3> QED
      BY <3>3, <3>4, <3>5, <3>6
  <2> QED
    BY <1>1, <1>3, <1>7, <2>3, <2>6 DEF World, r, new
<1>14. CASE goes
  <2>1. k = n /\ r.count = t.count /\ n \in 1 .. n
    BY <1>1, <1>2, <1>5, <1>6, <1>14
  <2> DEFINE last == p[n]
  <2>2. last \in Spans(old)
    BY <1>9, <2>1
  <2>3. /\ \A s \in SectNames \ {c} : \A i \in 1 .. Len(old[s].spans) : old[s].spans[i] # last
        /\ \A i \in 1 .. n - 1 : p[i] # last
    <3>1. ASSUME NEW s \in SectNames, NEW i \in 1 .. Len(old[s].spans), old[s].spans[i] = last
          PROVE  s = c /\ i = n
      BY <1>7, <1>8, <2>1, <3>1 DEF Placed, n
    <3>2. \A i \in 1 .. n - 1 : i \in 1 .. n /\ i # n
      BY <1>2
    <3> QED
      BY <1>7, <3>1, <3>2 DEF n
  <2>4. Spans(new) = (Spans(old) \ {last}) \cup {g}
    <3>1. \A i \in 1 .. n : i = n \/ i \in 1 .. n - 1
      BY <1>2
    <3>2. \A i \in 1 .. n - 1 : i \in 1 .. n
      BY <1>2
    <3> DEFINE Other(x) == \E s \in SectNames \ {c} : \E i \in 1 .. Len(old[s].spans) :
                             x = old[s].spans[i]
               Shorter(x) == \E i \in 1 .. n - 1 : x = p[i]
    <3>3. \A x : (\E i \in 1 .. n : x = p[i]) <=> Shorter(x) \/ x = last
      BY <2>1, <3>1, <3>2
    <3>4. ~ Other(last) /\ ~ Shorter(last)
      BY <2>3
    <3>5. \A x : x \in Spans(old) <=> Other(x) \/ Shorter(x) \/ x = last
      BY <1>10, <3>3
    <3>6. \A x : x \in Spans(new) <=> Other(x) \/ Shorter(x) \/ x = g
      <4>1. \A x : (\E i \in 1 .. k : x = q[i]) <=> x = g \/ Shorter(x)
        BY <1>12, <2>1
      <4>2. \A x : x \in Spans(new) <=> Other(x) \/ \E i \in 1 .. k : x = q[i]
        BY <1>11, Zenon
      <4> HIDE DEF Other, Shorter
      <4> QED
        BY <4>1, <4>2, Zenon
    <3> HIDE DEF Other, Shorter, last
    <3>7. ASSUME NEW x PROVE x \in Spans(new) <=> x \in (Spans(old) \ {last}) \cup {g}
      <4>1. x = last => ~ Other(x) /\ ~ Shorter(x)
        BY <3>4, Zenon
      <4>2. x \in Spans(old) <=> Other(x) \/ Shorter(x) \/ x = last
        BY <3>5, Zenon
      <4>3. x \in Spans(new) <=> Other(x) \/ Shorter(x) \/ x = g
        BY <3>6, Zenon
      <4> QED
        BY <4>1, <4>2, <4>3
    <3> QED
      BY <3>7
  <2>5. Len(last.data) <= last.room
    BY <1>8, <2>2 DEF Ledger
  <2>6. Ledger(Spans(new), r.count, r.memory)
    <3> HIDE DEF last
    <3>1. /\ put = SpanEnd(last) /\ g.seq = last.seq /\ g.put = last.put
          /\ g.data = last.data \o piece /\ Len(g.data) <= g.room
      BY <1>4, <1>14, <2>5 DEF last
    <3>2. Ledger((Spans(old) \ {last}) \cup {g}, t.count, t.memory \o Filled(put, piece))
      BY <1>2, <1>4, <1>8, <2>2, <3>1, LongerSpan
    <3> QED
      BY <1>1, <2>1, <2>4, <3>2
  <2>7. Placed(new)
    <3>1. ASSUME NEW v \in SectNames, NEW h \in 1 .. Len(new[v].spans)
          PROVE  h \in 1 .. Len(old[v].spans) /\ new[v].spans[h].seq = old[v].spans[h].seq
      <4>1. CASE v # c
        BY <1>9, <3>1, <4>1
      <4>2. CASE v = c
        <5>1. h \in 1 .. n /\ new[v].spans[h] = q[h] /\ old[v].spans[h] = p[h]
          BY <1>1, <1>7, <2>1, <3>1, <4>2
        <5>2. CASE h = n
          BY <1>1, <1>4, <1>7, <1>14, <2>1, <4>2, <5>1, <5>2 DEF n
        <5>3. CASE h # n
          <6>1. h \in 1 .. n - 1
            BY <1>2, <5>1, <5>3
          <6> QED
            BY <1>1, <1>7, <2>1, <4>2, <5>1, <6>1 DEF n
        <5> QED
          BY <5>2, <5>3
      <4> QED
        BY <4>1, <4>2
    <3> QED
      BY <1>8, <3>1 DEF Placed
  <2> QED
    BY <1>1, <1>3, <1>7, <2>6, <2>7 DEF World, r, new
<1> QED
  BY <1>13, <1>14

\* What has been done after each of the pieces.
DoneOf(base, code) ==
    CHOOSE done : done = [n \in 0 .. Len(code) |->
                            IF n = 0 THEN base ELSE Emitted(done[n - 1], code[n])]

\* The recursion of EmitAll has a solution.
LEMMA DoneStep ==
    ASSUME NEW base, NEW code, Len(code) \in Nat
    PROVE  LET done == DoneOf(base, code) IN
           /\ done[0] = base
           /\ \A n \in 1 .. Len(code) : done[n] = Emitted(done[n - 1], code[n])
<1> DEFINE Solves(f, m) == f = [n \in 0 .. m |-> IF n = 0 THEN base ELSE Emitted(f[n - 1], code[n])]
           T == {m \in Nat : \E f : Solves(f, m)}
           P == DoneOf(base, code)
           N == Len(code)
<1>1. 0 \in T
  <2>1. Solves([i \in 0 .. 0 |-> base], 0)
    OBVIOUS
  <2> QED
    BY <2>1
<1>2. ASSUME NEW m \in Nat, m \in T
      PROVE  m + 1 \in T
  <2>1. PICK f : Solves(f, m)
    BY <1>2
  <2> DEFINE e == Emitted(f[m], code[m + 1])
             g == [i \in 0 .. (m + 1) |-> IF i = m + 1 THEN e ELSE f[i]]
  <2>2. ASSUME NEW i \in 0 .. (m + 1)
        PROVE  g[i] = IF i = 0 THEN base ELSE Emitted(g[i - 1], code[i])
    <3>1. CASE i = m + 1
      <4>1. i # 0 /\ i - 1 = m /\ g[i - 1] = f[m] /\ g[i] = e
        BY <3>1
      <4> QED
        BY <3>1, <4>1
    <3>2. CASE i # m + 1
      <4>1. i \in 0 .. m /\ g[i] = f[i] /\ (i # 0 => g[i - 1] = f[i - 1])
        BY <3>2
      <4>2. f[i] = IF i = 0 THEN base ELSE Emitted(f[i - 1], code[i])
        BY <2>1, <4>1
      <4> QED
        BY <4>1, <4>2
    <3> QED
      BY <3>1, <3>2
  <2>3. g = [i \in 0 .. (m + 1) |-> g[i]]
    OBVIOUS
  <2> HIDE DEF g
  <2>4. Solves(g, m + 1)
    BY <2>2, <2>3
  <2> HIDE DEF Solves
  <2> QED
    BY <2>4
<1>3. N \in T
  <2> HIDE DEF T
  <2> QED
    BY <1>1, <1>2, SetInduction
<1>4. Solves(P, N)
  BY <1>3 DEF DoneOf
<1> HIDE DEF P
<1>5. \A n \in 0 .. N : P[n] = IF n = 0 THEN base ELSE Emitted(P[n - 1], code[n])
  BY <1>4
<1>6. 0 \in 0 .. N /\ \A n \in 1 .. N : n \in 0 .. N /\ n # 0
  OBVIOUS
<1> QED
  BY <1>5, <1>6 DEF P

Base(s, n, m) == [sect |-> s, count |-> n, wrong |-> FALSE, memory |-> m]

\* Whatever pieces are emitted into a section, the spans hold them.
LEMMA EmitAllWorld ==
    ASSUME World(sects, count, memory), cur \in SectNames, NEW code \in Seq(Piece)
    PROVE  LET t == EmitAll(sects[cur], code) IN
           t \in Emitting /\ World([sects EXCEPT ![cur] = t.sect], t.count, t.memory)
<1> DEFINE base == Base(sects[cur], count, memory)
           done == DoneOf(base, code)
           OK(t) == t \in Emitting /\ World([sects EXCEPT ![cur] = t.sect], t.count, t.memory)
           N == Len(code)
           T == {n \in Nat : n <= N => OK(done[n])}
<1>1. N \in Nat /\ \A i \in 1 .. N : code[i] \in Piece
  BY LenProperties
<1>2. EmitAll(sects[cur], code) = done[N]
  BY DEF EmitAll, DoneOf, Base
<1>3. /\ done[0] = base
      /\ \A n \in 1 .. N : done[n] = Emitted(done[n - 1], code[n])
  <2> HIDE DEF base
  <2> QED
    BY <1>1, DoneStep
<1> HIDE DEF done, N
<1>4. sects \in [SectNames -> Sect] /\ count \in Nat /\ memory \in Seq(Cell)
  BY DEF World
<1>5. OK(base)
  <2>1. base \in Emitting
    BY <1>4 DEF Base, Emitting
  <2>2. base.sect = sects[cur] /\ base.count = count /\ base.memory = memory
    BY DEF Base
  <2>3. [sects EXCEPT ![cur] = sects[cur]] = sects
    BY <1>4
  <2> QED
    BY <2>1, <2>2, <2>3
<1> HIDE DEF base
<1>6. 0 \in T
  BY <1>3, <1>5
<1>7. ASSUME NEW n \in Nat, n \in T
      PROVE  n + 1 \in T
  <2> SUFFICES ASSUME n + 1 <= N PROVE OK(done[n + 1])
    OBVIOUS
  <2>1. n + 1 \in 1 .. N /\ (n + 1) - 1 = n /\ n <= N
    BY <1>1
  <2>2. OK(done[n]) /\ done[n + 1] = Emitted(done[n], code[n + 1]) /\ code[n + 1] \in Piece
    BY <1>1, <1>3, <1>7, <2>1
  <2> QED
    BY <1>4, <2>2, EmittedWorld
<1> HIDE DEF OK
<1>8. N \in T
  <2>1. \A n \in Nat : n \in T
    <3> HIDE DEF T
    <3> QED
      BY <1>6, <1>7, SetInduction
  <2> QED
    BY <1>1, <2>1
<1> QED
  BY <1>1, <1>2, <1>8 DEF OK

-----------------------------------------------------------------------------
(* The invariant. *)
Inv ==
    /\ program \in Programs /\ next \in 1 .. Len(program) + 1 /\ cur \in SectNames
    /\ exec \in Int /\ level \in Level
    /\ World(sects, count, memory)

\* What ORG, PUT and the like do to a section leaves its spans alone.
LEMMA MovedWorld ==
    ASSUME NEW ss, NEW n, NEW m, World(ss, n, m), NEW c \in SectNames, NEW s \in Sect,
           s.spans = ss[c].spans
    PROVE  World([ss EXCEPT ![c] = s], n, m)
<1> DEFINE new == [ss EXCEPT ![c] = s]
<1>1. ss \in [SectNames -> Sect] /\ Placed(ss) /\ Ledger(Spans(ss), n, m) /\ n \in Nat /\ m \in Seq(Cell)
  BY DEF World
<1>2. new \in [SectNames -> Sect] /\ \A u \in SectNames : new[u].spans = ss[u].spans
  BY <1>1
<1> HIDE DEF new
<1>3. Placed(new)
  BY <1>1, <1>2, SMTT(30) DEF Placed
<1>4. \A x : x \in Spans(new) <=> x \in Spans(ss)
  BY <1>2, InSpans
<1>5. Spans(new) = Spans(ss)
  BY <1>4
<1> QED
  BY <1>1, <1>2, <1>3, <1>5 DEF World, new

LEMMA Raised ==
    ASSUME NEW lev \in Level, NEW type \in Level
    PROVE  Raise(lev, type) \in Level /\ \A wrong \in BOOLEAN : RaiseIf(wrong, lev, type) \in Level
  BY RaiseType

LEMMA SectFacts ==
    ASSUME NEW s \in Sect
    PROVE  /\ s.pc \in Int /\ s.put \in Nat /\ s.dp \in Unset .. 255 /\ s.dp \in Int
           /\ s.spans \in Seq(SpanType)
           /\ s = [pc |-> s.pc, put |-> s.put, dp |-> s.dp, spans |-> s.spans]
<1>1. /\ s.pc \in Int /\ s.put \in Nat /\ s.dp \in Unset .. 255 /\ s.spans \in Seq(SpanType)
      /\ s = [pc |-> s.pc, put |-> s.put, dp |-> s.dp, spans |-> s.spans]
  BY DEF Sect
<1>2. s.dp \in Int
  <2>1. \A x \in Unset .. 255 : x \in Int
    BY DEF Unset
  <2> QED
    BY <1>1, <2>1
<1> QED
  BY <1>1, <1>2

LEMMA InvFacts ==
    ASSUME Inv
    PROVE  /\ sects \in [SectNames -> Sect] /\ here \in Sect /\ sects[cur] = here
           /\ count \in Nat /\ memory \in Seq(Cell) /\ Len(program) \in Nat /\ next \in Nat
           /\ next <= Len(program) => LineOK(line)
<1>1. sects \in [SectNames -> Sect] /\ count \in Nat /\ memory \in Seq(Cell) /\ cur \in SectNames
  BY DEF Inv, World
<1>2. Len(program) \in Nat /\ \A i \in 1 .. Len(program) : LineOK(program[i])
  BY ProgramsAssumption DEF Inv
<1>3. next \in Nat /\ next >= 1
  BY <1>2 DEF Inv
<1>4. next <= Len(program) => LineOK(program[next])
  BY <1>2, <1>3
<1> QED
  BY <1>1, <1>2, <1>3, <1>4 DEF here, line

LEMMA InitInv == Init => Inv
<1> SUFFICES ASSUME Init PROVE Inv
  OBVIOUS
<1> DEFINE s0(s) == [pc |-> 0, put |-> 0, dp |-> IF s = Code THEN NoPage ELSE Unset, spans |-> << >>]
<1>1. \A s : s0(s) \in Sect /\ s0(s).spans = << >>
  BY EmptySeq DEF Sect, NoPage, Unset
<1>2. sects = [s \in SectNames |-> s0(s)] /\ count = 0 /\ memory = << >>
  BY DEF Init
<1> HIDE DEF s0
<1>3. sects \in [SectNames -> Sect] /\ \A s \in SectNames : Len(sects[s].spans) = 0
  BY <1>1, <1>2, EmptySeq
<1>4. Placed(sects)
  BY <1>3 DEF Placed
<1>5. Spans(sects) = {}
  <2>1. \A x : x \notin Spans(sects)
    BY <1>3, InSpans
  <2> QED
    BY <2>1
<1>6. memory \in Seq(Cell) /\ Len(memory) = 0
  BY <1>2, EmptySeq
<1>7. Ledger({}, count, memory)
  <2>1. InMem(memory) = {} /\ ~ TwiceIn(memory)
    BY <1>6 DEF InMem, TwiceIn
  <2> QED
    BY <2>1 DEF Ledger, Overlapping
<1>8. World(sects, count, memory)
  BY <1>2, <1>3, <1>4, <1>5, <1>6, <1>7 DEF World
<1>9. program \in Programs /\ Len(program) \in Nat /\ next = 1 /\ cur = Code /\ exec = -1 /\ level = None
  BY ProgramsAssumption DEF Init
<1>10. next \in 1 .. Len(program) + 1 /\ cur \in SectNames /\ exec \in Int /\ level \in Level
  BY <1>9, CodeAssumption DEF Level
<1> QED
  BY <1>8, <1>9, <1>10 DEF Inv

\* What a line emits goes into spans of the current section.
LEMMA EmitsInv ==
    ASSUME Inv, NEW code \in Seq(Piece), NEW error \in Level, Emits(code, error),
           next <= Len(program), next' = next + 1
    PROVE  Inv'
<1> DEFINE t == EmitAll(here, code)
<1>1. /\ World(sects, count, memory) /\ cur \in SectNames /\ program \in Programs
      /\ exec \in Int /\ level \in Level /\ next \in 1 .. Len(program) + 1
  BY DEF Inv
<1>2. here = sects[cur]
  BY DEF here
<1>3. t \in Emitting /\ World([sects EXCEPT ![cur] = t.sect], t.count, t.memory)
  BY <1>1, <1>2, EmitAllWorld
<1>4. t.wrong \in BOOLEAN
  BY <1>3 DEF Emitting
<1>5. /\ sects' = [sects EXCEPT ![cur] = t.sect] /\ count' = t.count /\ memory' = t.memory
      /\ level' = RaiseIf(t.wrong, Raise(level, error), OutOfRange)
      /\ program' = program /\ cur' = cur /\ exec' = exec
  BY DEF Emits
<1> HIDE DEF t
<1>6. World(sects, count, memory)'
  BY <1>3, <1>5
<1>7. level' \in Level
  <2>1. Raise(level, error) \in Level /\ OutOfRange \in Level
    BY <1>1, Raised DEF Level
  <2> QED
    BY <1>4, <1>5, <2>1, Raised
<1>8. next' \in 1 .. Len(program') + 1
  BY <1>1, <1>5, InvFacts
<1> QED
  BY <1>1, <1>5, <1>6, <1>7, <1>8 DEF Inv

\* A line that moves the section.
LEMMA MovesInv ==
    ASSUME Inv, NEW pc \in Int, NEW put \in Nat, NEW dp \in Unset .. 255, Moves(pc, put, dp),
           level' \in Level, next <= Len(program), next' = next + 1
    PROVE  Inv'
<1> DEFINE s == [pc |-> pc, put |-> put, dp |-> dp, spans |-> here.spans]
<1>1. /\ World(sects, count, memory) /\ cur \in SectNames /\ program \in Programs
      /\ exec \in Int /\ next \in 1 .. Len(program) + 1
  BY DEF Inv
<1>2. /\ sects' = [sects EXCEPT ![cur] = s] /\ count' = count /\ memory' = memory
      /\ program' = program /\ cur' = cur /\ exec' = exec
  BY DEF Moves
<1>3. s \in Sect /\ s.spans = sects[cur].spans
  <2>1. here.spans \in Seq(SpanType) /\ here = sects[cur]
    BY InvFacts, SectFacts
  <2> QED
    BY <2>1 DEF Sect
<1> HIDE DEF s
<1>4. World([sects EXCEPT ![cur] = s], count, memory)
  BY <1>1, <1>3, MovedWorld
<1>5. World(sects, count, memory)'
  BY <1>2, <1>4
<1>6. next' \in 1 .. Len(program') + 1
  BY <1>1, <1>2, InvFacts
<1> QED
  BY <1>1, <1>2, <1>5, <1>6 DEF Inv

LEMMA NextInv == Inv /\ [Next]_vars => Inv'
<1> SUFFICES ASSUME Inv, [Next]_vars PROVE Inv'
  OBVIOUS
<1>1. /\ sects \in [SectNames -> Sect] /\ here \in Sect /\ sects[cur] = here
      /\ count \in Nat /\ memory \in Seq(Cell) /\ Len(program) \in Nat /\ next \in Nat
      /\ next <= Len(program) => LineOK(line)
  BY InvFacts
<1>2. /\ here.pc \in Int /\ here.put \in Nat /\ here.dp \in Unset .. 255 /\ here.dp \in Int
      /\ here.spans \in Seq(SpanType)
      /\ here = [pc |-> here.pc, put |-> here.put, dp |-> here.dp, spans |-> here.spans]
  BY <1>1, SectFacts
<1>3. /\ program \in Programs /\ next \in 1 .. Len(program) + 1 /\ cur \in SectNames
      /\ exec \in Int /\ level \in Level /\ World(sects, count, memory)
  BY DEF Inv
<1>4. \A kind : AtLine(kind) => /\ next <= Len(program) /\ next' = next + 1 /\ line.kind = kind
                                /\ LineOK(line)
  BY <1>1 DEF AtLine
<1> HIDE DEF here
<1>5. \A wrong \in BOOLEAN : RaiseIf(wrong, level, OutOfRange) \in Level
  <2>1. OutOfRange \in Level
    BY DEF Level
  <2> QED
    BY <1>3, <2>1, Raised
<1>6. CASE Instruction
  <2> DEFINE made == Encode(line.op, line.args, here.pc, here.dp)
             undefined == IF HasUndefined(line.args) THEN Inconsistent ELSE None
  <2>1. /\ line.kind = "instr" /\ LineOK(line) /\ next <= Len(program) /\ next' = next + 1
        /\ Emits(made.code, Raise(undefined, made.error))
    BY <1>4, <1>6 DEF Instruction
  <2>2. OpcodeOK(line.op) /\ ArgumentsOK(line.args)
    BY <2>1 DEF LineOK
  <2>3. made.code \in Seq(Piece) /\ made.error \in Level
    BY <1>2, <2>2, EncodeType DEF MadeOK
  <2>4. undefined \in Level
    BY DEF Level
  <2> HIDE DEF made, undefined
  <2>5. Raise(undefined, made.error) \in Level
    BY <2>3, <2>4, Raised
  <2> QED
    BY <2>1, <2>3, <2>5, EmitsInv
<1>7. CASE Constants
  <2>1. /\ line.kind = "data" /\ LineOK(line) /\ next <= Len(program) /\ next' = next + 1
        /\ Emits(line.val, None)
    BY <1>4, <1>7 DEF Constants
  <2>2. line.val \in Seq(Piece) /\ None \in Level
    BY <2>1 DEF LineOK, Level
  <2> QED
    BY <2>1, <2>2, EmitsInv
<1>8. ASSUME NEW kind \in {"org", "put", "rmb", "setdp", "end"}, AtLine(kind) PROVE line.val \in Int
  BY <1>4, <1>8 DEF LineOK
<1>9. \A val \in Int : PutAt(val) \in Nat
  BY <1>2 DEF PutAt
<1>10. \A val \in Int : RaiseIf(val < 0, level, OutOfRange) \in Level
  <2>1. \A val \in Int : (val < 0) \in BOOLEAN
    OBVIOUS
  <2> QED
    BY <1>5, <2>1
<1>11. CASE Org
  <2>1. AtLine("org") /\ Moves(line.val, PutAt(line.val), here.dp) /\ level' = level
    BY <1>11 DEF Org
  <2>2. line.val \in Int /\ PutAt(line.val) \in Nat
    BY <1>8, <1>9, <2>1
  <2> QED
    BY <1>2, <1>3, <1>4, <2>1, <2>2, MovesInv
<1>12. CASE Put
  <2>1. /\ AtLine("put") /\ Moves(here.pc, PutAt(line.val), here.dp)
        /\ level' = RaiseIf(line.val < 0, level, OutOfRange)
    BY <1>12 DEF Put
  <2>2. line.val \in Int /\ PutAt(line.val) \in Nat /\ level' \in Level
    BY <1>8, <1>9, <1>10, <2>1
  <2> QED
    BY <1>2, <1>4, <2>1, <2>2, MovesInv
<1>13. CASE Rmb
  <2> DEFINE n == IF line.val < 0 THEN 0 ELSE line.val
  <2>1. /\ AtLine("rmb") /\ Moves(here.pc + n, here.put + n, here.dp)
        /\ level' = RaiseIf(line.val < 0, level, OutOfRange)
    BY <1>13 DEF Rmb
  <2>2. line.val \in Int /\ n \in Nat /\ level' \in Level
    BY <1>8, <1>10, <2>1
  <2> HIDE DEF n
  <2>3. here.pc + n \in Int /\ here.put + n \in Nat
    BY <1>2, <2>2
  <2> QED
    BY <1>2, <1>4, <2>1, <2>2, <2>3, MovesInv
<1>14. CASE Setdp
  <2> DEFINE dp == IF line.val >= 0 THEN line.val % 256 ELSE NoPage
  <2>1. AtLine("setdp") /\ Moves(here.pc, here.put, dp) /\ level' = level
    BY <1>14 DEF Setdp
  <2>2. line.val \in Int
    BY <1>8, <2>1
  <2>3. dp \in Unset .. 255
    BY <2>2 DEF Unset, NoPage
  <2> HIDE DEF dp
  <2> QED
    BY <1>2, <1>3, <1>4, <2>1, <2>3, MovesInv
<1>15. CASE Section
  <2>1. /\ AtLine("section") /\ cur' = line.val
        /\ UNCHANGED <<program, count, exec, level, file, memory, trace>>
    BY <1>15 DEF Section
  <2>2. PICK start \in Starts : sects' = [sects EXCEPT ![line.val] = Started(@, start)]
    BY <1>15 DEF Section
  <2>3. line.val \in SectNames
    BY <1>4, <2>1 DEF LineOK
  <2> DEFINE old == sects[line.val]
             s == Started(old, start)
  <2>4. start \in [pc : Int, put : Nat]
    BY CodeAssumption
  <2>5. /\ old \in Sect /\ old.pc \in Int /\ old.put \in Nat /\ old.dp \in Unset .. 255
        /\ old.spans \in Seq(SpanType)
        /\ old = [pc |-> old.pc, put |-> old.put, dp |-> old.dp, spans |-> old.spans]
    BY <1>1, <2>3, SectFacts
  <2>6. sects' = [sects EXCEPT ![line.val] = s]
    BY <2>2
  <2> HIDE DEF old
  <2>7. s \in Sect /\ s.spans = old.spans
    <3>1. CASE old.dp # Unset
      BY <2>5, <3>1 DEF Started
    <3>2. CASE old.dp = Unset
      <4>1. s = [old EXCEPT !.dp = NoPage, !.pc = start.pc, !.put = start.put]
        BY <3>2 DEF Started
      <4>2. s = [pc |-> start.pc, put |-> start.put, dp |-> NoPage, spans |-> old.spans]
        BY <2>5, <4>1
      <4>3. start.pc \in Int /\ start.put \in Nat /\ NoPage \in Unset .. 255
        BY <2>4 DEF NoPage, Unset
      <4> HIDE DEF s
      <4> QED
        BY <2>5, <4>2, <4>3 DEF Sect
    <3> QED
      BY <3>1, <3>2
  <2> HIDE DEF s
  <2>8. World([sects EXCEPT ![line.val] = s], count, memory)
    BY <1>3, <2>3, <2>7, MovedWorld DEF old
  <2>9. World(sects, count, memory)'
    BY <2>1, <2>6, <2>8
  <2>10. next' \in 1 .. Len(program') + 1
    BY <1>1, <1>3, <1>4, <2>1
  <2> QED
    BY <1>3, <2>1, <2>3, <2>9, <2>10 DEF Inv
<1>16. CASE End
  <2>1. /\ AtLine("end") /\ exec' = line.val
        /\ UNCHANGED <<program, sects, cur, count, level, file, memory, trace>>
    BY <1>16 DEF End
  <2>2. line.val \in Int
    BY <1>8, <2>1
  <2>3. next' \in 1 .. Len(program') + 1
    BY <1>1, <1>3, <1>4, <2>1
  <2>4. World(sects, count, memory)'
    BY <1>3, <2>1
  <2> QED
    BY <1>3, <2>1, <2>2, <2>3, <2>4 DEF Inv
<1>17. CASE Output
  <2>1. UNCHANGED <<program, next, sects, cur, count, exec, memory, trace>>
    BY <1>17 DEF Output
  <2>2. \E wrong \in BOOLEAN : level' = RaiseIf(wrong, level, Data)
    <3>1. PICK format \in Formats :
            level' = RaiseIf(Coalesced(format \in {"binary", "dragondos"}).wrong, level, Data)
      BY <1>17 DEF Output
    <3> DEFINE wrong == Coalesced(format \in {"binary", "dragondos"}).wrong
    <3>2. level' = RaiseIf(wrong, level, Data)
      BY <3>1
    <3> HIDE DEF wrong
    <3>3. level' = IF wrong THEN Raise(level, Data) ELSE level
      BY <3>2 DEF RaiseIf
    <3>4. level' = Raise(level, Data) \/ level' = level
      BY <3>3
    <3>5. /\ RaiseIf(TRUE, level, Data) = Raise(level, Data)
          /\ RaiseIf(FALSE, level, Data) = level
      BY DEF RaiseIf
    <3> QED
      BY <3>4, <3>5
  <2>3. Data \in Level
    BY DEF Level
  <2>4. level' \in Level
    BY <1>3, <2>2, <2>3, Raised
  <2>5. World(sects, count, memory)'
    BY <1>3, <2>1
  <2> QED
    BY <1>3, <2>1, <2>4, <2>5 DEF Inv
<1>18. CASE UNCHANGED vars
  <2>1. World(sects, count, memory)'
    BY <1>3, <1>18 DEF vars
  <2> QED
    BY <1>3, <1>18, <2>1 DEF Inv, vars
<1> QED
  BY <1>6, <1>7, <1>11, <1>12, <1>13, <1>14, <1>15, <1>16, <1>17, <1>18
  DEF Next

LEMMA InvImpliesTypeOK == Inv => TypeOK
<1> SUFFICES ASSUME Inv PROVE TypeOK
  OBVIOUS
<1>1. /\ sects \in [SectNames -> Sect] /\ count \in Nat /\ memory \in Seq(Cell)
      /\ Ledger(Spans(sects), count, memory)
  BY DEF Inv, World
<1>2. \A s \in SectNames :
         /\ sects[s].pc \in Int /\ sects[s].put \in Nat /\ sects[s].dp \in Unset .. 255
         /\ sects[s].spans \in Seq(SpanType)
  BY <1>1, SectFacts
<1>3. ASSUME NEW s \in SectNames, NEW i \in 1 .. Len(sects[s].spans)
      PROVE  Len(sects[s].spans[i].data) <= sects[s].spans[i].room
  <2>1. sects[s].spans[i] \in Spans(sects)
    BY InSpans
  <2> QED
    BY <1>1, <2>1 DEF Ledger
<1> QED
  BY <1>1, <1>2, <1>3 DEF Inv, TypeOK, Level, Cell

LEMMA Invariant == Spec => []Inv
  BY InitInv, NextInv, PTL DEF Spec

\* The types of the state; the bytes of every span are within the buffer that
\* section_emit() has allocated for it.
THEOREM TypeCorrect == Spec => []TypeOK
  BY Invariant, InvImpliesTypeOK, PTL

-----------------------------------------------------------------------------
(* The spans in order, and what comes of them. *)
\* What section_coalesce() is given: spans with bytes, of different numbers.
Sortable(A) ==
    /\ A \subseteq SpanType
    /\ \A a \in A : a.data # << >>
    /\ \A a, b \in A : a.seq = b.seq => a = b

LEMMA FirstSpan ==
    ASSUME NEW A, Sortable(A), A # {}
    PROVE  First(A) \in A /\ \A b \in A \ {First(A)} : Before(First(A), b)
<1>1. \A a \in A : a.put \in Nat /\ a.seq \in Nat
  BY SpanFacts DEF Sortable
<1> DEFINE puts == {a.put : a \in A}
           p == Min(puts)
           seqs == {a.seq : a \in {b \in A : b.put = p}}
           q == Min(seqs)
<1>2. puts \in SUBSET Nat /\ puts # {}
  BY <1>1
<1> HIDE DEF puts
<1>3. p \in puts /\ p \in Nat /\ \A y \in puts : p <= y
  BY <1>2, LeastElement, Zenon
<1>4. seqs \in SUBSET Nat /\ seqs # {}
  BY <1>1, <1>3 DEF puts
<1> HIDE DEF seqs
<1>5. q \in seqs /\ q \in Nat /\ \A y \in seqs : q <= y
  BY <1>4, LeastElement, Zenon
<1> HIDE DEF p, q
<1>6. PICK a \in A : a.put = p /\ a.seq = q
  BY <1>5 DEF seqs
<1>7. ASSUME NEW b \in A \ {a} PROVE Before(a, b)
  <2>1. b.put \in Nat /\ b.seq \in Nat /\ p <= b.put /\ b.seq # q
    BY <1>1, <1>3, <1>6 DEF puts, Sortable
  <2>2. b.put = p => q <= b.seq
    BY <1>5 DEF seqs
  <2> QED
    BY <1>3, <1>5, <1>6, <2>1, <2>2 DEF Before
<1> QED
  BY <1>6, <1>7 DEF First

\* A span after the last one: its bytes are put to the end, after the padding.
Joint(last, span) ==
    [last EXCEPT !.data = @ \o Zeros(span.put - SpanEnd(last)) \o span.data]

LEMMA ZerosType ==
    ASSUME NEW n \in Nat
    PROVE  Zeros(n) \in Seq(Byte) /\ Len(Zeros(n)) = n /\ \A i \in 1 .. n : Zeros(n)[i] = 0
<1> DEFINE e(i) == 0
<1>1. \A i \in 1 .. n : e(i) \in Byte
  BY DEF Byte
<1>2. [i \in 1 .. n |-> e(i)] \in Seq(Byte)
  <2> HIDE DEF e
  <2> QED
    BY <1>1, IsASeq
<1> QED
  BY <1>2 DEF Zeros

LEMMA JointFacts ==
    ASSUME NEW last \in SpanType, NEW span \in SpanType, SpanEnd(last) <= span.put
    PROVE  LET gap == span.put - SpanEnd(last)
               joint == Joint(last, span)
               l == Len(last.data) IN
           /\ joint \in SpanType /\ joint.put = last.put /\ gap \in Nat /\ l \in Nat
           /\ Len(joint.data) = l + gap + Len(span.data) /\ SpanEnd(joint) = SpanEnd(span)
           /\ \A i \in 1 .. Len(joint.data) :
                joint.data[i] = IF i <= l THEN last.data[i]
                                ELSE IF i <= l + gap THEN 0 ELSE span.data[i - (l + gap)]
<1> DEFINE gap == span.put - SpanEnd(last)
           joint == Joint(last, span)
           l == Len(last.data)
           k == Len(span.data)
           z == Zeros(gap)
           d == last.data \o z
           e == d \o span.data
<1>1. /\ last.data \in Seq(Byte) /\ l \in Nat /\ last.put \in Nat /\ SpanEnd(last) = last.put + l
      /\ span.data \in Seq(Byte) /\ k \in Nat /\ span.put \in Nat /\ SpanEnd(span) = span.put + k
  BY SpanFacts
<1>2. gap \in Nat /\ span.put = last.put + l + gap
  BY <1>1
<1> HIDE DEF gap, l, k
<1>3. z \in Seq(Byte) /\ Len(z) = gap /\ \A i \in 1 .. gap : z[i] = 0
  BY <1>2, ZerosType
<1> HIDE DEF z
<1>4. /\ d \in Seq(Byte) /\ Len(d) = l + gap
      /\ \A i \in 1 .. l + gap : d[i] = IF i <= l THEN last.data[i] ELSE z[i - l]
  <2>1. \A s1, s2 \in Seq(Byte) :
          /\ s1 \o s2 \in Seq(Byte) /\ Len(s1 \o s2) = Len(s1) + Len(s2)
          /\ \A i \in 1 .. Len(s1) + Len(s2) :
               (s1 \o s2)[i] = IF i <= Len(s1) THEN s1[i] ELSE s2[i - Len(s1)]
    BY ConcatProperties
  <2>2. /\ d \in Seq(Byte) /\ Len(d) = Len(last.data) + Len(z)
        /\ \A i \in 1 .. Len(last.data) + Len(z) :
             d[i] = IF i <= Len(last.data) THEN last.data[i] ELSE z[i - Len(last.data)]
    BY <1>1, <1>3, <2>1
  <2> QED
    BY <1>3, <2>2 DEF l
<1> HIDE DEF d
<1>5. /\ e \in Seq(Byte) /\ Len(e) = (l + gap) + k
      /\ \A i \in 1 .. (l + gap) + k : e[i] = IF i <= l + gap THEN d[i] ELSE span.data[i - (l + gap)]
  <2>1. /\ e \in Seq(Byte) /\ Len(e) = Len(d) + Len(span.data)
        /\ \A i \in 1 .. Len(d) + Len(span.data) :
             e[i] = IF i <= Len(d) THEN d[i] ELSE span.data[i - Len(d)]
    BY <1>1, <1>4, ConcatProperties
  <2> QED
    BY <1>4, <2>1 DEF k
<1> HIDE DEF e
<1>6. joint = [last EXCEPT !.data = e]
  BY DEF Joint, e, d, z, gap
<1>7. joint \in SpanType /\ joint.put = last.put /\ joint.data = e
  BY <1>5, <1>6 DEF SpanType
<1> HIDE DEF joint
<1>8. SpanEnd(joint) = SpanEnd(span)
  <2> DEFINE n == Len(e)
  <2>1. SpanEnd(joint) = last.put + n
    BY <1>7 DEF SpanEnd
  <2>2. n = (l + gap) + k
    BY <1>5
  <2> HIDE DEF n
  <2> QED
    BY <1>1, <1>2, <2>1, <2>2
<1>9. ASSUME NEW i \in 1 .. (l + gap) + k
      PROVE  e[i] = IF i <= l THEN last.data[i]
                    ELSE IF i <= l + gap THEN 0 ELSE span.data[i - (l + gap)]
  <2>1. CASE i <= l + gap
    <3>1. i \in 1 .. l + gap /\ (~ (i <= l) => i - l \in 1 .. gap)
      BY <1>1, <1>2, <2>1
    <3>2. e[i] = d[i] /\ d[i] = IF i <= l THEN last.data[i] ELSE z[i - l]
      BY <1>4, <1>5, <2>1, <3>1
    <3> QED
      BY <1>3, <2>1, <3>1, <3>2
  <2>2. CASE ~ (i <= l + gap)
    <3>1. ~ (i <= l)
      BY <1>1, <1>2, <2>2
    <3> QED
      BY <1>5, <2>2, <3>1
  <2> QED
    BY <2>1, <2>2
<1> QED
  BY <1>1, <1>2, <1>5, <1>7, <1>8, <1>9 DEF gap, joint, l, k

\* The four outcomes of a step.
LEMMA JoinedCases ==
    ASSUME NEW t, NEW pad, t.done \in Seq(SpanType)
    PROVE  LET span == First(t.left)
               last == Last(t.done)
               cut == [last EXCEPT !.data = SubSeq(@, 1, span.put - last.put)]
               r == Joined(t, pad) IN
           /\ r.left = t.left \ {span}
           /\ \/ t.done = << >> /\ r.done = <<span>> /\ r.wrong = t.wrong
              \/ /\ t.done # << >> /\ Overlap(last, span)
                 /\ r.done = Front(t.done) \o <<cut, span>> /\ r.wrong = TRUE
              \/ /\ t.done # << >> /\ ~ Overlap(last, span) /\ (span.put - SpanEnd(last) = 0 \/ pad)
                 /\ r.done = Append(Front(t.done), Joint(last, span)) /\ r.wrong = t.wrong
              \/ /\ t.done # << >> /\ ~ Overlap(last, span) /\ span.put - SpanEnd(last) # 0 /\ ~ pad
                 /\ r.done = Append(t.done, span) /\ r.wrong = t.wrong
  BY DEF Joined, Joint

\* What holds of spans of which some have been joined: they are the first ones,
\* and what has been done ends where the furthest of them does, unless two of
\* them overlapped.
Joining(t, A) ==
    /\ t.left \subseteq A /\ t.done \in Seq(SpanType)
    /\ \A a \in A \ t.left, b \in t.left : Before(a, b)
    /\ t.done = << >> <=> t.left = A
    /\ t.wrong => Overlapping(A)
    /\ ~ t.wrong =>
         /\ \A a, b \in A \ t.left : a # b => ~ Meet(a, b)
         /\ t.done # << >> =>
              /\ \A a \in A \ t.left : SpanEnd(a) <= SpanEnd(Last(t.done))
              /\ \E a \in A \ t.left : SpanEnd(a) = SpanEnd(Last(t.done))

LEMMA JoiningStep ==
    ASSUME NEW A, Sortable(A), NEW t, Joining(t, A), t.left # {}, NEW pad
    PROVE  Joining(Joined(t, pad), A)
<1> DEFINE span == First(t.left)
           last == Last(t.done)
           cut == [last EXCEPT !.data = SubSeq(@, 1, span.put - last.put)]
           r == Joined(t, pad)
           T == A \ t.left
           T2 == A \ r.left
           Bad == Overlap(last, span)
<1>1. /\ t.left \subseteq A /\ t.done \in Seq(SpanType)
      /\ \A a \in T, b \in t.left : Before(a, b)
      /\ t.done = << >> <=> t.left = A
      /\ t.wrong => Overlapping(A)
      /\ ~ t.wrong => /\ \A a, b \in T : a # b => ~ Meet(a, b)
                      /\ t.done # << >> => /\ \A a \in T : SpanEnd(a) <= SpanEnd(last)
                                           /\ \E a \in T : SpanEnd(a) = SpanEnd(last)
  BY DEF Joining
<1>2. Sortable(t.left)
  BY <1>1 DEF Sortable
<1>3. span \in t.left /\ span \in A /\ \A b \in t.left \ {span} : Before(span, b)
  BY <1>1, <1>2, FirstSpan
<1>4. \A a \in A : /\ a \in SpanType /\ a.put \in Nat /\ SpanEnd(a) \in Nat /\ a.put < SpanEnd(a)
                   /\ a.seq \in Nat
  BY SpanFacts DEF Sortable
<1>5. /\ r.left = t.left \ {span}
      /\ \/ t.done = << >> /\ r.done = <<span>> /\ r.wrong = t.wrong
         \/ /\ t.done # << >> /\ Bad
            /\ r.done = Front(t.done) \o <<cut, span>> /\ r.wrong = TRUE
         \/ /\ t.done # << >> /\ ~ Bad
            /\ r.done = Append(Front(t.done), Joint(last, span)) /\ r.wrong = t.wrong
         \/ /\ t.done # << >> /\ ~ Bad
            /\ r.done = Append(t.done, span) /\ r.wrong = t.wrong
  BY <1>1, JoinedCases
<1> HIDE DEF span, r, cut, last
<1>6. t.done # << >> => /\ last \in SpanType /\ Front(t.done) \in Seq(SpanType)
                        /\ last.put \in Nat /\ SpanEnd(last) \in Nat
                        /\ last.data \in Seq(Byte) /\ Len(last.data) \in Nat
                        /\ SpanEnd(last) = last.put + Len(last.data)
  BY <1>1, FrontLast, SpanFacts DEF last
<1>7. T2 = T \cup {span} /\ r.left \subseteq A /\ r.left # A /\ span \notin T
  BY <1>1, <1>3, <1>5
<1>8. \A a \in T2, b \in r.left : Before(a, b)
  BY <1>1, <1>3, <1>5, <1>7
<1>9. \A a \in T : a.put <= span.put
  BY <1>1, <1>3, <1>4 DEF Before
<1> HIDE DEF T, T2
<1>10. T \subseteq A
  BY DEF T
\* With an overlap.
<1>11. t.done # << >> /\ Bad => Overlapping(A)
  <2> SUFFICES ASSUME t.done # << >>, Bad, ~ t.wrong PROVE Overlapping(A)
    BY <1>1
  <2>1. PICK a \in T : SpanEnd(a) = SpanEnd(last)
    BY <1>1
  <2>2. a.put < SpanEnd(span) /\ span.put < SpanEnd(a) /\ a # span /\ a \in A
    BY <1>3, <1>4, <1>6, <1>7, <1>9, <1>10, <2>1 DEF Overlap
  <2> QED
    BY <1>3, <2>2 DEF Overlapping, Meet
<1>12. t.done # << >> /\ Bad => cut \in SpanType
  <2> SUFFICES ASSUME t.done # << >>, Bad PROVE cut \in SpanType
    OBVIOUS
  <2>1. span.put \in Int /\ span.put - last.put <= Len(last.data) /\ span.put - last.put \in Int
    BY <1>3, <1>4, <1>6 DEF Overlap
  <2> DEFINE k == span.put - last.put
  <2> HIDE DEF k
  <2>2. k \in Int /\ k <= Len(last.data)
    BY <2>1 DEF k
  <2>3. \A i \in 1 .. k : last.data[i] \in Byte
    BY <1>6, <2>2, ElementOfSeq
  <2>4. SubSeq(last.data, 1, k) \in Seq(Byte)
    BY <2>2, <2>3, SubSeqProperties
  <2> QED
    BY <1>6, <2>4 DEF cut, k, SpanType
<1>13. t.done # << >> /\ ~ Bad => SpanEnd(last) <= span.put
  BY <1>3, <1>4, <1>6 DEF Overlap
<1>14. t.done # << >> /\ ~ Bad => /\ Joint(last, span) \in SpanType
                                  /\ SpanEnd(Joint(last, span)) = SpanEnd(span)
  BY <1>3, <1>4, <1>6, <1>13, JointFacts
<1> HIDE DEF Bad
<1>15. \A s \in Seq(SpanType) : \A x \in SpanType :
          /\ Append(s, x) \in Seq(SpanType) /\ Append(s, x) # << >> /\ Last(Append(s, x)) = x
  <2> SUFFICES ASSUME NEW s \in Seq(SpanType), NEW x \in SpanType
               PROVE  /\ Append(s, x) \in Seq(SpanType) /\ Append(s, x) # << >>
                      /\ Last(Append(s, x)) = x
    OBVIOUS
  <2>1. /\ Append(s, x) \in Seq(SpanType) /\ Len(Append(s, x)) = Len(s) + 1
        /\ Append(s, x)[Len(s) + 1] = x /\ Append(s, x) # << >>
    BY AppendProperties
  <2> QED
    BY <2>1 DEF Last
<1>16. r.done \in Seq(SpanType) /\ r.done # << >>
  <2>1. CASE t.done = << >>
    <3>1. r.done = <<span>>
      BY <1>5, <2>1
    <3> QED
      BY <1>3, <1>4, <3>1
  <2>2. CASE t.done # << >> /\ Bad
    <3>1. r.done = Front(t.done) \o <<cut, span>>
      BY <1>5, <2>2
    <3>2. /\ <<cut, span>> \in Seq(SpanType) /\ Len(<<cut, span>>) = 2
      BY <1>3, <1>4, <1>12, <2>2
    <3>3. /\ r.done \in Seq(SpanType) /\ Len(r.done) = Len(Front(t.done)) + 2
          /\ Len(Front(t.done)) \in Nat
      BY <1>6, <2>2, <3>1, <3>2, ConcatProperties, LenProperties
    <3> QED
      BY <3>3, EmptySeq
  <2>3. CASE t.done # << >> /\ ~ Bad
    BY <1>1, <1>3, <1>4, <1>5, <1>6, <1>14, <1>15, <2>3
  <2> QED
    BY <2>1, <2>2, <2>3
<1>17. r.wrong => Overlapping(A)
  BY <1>1, <1>5, <1>11
\* Without one.
<1>18. ASSUME ~ r.wrong
       PROVE  /\ \A a, b \in T2 : a # b => ~ Meet(a, b)
              /\ \A a \in T2 : SpanEnd(a) <= SpanEnd(Last(r.done))
              /\ \E a \in T2 : SpanEnd(a) = SpanEnd(Last(r.done))
  <2>1. ~ t.wrong /\ ~ (t.done # << >> /\ Bad)
    BY <1>5, <1>18
  <2>2. \A a \in T : SpanEnd(a) <= span.put
    <3>1. CASE t.done = << >>
      BY <1>1, <3>1 DEF T
    <3>2. CASE t.done # << >>
      <4> SUFFICES ASSUME NEW a \in T PROVE SpanEnd(a) <= span.put
        OBVIOUS
      <4>1. SpanEnd(a) <= SpanEnd(last) /\ SpanEnd(last) <= span.put
        BY <1>1, <1>13, <2>1, <3>2
      <4> QED
        BY <1>3, <1>4, <1>6, <1>10, <3>2, <4>1
    <3> QED
      BY <3>1, <3>2
  <2>3. SpanEnd(Last(r.done)) = SpanEnd(span)
    <3>1. CASE t.done = << >>
      <4>1. r.done = <<span>>
        BY <1>5, <3>1
      <4>2. Last(<<span>>) = span
        BY DEF Last
      <4> QED
        BY <4>1, <4>2
    <3>2. CASE t.done # << >>
      BY <1>1, <1>3, <1>4, <1>5, <1>6, <1>14, <1>15, <2>1, <3>2
    <3> QED
      BY <3>1, <3>2
  <2>4. \A a \in T : ~ Meet(a, span) /\ ~ Meet(span, a)
    BY <1>3, <1>4, <1>10, <2>2 DEF Meet
  <2>5. \A a, b \in T : a # b => ~ Meet(a, b)
    BY <1>1, <2>1
  <2>6. \A a \in T : SpanEnd(a) <= SpanEnd(span)
    BY <1>3, <1>4, <1>10, <2>2
  <2>7. SpanEnd(span) <= SpanEnd(span)
    BY <1>3, <1>4
  <2> QED
    BY <1>7, <2>3, <2>4, <2>5, <2>6, <2>7
<1> QED
  BY <1>7, <1>8, <1>16, <1>17, <1>18 DEF Joining, T2, r

\* What there is after each of the steps.
JoinedOf(A, pad) ==
    CHOOSE joined : joined = [n \in 0 .. Cardinality(A) |->
                                IF n = 0 THEN [left |-> A, done |-> << >>, wrong |-> FALSE]
                                ELSE Joined(joined[n - 1], pad)]

\* The recursion of Coalesced has a solution.
LEMMA JoinedStep ==
    ASSUME NEW A, Cardinality(A) \in Nat, NEW pad
    PROVE  LET joined == JoinedOf(A, pad) IN
           /\ joined[0] = [left |-> A, done |-> << >>, wrong |-> FALSE]
           /\ \A n \in 1 .. Cardinality(A) : joined[n] = Joined(joined[n - 1], pad)
<1> DEFINE base == [left |-> A, done |-> << >>, wrong |-> FALSE]
           Solves(f, m) == f = [n \in 0 .. m |-> IF n = 0 THEN base ELSE Joined(f[n - 1], pad)]
           T == {m \in Nat : \E f : Solves(f, m)}
           P == JoinedOf(A, pad)
           N == Cardinality(A)
<1> HIDE DEF base
<1>1. 0 \in T
  <2>1. Solves([i \in 0 .. 0 |-> base], 0)
    OBVIOUS
  <2> QED
    BY <2>1
<1>2. ASSUME NEW m \in Nat, m \in T
      PROVE  m + 1 \in T
  <2>1. PICK f : Solves(f, m)
    BY <1>2
  <2> DEFINE e == Joined(f[m], pad)
             g == [i \in 0 .. (m + 1) |-> IF i = m + 1 THEN e ELSE f[i]]
  <2>2. ASSUME NEW i \in 0 .. (m + 1)
        PROVE  g[i] = IF i = 0 THEN base ELSE Joined(g[i - 1], pad)
    <3>1. CASE i = m + 1
      <4>1. i # 0 /\ i - 1 = m /\ g[i - 1] = f[m] /\ g[i] = e
        BY <3>1
      <4> QED
        BY <3>1, <4>1
    <3>2. CASE i # m + 1
      <4>1. i \in 0 .. m /\ g[i] = f[i] /\ (i # 0 => g[i - 1] = f[i - 1])
        BY <3>2
      <4>2. f[i] = IF i = 0 THEN base ELSE Joined(f[i - 1], pad)
        BY <2>1, <4>1
      <4> QED
        BY <4>1, <4>2
    <3> QED
      BY <3>1, <3>2
  <2>3. g = [i \in 0 .. (m + 1) |-> g[i]]
    OBVIOUS
  <2> HIDE DEF g
  <2>4. Solves(g, m + 1)
    BY <2>2, <2>3
  <2> HIDE DEF Solves
  <2> QED
    BY <2>4
<1>3. N \in T
  <2> HIDE DEF T
  <2> QED
    BY <1>1, <1>2, SetInduction
<1>4. Solves(P, N)
  BY <1>3 DEF JoinedOf, base
<1> HIDE DEF P, N
<1>5. \A n \in 0 .. N : P[n] = IF n = 0 THEN base ELSE Joined(P[n - 1], pad)
  BY <1>4
<1>6. 0 \in 0 .. N /\ \A n \in 1 .. N : n \in 0 .. N /\ n # 0
  BY DEF N
<1> QED
  BY <1>5, <1>6 DEF P, N, base

\* All spans are joined, one after the other.
LEMMA AllJoined ==
    ASSUME NEW A, Sortable(A), IsFiniteSet(A), NEW pad
    PROVE  LET joined == JoinedOf(A, pad)
               N == Cardinality(A) IN
           /\ N \in Nat
           /\ \A n \in 0 .. N : /\ Joining(joined[n], A)
                                /\ n < N => joined[n].left # {}
           /\ joined[N].left = {}
<1> DEFINE joined == JoinedOf(A, pad)
           N == Cardinality(A)
           base == [left |-> A, done |-> << >>, wrong |-> FALSE]
           OK(n) == /\ Joining(joined[n], A)
                    /\ IsFiniteSet(joined[n].left) /\ Cardinality(joined[n].left) = N - n
           T == {n \in Nat : n <= N => OK(n)}
<1>1. N \in Nat
  BY FS_CardinalityType
<1>2. /\ joined[0] = base
      /\ \A n \in 1 .. N : joined[n] = Joined(joined[n - 1], pad)
  BY <1>1, JoinedStep
<1> HIDE DEF joined
<1>3. 0 \in T
  <2>1. Joining(base, A)
    BY EmptySeq DEF Joining
  <2>2. base.left = A
    OBVIOUS
  <2> HIDE DEF base
  <2>3. Cardinality(joined[0].left) = N - 0
    BY <1>1, <1>2, <2>2
  <2> QED
    BY <1>2, <2>1, <2>2, <2>3
<1> HIDE DEF base, N
<1>4. ASSUME NEW n \in Nat, n \in T
      PROVE  n + 1 \in T
  <2> SUFFICES ASSUME n + 1 <= N PROVE OK(n + 1)
    OBVIOUS
  <2> DEFINE t == joined[n]
  <2>1. n + 1 \in 1 .. N /\ (n + 1) - 1 = n /\ n <= N
    BY <1>1
  <2>2. /\ Joining(t, A) /\ IsFiniteSet(t.left) /\ Cardinality(t.left) = N - n
        /\ joined[n + 1] = Joined(t, pad)
    BY <1>2, <1>4, <2>1
  <2> HIDE DEF t
  <2>3. t.left # {}
    BY <1>1, <2>1, <2>2, FS_EmptySet
  <2>4. Joining(Joined(t, pad), A)
    BY <2>2, <2>3, JoiningStep
  <2>5. Joined(t, pad).left = t.left \ {First(t.left)} /\ t.left \subseteq A
    BY <2>2, JoinedCases DEF Joining
  <2>6. Sortable(t.left)
    BY <2>5 DEF Sortable
  <2>7. First(t.left) \in t.left
    BY <2>3, <2>6, FirstSpan
  <2>8. /\ IsFiniteSet(t.left \ {First(t.left)})
        /\ Cardinality(t.left \ {First(t.left)}) = Cardinality(t.left) - 1
    BY <2>2, <2>7, FS_RemoveElement
  <2>9. (N - n) - 1 = N - (n + 1)
    BY <1>1
  <2> QED
    BY <2>2, <2>4, <2>5, <2>8, <2>9
<1>5. \A n \in 0 .. N : OK(n)
  <2>1. \A n \in Nat : n \in T
    <3> HIDE DEF T
    <3> QED
      BY <1>3, <1>4, SetInduction
  <2> QED
    BY <1>1, <2>1
<1>6. \A n \in 0 .. N : n < N => joined[n].left # {}
  <2> SUFFICES ASSUME NEW n \in 0 .. N, n < N PROVE joined[n].left # {}
    OBVIOUS
  <2>1. Cardinality(joined[n].left) = N - n /\ N - n # 0
    BY <1>1, <1>5
  <2> QED
    BY <2>1, FS_EmptySet
<1>7. joined[N].left = {}
  <2>1. IsFiniteSet(joined[N].left) /\ Cardinality(joined[N].left) = N - N /\ N - N = 0
    BY <1>1, <1>5
  <2> QED
    BY <2>1, FS_EmptySet
<1> QED
  BY <1>1, <1>5, <1>6, <1>7 DEF joined, N

\* What section_coalesce() reports is that two of the spans overlap, wherever
\* in their order they are.
LEMMA CoalescedWrong ==
    ASSUME Sortable(AllSpans), IsFiniteSet(AllSpans), NEW pad
    PROVE  Coalesced(pad).wrong <=> Overlapping(AllSpans)
<1> DEFINE t == JoinedOf(AllSpans, pad)[Cardinality(AllSpans)]
<1>1. Coalesced(pad) = t
  BY DEF Coalesced, JoinedOf
<1>2. Joining(t, AllSpans) /\ t.left = {}
  <2>1. Cardinality(AllSpans) \in 0 .. Cardinality(AllSpans)
    BY AllJoined
  <2> QED
    BY <2>1, AllJoined
<1> HIDE DEF t
<1>3. t.wrong <=> Overlapping(AllSpans)
  BY <1>2 DEF Joining, Overlapping
<1> QED
  BY <1>1, <1>3

LEMMA SpansSortable ==
    ASSUME World(sects, count, memory)
    PROVE  /\ Sortable(AllSpans) /\ IsFiniteSet(AllSpans)
           /\ Twice <=> Overlapping(AllSpans)
<1>1. Ledger(AllSpans, count, memory) /\ count \in Nat
  BY DEF World, AllSpans, Spans
<1>2. Sortable(AllSpans) /\ (Twice <=> Overlapping(AllSpans)) /\ \A a \in AllSpans : a.seq < count
  BY <1>1 DEF Ledger, Sortable, Twice, TwiceIn
<1> DEFINE f == [a \in AllSpans |-> a.seq]
           C == 0 .. count
<1>3. \A a \in AllSpans : a.seq \in C
  BY <1>1, <1>2, SpanFacts DEF Sortable
<1>4. f \in Injection(AllSpans, C)
  <2> HIDE DEF C
  <2>1. f \in [AllSpans -> C]
    BY <1>3
  <2>2. IsInjective(f)
    BY <1>2 DEF Sortable, IsInjective
  <2> QED
    BY <2>1, <2>2 DEF Injection
<1>5. IsFiniteSet(C)
  BY <1>1, FS_Interval
<1> HIDE DEF f, C
<1>6. IsFiniteSet(AllSpans)
  BY <1>4, <1>5, FS_Injection
<1> QED
  BY <1>2, <1>6

Reported == file # NoFile => (level = Data <=> Twice)

LEMMA NextReported == Inv /\ Reported /\ [Next]_vars => Reported'
<1> SUFFICES ASSUME Inv, Reported, [Next]_vars PROVE Reported'
  OBVIOUS
<1>1. CASE file' = file /\ file = NoFile
  BY <1>1 DEF Reported
<1>2. CASE Output
  <2>1. /\ level < Inconsistent /\ memory' = memory
        /\ \E format \in Formats :
             level' = RaiseIf(Coalesced(format \in {"binary", "dragondos"}).wrong, level, Data)
    BY <1>2 DEF Output
  <2>2. PICK format \in Formats :
          level' = RaiseIf(Coalesced(format \in {"binary", "dragondos"}).wrong, level, Data)
    BY <2>1
  <2> DEFINE pad == format \in {"binary", "dragondos"}
             wrong == Coalesced(pad).wrong
  <2> HIDE DEF pad
  <2>3. wrong <=> Twice
    BY SpansSortable, CoalescedWrong DEF Inv
  <2>4. level' = RaiseIf(wrong, level, Data)
    BY <2>2 DEF pad
  <2> HIDE DEF wrong
  <2>5. level' = IF wrong THEN Raise(level, Data) ELSE level
    BY <2>4 DEF RaiseIf
  <2>6. level \in Nat /\ level < 3
    BY <2>1 DEF Inv, Level
  <2>7. level' = Data <=> wrong
    BY <2>5, <2>6 DEF Raise
  <2>8. Twice' <=> Twice
    BY <2>1 DEF Twice
  <2> QED
    BY <2>3, <2>7, <2>8 DEF Reported
<1>3. CASE UNCHANGED vars
  <2>1. Twice' <=> Twice
    BY <1>3 DEF Twice, vars
  <2> QED
    BY <1>3, <2>1 DEF Reported, vars
<1>4. \A kind : AtLine(kind) => file = NoFile
  BY DEF AtLine
<1>5. CASE Instruction
  <2>1. file' = file /\ file = NoFile
    BY <1>4, <1>5 DEF Instruction, Emits
  <2> QED
    BY <1>1, <2>1
<1>6. CASE Constants
  BY <1>1, <1>4, <1>6 DEF Constants, Emits
<1>7. CASE Org \/ Put \/ Rmb \/ Setdp
  <2>1. file' = file /\ file = NoFile
    BY <1>4, <1>7 DEF Org, Put, Rmb, Setdp, Moves
  <2> QED
    BY <1>1, <2>1
<1>8. CASE Section
  BY <1>1, <1>4, <1>8 DEF Section
<1>9. CASE End
  BY <1>1, <1>4, <1>9 DEF End
<1> QED
  BY <1>2, <1>3, <1>5, <1>6, <1>7, <1>8, <1>9 DEF Next

\* Two bytes at one address are reported when the file is written, wherever in
\* whatever sections they are, and nothing else is taken for that.
THEOREM OverlapsReported == Spec => []OverlapsAreReported
<1>1. Init => Reported
  BY DEF Init, Reported
<1>2. Reported => OverlapsAreReported
  BY DEF Reported, OverlapsAreReported
<1> QED
  BY <1>1, <1>2, Invariant, NextReported, PTL DEF Spec

-----------------------------------------------------------------------------
(* What the spans hold after section_coalesce(). *)
\* The addresses and the bytes of a span.
Pairs(span) == {<<span.put + k - 1, span.data[k]>> : k \in 1 .. Len(span.data)}

Covers(a, b) == a.put <= b /\ b < SpanEnd(a)

LEMMA JointPairs ==
    ASSUME NEW last \in SpanType, NEW span \in SpanType, SpanEnd(last) <= span.put, NEW x
    PROVE  x \in Pairs(Joint(last, span))
             <=> \/ x \in Pairs(last) \/ x \in Pairs(span)
                 \/ \E b \in SpanEnd(last) .. (span.put - 1) : x = <<b, 0>>
<1> DEFINE gap == span.put - SpanEnd(last)
           joint == Joint(last, span)
           l == Len(last.data)
           k == Len(span.data)
           d == joint.data
           N == Len(joint.data)
<1>1. /\ joint.put = last.put /\ gap \in Nat /\ l \in Nat /\ N = l + gap + k
      /\ \A i \in 1 .. N : d[i] = IF i <= l THEN last.data[i]
                                  ELSE IF i <= l + gap THEN 0 ELSE span.data[i - (l + gap)]
  BY JointFacts
<1>2. /\ last.put \in Nat /\ SpanEnd(last) = last.put + l /\ span.put \in Nat /\ k \in Nat
      /\ SpanEnd(last) \in Nat
  BY SpanFacts
<1>3. span.put = last.put + l + gap
  BY <1>1, <1>2
<1> HIDE DEF gap, joint, l, k, d, N
<1>4. ASSUME NEW i \in 1 .. N, x = <<last.put + i - 1, d[i]>>
      PROVE  \/ x \in Pairs(last) \/ x \in Pairs(span)
             \/ \E b \in SpanEnd(last) .. (span.put - 1) : x = <<b, 0>>
  <2>1. CASE i <= l
    <3>1. i \in 1 .. l /\ d[i] = last.data[i]
      BY <1>1, <1>2, <2>1
    <3> QED
      BY <1>4, <3>1 DEF Pairs, l
  <2>2. CASE i > l /\ i <= l + gap
    <3>1. d[i] = 0
      BY <1>1, <1>2, <2>2
    <3>2. last.put + i - 1 \in SpanEnd(last) .. (span.put - 1)
      BY <1>1, <1>2, <1>3, <2>2
    <3> QED
      BY <1>4, <3>1, <3>2
  <2>3. CASE i > l + gap
    <3> DEFINE j == i - (l + gap)
    <3>1. ~ (i <= l) /\ ~ (i <= l + gap) /\ j \in 1 .. k
      BY <1>1, <1>2, <2>3
    <3>2. d[i] = span.data[j]
      BY <1>1, <3>1
    <3>3. last.put + i - 1 = span.put + j - 1
      BY <1>1, <1>2, <1>3
    <3> HIDE DEF j
    <3> QED
      BY <1>4, <3>1, <3>2, <3>3 DEF Pairs, k
  <2> QED
    BY <1>1, <1>2, <2>1, <2>2, <2>3
<1>5. ASSUME x \in Pairs(last)
      PROVE  \E i \in 1 .. N : x = <<last.put + i - 1, d[i]>>
  <2>1. PICK i \in 1 .. l : x = <<last.put + i - 1, last.data[i]>>
    BY <1>5 DEF Pairs, l
  <2>2. i \in 1 .. N /\ i <= l
    BY <1>1, <1>2
  <2> QED
    BY <1>1, <2>1, <2>2
<1>6. ASSUME x \in Pairs(span)
      PROVE  \E i \in 1 .. N : x = <<last.put + i - 1, d[i]>>
  <2>1. PICK j \in 1 .. k : x = <<span.put + j - 1, span.data[j]>>
    BY <1>6 DEF Pairs, k
  <2> DEFINE i == j + (l + gap)
  <2>2. i \in 1 .. N /\ ~ (i <= l) /\ ~ (i <= l + gap) /\ i - (l + gap) = j
    BY <1>1, <1>2
  <2>3. last.put + i - 1 = span.put + j - 1
    BY <1>1, <1>2, <1>3
  <2> HIDE DEF i
  <2>4. d[i] = span.data[j]
    BY <1>1, <2>2
  <2> QED
    BY <2>1, <2>2, <2>3, <2>4
<1>7. ASSUME NEW b \in SpanEnd(last) .. (span.put - 1), x = <<b, 0>>
      PROVE  \E i \in 1 .. N : x = <<last.put + i - 1, d[i]>>
  <2> DEFINE i == b - last.put + 1
  <2>1. i \in 1 .. N /\ ~ (i <= l) /\ i <= l + gap /\ last.put + i - 1 = b
    BY <1>1, <1>2, <1>3
  <2> HIDE DEF i
  <2>2. d[i] = 0
    BY <1>1, <2>1
  <2> QED
    BY <1>7, <2>1, <2>2
<1>8. x \in Pairs(joint) <=> \E i \in 1 .. N : x = <<last.put + i - 1, d[i]>>
  BY <1>1 DEF Pairs, N, d
<1> QED
  BY <1>4, <1>5, <1>6, <1>7, <1>8 DEF joint

LEMMA PairsCovered ==
    ASSUME NEW a \in SpanType
    PROVE  /\ \A x \in Pairs(a) : \E b \in Nat : Covers(a, b) /\ x[1] = b
           /\ \A b \in Nat : Covers(a, b) => \E v \in Byte : <<b, v>> \in Pairs(a)
<1> DEFINE n == Len(a.data)
<1>1. /\ a.put \in Nat /\ n \in Nat /\ SpanEnd(a) = a.put + n /\ a.data \in Seq(Byte)
  BY SpanFacts
<1>2. \A k \in 1 .. n : a.data[k] \in Byte
  BY <1>1
<1> HIDE DEF n
<1>3. ASSUME NEW x \in Pairs(a) PROVE \E b \in Nat : Covers(a, b) /\ x[1] = b
  <2>1. PICK k \in 1 .. n : x = <<a.put + k - 1, a.data[k]>>
    BY DEF Pairs, n
  <2>2. a.put + k - 1 \in Nat /\ Covers(a, a.put + k - 1)
    BY <1>1 DEF Covers
  <2> QED
    BY <2>1, <2>2
<1>4. ASSUME NEW b \in Nat, Covers(a, b) PROVE \E v \in Byte : <<b, v>> \in Pairs(a)
  <2> DEFINE k == b - a.put + 1
  <2>1. k \in 1 .. n /\ a.put + k - 1 = b
    BY <1>1, <1>4 DEF Covers
  <2> HIDE DEF k
  <2>2. <<b, a.data[k]>> \in Pairs(a)
    BY <2>1 DEF Pairs, n
  <2> QED
    BY <1>2, <2>1, <2>2
<1> QED
  BY <1>3, <1>4

\* What has been done holds the bytes of the spans that have been joined, and
\* where gaps are padded it is one span, with zeros in them.
Gathered(t, A, pad) ==
    /\ ~ pad => \A x : (\E i \in 1 .. Len(t.done) : x \in Pairs(t.done[i]))
                         <=> \E a \in A \ t.left : x \in Pairs(a)
    /\ pad /\ t.done # << >> =>
         LET d == Last(t.done) IN
         /\ Len(t.done) = 1
         /\ \A a \in A \ t.left : d.put <= a.put
         /\ \E a \in A \ t.left : a.put = d.put
         /\ \A x : x \in Pairs(d)
              <=> \/ \E a \in A \ t.left : x \in Pairs(a)
                  \/ \E b \in d.put .. SpanEnd(d) - 1 :
                       x = <<b, 0>> /\ \A a \in A \ t.left : ~ Covers(a, b)

LEMMA AppendedSpan ==
    ASSUME NEW s \in Seq(SpanType), NEW y \in SpanType
    PROVE  /\ Append(s, y) \in Seq(SpanType) /\ Append(s, y) # << >> /\ Last(Append(s, y)) = y
           /\ Len(Append(s, y)) = Len(s) + 1
           /\ \A x : (\E i \in 1 .. Len(Append(s, y)) : x \in Pairs(Append(s, y)[i]))
                       <=> (\E i \in 1 .. Len(s) : x \in Pairs(s[i])) \/ x \in Pairs(y)
<1> DEFINE z == Append(s, y)
           n == Len(s)
<1>1. /\ z \in Seq(SpanType) /\ Len(z) = n + 1 /\ z[n + 1] = y /\ z # << >> /\ n \in Nat
      /\ \A i \in 1 .. n : z[i] = s[i]
  BY AppendProperties, LenProperties
<1> HIDE DEF z, n
<1>2. Last(z) = y
  BY <1>1 DEF Last
<1>3. n + 1 \in 1 .. n + 1 /\ \A i \in 1 .. n + 1 : i = n + 1 \/ i \in 1 .. n
  BY <1>1
<1>4. \A i \in 1 .. n : i \in 1 .. n + 1
  BY <1>1
<1>5. \A x : (\E i \in 1 .. n + 1 : x \in Pairs(z[i]))
               <=> (\E i \in 1 .. n : x \in Pairs(s[i])) \/ x \in Pairs(y)
  BY <1>1, <1>3, <1>4
<1> QED
  BY <1>1, <1>2, <1>5 DEF z, n

LEMMA GatheredStep ==
    ASSUME NEW A, Sortable(A), ~ Overlapping(A), NEW pad \in BOOLEAN,
           NEW t, Joining(t, A), t.left # {}, Gathered(t, A, pad)
    PROVE  Gathered(Joined(t, pad), A, pad)
<1> DEFINE span == First(t.left)
           last == Last(t.done)
           r == Joined(t, pad)
           T == A \ t.left
           T2 == A \ r.left
           front == Front(t.done)
<1>1. /\ t.left \subseteq A /\ t.done \in Seq(SpanType)
      /\ t.done = << >> <=> t.left = A
      /\ ~ t.wrong
      /\ t.done # << >> => \A a \in T : SpanEnd(a) <= SpanEnd(last)
  BY DEF Joining
<1>2. Sortable(t.left)
  BY <1>1 DEF Sortable
<1>3. span \in t.left /\ span \in A
  BY <1>1, <1>2, FirstSpan
<1>4. \A a \in A : /\ a \in SpanType /\ a.put \in Nat /\ SpanEnd(a) \in Nat /\ a.put < SpanEnd(a)
  BY SpanFacts DEF Sortable
<1>5. ~ r.wrong
  BY JoiningStep DEF Joining
<1>6. /\ r.left = t.left \ {span}
      /\ \/ t.done = << >> /\ r.done = <<span>>
         \/ /\ t.done # << >> /\ ~ Overlap(last, span) /\ (span.put - SpanEnd(last) = 0 \/ pad)
            /\ r.done = Append(front, Joint(last, span))
         \/ /\ t.done # << >> /\ ~ Overlap(last, span) /\ ~ pad
            /\ r.done = Append(t.done, span)
  <2> DEFINE cut == [last EXCEPT !.data = SubSeq(@, 1, span.put - last.put)]
  <2>1. /\ r.left = t.left \ {span}
        /\ \/ t.done = << >> /\ r.done = <<span>> /\ r.wrong = t.wrong
           \/ /\ t.done # << >> /\ Overlap(last, span)
              /\ r.done = front \o <<cut, span>> /\ r.wrong = TRUE
           \/ /\ t.done # << >> /\ ~ Overlap(last, span) /\ (span.put - SpanEnd(last) = 0 \/ pad)
              /\ r.done = Append(front, Joint(last, span)) /\ r.wrong = t.wrong
           \/ /\ t.done # << >> /\ ~ Overlap(last, span) /\ span.put - SpanEnd(last) # 0 /\ ~ pad
              /\ r.done = Append(t.done, span) /\ r.wrong = t.wrong
    BY <1>1, JoinedCases
  <2> HIDE DEF cut, r, span, last, front
  <2> QED
    BY <1>5, <2>1
<1>7. T2 = T \cup {span}
  BY <1>1, <1>3, <1>6
<1>8. /\ ~ pad => \A x : (\E i \in 1 .. Len(t.done) : x \in Pairs(t.done[i]))
                           <=> \E a \in T : x \in Pairs(a)
      /\ pad /\ t.done # << >> =>
           /\ Len(t.done) = 1
           /\ \A a \in T : last.put <= a.put
           /\ \E a \in T : a.put = last.put
           /\ \A x : x \in Pairs(last)
                <=> \/ \E a \in T : x \in Pairs(a)
                    \/ \E b \in last.put .. SpanEnd(last) - 1 :
                         x = <<b, 0>> /\ \A a \in T : ~ Covers(a, b)
  BY DEF Gathered
<1> HIDE DEF span, r, last, front
<1>9. t.done # << >> =>
         /\ last \in SpanType /\ last.put \in Nat /\ SpanEnd(last) \in Nat /\ last.put <= SpanEnd(last)
         /\ front \in Seq(SpanType) /\ Len(front) = Len(t.done) - 1 /\ Len(t.done) \in Nat
         /\ Len(t.done) > 0 /\ last = t.done[Len(t.done)]
         /\ \A i \in 1 .. Len(t.done) - 1 : front[i] = t.done[i]
  <2> SUFFICES ASSUME t.done # << >>
               PROVE  /\ last \in SpanType /\ last.put \in Nat /\ SpanEnd(last) \in Nat
                      /\ last.put <= SpanEnd(last)
                      /\ front \in Seq(SpanType) /\ Len(front) = Len(t.done) - 1
                      /\ Len(t.done) \in Nat
                      /\ Len(t.done) > 0 /\ last = t.done[Len(t.done)]
                      /\ \A i \in 1 .. Len(t.done) - 1 : front[i] = t.done[i]
    OBVIOUS
  <2>1. /\ last \in SpanType /\ front \in Seq(SpanType) /\ Len(front) = Len(t.done) - 1
        /\ Len(t.done) \in Nat /\ Len(t.done) > 0 /\ last = t.done[Len(t.done)]
        /\ \A i \in 1 .. Len(t.done) - 1 : front[i] = t.done[i]
    BY <1>1, FrontLast DEF last, front
  <2>2. /\ last.put \in Nat /\ Len(last.data) \in Nat
        /\ SpanEnd(last) = last.put + Len(last.data)
    BY <2>1, SpanFacts
  <2> QED
    BY <2>1, <2>2
<1>10. t.done # << >> => SpanEnd(last) <= span.put
  BY <1>3, <1>4, <1>6, <1>9 DEF Overlap
<1> HIDE DEF T, T2
<1>11. T \subseteq A
  BY DEF T
<1>12. CASE t.done = << >>
  <2>1. r.done = <<span>> /\ T2 = {span}
    BY <1>1, <1>6, <1>7, <1>12 DEF T
  <2>2. Len(r.done) = 1 /\ Last(r.done) = span /\ r.done[1] = span
    BY <2>1 DEF Last
  <2>3. \A x : (\E i \in 1 .. 1 : x \in Pairs(r.done[i])) <=> \E a \in T2 : x \in Pairs(a)
    BY <2>1, <2>2
  <2>4. \A b \in span.put .. SpanEnd(span) - 1 : Covers(span, b)
    BY <1>3, <1>4 DEF Covers
  <2>5. span.put <= span.put
    BY <1>3, <1>4
  <2> QED
    BY <2>1, <2>2, <2>3, <2>4, <2>5 DEF Gathered, T2, r
<1>13. CASE t.done # << >> /\ ~ pad /\ r.done = Append(t.done, span)
  <2>1. span \in SpanType
    BY <1>3, <1>4
  <2>2. \A x : (\E i \in 1 .. Len(r.done) : x \in Pairs(r.done[i]))
                 <=> (\E i \in 1 .. Len(t.done) : x \in Pairs(t.done[i])) \/ x \in Pairs(span)
    BY <1>1, <1>13, <2>1, AppendedSpan
  <2>3. \A x : (\E i \in 1 .. Len(r.done) : x \in Pairs(r.done[i])) <=> \E a \in T2 : x \in Pairs(a)
    BY <1>7, <1>8, <1>13, <2>2
  <2> QED
    BY <1>13, <2>3 DEF Gathered, T2, r
<1>14. CASE /\ t.done # << >> /\ (span.put - SpanEnd(last) = 0 \/ pad)
            /\ r.done = Append(front, Joint(last, span))
  <2> DEFINE joint == Joint(last, span)
  <2>1. /\ joint \in SpanType /\ joint.put = last.put /\ SpanEnd(joint) = SpanEnd(span)
    BY <1>3, <1>4, <1>9, <1>10, <1>14, JointFacts
  <2>2. \A x : x \in Pairs(joint)
                 <=> \/ x \in Pairs(last) \/ x \in Pairs(span)
                     \/ \E b \in SpanEnd(last) .. (span.put - 1) : x = <<b, 0>>
    BY <1>3, <1>4, <1>9, <1>10, <1>14, JointPairs
  <2> HIDE DEF joint
  <2>3. /\ Last(r.done) = joint /\ Len(r.done) = Len(front) + 1
        /\ \A x : (\E i \in 1 .. Len(r.done) : x \in Pairs(r.done[i]))
                    <=> (\E i \in 1 .. Len(front) : x \in Pairs(front[i])) \/ x \in Pairs(joint)
    BY <1>9, <1>14, <2>1, AppendedSpan DEF joint
  <2>4. CASE ~ pad
    <3>1. SpanEnd(last) .. (span.put - 1) = {}
      BY <1>3, <1>4, <1>9, <1>14, <2>4
    <3>2. \A x : x \in Pairs(joint) <=> x \in Pairs(last) \/ x \in Pairs(span)
      BY <2>2, <3>1
    <3>3. \A x : (\E i \in 1 .. Len(t.done) : x \in Pairs(t.done[i]))
                   <=> (\E i \in 1 .. Len(front) : x \in Pairs(front[i])) \/ x \in Pairs(last)
      <4> DEFINE n == Len(t.done)
      <4>1. n \in Nat /\ n > 0 /\ Len(front) = n - 1
        BY <1>9, <1>14
      <4> HIDE DEF n
      <4>2. n \in 1 .. n /\ \A i \in 1 .. n : i = n \/ i \in 1 .. n - 1
        BY <4>1
      <4>3. \A i \in 1 .. n - 1 : i \in 1 .. n
        BY <4>1
      <4>4. last = t.done[n] /\ \A i \in 1 .. n - 1 : front[i] = t.done[i]
        BY <1>9, <1>14 DEF n
      <4>5. \A x : (\E i \in 1 .. n : x \in Pairs(t.done[i]))
                     <=> (\E i \in 1 .. n - 1 : x \in Pairs(front[i])) \/ x \in Pairs(last)
        BY <4>2, <4>3, <4>4
      <4> QED
        BY <4>1, <4>5 DEF n
    <3>4. \A x : (\E i \in 1 .. Len(r.done) : x \in Pairs(r.done[i]))
                   <=> \E a \in T2 : x \in Pairs(a)
      BY <1>7, <1>8, <2>3, <2>4, <3>2, <3>3
    <3> QED
      BY <2>4, <3>4 DEF Gathered, T2, r
  <2>5. CASE pad
    <3>1. Len(r.done) = 1
      BY <1>8, <1>9, <1>14, <2>3, <2>5
    <3>2. last.put <= span.put
      BY <1>3, <1>4, <1>9, <1>10, <1>14
    <3>3. (\A a \in T2 : joint.put <= a.put) /\ (\E a \in T2 : a.put = joint.put)
      BY <1>7, <1>8, <1>14, <2>1, <2>5, <3>2
    <3> DEFINE Zero(x, b, S) == x = <<b, 0>> /\ \A a \in S : ~ Covers(a, b)
    <3>4. /\ \A x : x \in Pairs(last)
               <=> \/ \E a \in T : x \in Pairs(a)
                   \/ \E b \in last.put .. SpanEnd(last) - 1 : Zero(x, b, T)
      BY <1>8, <1>14, <2>5
    <3>5. \A b \in last.put .. SpanEnd(last) - 1 : ~ Covers(span, b) /\ b \in last.put .. SpanEnd(span) - 1
      BY <1>3, <1>4, <1>9, <1>10, <1>14 DEF Covers
    <3>6. \A b \in SpanEnd(last) .. (span.put - 1) :
             b \in last.put .. SpanEnd(span) - 1 /\ ~ Covers(span, b) /\ \A a \in T : ~ Covers(a, b)
      <4> SUFFICES ASSUME NEW b \in SpanEnd(last) .. (span.put - 1)
                   PROVE  /\ b \in last.put .. SpanEnd(span) - 1 /\ ~ Covers(span, b)
                          /\ \A a \in T : ~ Covers(a, b)
        OBVIOUS
      <4>1. b \in Int /\ SpanEnd(last) <= b /\ b < span.put
        BY <1>3, <1>4, <1>9, <1>14
      <4>2. b \in last.put .. SpanEnd(span) - 1 /\ ~ Covers(span, b)
        BY <1>3, <1>4, <1>9, <1>14, <4>1 DEF Covers
      <4>3. ASSUME NEW a \in T PROVE ~ Covers(a, b)
        <5>1. SpanEnd(a) <= SpanEnd(last) /\ SpanEnd(a) \in Nat
          BY <1>1, <1>4, <1>11, <1>14
        <5> QED
          BY <1>9, <1>14, <4>1, <5>1 DEF Covers
      <4> QED
        BY <4>2, <4>3
    <3>7. \A b \in last.put .. SpanEnd(span) - 1 :
             \/ b \in last.put .. SpanEnd(last) - 1
             \/ b \in SpanEnd(last) .. (span.put - 1)
             \/ Covers(span, b)
      BY <1>3, <1>4, <1>9, <1>10, <1>14 DEF Covers
    <3>8. ASSUME NEW x
          PROVE  x \in Pairs(joint)
                   <=> \/ \E a \in T2 : x \in Pairs(a)
                       \/ \E b \in last.put .. SpanEnd(span) - 1 : Zero(x, b, T2)
      <4>1. \A b : Zero(x, b, T2) <=> Zero(x, b, T) /\ ~ Covers(span, b)
        BY <1>7
      <4>2. (\E a \in T2 : x \in Pairs(a)) <=> (\E a \in T : x \in Pairs(a)) \/ x \in Pairs(span)
        BY <1>7
      <4>3. ASSUME x \in Pairs(joint)
            PROVE  \/ \E a \in T2 : x \in Pairs(a)
                   \/ \E b \in last.put .. SpanEnd(span) - 1 : Zero(x, b, T2)
        <5>1. CASE x \in Pairs(last)
          BY <3>4, <3>5, <4>1, <4>2, <5>1
        <5>2. CASE x \in Pairs(span)
          BY <4>2, <5>2
        <5>3. CASE \E b \in SpanEnd(last) .. (span.put - 1) : x = <<b, 0>>
          BY <3>6, <4>1, <5>3
        <5> QED
          BY <2>2, <4>3, <5>1, <5>2, <5>3
      <4>4. ASSUME \E a \in T2 : x \in Pairs(a) PROVE x \in Pairs(joint)
        BY <2>2, <3>4, <4>2, <4>4
      <4>5. ASSUME NEW b \in last.put .. SpanEnd(span) - 1, Zero(x, b, T2) PROVE x \in Pairs(joint)
        BY <2>2, <3>4, <3>7, <4>1, <4>5
      <4> HIDE DEF Zero
      <4> QED
        BY <4>3, <4>4, <4>5
    <3>9. \A x : x \in Pairs(joint)
                   <=> \/ \E a \in T2 : x \in Pairs(a)
                       \/ \E b \in joint.put .. SpanEnd(joint) - 1 :
                            x = <<b, 0>> /\ \A a \in T2 : ~ Covers(a, b)
      BY <2>1, <3>8
    <3> QED
      BY <2>3, <2>5, <3>1, <3>3, <3>9 DEF Gathered, T2, r
  <2> QED
    BY <2>4, <2>5
<1> QED
  BY <1>6, <1>12, <1>13, <1>14

\* In the end all of the spans have been joined.
LEMMA CoalescedHolds ==
    ASSUME Sortable(AllSpans), IsFiniteSet(AllSpans), ~ Overlapping(AllSpans), NEW pad \in BOOLEAN
    PROVE  LET t == Coalesced(pad) IN
           t.left = {} /\ Joining(t, AllSpans) /\ Gathered(t, AllSpans, pad)
<1> DEFINE A == AllSpans
           N == Cardinality(A)
           joined == JoinedOf(A, pad)
           T == {n \in Nat : n <= N => Gathered(joined[n], A, pad)}
<1> HIDE DEF A
<1>1. Sortable(A) /\ IsFiniteSet(A) /\ ~ Overlapping(A)
  BY DEF A
<1>2. /\ N \in Nat /\ joined[N].left = {}
      /\ \A n \in 0 .. N : Joining(joined[n], A) /\ (n < N => joined[n].left # {})
  BY <1>1, AllJoined
<1>3. /\ joined[0] = [left |-> A, done |-> << >>, wrong |-> FALSE]
      /\ \A n \in 1 .. N : joined[n] = Joined(joined[n - 1], pad)
  BY <1>2, JoinedStep
<1>4. Coalesced(pad) = joined[N]
  BY DEF Coalesced, JoinedOf, A
<1> HIDE DEF joined, N
<1>5. 0 \in T
  <2> DEFINE base == [left |-> A, done |-> << >>, wrong |-> FALSE]
  <2>1. base.left = A /\ base.done = << >> /\ Len(<< >>) = 0
    BY EmptySeq
  <2> HIDE DEF base
  <2>2. Gathered(base, A, pad)
    BY <2>1 DEF Gathered
  <2> QED
    BY <1>3, <2>2 DEF base
<1>6. ASSUME NEW n \in Nat, n \in T
      PROVE  n + 1 \in T
  <2> SUFFICES ASSUME n + 1 <= N PROVE Gathered(joined[n + 1], A, pad)
    OBVIOUS
  <2>1. n + 1 \in 1 .. N /\ (n + 1) - 1 = n /\ n <= N /\ n \in 0 .. N /\ n < N
    BY <1>2
  <2>2. /\ Gathered(joined[n], A, pad) /\ joined[n + 1] = Joined(joined[n], pad)
        /\ Joining(joined[n], A) /\ joined[n].left # {}
    BY <1>2, <1>3, <1>6, <2>1
  <2> QED
    BY <1>1, <2>2, GatheredStep
<1>7. Gathered(joined[N], A, pad)
  <2>1. \A n \in Nat : n \in T
    <3> HIDE DEF T
    <3> QED
      BY <1>5, <1>6, SetInduction
  <2> QED
    BY <1>2, <2>1
<1>8. Joining(joined[N], A)
  BY <1>2
<1> QED
  BY <1>2, <1>4, <1>7, <1>8 DEF A

\* What was emitted, by address.
EmissionOf(m) == {<<c.at, c.byte>> : c \in Range(m)}
AddressesOf(m) == {c.at : c \in Range(m)}
PaddedOf(m) ==
    IF m = << >> THEN {}
    ELSE EmissionOf(m)
           \cup {<<a, 0>> : a \in (Min(AddressesOf(m)) .. Max(AddressesOf(m))) \ AddressesOf(m)}

LEMMA EmissionPairs ==
    ASSUME NEW A, NEW n \in Nat, NEW m \in Seq(Cell), Ledger(A, n, m)
    PROVE  /\ \A x : x \in EmissionOf(m) <=> \E a \in A : x \in Pairs(a)
           /\ AddressesOf(m) \in SUBSET Nat
           /\ \A b \in Nat : b \in AddressesOf(m) <=> \E a \in A : Covers(a, b)
           /\ m = << >> <=> A = {}
<1>1. Range(m) = InMem(m)
  <2>1. DOMAIN m = 1 .. Len(m)
    BY LenProperties
  <2> QED
    BY <2>1 DEF Range, InMem
<1>2. /\ A \subseteq SpanType /\ \A a \in A : a.data # << >>
      /\ \A c : c \in InMem(m) <=> \E a \in A : c \in CellsOf(a)
  BY DEF Ledger
<1>3. ASSUME NEW x PROVE x \in EmissionOf(m) <=> \E a \in A : x \in Pairs(a)
  <2>1. x \in EmissionOf(m) <=> \E c \in InMem(m) : x = <<c.at, c.byte>>
    BY <1>1 DEF EmissionOf
  <2>2. ASSUME NEW a \in A
        PROVE  x \in Pairs(a) <=> \E c \in CellsOf(a) : x = <<c.at, c.byte>>
    <3> DEFINE c(i) == [at |-> a.put + i - 1, byte |-> a.data[i]]
               N == Len(a.data)
    <3>1. \A i : c(i).at = a.put + i - 1 /\ c(i).byte = a.data[i]
      OBVIOUS
    <3>2. x \in Pairs(a) <=> \E i \in 1 .. N : x = <<a.put + i - 1, a.data[i]>>
      BY DEF Pairs
    <3>3. \A e : e \in CellsOf(a) <=> \E i \in 1 .. N : e = c(i)
      BY DEF CellsOf
    <3> HIDE DEF c, N
    <3> QED
      BY <3>1, <3>2, <3>3
  <2> QED
    BY <1>2, <2>1, <2>2
<1>4. AddressesOf(m) \in SUBSET Nat
  <2>1. \A c \in InMem(m) : c \in Cell
    BY ElementOfSeq DEF InMem
  <2>2. \A c \in Cell : c.at \in Nat
    BY DEF Cell
  <2> QED
    BY <1>1, <2>1, <2>2 DEF AddressesOf
<1>5. ASSUME NEW b \in Nat PROVE b \in AddressesOf(m) <=> \E a \in A : Covers(a, b)
  <2>1. b \in AddressesOf(m) <=> \E v : <<b, v>> \in EmissionOf(m)
    BY DEF AddressesOf, EmissionOf
  <2>2. \A a \in A : Covers(a, b) <=> \E v : <<b, v>> \in Pairs(a)
    <3> SUFFICES ASSUME NEW a \in A PROVE Covers(a, b) <=> \E v : <<b, v>> \in Pairs(a)
      OBVIOUS
    <3>1. a \in SpanType
      BY <1>2
    <3>2. \A v : <<b, v>> \in Pairs(a) => Covers(a, b)
      <4> SUFFICES ASSUME NEW v, <<b, v>> \in Pairs(a) PROVE Covers(a, b)
        OBVIOUS
      <4>1. PICK d \in Nat : Covers(a, d) /\ <<b, v>>[1] = d
        BY <3>1, PairsCovered
      <4> QED
        BY <4>1
    <3> QED
      BY <3>1, <3>2, PairsCovered
  <2> QED
    BY <1>3, <2>1, <2>2
<1>6. m = << >> <=> A = {}
  <2>1. m = << >> => InMem(m) = {}
    BY EmptySeq DEF InMem
  <2>2. m # << >> => m[1] \in InMem(m)
    BY EmptySeq DEF InMem
  <2>3. \A a \in A : \E c : c \in CellsOf(a)
    <3> SUFFICES ASSUME NEW a \in A PROVE \E c : c \in CellsOf(a)
      OBVIOUS
    <3>1. a.data # << >> /\ a.data \in Seq(Byte)
      BY <1>2, SpanFacts
    <3>2. 1 \in 1 .. Len(a.data)
      BY <3>1, EmptySeq
    <3> QED
      BY <3>2 DEF CellsOf
  <2> QED
    BY <1>2, <2>1, <2>2, <2>3
<1> QED
  BY <1>3, <1>4, <1>5, <1>6

LEMMA GreatestElement ==
    ASSUME NEW S, NEW k \in S, S \subseteq Nat, \A y \in S : k >= y
    PROVE  Max(S) = k
<1>1. k \in S /\ \A y \in S : k >= y
  OBVIOUS
<1>2. \A z \in S : (\A y \in S : z >= y) => z = k
  BY <1>1
<1> QED
  BY <1>1, <1>2 DEF Max

\* With the gaps padded there is one span, from the first address to the last.
LEMMA PaddedSpan ==
    ASSUME NEW A, Sortable(A), NEW n \in Nat, NEW m \in Seq(Cell), Ledger(A, n, m),
           NEW t, t.left = {}, Joining(t, A), Gathered(t, A, TRUE), ~ Overlapping(A)
    PROVE  \/ t.done = << >> /\ m = << >>
           \/ \E d \in SpanType :
                 /\ t.done = <<d>> /\ m # << >>
                 /\ d.put = Min(AddressesOf(m)) /\ SpanEnd(d) = Max(AddressesOf(m)) + 1
                 /\ d.put \in AddressesOf(m) /\ Max(AddressesOf(m)) \in AddressesOf(m)
                 /\ Pairs(d) = PaddedOf(m)
<1>1. /\ \A x : x \in EmissionOf(m) <=> \E a \in A : x \in Pairs(a)
      /\ AddressesOf(m) \in SUBSET Nat
      /\ \A b \in Nat : b \in AddressesOf(m) <=> \E a \in A : Covers(a, b)
      /\ m = << >> <=> A = {}
  BY EmissionPairs
<1>2. /\ t.done \in Seq(SpanType) /\ (t.done = << >> <=> A = {}) /\ A \ t.left = A
      /\ ~ t.wrong
      /\ t.done # << >> => /\ \A a \in A : SpanEnd(a) <= SpanEnd(Last(t.done))
                           /\ \E a \in A : SpanEnd(a) = SpanEnd(Last(t.done))
  BY DEF Joining
<1>3. CASE t.done = << >>
  BY <1>1, <1>2, <1>3
<1>4. CASE t.done # << >>
  <2> DEFINE d == Last(t.done)
             B == AddressesOf(m)
  <2>1. /\ Len(t.done) = 1
        /\ \A a \in A : d.put <= a.put
        /\ \E a \in A : a.put = d.put
        /\ \A x : x \in Pairs(d)
             <=> \/ \E a \in A : x \in Pairs(a)
                 \/ \E b \in d.put .. SpanEnd(d) - 1 : x = <<b, 0>> /\ \A a \in A : ~ Covers(a, b)
    BY <1>2, <1>4 DEF Gathered
  <2>2. d \in SpanType /\ d.put \in Nat /\ SpanEnd(d) \in Nat
    BY <1>2, <1>4, FrontLast, SpanFacts
  <2>3. t.done = <<d>>
    BY <1>2, <2>1, <2>2 DEF Last
  <2>4. \A a \in A : a.put \in Nat /\ SpanEnd(a) \in Nat /\ a.put < SpanEnd(a)
    BY SpanFacts DEF Sortable
  <2>5. m # << >>
    BY <1>1, <1>2, <1>4
  <2>6. /\ \A a \in A : SpanEnd(a) <= SpanEnd(d)
        /\ \E a \in A : SpanEnd(a) = SpanEnd(d)
    BY <1>2, <1>4
  <2> HIDE DEF d, B
  <2>7. B \in SUBSET Nat /\ \A b \in Nat : b \in B <=> \E a \in A : Covers(a, b)
    BY <1>1 DEF B
  <2>8. d.put \in B
    <3>1. PICK a \in A : a.put = d.put
      BY <2>1
    <3>2. Covers(a, d.put)
      BY <2>2, <2>4, <3>1 DEF Covers
    <3> QED
      BY <2>2, <2>7, <3>2
  <2>9. SpanEnd(d) - 1 \in B
    <3>1. PICK a \in A : SpanEnd(a) = SpanEnd(d)
      BY <2>6
    <3>2. Covers(a, SpanEnd(d) - 1) /\ SpanEnd(d) - 1 \in Nat
      BY <2>2, <2>4, <3>1 DEF Covers
    <3> QED
      BY <2>7, <3>2
  <2>10. \A b \in B : d.put <= b /\ b <= SpanEnd(d) - 1
    <3> SUFFICES ASSUME NEW b \in B PROVE d.put <= b /\ b <= SpanEnd(d) - 1
      OBVIOUS
    <3>1. b \in Nat
      BY <2>7
    <3>2. PICK a \in A : Covers(a, b)
      BY <2>7, <3>1
    <3>3. d.put <= a.put /\ SpanEnd(a) <= SpanEnd(d) /\ a.put \in Nat /\ SpanEnd(a) \in Nat
      BY <2>1, <2>4, <2>6
    <3> QED
      BY <2>2, <3>1, <3>2, <3>3 DEF Covers
  <2>11. Min(B) = d.put
    <3>1. Min(B) \in Nat /\ Min(B) \in B /\ \A y \in B : Min(B) <= y
      BY <2>7, <2>8, LeastElement, Zenon
    <3> QED
      BY <2>2, <2>8, <2>10, <3>1
  <2>12. Max(B) = SpanEnd(d) - 1
    <3>1. \A y \in B : SpanEnd(d) - 1 >= y
      BY <2>2, <2>7, <2>10
    <3> QED
      BY <2>7, <2>9, <3>1, GreatestElement
  <2>13. \A b \in d.put .. SpanEnd(d) - 1 : b \notin B <=> \A a \in A : ~ Covers(a, b)
    BY <2>2, <2>7
  <2>14. PaddedOf(m) = EmissionOf(m) \cup {<<b, 0>> : b \in (d.put .. SpanEnd(d) - 1) \ B}
    BY <2>5, <2>11, <2>12 DEF PaddedOf, B
  <2>15. Pairs(d) = PaddedOf(m)
    <3>1. \A x : x \in Pairs(d) <=> x \in PaddedOf(m)
      BY <1>1, <2>1, <2>13, <2>14
    <3> QED
      BY <3>1 DEF Pairs, PaddedOf
  <2>16. SpanEnd(d) = Max(B) + 1
    BY <2>2, <2>12
  <2> QED
    BY <2>2, <2>3, <2>5, <2>8, <2>9, <2>11, <2>12, <2>15, <2>16 DEF B
<1> QED
  BY <1>3, <1>4

-----------------------------------------------------------------------------
(* Records. *)
\* What is in sequences that are put together.
Member(s, x) == \E i \in 1 .. Len(s) : x = s[i]

LEMMA FlattenElements ==
    ASSUME NEW S, NEW seqs \in Seq(Seq(S)), NEW x
    PROVE  Member(FlattenSeq(seqs), x) <=> \E j \in 1 .. Len(seqs) : Member(seqs[j], x)
<1> DEFINE k == Len(seqs)
           In(s) == \E i \in 1 .. Len(s) : x = s[i]
<1> USE DEF Member
<1>1. k \in Nat /\ \A i \in 1 .. k : seqs[i] \in Seq(S)
  BY LenProperties
<1>2. ASSUME NEW s \in Seq(S), NEW t \in Seq(S)
      PROVE  s \o t \in Seq(S) /\ (In(s \o t) <=> In(s) \/ In(t))
  <2> DEFINE a == Len(s)
             b == Len(t)
             st == s \o t
  <2>1. /\ a \in Nat /\ b \in Nat /\ st \in Seq(S) /\ Len(st) = a + b
        /\ \A i \in 1 .. a + b : st[i] = IF i <= a THEN s[i] ELSE t[i - a]
    BY LenProperties, ConcatProperties
  <2> HIDE DEF a, b, st
  <2>2. ASSUME NEW i \in 1 .. a + b, x = st[i] PROVE In(s) \/ In(t)
    <3>1. CASE i <= a
      <4>1. i \in 1 .. a /\ x = s[i]
        BY <2>1, <2>2, <3>1
      <4> QED
        BY <4>1 DEF a
    <3>2. CASE i > a
      <4>1. i - a \in 1 .. b /\ x = t[i - a]
        BY <2>1, <2>2, <3>2
      <4> QED
        BY <4>1 DEF b
    <3> QED
      BY <2>1, <3>1, <3>2
  <2>3. ASSUME NEW i \in 1 .. a, x = s[i] PROVE \E j \in 1 .. a + b : x = st[j]
    <3>1. i \in 1 .. a + b /\ i <= a
      BY <2>1
    <3> QED
      BY <2>1, <2>3, <3>1
  <2>4. ASSUME NEW i \in 1 .. b, x = t[i] PROVE \E j \in 1 .. a + b : x = st[j]
    <3>1. i + a \in 1 .. a + b /\ ~ (i + a <= a) /\ (i + a) - a = i
      BY <2>1
    <3>2. st[i + a] = x
      BY <2>1, <2>4, <3>1
    <3> QED
      BY <3>1, <3>2
  <2> QED
    BY <2>1, <2>2, <2>3, <2>4 DEF a, b, st
<1>3. CASE k = 0
  BY <1>3 DEF FlattenSeq
<1>4. CASE k # 0
  <2> DEFINE f == Flat(seqs)
             Good(n) == f[n] \in Seq(S) /\ (In(f[n]) <=> \E j \in 1 .. n : In(seqs[j]))
             T == {n \in Nat : n \in 1 .. k => Good(n)}
  <2>1. /\ FlattenSeq(seqs) = f[k] /\ f[1] = seqs[1]
        /\ \A i \in 2 .. k : f[i] = f[i - 1] \o seqs[i]
    BY <1>1, <1>4, FlatStep
  <2> HIDE DEF f, k, In
  <2>2. 0 \in T
    BY <1>1
  <2>3. ASSUME NEW n \in Nat, n \in T
        PROVE  n + 1 \in T
    <3> SUFFICES ASSUME n + 1 \in 1 .. k PROVE Good(n + 1)
      OBVIOUS
    <3>1. CASE n = 0
      <4>1. 1 \in 1 .. k /\ n + 1 = 1 /\ 1 .. 1 = {1}
        BY <1>1, <3>1
      <4> QED
        BY <1>1, <2>1, <4>1
    <3>2. CASE n # 0
      <4> DEFINE i == n + 1
      <4>1. i \in 2 .. k /\ i - 1 = n /\ n \in 1 .. k /\ i \in 1 .. k
        BY <1>1, <3>2
      <4>2. \A j : j \in 1 .. i <=> j \in 1 .. n \/ j = i
        BY <1>1
      <4> HIDE DEF i
      <4>3. f[i] = f[n] \o seqs[i] /\ Good(n) /\ seqs[i] \in Seq(S)
        BY <1>1, <2>1, <2>3, <4>1
      <4>4. f[i] \in Seq(S) /\ (In(f[i]) <=> In(f[n]) \/ In(seqs[i]))
        BY <1>2, <4>3
      <4>5. In(f[i]) <=> \E j \in 1 .. i : In(seqs[j])
        BY <4>2, <4>3, <4>4
      <4> QED
        BY <4>4, <4>5 DEF i
    <3> QED
      BY <3>1, <3>2
  <2>4. k \in T
    <3>1. \A n \in Nat : n \in T
      <4> HIDE DEF T
      <4> QED
        BY <2>2, <2>3, SetInduction
    <3> QED
      BY <1>1, <3>1
  <2>5. k \in 1 .. k
    BY <1>1, <1>4
  <2> QED
    BY <2>1, <2>4, <2>5 DEF In, k
<1> QED
  BY <1>3, <1>4

\* The recursion of Sum has a solution; sums of bytes are numbers.
LEMMA SumType ==
    ASSUME NEW bytes \in Seq(Byte)
    PROVE  Sum(bytes) \in Nat
<1> DEFINE Solves(f, m) == f = [n \in 0 .. m |-> IF n = 0 THEN 0 ELSE f[n - 1] + bytes[n]]
           T == {m \in Nat : \E f : Solves(f, m)}
           P == CHOOSE sum : sum = [n \in 0 .. Len(bytes) |->
                                      IF n = 0 THEN 0 ELSE sum[n - 1] + bytes[n]]
           N == Len(bytes)
<1>1. 0 \in T
  <2>1. Solves([i \in 0 .. 0 |-> 0], 0)
    OBVIOUS
  <2> QED
    BY <2>1
<1>2. ASSUME NEW m \in Nat, m \in T
      PROVE  m + 1 \in T
  <2>1. PICK f : Solves(f, m)
    BY <1>2
  <2> DEFINE e == f[m] + bytes[m + 1]
             g == [i \in 0 .. (m + 1) |-> IF i = m + 1 THEN e ELSE f[i]]
  <2>2. ASSUME NEW i \in 0 .. (m + 1)
        PROVE  g[i] = IF i = 0 THEN 0 ELSE g[i - 1] + bytes[i]
    <3>1. CASE i = m + 1
      <4>1. i # 0 /\ i - 1 = m /\ g[i - 1] = f[m] /\ g[i] = e
        BY <3>1
      <4> QED
        BY <3>1, <4>1
    <3>2. CASE i # m + 1
      <4>1. i \in 0 .. m /\ g[i] = f[i] /\ (i # 0 => g[i - 1] = f[i - 1])
        BY <3>2
      <4>2. f[i] = IF i = 0 THEN 0 ELSE f[i - 1] + bytes[i]
        BY <2>1, <4>1
      <4> QED
        BY <4>1, <4>2
    <3> QED
      BY <3>1, <3>2
  <2>3. g = [i \in 0 .. (m + 1) |-> g[i]]
    OBVIOUS
  <2> HIDE DEF g
  <2>4. Solves(g, m + 1)
    BY <2>2, <2>3
  <2> HIDE DEF Solves
  <2> QED
    BY <2>4
<1>3. N \in Nat /\ \A i \in 1 .. N : bytes[i] \in Nat
  <2>1. N \in Nat /\ \A i \in 1 .. N : bytes[i] \in Byte
    BY LenProperties, ElementOfSeq
  <2>2. \A b \in Byte : b \in Nat
    BY DEF Byte
  <2> QED
    BY <2>1, <2>2
<1>4. N \in T
  <2> HIDE DEF T, N
  <2> QED
    BY <1>1, <1>2, <1>3, SetInduction
<1>5. Solves(P, N)
  BY <1>4
<1>6. Sum(bytes) = P[N]
  BY DEF Sum
<1> HIDE DEF P, N
<1>7. \A n \in 0 .. N : P[n] = IF n = 0 THEN 0 ELSE P[n - 1] + bytes[n]
  BY <1>5
<1> DEFINE U == {n \in Nat : n <= N => P[n] \in Nat}
<1>8. 0 \in U
  BY <1>3, <1>7
<1>9. ASSUME NEW n \in Nat, n \in U
      PROVE  n + 1 \in U
  <2> SUFFICES ASSUME n + 1 <= N PROVE P[n + 1] \in Nat
    OBVIOUS
  <2>1. n + 1 \in 1 .. N /\ n + 1 \in 0 .. N /\ (n + 1) - 1 = n /\ n <= N /\ n + 1 # 0
    BY <1>3
  <2>2. P[n + 1] = P[n] + bytes[n + 1] /\ P[n] \in Nat /\ bytes[n + 1] \in Nat
    BY <1>3, <1>7, <1>9, <2>1
  <2> QED
    BY <2>2
<1>10. N \in U
  <2>1. \A n \in Nat : n \in U
    <3> HIDE DEF U
    <3> QED
      BY <1>8, <1>9, SetInduction
  <2> QED
    BY <1>3, <2>1
<1> QED
  BY <1>3, <1>6, <1>10

\* The bytes of a span as records, with their addresses.
Record == [put : Nat, data : Seq(Byte)]

LEMMA LesserOfTwo ==
    ASSUME NEW a \in Nat, NEW b \in Nat
    PROVE  Min({a, b}) = IF a <= b THEN a ELSE b
<1>1. Min({a, b}) \in {a, b} /\ \A y \in {a, b} : Min({a, b}) <= y
  BY LeastElement
<1> QED
  BY <1>1

LEMMA InBlocks ==
    ASSUME NEW n \in Nat
    PROVE  n \div 32 \in Nat /\ (n \div 32) * 32 <= n /\ n < (n \div 32) * 32 + 32
OBVIOUS

\* Chunk k holds the bytes k * 32 + 1 to (k + 1) * 32, as far as there are any.
LEMMA ChunkFacts ==
    ASSUME NEW span \in SpanType, NEW k \in Nat, k * 32 < Len(span.data)
    PROVE  LET c == Chunk(span, k)
               n == Len(c.data) IN
           /\ c \in Record /\ c.put = span.put + k * 32 /\ n \in Nat /\ 1 <= n /\ n <= 32
           /\ k * 32 + n <= Len(span.data)
           /\ n = 32 \/ k * 32 + n = Len(span.data)
           /\ \A i \in 1 .. n : c.data[i] = span.data[k * 32 + i]
<1> DEFINE N == Len(span.data)
           last == IF (k + 1) * 32 <= N THEN (k + 1) * 32 ELSE N
           bytes == SubSeq(span.data, k * 32 + 1, last)
<1>1. N \in Nat /\ span.data \in Seq(Byte) /\ span.put \in Nat
  BY SpanFacts
<1>2. (k + 1) * 32 \in Nat /\ k * 32 \in Nat /\ (k + 1) * 32 = k * 32 + 32
  OBVIOUS
<1>3. Bytes(span, k) = bytes
  BY <1>1, <1>2, LesserOfTwo DEF Bytes, RecordBytes
<1>4. last \in Nat /\ k * 32 < last /\ last <= N /\ last <= k * 32 + 32
      /\ (last = k * 32 + 32 \/ last = N)
  BY <1>1, <1>2
<1> HIDE DEF last
<1>5. \A i \in k * 32 + 1 .. last : span.data[i] \in Byte
  <2>1. \A i \in k * 32 + 1 .. last : i \in 1 .. N
    BY <1>1, <1>2, <1>4
  <2> QED
    BY <1>1, <2>1, ElementOfSeq
<1>6. /\ bytes \in Seq(Byte) /\ Len(bytes) = last - k * 32
      /\ \A i \in 1 .. last - k * 32 : bytes[i] = span.data[k * 32 + i]
  <2> DEFINE m == k * 32 + 1
  <2>1. m \in Int /\ m <= last /\ last - m + 1 = last - k * 32 /\ \A i \in Nat : m + i - 1 = k * 32 + i
    BY <1>2, <1>4
  <2> HIDE DEF m
  <2>2. /\ SubSeq(span.data, m, last) \in Seq(Byte)
        /\ Len(SubSeq(span.data, m, last)) = last - m + 1
        /\ \A i \in 1 .. last - m + 1 : SubSeq(span.data, m, last)[i] = span.data[m + i - 1]
    BY <1>4, <1>5, <2>1, SubSeqProperties DEF m
  <2>3. \A i \in 1 .. last - k * 32 : i \in Nat
    BY <1>4
  <2>4. bytes = SubSeq(span.data, m, last)
    BY DEF m
  <2> HIDE DEF bytes
  <2> QED
    BY <2>1, <2>2, <2>3, <2>4
<1> DEFINE c == Chunk(span, k)
<1>7. c.put = span.put + k * 32 /\ c.data = bytes /\ c \in Record
  BY <1>1, <1>2, <1>3, <1>6, SMTT(30) DEF Chunk, Record, RecordBytes
<1> HIDE DEF c, bytes, N
<1> DEFINE n == Len(c.data)
<1>8. n = last - k * 32
  BY <1>6, <1>7
<1> HIDE DEF n
<1>9. /\ n \in Nat /\ 1 <= n /\ n <= 32 /\ k * 32 + n <= N /\ (n = 32 \/ k * 32 + n = N)
  BY <1>1, <1>2, <1>4, <1>8
<1>10. \A i \in 1 .. n : c.data[i] = span.data[k * 32 + i]
  BY <1>6, <1>7, <1>8
<1> QED
  BY <1>7, <1>9, <1>10 DEF c, N, n

LEMMA ChunkPairs ==
    ASSUME NEW span \in SpanType
    PROVE  /\ Chunks(span) \in Seq(Record)
           /\ \A j \in 1 .. Len(Chunks(span)) : Chunks(span)[j].data # << >> /\ Len(Chunks(span)[j].data) <= 32
           /\ \A x : x \in Pairs(span)
                <=> \E j \in 1 .. Len(Chunks(span)) : x \in Pairs(Chunks(span)[j])
<1> DEFINE N == Len(span.data)
           K == (N + 31) \div 32
           chunks == Chunks(span)
<1>1. N \in Nat /\ span.data \in Seq(Byte) /\ span.put \in Nat
  BY SpanFacts
<1>2. N + 32 - 1 = N + 31 /\ K \in Nat /\ K * 32 < N + 32 /\ N <= K * 32
  <2> HIDE DEF N
  <2>1. N + 31 \in Nat
    BY <1>1
  <2> QED
    BY <1>1, <2>1, InBlocks
<1>3. chunks = [k \in 1 .. K |-> Chunk(span, k - 1)]
  BY <1>1, <1>2 DEF Chunks, RecordBytes
<1> HIDE DEF K, chunks, N
<1>4. ASSUME NEW j \in 1 .. K
      PROVE  j - 1 \in Nat /\ (j - 1) * 32 < N
  BY <1>1, <1>2
<1> DEFINE c(j) == Chunk(span, j - 1)
<1>5. ASSUME NEW j \in 1 .. K
      PROVE  LET n == Len(c(j).data) IN
             /\ c(j) \in Record /\ c(j).put = span.put + (j - 1) * 32
             /\ n \in Nat /\ 1 <= n /\ n <= 32
             /\ (j - 1) * 32 + n <= N
             /\ n = 32 \/ (j - 1) * 32 + n = N
             /\ \A i \in 1 .. n : c(j).data[i] = span.data[(j - 1) * 32 + i]
  BY <1>4, <1>5, ChunkFacts DEF N
<1> HIDE DEF c
<1>6. chunks = [j \in 1 .. K |-> c(j)]
  BY <1>3 DEF c
<1>7. chunks \in Seq(Record) /\ Len(chunks) = K /\ \A j \in 1 .. K : chunks[j] = c(j)
  <2>1. \A j \in 1 .. K : c(j) \in Record
    BY <1>5
  <2>2. chunks \in [1 .. K -> Record]
    BY <1>6, <2>1
  <2>3. chunks \in Seq(Record)
    BY <1>2, <2>2, IsASeq
  <2> QED
    BY <1>2, <1>6, <2>3, LenProperties
<1>8. ASSUME NEW j \in 1 .. K, NEW x, x \in Pairs(c(j))
      PROVE  x \in Pairs(span)
  <2> DEFINE n == Len(c(j).data)
             b == (j - 1) * 32
  <2>1. b \in Nat /\ n \in Nat /\ b + n <= N /\ c(j).put = span.put + b
        /\ \A i \in 1 .. n : c(j).data[i] = span.data[b + i]
    <3>1. b \in Nat
      BY <1>2, <1>4
    <3> QED
      BY <1>5, <3>1
  <2>2. PICK i \in 1 .. n : x = <<c(j).put + i - 1, c(j).data[i]>>
    BY <1>8 DEF Pairs
  <2> HIDE DEF n, b
  <2>3. b + i \in 1 .. N /\ c(j).put + i - 1 = span.put + (b + i) - 1
    BY <1>1, <2>1, <2>2
  <2>4. x = <<span.put + (b + i) - 1, span.data[b + i]>>
    BY <2>1, <2>2, <2>3
  <2> QED
    BY <2>3, <2>4 DEF Pairs, N
<1>9. ASSUME NEW x, x \in Pairs(span)
      PROVE  \E j \in 1 .. K : x \in Pairs(c(j))
  <2>1. PICK p \in 1 .. N : x = <<span.put + p - 1, span.data[p]>>
    BY <1>9 DEF Pairs, N
  <2> DEFINE q == (p - 1) \div 32
             j == q + 1
             b == (j - 1) * 32
             n == Len(c(j).data)
             i == p - b
  <2>2. q \in Nat /\ q * 32 <= p - 1 /\ p - 1 < q * 32 + 32 /\ b = q * 32
    <3>1. p - 1 \in Nat
      BY <1>1
    <3> QED
      BY <3>1, InBlocks
  <2> HIDE DEF q
  <2>3. j \in 1 .. K /\ b \in Nat /\ i \in Nat /\ 1 <= i /\ i <= 32 /\ b + i = p
    BY <1>1, <1>2, <2>2
  <2>4. n \in Nat /\ b + n <= N /\ c(j).put = span.put + b /\ (n = 32 \/ b + n = N)
        /\ \A k \in 1 .. n : c(j).data[k] = span.data[b + k]
    BY <1>5, <2>3
  <2> HIDE DEF i, n, b, j
  <2>5. i \in 1 .. n
    BY <1>1, <2>3, <2>4
  <2>6. c(j).put + i - 1 = span.put + p - 1 /\ c(j).data[i] = span.data[p]
    <3>1. c(j).data[i] = span.data[b + i]
      BY <2>4, <2>5
    <3>2. c(j).put + i - 1 = span.put + (b + i) - 1
      BY <1>1, <2>3, <2>4
    <3> QED
      BY <2>3, <3>1, <3>2
  <2>7. x = <<c(j).put + i - 1, c(j).data[i]>>
    BY <2>1, <2>6
  <2>8. x \in Pairs(c(j))
    BY <2>5, <2>7 DEF Pairs, n
  <2> QED
    BY <2>3, <2>8
<1>10. \A j \in 1 .. K : chunks[j].data # << >> /\ Len(chunks[j].data) <= 32
  <2> SUFFICES ASSUME NEW j \in 1 .. K PROVE c(j).data # << >> /\ Len(c(j).data) <= 32
    BY <1>7
  <2> DEFINE n == Len(c(j).data)
  <2>1. c(j) \in Record /\ n \in Nat /\ 1 <= n /\ n <= 32
    BY <1>5
  <2> HIDE DEF n
  <2>2. c(j).data \in Seq(Byte)
    BY <2>1 DEF Record
  <2>3. n # 0 /\ n <= 32
    BY <2>1
  <2> QED
    BY <2>2, <2>3, EmptySeq DEF n
<1> QED
  BY <1>7, <1>8, <1>9, <1>10 DEF chunks

\* What FileLoadsCode says of a file, a memory and an address of END.
SumsOK(f) ==
    \A i \in 1 .. Len(f.segments) :
        LET seg == f.segments[i]
            all == (seg.size + Low(seg.addr) + High(seg.addr) + Sum(seg.data) + seg.sum) % 256 IN
        /\ f.format = "srec" => all = 255
        /\ f.format = "hex" => all = 0

LoadedOf(f) ==
    UNION {LET seg == f.segments[i]
               n == IF f.format = "srec" THEN seg.size - 3 ELSE seg.size IN
           {<<seg.addr + k - 1, seg.data[k]>> : k \in 1 .. n} : i \in 1 .. Len(f.segments)}

LoadableAs(format, m) ==
    /\ ~ TwiceIn(m)
    /\ \A a \in AddressesOf(m) : a < 65536
    /\ format \in {"dragondos", "coco"} => ~ {0, 65535} \subseteq AddressesOf(m)

LoadsCode(f, m, e) ==
    /\ SumsOK(f)
    /\ e >= 0 /\ f.format # "binary" => f.exec = e % 65536
    /\ CASE f.format = "binary" ->
              LET data == f.segments[1].data IN
              {<<Min(AddressesOf(m)) + k - 1, data[k]>> : k \in 1 .. Len(data)} = PaddedOf(m)
         [] f.format = "dragondos" -> LoadedOf(f) = PaddedOf(m)
         [] OTHER -> LoadedOf(f) = EmissionOf(m)

Loading == file # NoFile /\ LoadableAs(file.format, memory) => LoadsCode(file, memory, exec)

LEMMA LoadingLoads == Loading => FileLoadsCode
<1>1. EmissionOf(memory) = Emission /\ AddressesOf(memory) = Addresses
  BY DEF EmissionOf, Emission, AddressesOf, Addresses
<1>2. PaddedOf(memory) = Padded
  BY <1>1 DEF PaddedOf, Padded
<1>3. LoadedOf(file) = Loaded
  BY DEF LoadedOf, Loaded
<1>4. SumsOK(file) <=> SumsRight
  BY DEF SumsOK, SumsRight
<1>5. LoadableAs(file.format, memory) <=> Loadable
  BY <1>1 DEF LoadableAs, Loadable, TwiceIn, Twice
<1> QED
  BY <1>1, <1>2, <1>3, <1>4, <1>5 DEF Loading, FileLoadsCode, LoadsCode

\* Segments that have the sizes and addresses of records load what the records hold.
SegmentsOf(f, recs, extra) ==
    /\ Len(f.segments) = Len(recs) /\ Len(recs) \in Nat
    /\ \A i \in 1 .. Len(recs) :
         LET n == Len(recs[i].data) IN
         /\ n \in Nat /\ f.segments[i].size = n + extra
         /\ n # 0 => f.segments[i].addr = recs[i].put
         /\ f.segments[i].data = recs[i].data

LEMMA LoadedRecords ==
    ASSUME NEW f, NEW recs, NEW extra \in {0, 3}, f.format = "srec" <=> extra = 3,
           SegmentsOf(f, recs, extra)
    PROVE  \A x : x \in LoadedOf(f) <=> \E i \in 1 .. Len(recs) : x \in Pairs(recs[i])
<1> USE DEF SegmentsOf
<1> SUFFICES ASSUME NEW x
             PROVE  x \in LoadedOf(f) <=> \E i \in 1 .. Len(recs) : x \in Pairs(recs[i])
  OBVIOUS
<1> DEFINE n(i) == IF f.format = "srec" THEN f.segments[i].size - 3 ELSE f.segments[i].size
           Of(i) == {<<f.segments[i].addr + k - 1, f.segments[i].data[k]>> : k \in 1 .. n(i)}
<1>1. x \in LoadedOf(f) <=> \E i \in 1 .. Len(recs) : x \in Of(i)
  BY SMTT(30) DEF LoadedOf
<1>2. ASSUME NEW i \in 1 .. Len(recs)
      PROVE  x \in Of(i) <=> x \in Pairs(recs[i])
  <2> DEFINE l == Len(recs[i].data)
             addr == f.segments[i].addr
             data == recs[i].data
             put == recs[i].put
  <2>1. l \in Nat /\ f.segments[i].size = l + extra /\ (l # 0 => addr = put)
        /\ f.segments[i].data = data
    OBVIOUS
  <2>2. n(i) = l
    BY <2>1
  <2> HIDE DEF l, addr, n
  <2>3. x \in Of(i) <=> \E k \in 1 .. l : x = <<addr + k - 1, data[k]>>
    BY <2>1, <2>2 DEF addr
  <2>4. x \in Pairs(recs[i]) <=> \E k \in 1 .. l : x = <<put + k - 1, data[k]>>
    BY DEF Pairs, l
  <2>5. CASE l = 0
    BY <2>3, <2>4, <2>5
  <2>6. CASE l # 0
    BY <2>1, <2>3, <2>4, <2>6
  <2> QED
    BY <2>5, <2>6
<1> QED
  BY <1>1, <1>2

\* The checksums.
LEMMA SumsModulo ==
    ASSUME NEW s \in Nat
    PROVE  (s + (255 - (s % 256))) % 256 = 255 /\ (s + ((256 - (s % 256)) % 256)) % 256 = 0
OBVIOUS

LEMMA ChecksumsRight ==
    ASSUME NEW size \in Nat, NEW addr \in Nat, addr < 65536, NEW data \in Seq(Byte)
    PROVE  LET all(sum) == (size + Low(addr) + High(addr) + Sum(data) + sum) % 256 IN
           all(SrecSum(size, addr, data)) = 255 /\ all(HexSum(size, addr, data, 0)) = 0
<1> DEFINE s == Sum(data)
           l == addr % 256
           h == addr \div 256
           t == size + l + h + s
<1>1. s \in Nat
  BY SumType
<1> HIDE DEF s
<1>2. l \in Nat /\ h \in Nat /\ h % 256 = h
  OBVIOUS
<1> HIDE DEF l, h
<1>3. t \in Nat
  BY <1>1, <1>2
<1>4. SrecSum(size, addr, data) = 255 - (t % 256) /\ HexSum(size, addr, data, 0) = (256 - (t % 256)) % 256
  <2>1. AddressSum(size, addr, data) = t
    BY DEF AddressSum, Low, s, l, h
  <2> HIDE DEF t
  <2>2. t + 0 = t
    BY <1>3
  <2>3. SrecSum(size, addr, data) = 255 - (t % 256)
    BY <2>1 DEF SrecSum, Low
  <2>4. HexSum(size, addr, data, 0) = (256 - ((t + 0) % 256)) % 256
    BY <2>1 DEF HexSum, Low
  <2> QED
    BY <2>2, <2>3, <2>4
<1>5. \A sum : size + Low(addr) + High(addr) + Sum(data) + sum = t + sum
  BY <1>2 DEF Low, High, s, l, h
<1> HIDE DEF t
<1> QED
  BY <1>3, <1>4, <1>5, SumsModulo, SMTT(30)

LEMMA WordFacts ==
    ASSUME NEW n \in Int
    PROVE  /\ Word(n) \in Nat /\ Word(n) < 65536 /\ Word(Word(n)) = Word(n)
           /\ n >= 0 /\ n < 65536 => Word(n) = n
BY DEF Word

\* The size and the address of a span below 64K have 16 bits, when it is not all of the 64K.
LEMMA SpanSize ==
    ASSUME NEW B, \A b \in B : b < 65536, ~ {0, 65535} \subseteq B, NEW a \in SpanType,
           a.data # << >> => a.put \in B /\ SpanEnd(a) - 1 \in B
    PROVE  /\ Word(Len(a.data)) = Len(a.data)
           /\ Len(a.data) # 0 => Word(a.put) = a.put
<1>1. a.put \in Nat /\ Len(a.data) \in Nat /\ SpanEnd(a) = a.put + Len(a.data) /\ a.data \in Seq(Byte)
  BY SpanFacts
<1> DEFINE l == Len(a.data)
           p == a.put
<1>2. l \in Nat /\ p \in Nat /\ (l # 0 => p \in B /\ p + l - 1 \in B)
  BY <1>1, EmptySeq
<1> HIDE DEF l, p
<1>3. l < 65536 /\ (l # 0 => p < 65536)
  <2>1. CASE l = 0
    BY <2>1
  <2>2. CASE l # 0
    <3>1. p < 65536 /\ p + l - 1 < 65536
      BY <1>2, <2>2
    <3>2. ~ (p = 0 /\ p + l - 1 = 65535)
      BY <1>2, <2>2
    <3> QED
      BY <1>2, <2>2, <3>1, <3>2
  <2> QED
    BY <2>1, <2>2
<1>4. Word(l) = l /\ (l # 0 => Word(p) = p)
  BY <1>2, <1>3, WordFacts
<1> QED
  BY <1>4 DEF l, p

\* With an address of END, every file but binary has it.
LEMMA EntryWritten ==
    ASSUME exec \in Int, exec >= 0, NEW format \in Formats, format # "binary", NEW spans
    PROVE  Written(format, spans).exec = Word(exec)
<1> DEFINE start == Word(exec)
<1>1. start \in Nat /\ start >= 0 /\ Word(start) = start
  BY WordFacts
<1>2. format \in {"dragondos", "coco", "srec", "hex"}
  BY CodeAssumption
<1>3. (IF exec >= 0 THEN Word(exec) ELSE -1) = start
  OBVIOUS
<1> HIDE DEF start
<1>4. CASE format = "dragondos"
  BY <1>1, <1>3, <1>4 DEF Written
<1>5. CASE format = "coco"
  BY <1>1, <1>3, <1>5 DEF Written
<1>6. CASE format = "srec"
  BY <1>1, <1>3, <1>6 DEF Written
<1>7. CASE format = "hex"
  BY <1>1, <1>3, <1>7 DEF Written
<1> QED
  BY <1>2, <1>4, <1>5, <1>6, <1>7

LEMMA FormatWritten ==
    ASSUME NEW format \in Formats, NEW spans
    PROVE  Written(format, spans).format = format
BY CodeAssumption DEF Written

FirstOf(spans) == IF spans = << >> THEN Span(0, 0, 0) ELSE Head(spans)

RecordsOf(spans) == FlattenSeq([i \in 1 .. Len(spans) |-> Chunks(spans[i])])

LEMMA BinaryWritten ==
    ASSUME NEW spans
    PROVE  Written("binary", spans).segments = <<Segment(-1, -1, FirstOf(spans).data, -1)>>
BY DEF Written, FirstOf

LEMMA DragonWritten ==
    ASSUME NEW spans
    PROVE  LET first == FirstOf(spans) IN
           Written("dragondos", spans).segments
             = <<Segment(Word(Len(first.data)), Word(first.put), first.data, -1)>>
BY DEF Written, FirstOf

LEMMA CocoWritten ==
    ASSUME NEW spans
    PROVE  Written("coco", spans).segments
             = [i \in 1 .. Len(spans) |->
                  Segment(Word(Len(spans[i].data)), Word(spans[i].put), spans[i].data, -1)]
BY DEF Written

LEMMA SrecWritten ==
    ASSUME NEW spans
    PROVE  LET chunks == RecordsOf(spans) IN
           Written("srec", spans).segments
             = [i \in 1 .. Len(chunks) |->
                  Segment(Len(chunks[i].data) + 3, chunks[i].put, chunks[i].data,
                          SrecSum(Len(chunks[i].data) + 3, chunks[i].put, chunks[i].data))]
BY DEF Written, RecordsOf

LEMMA HexWritten ==
    ASSUME NEW spans
    PROVE  LET chunks == RecordsOf(spans) IN
           Written("hex", spans).segments
             = [i \in 1 .. Len(chunks) |->
                  Segment(Len(chunks[i].data), chunks[i].put, chunks[i].data,
                          HexSum(Len(chunks[i].data), chunks[i].put, chunks[i].data, 0))]
BY DEF Written, RecordsOf

\* The bytes of a span that is part of what was emitted are at addresses of memory.
LEMMA EmittedPairs ==
    ASSUME NEW m, NEW span, span \in SpanType \cup Record, span.data # << >>,
           \A x : x \in Pairs(span) => x \in EmissionOf(m)
    PROVE  span.put \in AddressesOf(m) /\ (span.put + Len(span.data)) - 1 \in AddressesOf(m)
<1> DEFINE n == Len(span.data)
           p == span.put
<1>1. span.data \in Seq(Byte) /\ p \in Nat
  BY DEF SpanType, Record
<1>2. n \in Nat /\ n # 0
  BY <1>1, EmptySeq, LenProperties
<1> HIDE DEF n, p
<1>3. \A k \in 1 .. n : p + k - 1 \in AddressesOf(m)
  <2> SUFFICES ASSUME NEW k \in 1 .. n PROVE p + k - 1 \in AddressesOf(m)
    OBVIOUS
  <2>1. <<p + k - 1, span.data[k]>> \in Pairs(span)
    BY DEF Pairs, n, p
  <2>2. PICK c \in Range(m) : <<p + k - 1, span.data[k]>> = <<c.at, c.byte>>
    BY <2>1 DEF EmissionOf
  <2> QED
    BY <2>2 DEF AddressesOf
<1>4. 1 \in 1 .. n /\ n \in 1 .. n /\ p + 1 - 1 = p /\ (p + n) - 1 = p + n - 1
  BY <1>1, <1>2
<1> QED
  BY <1>3, <1>4 DEF n, p

LEMMA SameSets ==
    ASSUME NEW f, NEW m, \A x : x \in LoadedOf(f) <=> x \in EmissionOf(m)
    PROVE  LoadedOf(f) = EmissionOf(m)
BY DEF LoadedOf, EmissionOf

\* A Color Computer file has a segment for every span.
LEMMA CocoLoads ==
    ASSUME NEW m, NEW spans \in Seq(SpanType), "coco" \in Formats, LoadableAs("coco", m),
           \A x : (\E i \in 1 .. Len(spans) : x \in Pairs(spans[i])) <=> x \in EmissionOf(m)
    PROVE  LoadedOf(Written("coco", spans)) = EmissionOf(m)
<1> DEFINE f == Written("coco", spans)
           seg(a) == Segment(Word(Len(a.data)), Word(a.put), a.data, -1)
<1>1. f.format = "coco" /\ f.segments = [i \in 1 .. Len(spans) |-> seg(spans[i])]
  BY FormatWritten, CocoWritten
<1>2. \A a : seg(a).size = Word(Len(a.data)) /\ seg(a).addr = Word(a.put) /\ seg(a).data = a.data
  BY DEF Segment
<1>3. (\A b \in AddressesOf(m) : b < 65536) /\ ~ {0, 65535} \subseteq AddressesOf(m)
  BY DEF LoadableAs
<1> HIDE DEF f, seg
<1>4. Len(spans) \in Nat /\ Len(f.segments) = Len(spans)
      /\ \A i \in 1 .. Len(spans) : f.segments[i] = seg(spans[i])
  <2>1. Len(spans) \in Nat
    BY LenProperties
  <2> QED
    BY <1>1, <2>1
<1>5. ASSUME NEW i \in 1 .. Len(spans)
      PROVE  LET n == Len(spans[i].data) IN
             /\ n \in Nat /\ f.segments[i].size = n /\ f.segments[i].data = spans[i].data
             /\ n # 0 => f.segments[i].addr = spans[i].put
  <2> DEFINE a == spans[i]
  <2>1. a \in SpanType
    BY ElementOfSeq
  <2>2. \A x : x \in Pairs(a) => x \in EmissionOf(m)
    OBVIOUS
  <2>3. f.segments[i] = seg(a)
    BY <1>4
  <2> HIDE DEF a
  <2>4. SpanEnd(a) = a.put + Len(a.data) /\ Len(a.data) \in Nat
    BY <2>1, SpanFacts
  <2>5. a.data # << >> => a.put \in AddressesOf(m) /\ SpanEnd(a) - 1 \in AddressesOf(m)
    <3> SUFFICES ASSUME a.data # << >>
                 PROVE  a.put \in AddressesOf(m) /\ SpanEnd(a) - 1 \in AddressesOf(m)
      OBVIOUS
    <3>1. a \in SpanType \cup Record
      BY <2>1
    <3>2. a.put \in AddressesOf(m) /\ (a.put + Len(a.data)) - 1 \in AddressesOf(m)
      BY <2>2, <3>1, EmittedPairs
    <3> QED
      BY <3>2 DEF SpanEnd
  <2>6. Word(Len(a.data)) = Len(a.data) /\ (Len(a.data) # 0 => Word(a.put) = a.put)
    BY <1>3, <2>1, <2>5, SpanSize
  <2> QED
    BY <1>2, <2>3, <2>4, <2>6 DEF a
<1>6. \A x : x \in LoadedOf(f) <=> \E i \in 1 .. Len(spans) : x \in Pairs(spans[i])
  <2> DEFINE extra == 0
  <2>1. SegmentsOf(f, spans, extra)
    BY <1>4, <1>5 DEF SegmentsOf
  <2>2. extra \in {0, 3} /\ (f.format = "srec" <=> extra = 3)
    BY <1>1
  <2> HIDE DEF extra
  <2> QED
    BY <2>1, <2>2, LoadedRecords
<1>7. \A x : x \in LoadedOf(f) <=> x \in EmissionOf(m)
  BY <1>6
<1> QED
  BY <1>7, SameSets DEF f

\* The records of spans.
LEMMA SpansRecords ==
    ASSUME NEW spans \in Seq(SpanType)
    PROVE  LET chunks == RecordsOf(spans) IN
           /\ chunks \in Seq(Record)
           /\ \A j \in 1 .. Len(chunks) : chunks[j].data # << >> /\ Len(chunks[j].data) <= 32
           /\ \A x : (\E j \in 1 .. Len(chunks) : x \in Pairs(chunks[j]))
                       <=> \E i \in 1 .. Len(spans) : x \in Pairs(spans[i])
<1> DEFINE seqs == [i \in 1 .. Len(spans) |-> Chunks(spans[i])]
           chunks == FlattenSeq(seqs)
           n == Len(spans)
<1>1. n \in Nat /\ \A i \in 1 .. n : spans[i] \in SpanType
  BY LenProperties, ElementOfSeq
<1>2. \A i \in 1 .. n :
         /\ Chunks(spans[i]) \in Seq(Record)
         /\ \A j \in 1 .. Len(Chunks(spans[i])) :
              Chunks(spans[i])[j].data # << >> /\ Len(Chunks(spans[i])[j].data) <= 32
         /\ \A x : x \in Pairs(spans[i])
              <=> \E j \in 1 .. Len(Chunks(spans[i])) : x \in Pairs(Chunks(spans[i])[j])
  BY <1>1, ChunkPairs
<1>3. seqs \in Seq(Seq(Record)) /\ Len(seqs) = n /\ \A i \in 1 .. n : seqs[i] = Chunks(spans[i])
  <2> HIDE DEF n
  <2>1. seqs = [i \in 1 .. n |-> Chunks(spans[i])]
    BY DEF n
  <2> HIDE DEF seqs
  <2>2. seqs \in [1 .. n -> Seq(Record)]
    BY <1>2, <2>1
  <2>3. seqs \in Seq(Seq(Record))
    BY <1>1, <2>2, IsASeq
  <2> QED
    BY <1>1, <2>1, <2>3, LenProperties
<1> HIDE DEF seqs, n, chunks
<1>4. chunks \in Seq(Record)
  BY <1>3, FlattenType DEF chunks
<1>5. ASSUME NEW c
      PROVE  Member(chunks, c) <=> \E i \in 1 .. n : Member(Chunks(spans[i]), c)
  <2>1. seqs \in Seq(Seq(Record))
    BY <1>3
  <2>2. Member(chunks, c) <=> \E j \in 1 .. Len(seqs) : Member(seqs[j], c)
    BY <2>1, FlattenElements DEF chunks
  <2>3. Len(seqs) = n /\ \A i \in 1 .. n : seqs[i] = Chunks(spans[i])
    BY <1>3
  <2> QED
    BY <2>2, <2>3
<1>6. \A j \in 1 .. Len(chunks) : chunks[j].data # << >> /\ Len(chunks[j].data) <= 32
  <2> SUFFICES ASSUME NEW j \in 1 .. Len(chunks)
               PROVE  chunks[j].data # << >> /\ Len(chunks[j].data) <= 32
    OBVIOUS
  <2>1. PICK i \in 1 .. n : Member(Chunks(spans[i]), chunks[j])
    BY <1>5 DEF Member
  <2> QED
    BY <1>2, <2>1 DEF Member
<1>7. ASSUME NEW x
      PROVE  (\E j \in 1 .. Len(chunks) : x \in Pairs(chunks[j])) <=> \E i \in 1 .. n : x \in Pairs(spans[i])
  <2>1. ASSUME NEW j \in 1 .. Len(chunks), x \in Pairs(chunks[j])
        PROVE  \E i \in 1 .. n : x \in Pairs(spans[i])
    <3>1. PICK i \in 1 .. n : Member(Chunks(spans[i]), chunks[j])
      BY <1>5 DEF Member
    <3> QED
      BY <1>2, <2>1, <3>1 DEF Member
  <2>2. ASSUME NEW i \in 1 .. n, x \in Pairs(spans[i])
        PROVE  \E j \in 1 .. Len(chunks) : x \in Pairs(chunks[j])
    <3>1. PICK k \in 1 .. Len(Chunks(spans[i])) : x \in Pairs(Chunks(spans[i])[k])
      BY <1>2, <2>2
    <3>2. PICK j \in 1 .. Len(chunks) : Chunks(spans[i])[k] = chunks[j]
      BY <1>5 DEF Member
    <3> QED
      BY <3>1, <3>2
  <2> QED
    BY <2>1, <2>2
<1> QED
  BY <1>4, <1>6, <1>7 DEF chunks, seqs, n, RecordsOf

\* The records of SREC and HEX load what the spans hold, with right checksums.
LEMMA RecordsLoad ==
    ASSUME NEW m, NEW spans \in Seq(SpanType), NEW f, NEW format \in {"srec", "hex"},
           f = Written(format, spans), f.format = format, LoadableAs(format, m),
           \A x : (\E i \in 1 .. Len(spans) : x \in Pairs(spans[i])) <=> x \in EmissionOf(m)
    PROVE  SumsOK(f) /\ LoadedOf(f) = EmissionOf(m)
<1> DEFINE chunks == RecordsOf(spans)
           extra == IF format = "srec" THEN 3 ELSE 0
           n(c) == Len(c.data)
           sum(c) == IF format = "srec" THEN SrecSum(n(c) + 3, c.put, c.data)
                     ELSE HexSum(n(c), c.put, c.data, 0)
           seg(c) == Segment(n(c) + extra, c.put, c.data, sum(c))
<1>1. /\ chunks \in Seq(Record) /\ Len(chunks) \in Nat
      /\ \A j \in 1 .. Len(chunks) : chunks[j] \in Record /\ chunks[j].data # << >>
      /\ \A x : (\E j \in 1 .. Len(chunks) : x \in Pairs(chunks[j])) <=> x \in EmissionOf(m)
  BY SpansRecords, LenProperties, ElementOfSeq
<1>2. \A b \in AddressesOf(m) : b < 65536
  BY DEF LoadableAs
<1> HIDE DEF chunks
<1>3. ASSUME NEW c, c \in Record, c.data # << >>, \A x \in Pairs(c) : x \in EmissionOf(m)
      PROVE  n(c) \in Nat /\ c.data \in Seq(Byte) /\ c.put \in Nat /\ c.put < 65536
  <2>1. c.data \in Seq(Byte) /\ c.put \in Nat
    BY <1>3 DEF Record
  <2>2. c.put \in AddressesOf(m)
    BY <1>3, EmittedPairs
  <2> QED
    BY <1>2, <2>1, <2>2, LenProperties
<1>4. ASSUME NEW j \in 1 .. Len(chunks)
      PROVE  LET c == chunks[j] IN
             n(c) \in Nat /\ c.data \in Seq(Byte) /\ c.put \in Nat /\ c.put < 65536
  <2> DEFINE c == chunks[j]
  <2>1. c \in Record /\ c.data # << >> /\ \A x \in Pairs(c) : x \in EmissionOf(m)
    BY <1>1
  <2> HIDE DEF c
  <2> QED
    BY <1>3, <2>1 DEF c
<1> HIDE DEF n
<1>5. \A c : /\ seg(c).size = n(c) + extra /\ seg(c).addr = c.put /\ seg(c).data = c.data
             /\ seg(c).sum = sum(c)
  BY DEF Segment
<1> HIDE DEF seg, sum
<1>6. ASSUME NEW c, n(c) \in Nat, c.data \in Seq(Byte), c.put \in Nat, c.put < 65536
      PROVE  LET all == (seg(c).size + Low(seg(c).addr) + High(seg(c).addr) + Sum(seg(c).data)
                           + seg(c).sum) % 256 IN
             (format = "srec" => all = 255) /\ (format = "hex" => all = 0)
  <2> DEFINE size == n(c) + extra
             all(s) == (size + Low(c.put) + High(c.put) + Sum(c.data) + s) % 256
  <2>1. CASE format = "srec"
    <3>1. size \in Nat /\ sum(c) = SrecSum(size, c.put, c.data)
      BY <1>6, <2>1 DEF sum
    <3> HIDE DEF size
    <3>2. all(SrecSum(size, c.put, c.data)) = 255
      BY <1>6, <3>1, ChecksumsRight
    <3> QED
      BY <1>5, <2>1, <3>1, <3>2 DEF size
  <2>2. CASE format = "hex"
    <3>1. size \in Nat /\ sum(c) = HexSum(size, c.put, c.data, 0)
      BY <1>6, <2>2 DEF sum
    <3> HIDE DEF size
    <3>2. all(HexSum(size, c.put, c.data, 0)) = 0
      BY <1>6, <3>1, ChecksumsRight
    <3> QED
      BY <1>5, <2>2, <3>1, <3>2 DEF size
  <2> QED
    BY <2>1, <2>2
<1>7. Len(f.segments) = Len(chunks) /\ \A j \in 1 .. Len(chunks) : f.segments[j] = seg(chunks[j])
  <2>1. f.segments = [j \in 1 .. Len(chunks) |-> seg(chunks[j])]
    <3>1. CASE format = "srec"
      BY <3>1, SrecWritten DEF seg, sum, n, chunks
    <3>2. CASE format = "hex"
      <4>1. \A c : n(c) \in Nat => n(c) + 0 = n(c)
        OBVIOUS
      <4>2. f.segments = [j \in 1 .. Len(chunks) |->
                             Segment(n(chunks[j]), chunks[j].put, chunks[j].data, sum(chunks[j]))]
        BY <3>2, HexWritten DEF sum, n, chunks
      <4>3. \A j \in 1 .. Len(chunks) :
               seg(chunks[j]) = Segment(n(chunks[j]), chunks[j].put, chunks[j].data, sum(chunks[j]))
        <5>1. extra = 0
          BY <3>2
        <5> QED
          BY <1>4, <4>1, <5>1 DEF seg
      <4> QED
        BY <4>2, <4>3
    <3> QED
      BY <3>1, <3>2
  <2> QED
    BY <1>1, <2>1
<1>8. SumsOK(f)
  <2>1. \A j \in 1 .. Len(f.segments) :
          LET s == f.segments[j]
              all == (s.size + Low(s.addr) + High(s.addr) + Sum(s.data) + s.sum) % 256 IN
          (format = "srec" => all = 255) /\ (format = "hex" => all = 0)
    <3> SUFFICES ASSUME NEW j \in 1 .. Len(chunks)
                 PROVE  LET s == seg(chunks[j])
                            all == (s.size + Low(s.addr) + High(s.addr) + Sum(s.data) + s.sum) % 256 IN
                        (format = "srec" => all = 255) /\ (format = "hex" => all = 0)
      BY <1>7
    <3> QED
      BY <1>4, <1>6
  <2> QED
    BY <2>1 DEF SumsOK
<1>9. extra \in {0, 3} /\ (f.format = "srec" <=> extra = 3)
  OBVIOUS
<1> HIDE DEF extra
<1>10. \A x : x \in LoadedOf(f) <=> \E i \in 1 .. Len(chunks) : x \in Pairs(chunks[i])
  <2>1. SegmentsOf(f, chunks, extra)
    BY <1>1, <1>4, <1>5, <1>7 DEF n, SegmentsOf
  <2> QED
    BY <1>9, <2>1, LoadedRecords
<1>11. \A x : x \in LoadedOf(f) <=> x \in EmissionOf(m)
  BY <1>1, <1>10
<1> QED
  BY <1>8, <1>11, SameSets

\* With the gaps padded, the first span is all that was emitted.
LEMMA PaddedFirst ==
    ASSUME NEW A, Sortable(A), NEW n \in Nat, NEW m \in Seq(Cell), Ledger(A, n, m),
           NEW t, t.left = {}, Joining(t, A), Gathered(t, A, TRUE), ~ Overlapping(A)
    PROVE  LET first == FirstOf(t.done) IN
           /\ first \in SpanType /\ Pairs(first) = PaddedOf(m)
           /\ first.data # << >> =>
                /\ first.put = Min(AddressesOf(m))
                /\ first.put \in AddressesOf(m) /\ SpanEnd(first) - 1 \in AddressesOf(m)
<1> DEFINE first == FirstOf(t.done)
<1>1. CASE t.done = << >> /\ m = << >>
  <2>1. first = Span(0, 0, 0)
    BY <1>1 DEF FirstOf
  <2>2. first \in SpanType /\ first.data = << >>
    BY <2>1, EmptySeq DEF Span, SpanType
  <2> HIDE DEF first
  <2>3. Pairs(first) = {}
    BY <2>2, EmptySeq DEF Pairs
  <2>4. PaddedOf(m) = {}
    BY <1>1 DEF PaddedOf
  <2> QED
    BY <2>2, <2>3, <2>4 DEF first
<1>2. ASSUME NEW d \in SpanType, t.done = <<d>>,
             d.put = Min(AddressesOf(m)), SpanEnd(d) = Max(AddressesOf(m)) + 1,
             d.put \in AddressesOf(m), Max(AddressesOf(m)) \in AddressesOf(m),
             Pairs(d) = PaddedOf(m)
      PROVE  /\ first = d /\ SpanEnd(first) - 1 \in AddressesOf(m)
  <2> DEFINE M == Max(AddressesOf(m))
  <2>1. first = d
    BY <1>2 DEF FirstOf
  <2>2. AddressesOf(m) \subseteq Nat
    BY EmissionPairs
  <2>3. M \in AddressesOf(m) /\ M \in Nat /\ SpanEnd(d) = M + 1
    BY <1>2, <2>2
  <2> HIDE DEF M
  <2>4. SpanEnd(d) - 1 = M
    BY <2>3
  <2> QED
    BY <2>1, <2>3, <2>4
<1>3. \/ t.done = << >> /\ m = << >>
      \/ \E d \in SpanType :
            /\ t.done = <<d>> /\ m # << >>
            /\ d.put = Min(AddressesOf(m)) /\ SpanEnd(d) = Max(AddressesOf(m)) + 1
            /\ d.put \in AddressesOf(m) /\ Max(AddressesOf(m)) \in AddressesOf(m)
            /\ Pairs(d) = PaddedOf(m)
  BY PaddedSpan
<1>4. CASE ~ (t.done = << >> /\ m = << >>)
  <2>1. PICK d \in SpanType :
            /\ t.done = <<d>> /\ m # << >>
            /\ d.put = Min(AddressesOf(m)) /\ SpanEnd(d) = Max(AddressesOf(m)) + 1
            /\ d.put \in AddressesOf(m) /\ Max(AddressesOf(m)) \in AddressesOf(m)
            /\ Pairs(d) = PaddedOf(m)
    BY <1>3, <1>4
  <2>2. first = d /\ SpanEnd(first) - 1 \in AddressesOf(m)
    BY <1>2, <2>1
  <2> HIDE DEF first
  <2> QED
    BY <2>1, <2>2 DEF first
<1> QED
  BY <1>1, <1>4

\* A DragonDOS file has the first span as its one segment.
LEMMA DragonLoads ==
    ASSUME NEW m, NEW spans, NEW first \in SpanType, first = FirstOf(spans),
           "dragondos" \in Formats, LoadableAs("dragondos", m), Pairs(first) = PaddedOf(m),
           first.data # << >> =>
             first.put \in AddressesOf(m) /\ SpanEnd(first) - 1 \in AddressesOf(m)
    PROVE  LoadedOf(Written("dragondos", spans)) = PaddedOf(m)
<1> DEFINE f == Written("dragondos", spans)
           l == Len(first.data)
           recs == <<first>>
           seg == Segment(Word(l), Word(first.put), first.data, -1)
           extra == 0
<1>1. f.format = "dragondos" /\ f.segments = <<seg>>
  BY FormatWritten, DragonWritten
<1>2. (\A b \in AddressesOf(m) : b < 65536) /\ ~ {0, 65535} \subseteq AddressesOf(m)
  BY DEF LoadableAs
<1>3. l \in Nat /\ Word(l) = l /\ (l # 0 => Word(first.put) = first.put)
  BY <1>2, SpanSize, SpanFacts
<1> HIDE DEF f
<1>4. seg.size = Word(l) /\ seg.addr = Word(first.put) /\ seg.data = first.data
  BY DEF Segment
<1> HIDE DEF seg
<1>5. l + extra = l /\ extra \in {0, 3} /\ (f.format = "srec" <=> extra = 3)
  BY <1>1, <1>3
<1> HIDE DEF extra
<1>6. /\ Len(f.segments) = 1 /\ Len(recs) = 1 /\ 1 .. 1 = {1} /\ f.segments[1] = seg
      /\ recs[1] = first
  BY <1>1
<1> HIDE DEF recs, l
<1>7. SegmentsOf(f, recs, extra)
  <2> SUFFICES ASSUME NEW i \in 1 .. Len(recs)
               PROVE  LET n == Len(recs[i].data) IN
                      /\ n \in Nat /\ f.segments[i].size = n + extra
                      /\ n # 0 => f.segments[i].addr = recs[i].put
                      /\ f.segments[i].data = recs[i].data
    BY <1>6 DEF SegmentsOf
  <2>1. i = 1
    BY <1>6
  <2> QED
    BY <1>3, <1>4, <1>5, <1>6, <2>1 DEF l
<1>8. \A x : x \in LoadedOf(f) <=> \E i \in 1 .. Len(recs) : x \in Pairs(recs[i])
  BY <1>5, <1>7, LoadedRecords
<1>9. \A x : x \in LoadedOf(f) <=> x \in Pairs(first)
  BY <1>6, <1>8
<1>10. LoadedOf(f) = Pairs(first)
  BY <1>9 DEF LoadedOf, Pairs
<1> QED
  BY <1>10 DEF f

\* A binary file has the bytes from the lowest address on.
LEMMA BinaryLoads ==
    ASSUME NEW m, NEW spans, NEW first \in SpanType, first = FirstOf(spans),
           Pairs(first) = PaddedOf(m),
           first.data # << >> => first.put = Min(AddressesOf(m))
    PROVE  LET data == Written("binary", spans).segments[1].data IN
           {<<Min(AddressesOf(m)) + k - 1, data[k]>> : k \in 1 .. Len(data)} = PaddedOf(m)
<1>1. Written("binary", spans).segments[1].data = first.data
  <2> DEFINE seg == Segment(-1, -1, first.data, -1)
  <2>1. Written("binary", spans).segments = <<seg>>
    BY BinaryWritten
  <2>2. seg.data = first.data
    BY DEF Segment
  <2> HIDE DEF seg
  <2> QED
    BY <2>1, <2>2
<1>2. first.data \in Seq(Byte)
  BY SpanFacts
<1>3. CASE first.data = << >>
  BY <1>1, <1>3, EmptySeq DEF Pairs
<1>4. CASE first.data # << >>
  BY <1>1, <1>4 DEF Pairs
<1> QED
  BY <1>3, <1>4

LEMMA OtherSums ==
    ASSUME NEW f, f.format # "srec", f.format # "hex"
    PROVE  SumsOK(f)
BY DEF SumsOK

LEMMA LoadsOthers ==
    ASSUME NEW f, NEW m, NEW e \in Int, SumsOK(f), f.format \in {"coco", "srec", "hex"},
           e >= 0 => f.exec = Word(e), LoadedOf(f) = EmissionOf(m)
    PROVE  LoadsCode(f, m, e)
BY SMT DEF LoadsCode, Word

LEMMA LoadsDragon ==
    ASSUME NEW f, NEW m, NEW e \in Int, SumsOK(f), f.format = "dragondos",
           e >= 0 => f.exec = Word(e), LoadedOf(f) = PaddedOf(m)
    PROVE  LoadsCode(f, m, e)
BY SMT DEF LoadsCode, Word

LEMMA LoadsBinary ==
    ASSUME NEW f, NEW m, NEW e, SumsOK(f), f.format = "binary",
           LET data == f.segments[1].data IN
           {<<Min(AddressesOf(m)) + k - 1, data[k]>> : k \in 1 .. Len(data)} = PaddedOf(m)
    PROVE  LoadsCode(f, m, e)
BY SMT DEF LoadsCode

LEMMA WrittenLoads ==
    ASSUME Inv, NEW format \in Formats, LoadableAs(format, memory)
    PROVE  LoadsCode(Written(format, Coalesced(format \in {"binary", "dragondos"}).done),
                     memory, exec)
<1> DEFINE pad == format \in {"binary", "dragondos"}
           t == Coalesced(pad)
           spans == t.done
           f == Written(format, spans)
           A == AllSpans
<1> SUFFICES LoadsCode(f, memory, exec)
  OBVIOUS
<1>1. World(sects, count, memory) /\ exec \in Int /\ memory \in Seq(Cell) /\ count \in Nat
  BY DEF Inv, World
<1>2. Sortable(A) /\ IsFiniteSet(A) /\ ~ Overlapping(A)
  BY <1>1, SpansSortable DEF LoadableAs, Twice, TwiceIn
<1>3. Ledger(A, count, memory)
  <2>1. A = Spans(sects)
    BY DEF AllSpans, Spans
  <2> QED
    BY <1>1, <2>1 DEF World
<1>4. pad \in BOOLEAN
  OBVIOUS
<1>5. t.left = {} /\ Joining(t, A) /\ Gathered(t, A, pad) /\ spans \in Seq(SpanType)
  BY <1>2, <1>4, CoalescedHolds DEF Joining
<1>6. f.format = format
  BY FormatWritten
<1>7. exec >= 0 /\ format # "binary" => f.exec = Word(exec)
  BY <1>1, EntryWritten
<1>8. /\ ~ pad => \A x : (\E i \in 1 .. Len(spans) : x \in Pairs(spans[i])) <=> x \in EmissionOf(memory)
  <2>1. A \ t.left = A
    BY <1>5
  <2>2. \A x : x \in EmissionOf(memory) <=> \E a \in A : x \in Pairs(a)
    <3> DEFINE m == memory
               n == count
    <3>1. m \in Seq(Cell) /\ n \in Nat /\ Ledger(A, n, m)
      BY <1>1, <1>3
    <3> HIDE DEF A, m, n
    <3>2. /\ \A x : x \in EmissionOf(m) <=> \E a \in A : x \in Pairs(a)
          /\ AddressesOf(m) \in SUBSET Nat
          /\ \A b \in Nat : b \in AddressesOf(m) <=> \E a \in A : Covers(a, b)
          /\ m = << >> <=> A = {}
      BY <3>1, EmissionPairs
    <3> QED
      BY <3>2 DEF m
  <2> HIDE DEF pad, t
  <2> QED
    BY <1>5, <2>1, <2>2 DEF Gathered
<1> DEFINE first == FirstOf(spans)
<1>9. pad => /\ first \in SpanType /\ Pairs(first) = PaddedOf(memory)
             /\ first.data # << >> =>
                  /\ first.put = Min(AddressesOf(memory))
                  /\ first.put \in AddressesOf(memory)
                  /\ SpanEnd(first) - 1 \in AddressesOf(memory)
  <2> SUFFICES ASSUME pad
               PROVE  /\ first \in SpanType /\ Pairs(first) = PaddedOf(memory)
                      /\ first.data # << >> =>
                           /\ first.put = Min(AddressesOf(memory))
                           /\ first.put \in AddressesOf(memory)
                           /\ SpanEnd(first) - 1 \in AddressesOf(memory)
    OBVIOUS
  <2>1. pad = TRUE
    OBVIOUS
  <2> HIDE DEF pad
  <2>2. Gathered(t, A, TRUE)
    BY <1>5, <2>1
  <2> HIDE DEF t, A
  <2> QED
    BY <1>1, <1>2, <1>3, <1>5, <2>2, PaddedFirst
<1> HIDE DEF t
<1>10. CASE format = "binary"
  <2>1. /\ first \in SpanType /\ Pairs(first) = PaddedOf(memory)
        /\ first.data # << >> => first.put = Min(AddressesOf(memory))
    BY <1>9, <1>10
  <2> HIDE DEF first
  <2>2. LET data == Written("binary", spans).segments[1].data IN
        {<<Min(AddressesOf(memory)) + k - 1, data[k]>> : k \in 1 .. Len(data)} = PaddedOf(memory)
    BY <2>1, BinaryLoads DEF first
  <2>3. SumsOK(f)
    BY <1>6, <1>10, OtherSums
  <2>4. f = Written("binary", spans) /\ f.format = "binary"
    BY <1>6, <1>10
  <2> HIDE DEF f
  <2> QED
    BY <2>2, <2>3, <2>4, LoadsBinary
<1>11. CASE format = "dragondos"
  <2>1. /\ first \in SpanType /\ Pairs(first) = PaddedOf(memory)
        /\ first.data # << >> =>
             first.put \in AddressesOf(memory) /\ SpanEnd(first) - 1 \in AddressesOf(memory)
    BY <1>9, <1>11
  <2> HIDE DEF first
  <2>2. LoadedOf(f) = PaddedOf(memory)
    BY <1>11, <2>1, DragonLoads DEF first
  <2>3. SumsOK(f)
    BY <1>6, <1>11, OtherSums
  <2> HIDE DEF f
  <2> QED
    BY <1>1, <1>6, <1>7, <1>11, <2>2, <2>3, LoadsDragon
<1>12. CASE format = "coco"
  <2>1. LoadedOf(f) = EmissionOf(memory)
    BY <1>5, <1>8, <1>12, CocoLoads
  <2>2. SumsOK(f)
    BY <1>6, <1>12, OtherSums
  <2> HIDE DEF f
  <2> QED
    BY <1>1, <1>6, <1>7, <1>12, <2>1, <2>2, LoadsOthers
<1>13. CASE format \in {"srec", "hex"}
  <2>1. SumsOK(f) /\ LoadedOf(f) = EmissionOf(memory)
    BY <1>5, <1>6, <1>8, <1>13, RecordsLoad
  <2> HIDE DEF f
  <2> QED
    BY <1>1, <1>6, <1>7, <1>13, <2>1, LoadsOthers
<1> HIDE DEF f
<1> QED
  BY <1>10, <1>11, <1>12, <1>13, CodeAssumption

LEMMA NextLoading == Inv /\ Loading /\ [Next]_vars => Loading'
<1> SUFFICES ASSUME Inv, Loading, [Next]_vars PROVE Loading'
  OBVIOUS
<1>1. CASE Output
  <2>1. PICK format \in Formats :
           file' = Written(format, Coalesced(format \in {"binary", "dragondos"}).done)
    BY <1>1 DEF Output
  <2>2. memory' = memory /\ exec' = exec
    BY <1>1 DEF Output
  <2>3. file'.format = format
    BY <2>1, FormatWritten
  <2>4. LoadableAs(format, memory) => LoadsCode(file', memory, exec)
    BY <2>1, WrittenLoads
  <2> QED
    BY <2>2, <2>3, <2>4 DEF Loading
<1>2. CASE UNCHANGED vars
  BY <1>2 DEF vars, Loading
<1>3. CASE ~ Output /\ Next
  <2>1. file = NoFile /\ file' = file
    BY <1>3 DEF Next, Instruction, Constants, Org, Put, Rmb, Setdp, Section, End, AtLine, Emits, Moves
  <2> QED
    BY <2>1 DEF Loading
<1> QED
  BY <1>1, <1>2, <1>3

\* The file of a program that has no overlaps and nothing beyond 64K holds every
\* byte at the address that it was emitted to, and nothing else but the zeros of
\* padded gaps; its checksums are right, and its address of execution is that of
\* END: for all programs, sections and formats.
THEOREM FilesLoad == Spec => []FileLoadsCode
<1>1. Init => Loading
  BY DEF Init, Loading
<1> QED
  BY <1>1, Invariant, NextLoading, LoadingLoads, PTL DEF Spec

-----------------------------------------------------------------------------
(* Code as the processor takes it apart. *)
LEMMA FieldBytes ==
    ASSUME NEW v \in Int
    PROVE  /\ Field(1, v) = <<v % 256>>
           /\ Field(2, v) = <<(v \div 256) % 256, v % 256>>
<1>1. 256 ^ 0 = 1 /\ 256 ^ 1 = 256
  OBVIOUS
<1> QED
  BY <1>1 DEF Field

\* The code of an opcode, of one byte or two.
LEMMA OpBytes ==
    ASSUME NEW form \in Form
    PROVE  \/ Op(form) = <<form>> /\ form \in 0 .. 255 /\ form \notin {16, 17}
           \/ /\ Op(form) = <<form \div 256, form % 256>>
              /\ form \div 256 \in {16, 17} /\ form \in 4096 .. 4607
<1>1. CASE form \in 0 .. 255 \ {16, 17}
  <2>1. form % 256 = form /\ ~ form > 255 /\ form \in Int
    BY <1>1
  <2> QED
    BY <1>1, <2>1, FieldBytes DEF Op
<1>2. CASE form \in 4096 .. 4607
  <2>1. form \div 256 \in {16, 17} /\ form > 255 /\ form \in Int
    BY <1>2
  <2>2. (form \div 256) % 256 = form \div 256
    BY <2>1
  <2> QED
    BY <1>2, <2>1, <2>2, FieldBytes DEF Op
<1> QED
  BY <1>1, <1>2 DEF Form

\* One after the other.
Cat(s, t) == s \o t

LEMMA FormDecoded ==
    ASSUME NEW op, NEW form \in Form, NEW rest \in Seq(Byte)
    PROVE  LET code == Cat(Op(form), rest) IN
           /\ ByForm(op, code) = form /\ Rest(op, code) = rest
           /\ Len(code) = Len(Op(form)) + Len(rest) /\ Len(code) \in Nat
<1> DEFINE code == Op(form) \o rest
<1>0. Cat(Op(form), rest) = code
  BY DEF Cat
<1>1. CASE Op(form) = <<form>> /\ form \in 0 .. 255 /\ form \notin {16, 17}
  <2>1. code[1] = form /\ Len(code) = 1 + Len(rest) /\ Len(Op(form)) = 1
    BY <1>1
  <2>2. SubSeq(code, 2, Len(code)) = rest
    BY <1>1, <2>1
  <2> HIDE DEF code
  <2> QED
    BY <1>0, <1>1, <2>1, <2>2 DEF ByForm, Rest
<1>2. CASE /\ Op(form) = <<form \div 256, form % 256>>
           /\ form \div 256 \in {16, 17} /\ form \in 4096 .. 4607
  <2>1. /\ code[1] = form \div 256 /\ code[2] = form % 256
        /\ Len(code) = 2 + Len(rest) /\ Len(Op(form)) = 2
    BY <1>2
  <2>2. SubSeq(code, 3, Len(code)) = rest
    BY <1>2, <2>1
  <2>3. (form \div 256) * 256 + (form % 256) = form
    BY <1>2
  <2> HIDE DEF code
  <2> QED
    BY <1>0, <1>2, <2>1, <2>2, <2>3 DEF ByForm, Rest
<1> QED
  BY <1>1, <1>2, OpBytes

LEMMA Joins ==
    /\ \A s, t \in Seq(Byte) : Cat(s, t) \in Seq(Byte)
    /\ \A s, t, u \in Seq(Byte) : Cat(Cat(s, t), u) = Cat(s, Cat(t, u))
<1>1. ASSUME NEW s \in Seq(Byte), NEW t \in Seq(Byte) PROVE Cat(s, t) \in Seq(Byte)
  BY ConcatProperties DEF Cat
<1>2. ASSUME NEW s \in Seq(Byte), NEW t \in Seq(Byte), NEW u \in Seq(Byte)
      PROVE  Cat(Cat(s, t), u) = Cat(s, Cat(t, u))
  <2>1. (s \o t) \o u = s \o (t \o u)
    BY ConcatAssociative
  <2> QED
    BY <2>1 DEF Cat
<1> QED
  BY <1>1, <1>2

LEMMA Flattened ==
    /\ FlattenSeq(<< >>) = << >>
    /\ \A a : FlattenSeq(<<a>>) = a
    /\ \A a, b : FlattenSeq(<<a, b>>) = Cat(a, b)
    /\ \A a, b, c : FlattenSeq(<<a, b, c>>) = Cat(Cat(a, b), c)
    /\ \A a, b, c, d : FlattenSeq(<<a, b, c, d>>) = Cat(Cat(Cat(a, b), c), d)
<1>1. FlattenSeq(<< >>) = << >>
  BY DEF FlattenSeq
<1> DEFINE F(s, i) == Flat(s)[i]
<1>6. ASSUME NEW s, NEW n \in 1 .. 4, Len(s) = n
      PROVE  /\ FlattenSeq(s) = F(s, n) /\ F(s, 1) = s[1]
             /\ 2 <= n => F(s, 2) = Cat(F(s, 1), s[2])
             /\ 3 <= n => F(s, 3) = Cat(F(s, 2), s[3])
             /\ 4 <= n => F(s, 4) = Cat(F(s, 3), s[4])
  <2>1. Len(s) \in Nat \ {0}
    BY <1>6
  <2>2. /\ FlattenSeq(s) = Flat(s)[Len(s)] /\ Flat(s)[1] = s[1]
        /\ \A i \in 2 .. Len(s) : Flat(s)[i] = Flat(s)[i - 1] \o s[i]
    BY <2>1, FlatStep, Zenon
  <2>3. \A i \in 2 .. n : F(s, i) = Cat(F(s, i - 1), s[i])
    BY <1>6, <2>2, Zenon DEF Cat
  <2> HIDE DEF F
  <2>4. /\ 2 <= n => F(s, 2) = Cat(F(s, 2 - 1), s[2])
        /\ 3 <= n => F(s, 3) = Cat(F(s, 3 - 1), s[3])
        /\ 4 <= n => F(s, 4) = Cat(F(s, 4 - 1), s[4])
    BY <2>3
  <2>5. 2 - 1 = 1 /\ 3 - 1 = 2 /\ 4 - 1 = 3
    OBVIOUS
  <2>6. FlattenSeq(s) = F(s, n) /\ F(s, 1) = s[1]
    BY <1>6, <2>2 DEF F
  <2> QED
    BY <2>4, <2>5, <2>6
<1> HIDE DEF F
<1>2. ASSUME NEW a PROVE FlattenSeq(<<a>>) = a
  <2> DEFINE s == <<a>>
  <2>1. Len(s) = 1 /\ s[1] = a
    OBVIOUS
  <2> HIDE DEF s
  <2>2. FlattenSeq(s) = s[1]
    BY <1>6, <2>1
  <2> QED
    BY <2>1, <2>2 DEF s
<1>3. ASSUME NEW a, NEW b PROVE FlattenSeq(<<a, b>>) = Cat(a, b)
  <2> DEFINE s == <<a, b>>
  <2>1. Len(s) = 2 /\ s[1] = a /\ s[2] = b
    OBVIOUS
  <2> HIDE DEF s
  <2>2. FlattenSeq(s) = Cat(s[1], s[2])
    BY <1>6, <2>1
  <2> QED
    BY <2>1, <2>2 DEF s
<1>4. ASSUME NEW a, NEW b, NEW c PROVE FlattenSeq(<<a, b, c>>) = Cat(Cat(a, b), c)
  <2> DEFINE s == <<a, b, c>>
  <2>1. Len(s) = 3 /\ s[1] = a /\ s[2] = b /\ s[3] = c
    OBVIOUS
  <2> HIDE DEF s
  <2>2. FlattenSeq(s) = Cat(Cat(s[1], s[2]), s[3])
    BY <1>6, <2>1
  <2> QED
    BY <2>1, <2>2 DEF s
<1>5. ASSUME NEW a, NEW b, NEW c, NEW d PROVE FlattenSeq(<<a, b, c, d>>) = Cat(Cat(Cat(a, b), c), d)
  <2> DEFINE s == <<a, b, c, d>>
  <2>1. Len(s) = 4 /\ s[1] = a /\ s[2] = b /\ s[3] = c /\ s[4] = d
    OBVIOUS
  <2> HIDE DEF s
  <2>2. FlattenSeq(s) = Cat(Cat(Cat(s[1], s[2]), s[3]), s[4])
    BY <1>6, <2>1
  <2> QED
    BY <2>1, <2>2 DEF s
<1> QED
  BY <1>1, <1>2, <1>3, <1>4, <1>5

LEMMA Paired ==
    ASSUME NEW S, NEW a \in S, NEW b \in S, NEW c \in S
    PROVE  /\ <<a>> \o <<b>> = <<a, b>> /\ <<a>> \o <<b, c>> = <<a, b, c>>
           /\ <<a>> \o << >> = <<a>>
<1>1. <<a>> \o <<b>> = <<a, b>>
  <2> DEFINE s == <<a>>
             t == <<b>>
             u == <<a, b>>
  <2>1. /\ s \in Seq(S) /\ t \in Seq(S) /\ u \in Seq(S)
        /\ Len(s) = 1 /\ Len(t) = 1 /\ Len(u) = 2
        /\ s[1] = u[1]
        /\ t[1] = u[2]
    OBVIOUS
  <2> HIDE DEF s, t, u
  <2>2. /\ s \o t \in Seq(S) /\ Len(s \o t) = Len(s) + Len(t)
        /\ \A i \in 1 .. Len(s) + Len(t) : (s \o t)[i] = IF i <= Len(s) THEN s[i] ELSE t[i - Len(s)]
    BY <2>1, ConcatProperties, Zenon
  <2>3. \A i \in 1 .. 2 : (s \o t)[i] = u[i]
    BY <2>1, <2>2
  <2>4. s \o t = u
    BY <2>1, <2>2, <2>3, SeqEqual
  <2> QED
    BY <2>4 DEF s, t, u
<1>2. <<a>> \o <<b, c>> = <<a, b, c>>
  <2> DEFINE s == <<a>>
             t == <<b, c>>
             u == <<a, b, c>>
  <2>1. /\ s \in Seq(S) /\ t \in Seq(S) /\ u \in Seq(S)
        /\ Len(s) = 1 /\ Len(t) = 2 /\ Len(u) = 3
        /\ s[1] = u[1]
        /\ t[1] = u[2] /\ t[2] = u[3]
    OBVIOUS
  <2> HIDE DEF s, t, u
  <2>2. /\ s \o t \in Seq(S) /\ Len(s \o t) = Len(s) + Len(t)
        /\ \A i \in 1 .. Len(s) + Len(t) : (s \o t)[i] = IF i <= Len(s) THEN s[i] ELSE t[i - Len(s)]
    BY <2>1, ConcatProperties, Zenon
  <2>3. \A i \in 1 .. 3 : (s \o t)[i] = u[i]
    BY <2>1, <2>2
  <2>4. s \o t = u
    BY <2>1, <2>2, <2>3, SeqEqual
  <2> QED
    BY <2>4 DEF s, t, u
<1>3. <<a>> \o << >> = <<a>>
  <2>1. <<a>> \in Seq(S)
    OBVIOUS
  <2> QED
    BY <2>1, ConcatEmptySeq
<1> QED
  BY <1>1, <1>2, <1>3

LEMMA PairPaired ==
    ASSUME NEW S, NEW a \in S, NEW b \in S, NEW c \in S, NEW d \in S
    PROVE  /\ <<a, b>> \o <<c>> = <<a, b, c>>
           /\ <<a, b>> \o <<c, d>> = <<a, b, c, d>>
<1>1. <<a, b>> \o <<c>> = <<a, b, c>>
  <2> DEFINE s == <<a, b>>
             t == <<c>>
             u == <<a, b, c>>
  <2>1. /\ s \in Seq(S) /\ t \in Seq(S) /\ u \in Seq(S)
        /\ Len(s) = 2 /\ Len(t) = 1 /\ Len(u) = 3
        /\ s[1] = u[1] /\ s[2] = u[2]
        /\ t[1] = u[3]
    OBVIOUS
  <2> HIDE DEF s, t, u
  <2>2. /\ s \o t \in Seq(S) /\ Len(s \o t) = Len(s) + Len(t)
        /\ \A i \in 1 .. Len(s) + Len(t) : (s \o t)[i] = IF i <= Len(s) THEN s[i] ELSE t[i - Len(s)]
    BY <2>1, ConcatProperties, Zenon
  <2>3. \A i \in 1 .. 3 : (s \o t)[i] = u[i]
    BY <2>1, <2>2
  <2>4. s \o t = u
    BY <2>1, <2>2, <2>3, SeqEqual
  <2> QED
    BY <2>4 DEF s, t, u
<1>2. <<a, b>> \o <<c, d>> = <<a, b, c, d>>
  <2> DEFINE s == <<a, b>>
             t == <<c, d>>
             u == <<a, b, c, d>>
  <2>1. /\ s \in Seq(S) /\ t \in Seq(S) /\ u \in Seq(S)
        /\ Len(s) = 2 /\ Len(t) = 2 /\ Len(u) = 4
        /\ s[1] = u[1] /\ s[2] = u[2]
        /\ t[1] = u[3] /\ t[2] = u[4]
    OBVIOUS
  <2> HIDE DEF s, t, u
  <2>2. /\ s \o t \in Seq(S) /\ Len(s \o t) = Len(s) + Len(t)
        /\ \A i \in 1 .. Len(s) + Len(t) : (s \o t)[i] = IF i <= Len(s) THEN s[i] ELSE t[i - Len(s)]
    BY <2>1, ConcatProperties, Zenon
  <2>3. \A i \in 1 .. 4 : (s \o t)[i] = u[i]
    BY <2>1, <2>2
  <2>4. s \o t = u
    BY <2>1, <2>2, <2>3, SeqEqual
  <2> QED
    BY <2>4 DEF s, t, u
<1> QED
  BY <1>1, <1>2

\* One piece of bytes, or two.
Pieces(code) == \E a, b \in Seq(Byte) : code = <<a>> \/ code = <<a, b>>

\* An opcode, perhaps an immediate operand, and then an address.
LEMMA FlattenedInOrder ==
    ASSUME NEW o \in Seq(Byte), NEW m \in Seq(Byte), NEW code, Pieces(code)
    PROVE  /\ FlattenSeq((<<o>> \o << >>) \o code) = Cat(o, FlattenSeq(code))
           /\ FlattenSeq((<<o>> \o <<m>>) \o code) = Cat(o, Cat(m, FlattenSeq(code)))
           /\ FlattenSeq(<<o>> \o << >>) = o /\ FlattenSeq(<<o>> \o <<m>>) = Cat(o, m)
           /\ FlattenSeq(code) \in Seq(Byte)
<1>1. PICK a \in Seq(Byte), b \in Seq(Byte) : code = <<a>> \/ code = <<a, b>>
  BY DEF Pieces
<1> DEFINE S == Seq(Byte)
<1>2. o \in S /\ m \in S /\ a \in S /\ b \in S
  OBVIOUS
<1> HIDE DEF S
<1>3. <<o>> \o << >> = <<o>> /\ <<o>> \o <<m>> = <<o, m>>
  BY <1>2, Paired
<1>4. <<o>> \o <<a>> = <<o, a>> /\ <<o>> \o <<a, b>> = <<o, a, b>>
  BY <1>2, Paired
<1>5. <<o, m>> \o <<a>> = <<o, m, a>> /\ <<o, m>> \o <<a, b>> = <<o, m, a, b>>
  BY <1>2, PairPaired
<1>6. /\ FlattenSeq(<<o>>) = o /\ FlattenSeq(<<a>>) = a
      /\ FlattenSeq(<<o, m>>) = Cat(o, m) /\ FlattenSeq(<<o, a>>) = Cat(o, a)
      /\ FlattenSeq(<<a, b>>) = Cat(a, b)
  BY Flattened
<1>7. FlattenSeq(<<o, m, a>>) = Cat(Cat(o, m), a) /\ FlattenSeq(<<o, a, b>>) = Cat(Cat(o, a), b)
  BY Flattened
<1>8. FlattenSeq(<<o, m, a, b>>) = Cat(Cat(Cat(o, m), a), b)
  BY Flattened
<1>9. Cat(a, b) \in S /\ Cat(m, a) \in S /\ Cat(o, m) \in S
  BY <1>2, Joins DEF S
<1>10. /\ Cat(Cat(o, m), a) = Cat(o, Cat(m, a)) /\ Cat(Cat(o, a), b) = Cat(o, Cat(a, b))
       /\ Cat(Cat(Cat(o, m), a), b) = Cat(Cat(o, m), Cat(a, b))
       /\ Cat(Cat(o, m), Cat(a, b)) = Cat(o, Cat(m, Cat(a, b)))
  BY <1>2, <1>9, Joins DEF S
<1>11. CASE code = <<a>>
  BY <1>2, <1>3, <1>4, <1>5, <1>6, <1>7, <1>10, <1>11 DEF S
<1>12. CASE code = <<a, b>>
  BY <1>3, <1>4, <1>5, <1>6, <1>7, <1>8, <1>9, <1>10, <1>12 DEF S
<1> QED
  BY <1>1, <1>11, <1>12

-----------------------------------------------------------------------------
(* Numbers in one byte and in two. *)
LEMMA ByteNumber ==
    ASSUME NEW v \in Int
    PROVE  /\ <<v % 256>> \in Seq(Byte)
           /\ Number(<<v % 256>>) = v % 256
           /\ v \in -128 .. 127 => Signed(<<v % 256>>) = v
<1>1. v % 256 \in Byte
  BY DEF Byte
<1>2. Number(<<v % 256>>) = v % 256 /\ Len(<<v % 256>>) = 1
  BY DEF Number
<1>3. 256 ^ 1 = 256 /\ 256 \div 2 = 128
  OBVIOUS
<1>4. Signed(<<v % 256>>) = IF v % 256 >= 128 THEN (v % 256) - 256 ELSE v % 256
  BY <1>2, <1>3 DEF Signed
<1>5. v \in -128 .. 127 => Signed(<<v % 256>>) = v
  BY <1>4
<1> QED
  BY <1>1, <1>2, <1>5

LEMMA WordNumber ==
    ASSUME NEW v \in Int
    PROVE  LET w == <<(v \div 256) % 256, v % 256>> IN
           /\ w \in Seq(Byte) /\ Number(w) = Address16(v)
           /\ \A x \in Int : Address16(x + Signed(w)) = Address16(x + v)
           /\ Address16(Signed(w)) = Address16(v)
<1> DEFINE w == <<(v \div 256) % 256, v % 256>>
           n == v % 65536
<1>1. w \in Seq(Byte)
  BY DEF Byte
<1>2. ((v \div 256) % 256) * 256 + (v % 256) = n
  OBVIOUS
<1>3. Len(w) = 2 /\ Number(w) = n
  BY <1>2 DEF Number
<1>4. 256 ^ 2 = 65536 /\ 65536 \div 2 = 32768
  OBVIOUS
<1> HIDE DEF w
<1>5. Signed(w) = IF n >= 32768 THEN n - 65536 ELSE n
  BY <1>3, <1>4 DEF Signed
<1>6. PICK q \in Int : Signed(w) = v + 65536 * q
  <2>1. v = (v \div 65536) * 65536 + n /\ v \div 65536 \in Int
    OBVIOUS
  <2> DEFINE d == v \div 65536
  <2>2. d \in Int /\ n = v - 65536 * d /\ -d \in Int /\ -d - 1 \in Int
    BY <2>1
  <2> HIDE DEF d, n
  <2>3. CASE n >= 32768
    <3>1. Signed(w) = v + 65536 * (-d - 1)
      BY <1>5, <2>2, <2>3
    <3> HIDE DEF w
    <3> QED
      BY <2>2, <3>1
  <2>4. CASE ~ n >= 32768
    <3>1. Signed(w) = v + 65536 * (-d)
      BY <1>5, <2>2, <2>4
    <3> QED
      BY <2>2, <3>1
  <2> QED
    BY <2>3, <2>4
<1>7. \A x \in Int : (x + 65536 * q) % 65536 = x % 65536
  OBVIOUS
<1>8. \A x \in Int : x + Signed(w) = (x + v) + 65536 * q
  BY <1>6
<1>9. \A x \in Int : Address16(x + Signed(w)) = Address16(x + v)
  BY <1>7, <1>8 DEF Address16
<1>10. Address16(Signed(w)) = Address16(v)
  BY <1>6, <1>7 DEF Address16
<1> QED
  BY <1>1, <1>3, <1>9, <1>10 DEF w, Address16

\* A distance that is short, around the address space.
LEMMA ShortDistance ==
    ASSUME NEW v \in Int, ToRel16(v) \in -128 .. 127
    PROVE  /\ Signed(<<v % 256>>) = ToRel16(v)
           /\ \A x \in Int : Address16(x + ToRel16(v)) = Address16(x + v)
<1> DEFINE d == ToRel16(v)
           q == (v + 32768) \div 65536
<1>1. d \in Int /\ q \in Int /\ d = v - 65536 * q
  <2>1. (v + 32768) % 65536 = (v + 32768) - 65536 * q /\ q \in Int
    OBVIOUS
  <2> HIDE DEF q
  <2> QED
    BY <2>1 DEF ToRel16
<1> HIDE DEF d, q
<1>2. d % 256 = v % 256
  BY <1>1
<1>3. d \in -128 .. 127
  BY DEF d
<1>4. Signed(<<d % 256>>) = d
  BY <1>1, <1>3, ByteNumber
<1>5. \A x \in Int : (x + d) % 65536 = (x + v) % 65536
  <2> SUFFICES ASSUME NEW x \in Int PROVE (x + d) % 65536 = (x + v) % 65536
    OBVIOUS
  <2>1. x + v = (x + d) + 65536 * q
    BY <1>1
  <2> QED
    BY <1>1, <2>1
<1>6. Signed(<<v % 256>>) = d
  BY <1>2, <1>4
<1>7. \A x \in Int : Address16(x + d) = Address16(x + v)
  BY <1>5 DEF Address16
<1> QED
  BY <1>6, <1>7 DEF d

LEMMA ShortIsNear ==
    ASSUME NEW v \in -128 .. 127
    PROVE  ToRel16(v) = v
BY DEF ToRel16

-----------------------------------------------------------------------------
(* Postbytes. *)
\* The index register in the postbyte of a mode of x, y, u or s.
LEMMA IndexInPostbyte ==
    ASSUME NEW reg \in Index16, NEW low \in 0 .. 31
    PROVE  LET p == low + IndexSelect(reg) IN
           /\ p \in 0 .. 127 /\ p % 32 = low
           /\ IndexRegister(p) = reg /\ IndexRegister(128 + p) = reg
<1> DEFINE k == CASE reg = "x" -> 0 [] reg = "y" -> 1 [] reg = "u" -> 2 [] reg = "s" -> 3
           p == low + IndexSelect(reg)
<1>1. k \in 0 .. 3 /\ IndexSelect(reg) = 32 * k /\ <<"x", "y", "u", "s">>[k + 1] = reg
  BY DEF Index16, IndexSelect
<1> HIDE DEF k
<1>2. p = low + 32 * k
  BY <1>1
<1> HIDE DEF p
<1>3. p \in 0 .. 127 /\ p % 32 = low /\ (p \div 32) % 4 = k /\ ((128 + p) \div 32) % 4 = k
  BY <1>1, <1>2
<1>4. IndexRegister(p) = reg /\ IndexRegister(128 + p) = reg
  BY <1>1, <1>3 DEF IndexRegister
<1> QED
  BY <1>3, <1>4 DEF p

FiveAt(reg, off) == (off % 32) + IndexSelect(reg)

LEMMA FiveBits ==
    ASSUME NEW reg \in Index16, NEW off \in -16 .. 15, NEW rest, NEW after
    PROVE  /\ FiveAt(reg, off) \in Byte
           /\ Postbyte(FiveAt(reg, off), rest, after) = Operand(reg, Address16(off), "none", FALSE)
<1> DEFINE p == FiveAt(reg, off)
<1>1. off % 32 \in 0 .. 31 /\ (IF off % 32 > 15 THEN (off % 32) - 32 ELSE off % 32) = off
  OBVIOUS
<1>2. p \in 0 .. 127 /\ p % 32 = off % 32 /\ IndexRegister(p) = reg
  BY <1>1, IndexInPostbyte DEF FiveAt
<1> HIDE DEF p
<1>3. p < 128 /\ p \in Byte
  BY <1>2 DEF Byte
<1>4. Postbyte(p, rest, after) = Operand(reg, Address16(off), "none", FALSE)
  BY <1>1, <1>2, <1>3 DEF Postbyte
<1> QED
  BY <1>3, <1>4 DEF p

\* What the low four bits say, for those that are used with x, y, u and s.
ByLow(reg, low, rest, ind) ==
    CASE low = 0 -> Operand(reg, 0, "postinc", ind) [] low = 1 -> Operand(reg, 0, "postinc2", ind)
      [] low = 2 -> Operand(reg, 0, "predec", ind)  [] low = 3 -> Operand(reg, 0, "predec2", ind)
      [] low = 4 -> Operand(reg, 0, "none", ind)
      [] low = 5 -> Operand(reg, "b", "none", ind)  [] low = 6 -> Operand(reg, "a", "none", ind)
      [] low = 7 -> Operand(reg, "e", "none", ind)
      [] low \in {8, 9} -> Operand(reg, Address16(Signed(rest)), "none", ind)
      [] low = 10 -> Operand(reg, "f", "none", ind) [] low = 11 -> Operand(reg, "d", "none", ind)
      [] low = 14 -> Operand(reg, "w", "none", ind)

LowOK(low, ind) == low \in 0 .. 14 /\ low \notin {12, 13} /\ (low = 0 => ~ ind)

PostAt(reg, low, ind) == 128 + low + IndexSelect(reg) + (IF ind THEN 16 ELSE 0)

LEMMA OtherPostbytes ==
    ASSUME NEW reg \in Index16, NEW low, NEW ind \in BOOLEAN, LowOK(low, ind),
           NEW rest, NEW after
    PROVE  /\ PostAt(reg, low, ind) \in Byte
           /\ Postbyte(PostAt(reg, low, ind), rest, after) = ByLow(reg, low, rest, ind)
<1> USE DEF LowOK
<1> DEFINE p == PostAt(reg, low, ind)
           bit == IF ind THEN 16 ELSE 0
           q == (low + bit) + IndexSelect(reg)
<1>1. low + bit \in 0 .. 31
  OBVIOUS
<1>2. q \in 0 .. 127 /\ q % 32 = low + bit /\ IndexRegister(128 + q) = reg
  <2> DEFINE n == low + bit
  <2> HIDE DEF n
  <2>1. LET r == n + IndexSelect(reg) IN
        r \in 0 .. 127 /\ r % 32 = n /\ IndexRegister(128 + r) = reg
    BY <1>1, IndexInPostbyte DEF n
  <2> QED
    BY <2>1 DEF n
<1>3. p = 128 + q
  BY SelectType DEF PostAt
<1> HIDE DEF p, q
<1>4. /\ p \in 128 .. 255 /\ p % 16 = low
      /\ (p \div 16) % 2 = (IF ind THEN 1 ELSE 0)
  BY <1>2, <1>3
<1>5. p \notin {143, 144, 175, 176, 207, 208, 239, 240}
  BY <1>4
<1>6. ~ p < 128 /\ ((p \div 16) % 2 = 1) = ind
  BY <1>4
<1>7. {i \in 1 .. 4 : p \in {WPosts[i], WPosts[i] + 1}} = {}
  BY <1>5 DEF WPosts
<1>8. Postbyte(p, rest, after) = ByLow(reg, low, rest, ind)
  BY <1>2, <1>3, <1>4, <1>6, <1>7 DEF Postbyte, ByLow
<1> QED
  BY <1>4, <1>8 DEF p, Byte

RelativeAt(low, ind) == 128 + low + (IF ind THEN 16 ELSE 0)

LEMMA RelativePostbytes ==
    ASSUME NEW low \in {12, 13}, NEW ind \in BOOLEAN, NEW rest, NEW after
    PROVE  /\ RelativeAt(low, ind) \in Byte
           /\ Postbyte(RelativeAt(low, ind), rest, after)
                = Operand("none", Address16(after + Signed(rest)), "none", ind)
<1> DEFINE p == RelativeAt(low, ind)
<1>1. /\ p \in {140, 141, 156, 157} /\ ~ p < 128 /\ p % 16 = low
      /\ (p \div 16) % 2 = (IF ind THEN 1 ELSE 0)
  BY DEF RelativeAt
<1> HIDE DEF p
<1>2. ((p \div 16) % 2 = 1) = ind
  BY <1>1
<1>3. {i \in 1 .. 4 : p \in {WPosts[i], WPosts[i] + 1}} = {}
  BY <1>1 DEF WPosts
<1>4. Postbyte(p, rest, after) = Operand("none", Address16(after + Signed(rest)), "none", ind)
  BY <1>1, <1>2, <1>3 DEF Postbyte
<1>5. p \in Byte
  BY <1>1 DEF Byte
<1> QED
  BY <1>4, <1>5 DEF p

WAt(i, ind) == WPosts[i] + (IF ind THEN 1 ELSE 0)

LEMMA WPostbytes ==
    ASSUME NEW i \in 1 .. 4, NEW ind \in BOOLEAN, NEW rest, NEW after
    PROVE  /\ WAt(i, ind) \in Byte
           /\ Postbyte(WAt(i, ind), rest, after)
                = Operand("w", IF i = 2 THEN Address16(Signed(rest)) ELSE 0, WUpdate[i], ind)
<1> DEFINE p == WAt(i, ind)
           w == {j \in 1 .. 4 : p \in {WPosts[j], WPosts[j] + 1}}
<1>1. /\ WPosts[1] = 143 /\ WPosts[2] = 175 /\ WPosts[3] = 207 /\ WPosts[4] = 239
      /\ i = 1 \/ i = 2 \/ i = 3 \/ i = 4
  BY DEF WPosts
<1>2. \A j \in 1 .. 4 : p \in {WPosts[j], WPosts[j] + 1} <=> j = i
  BY <1>1 DEF WAt
<1>3. w = {i}
  BY <1>2
<1>4. ~ p < 128 /\ p \in Byte /\ (p # WPosts[i]) = ind
  BY <1>1 DEF Byte, WAt
<1> HIDE DEF p
<1>5. w # {} /\ (CHOOSE j \in w : TRUE) = i
  BY <1>3
<1> HIDE DEF w
<1>6. Postbyte(p, rest, after)
        = Operand("w", IF i = 2 THEN Address16(Signed(rest)) ELSE 0, WUpdate[i], p # WPosts[i])
  BY <1>4, <1>5 DEF Postbyte, w
<1> QED
  BY <1>4, <1>6 DEF p

LEMMA FifteenInPostbyte ==
    ASSUME NEW low \in {15}, NEW ind \in BOOLEAN, NEW rest, NEW after,
           NEW p \in Int, ~ p < 128, p % 16 = low, ((p \div 16) % 2 = 1) = ind,
           {i \in 1 .. 4 : p \in {WPosts[i], WPosts[i] + 1}} = {}
    PROVE  Postbyte(p, rest, after) = Operand("none", Number(rest), "none", ind)
BY DEF Postbyte

LEMMA AbsolutePostbyte ==
    ASSUME NEW rest, NEW after
    PROVE  Postbyte(159, rest, after) = Operand("none", Number(rest), "none", TRUE)
<1> DEFINE p == 159
<1>1. p \in Int /\ ~ p < 128 /\ p % 16 = 15 /\ ((p \div 16) % 2 = 1) = TRUE
  OBVIOUS
<1>2. {i \in 1 .. 4 : p \in {WPosts[i], WPosts[i] + 1}} = {}
  BY DEF WPosts
<1> HIDE DEF p
<1>3. 15 \in {15} /\ TRUE \in BOOLEAN
  OBVIOUS
<1>4. Postbyte(p, rest, after) = Operand("none", Number(rest), "none", TRUE)
  BY <1>1, <1>2, <1>3, FifteenInPostbyte, Zenon
<1> QED
  BY <1>4 DEF p

-----------------------------------------------------------------------------
(* Indexed operands. *)
\* The bytes of an operand are a postbyte and what follows it.
OperandIs(code, p, rest) ==
    /\ Pieces(code) /\ rest \in Seq(Byte)
    /\ FlattenSeq(code)[1] = p /\ Tail(FlattenSeq(code)) = rest
    /\ Len(FlattenSeq(code)) = 1 + Len(rest)

LEMMA ModeBytes ==
    ASSUME NEW post \in Byte, NEW off \in Int
    PROVE  /\ OperandIs(<<Field(1, post)>> \o << >>, post, << >>)
           /\ OperandIs(<<Field(1, post)>> \o <<Field(1, off)>>, post, <<off % 256>>)
           /\ OperandIs(<<Field(1, post)>> \o <<Field(2, off)>>, post,
                        <<(off \div 256) % 256, off % 256>>)
<1> DEFINE S == Seq(Byte)
           f == Field(1, post)
           g == Field(1, off)
           h == Field(2, off)
           lo == off % 256
           hi == (off \div 256) % 256
<1>1. post % 256 = post /\ post \in Int /\ lo \in Byte /\ hi \in Byte
  BY DEF Byte
<1>2. f = <<post>> /\ g = <<lo>> /\ h = <<hi, lo>>
  <2>1. Field(1, post) = <<post % 256>>
    BY <1>1, FieldBytes, SMTT(30)
  <2>2. Field(1, off) = <<off % 256>> /\ Field(2, off) = <<(off \div 256) % 256, off % 256>>
    BY FieldBytes, SMTT(30)
  <2> QED
    BY <1>1, <2>1, <2>2, Zenon
<1> HIDE DEF lo, hi, f, g, h
<1>3. f \in S /\ g \in S /\ h \in S
  <2>1. <<post>> \in S /\ <<lo>> \in S /\ <<hi, lo>> \in S
    BY <1>1
  <2> QED
    BY <1>2, <2>1, Zenon
<1>4. Cat(f, g) = <<post, lo>> /\ Cat(f, h) = <<post, hi, lo>>
  <2>0. post \in Byte /\ lo \in Byte /\ hi \in Byte
    BY <1>1
  <2>1. /\ <<post>> \o <<lo>> = <<post, lo>> /\ <<post>> \o <<lo, lo>> = <<post, lo, lo>>
        /\ <<post>> \o << >> = <<post>>
    BY <2>0, Paired, Zenon
  <2>2. /\ <<post>> \o <<hi>> = <<post, hi>> /\ <<post>> \o <<hi, lo>> = <<post, hi, lo>>
        /\ <<post>> \o << >> = <<post>>
    BY <2>0, Paired, Zenon
  <2> QED
    BY <1>2, <2>1, <2>2, Zenon DEF Cat
<1> HIDE DEF S
<1>5. <<f>> \o << >> = <<f>> /\ <<f>> \o <<g>> = <<f, g>> /\ <<f>> \o <<h>> = <<f, h>>
  BY <1>3, Paired
<1>6. FlattenSeq(<<f>>) = f /\ FlattenSeq(<<f, g>>) = Cat(f, g) /\ FlattenSeq(<<f, h>>) = Cat(f, h)
  BY Flattened
<1>7. Pieces(<<f>>) /\ Pieces(<<f, g>>) /\ Pieces(<<f, h>>)
  BY <1>3 DEF Pieces, S
<1>8. << >> \in Seq(Byte) /\ <<lo>> \in Seq(Byte) /\ <<hi, lo>> \in Seq(Byte)
  BY <1>1
<1>9. OperandIs(<<f>> \o << >>, post, << >>)
  <2>1. <<post>>[1] = post /\ Tail(<<post>>) = << >> /\ Len(<<post>>) = 1 + Len(<< >>)
    OBVIOUS
  <2> QED
    BY <1>2, <1>5, <1>6, <1>7, <1>8, <2>1 DEF OperandIs
<1>10. OperandIs(<<f>> \o <<g>>, post, <<lo>>)
  <2>1. /\ <<post, lo>>[1] = post /\ Tail(<<post, lo>>) = <<lo>>
        /\ Len(<<post, lo>>) = 1 + Len(<<lo>>)
    OBVIOUS
  <2> QED
    BY <1>4, <1>5, <1>6, <1>7, <1>8, <2>1 DEF OperandIs
<1>11. OperandIs(<<f>> \o <<h>>, post, <<hi, lo>>)
  <2>1. /\ <<post, hi, lo>>[1] = post /\ Tail(<<post, hi, lo>>) = <<hi, lo>>
        /\ Len(<<post, hi, lo>>) = 1 + Len(<<hi, lo>>)
    OBVIOUS
  <2> QED
    BY <1>4, <1>5, <1>6, <1>7, <1>8, <2>1 DEF OperandIs
<1> QED
  BY <1>9, <1>10, <1>11 DEF f, g, h, lo, hi

\* What an indexed operand means.
MeantIndexed(ind, a, r, after) ==
    LET n == IF IsInt(a) THEN a.val ELSE 0 IN
    IF r.reg \in {"pc", "pcr"}
    THEN Operand("none", Address16(IF r.reg = "pcr" /\ IsInt(a) THEN n ELSE after + n), "none", ind)
    ELSE Operand(r.reg, IF IsReg(a) THEN a.reg ELSE Address16(n), r.attr, ind)

OffsetOf(m, a, r, pc) ==
    LET given == IsInt(a) /\ ~ (a.attr = "none" /\ a.val = 0) IN
    IF ~ given THEN 0
    ELSE IF r.reg = "pcr" /\ m.off \in {"8bit", "16bit"} THEN a.val - PcrBase(m.off, pc)
    ELSE a.val

PostOf(m, ind, a, r, pc) ==
    LET off == OffsetOf(m, a, r, pc) IN
    m.post + IndexSelect(r.reg) + (IF m.off = "5bit" THEN off % 32 ELSE 0)
      + (IF ~ ind THEN 0 ELSE IF m.indirect = "ok_6309" THEN 1 ELSE 16)

CodeOf(m, ind, a, r, pc) ==
    LET off == OffsetOf(m, a, r, pc) IN
    <<Field(1, PostOf(m, ind, a, r, pc))>>
      \o (CASE m.off = "8bit" -> <<Field(1, off)>> [] m.off = "16bit" -> <<Field(2, off)>>
            [] OTHER -> << >>)

\* The mode is one for these arguments, with nothing to complain about.
Chosen(m, ind, a, r, pc) ==
    /\ m.index = IndexType(r.reg) /\ m.attr = r.attr
    /\ Compatible(m.off, r.reg, a, pc)
    /\ ~ (ind /\ m.indirect \in {"impossible", "illegal"})

\* One of the modes is used.
ModeUsed(ind, a, r, pc) ==
    \E i \in 1 .. 20 :
        /\ Chosen(IndexedModes[i], ind, a, r, pc)
        /\ Indexed2(ind, a, r, pc).code = CodeOf(IndexedModes[i], ind, a, r, pc)

LEMMA ModeChosen ==
    ASSUME NEW ind, NEW a, NEW r, NEW pc, a.type # "undef", r.type # "undef",
           Indexed2(ind, a, r, pc).error <= Inefficient
    PROVE  IsReg(r) /\ ModeUsed(ind, a, r, pc)
<1> DEFINE Fit(i) == LET m == IndexedModes[i] IN
                     /\ m.index = IndexType(r.reg) /\ m.attr = r.attr
                     /\ Compatible(m.off, r.reg, a, pc)
                     /\ ~ (ind /\ m.indirect = "impossible")
           fits == {i \in 1 .. Len(IndexedModes) : Fit(i)}
           m == IndexedModes[Min(fits)]
           bad == ~ IsReg(r) \/ IndexType(r.reg) \notin {"xyus", "pcr", "w"} \/ fits = {}
           error == IF ind /\ m.indirect = "illegal" THEN Illegal ELSE None
<1>1. Indexed2(ind, a, r, pc) =
        IF bad THEN Made(<< >>, Syntax) ELSE Made(CodeOf(m, ind, a, r, pc), error)
  BY DEF Indexed2, CodeOf, OffsetOf, PostOf
<1>2. ~ bad
  BY <1>1 DEF Made
<1>3. Indexed2(ind, a, r, pc) = Made(CodeOf(m, ind, a, r, pc), error)
  BY <1>1, <1>2
<1>4. Len(IndexedModes) = 20
  BY DEF IndexedModes
<1> HIDE DEF Fit
<1>5. fits \in SUBSET Nat /\ fits # {}
  BY <1>2, <1>4
<1>6. Min(fits) \in fits
  BY <1>5, LeastElement, Zenon
<1>7. Min(fits) \in 1 .. 20 /\ Fit(Min(fits))
  BY <1>4, <1>6
<1>8. ~ (ind /\ m.indirect = "illegal") /\ Indexed2(ind, a, r, pc).code = CodeOf(m, ind, a, r, pc)
  BY <1>3 DEF Made
<1> HIDE DEF fits
<1>9. Chosen(m, ind, a, r, pc)
  BY <1>7, <1>8 DEF Fit, Chosen
<1>10. ModeUsed(ind, a, r, pc)
  BY <1>7, <1>8, <1>9 DEF ModeUsed
<1> QED
  BY <1>2, <1>10

-----------------------------------------------------------------------------
\* An instruction whose operand is this code, and which ends at after, works on t.
Reaches(code, after, t) ==
    \E p \in Byte, rest \in Seq(Byte) : OperandIs(code, p, rest) /\ Postbyte(p, rest, after) = t

LEMMA PlainCode ==
    ASSUME NEW m, NEW ind \in BOOLEAN, NEW a, NEW r, NEW pc, NEW after,
           NEW low \in 0 .. 14, low \notin {8, 9, 12, 13}, low = 0 => ~ ind,
           r.reg \in Index16, m.post = 128 + low,
           m.off \notin {"5bit", "8bit", "16bit"}, m.indirect # "ok_6309"
    PROVE  Reaches(CodeOf(m, ind, a, r, pc), after, ByLow(r.reg, low, << >>, ind))
<1> DEFINE p == PostAt(r.reg, low, ind)
           t == ByLow(r.reg, low, << >>, ind)
<1>1. PostOf(m, ind, a, r, pc) = p
  BY SelectType DEF PostOf, PostAt
<1>2. p \in Byte /\ Postbyte(p, << >>, after) = t
  <2>1. LowOK(low, ind)
    BY DEF LowOK
  <2> QED
    BY <2>1, OtherPostbytes
<1> HIDE DEF p, t
<1>3. CodeOf(m, ind, a, r, pc) = <<Field(1, p)>> \o << >>
  BY <1>1 DEF CodeOf
<1>4. OperandIs(<<Field(1, p)>> \o << >>, p, << >>)
  <2>1. 0 \in Int
    OBVIOUS
  <2> QED
    BY <1>2, <2>1, ModeBytes, Zenon
<1>5. << >> \in Seq(Byte)
  BY EmptySeq
<1>6. Reaches(CodeOf(m, ind, a, r, pc), after, t)
  BY <1>2, <1>3, <1>4, <1>5, Zenon DEF Reaches
<1> QED
  BY <1>6 DEF t

\* The registers of the two groups, and w.
LEMMA IndexGroups ==
    ASSUME NEW r, ArgumentOK(r), IsReg(r)
    PROVE  /\ IndexType(r.reg) = "xyus" => r.reg \in Index16
           /\ IndexType(r.reg) = "pcr" => r.reg \in {"pc", "pcr"}
           /\ IndexType(r.reg) = "w" => r.reg = "w"
<1>1. r.reg \in RegNames
  BY DEF ArgumentOK
<1> QED
  BY <1>1 DEF RegNames, IndexType, Index16

\* Without an attribute of its own an offset is what the mode asks for.
LEMMA PlainOffset ==
    ASSUME NEW off, NEW reg, NEW a, NEW pc, ArgumentOK(a), Compatible(off, reg, a, pc)
    PROVE  /\ off = "zero" => a.type = "empty" \/ (IsInt(a) /\ a.val = 0)
           /\ off = "none" => a.type = "empty"
           /\ off \in {"a", "b", "d", "e", "f", "w"} => IsReg(a) /\ a.reg = off
<1>1. a.attr \in Attributes
  BY DEF ArgumentOK
<1>2. off \in {"zero", "a", "b", "d", "e", "f", "w"} => a.attr = "none"
  BY <1>1 DEF Attributes, Compatible
<1>3. off = "zero" => a.type = "empty" \/ (IsInt(a) /\ a.val = 0)
  BY <1>2 DEF Compatible
<1>4. off \in {"a", "b", "d", "e", "f", "w"} => IsReg(a) /\ a.reg = off
  BY <1>2 DEF Compatible
<1>5. off = "none" => a.type = "empty"
  BY DEF Compatible
<1> QED
  BY <1>3, <1>4, <1>5

LEMMA PlainModes ==
    ASSUME NEW i \in {1, 5, 6, 7, 8, 9, 10, 11, 14, 15, 16}, NEW ind \in BOOLEAN,
           NEW a, NEW r, NEW pc, NEW after, ArgumentOK(a), ArgumentOK(r), IsReg(r),
           Chosen(IndexedModes[i], ind, a, r, pc)
    PROVE  Reaches(CodeOf(IndexedModes[i], ind, a, r, pc), after, MeantIndexed(ind, a, r, after))
<1> DEFINE m == IndexedModes[i]
           Want(low) == /\ m.post = 128 + low /\ low \in 0 .. 14 /\ low \notin {8, 9, 12, 13}
                        /\ low = 0 => ~ ind
                        /\ m.index = "xyus" /\ m.indirect # "ok_6309"
                        /\ m.off \notin {"5bit", "8bit", "16bit"}
                        /\ ByLow(r.reg, low, << >>, ind) = MeantIndexed(ind, a, r, after)
<1>1. m.index = "xyus" => r.reg \in Index16
  BY IndexGroups DEF Chosen
<1>2. /\ m.off = "zero" => a.type = "empty" \/ (IsInt(a) /\ a.val = 0)
      /\ m.off = "none" => a.type = "empty"
      /\ m.off \in {"a", "b", "d", "e", "f", "w"} => IsReg(a) /\ a.reg = m.off
  BY PlainOffset DEF Chosen
<1>3. Address16(0) = 0
  BY DEF Address16
<1> SUFFICES \E low \in 0 .. 14 : Want(low)
  <2> SUFFICES ASSUME NEW low \in 0 .. 14, Want(low)
               PROVE  Reaches(CodeOf(m, ind, a, r, pc), after, MeantIndexed(ind, a, r, after))
    OBVIOUS
  <2>1. r.reg \in Index16
    BY <1>1
  <2> HIDE DEF m
  <2>2. Reaches(CodeOf(m, ind, a, r, pc), after, ByLow(r.reg, low, << >>, ind))
    BY <2>1, PlainCode, ZenonT(30)
  <2> QED
    BY <2>2
<1>4. m.index = "xyus" => r.reg \notin {"pc", "pcr"}
  BY <1>1 DEF Index16
<1>5. m.attr = r.attr /\ ~ (ind /\ m.indirect \in {"impossible", "illegal"})
  BY DEF Chosen
<1>6. CASE i = 1
  <2>1. m = Mode("xyus", "none", "zero", 132, "ok")
    BY <1>6 DEF IndexedModes
  <2> HIDE DEF m
  <2>2. Want(4)
    BY <1>2, <1>3, <1>4, <1>5, <2>1 DEF Mode, ByLow, MeantIndexed, IsInt, IsReg
  <2> QED
    BY <2>2
<1>7. CASE i = 5
  <2>1. m = Mode("xyus", "none", "a", 134, "ok")
    BY <1>7 DEF IndexedModes
  <2> HIDE DEF m
  <2>2. Want(6)
    BY <1>2, <1>3, <1>4, <1>5, <2>1 DEF Mode, ByLow, MeantIndexed, IsInt, IsReg
  <2> QED
    BY <2>2
<1>8. CASE i = 6
  <2>1. m = Mode("xyus", "none", "b", 133, "ok")
    BY <1>8 DEF IndexedModes
  <2> HIDE DEF m
  <2>2. Want(5)
    BY <1>2, <1>3, <1>4, <1>5, <2>1 DEF Mode, ByLow, MeantIndexed, IsInt, IsReg
  <2> QED
    BY <2>2
<1>9. CASE i = 7
  <2>1. m = Mode("xyus", "none", "d", 139, "ok")
    BY <1>9 DEF IndexedModes
  <2> HIDE DEF m
  <2>2. Want(11)
    BY <1>2, <1>3, <1>4, <1>5, <2>1 DEF Mode, ByLow, MeantIndexed, IsInt, IsReg
  <2> QED
    BY <2>2
<1>10. CASE i = 8
  <2>1. m = Mode("xyus", "postinc", "none", 128, "illegal")
    BY <1>10 DEF IndexedModes
  <2> HIDE DEF m
  <2>2. Want(0)
    BY <1>2, <1>3, <1>4, <1>5, <2>1 DEF Mode, ByLow, MeantIndexed, IsInt, IsReg
  <2> QED
    BY <2>2
<1>11. CASE i = 9
  <2>1. m = Mode("xyus", "postinc2", "none", 129, "ok")
    BY <1>11 DEF IndexedModes
  <2> HIDE DEF m
  <2>2. Want(1)
    BY <1>2, <1>3, <1>4, <1>5, <2>1 DEF Mode, ByLow, MeantIndexed, IsInt, IsReg
  <2> QED
    BY <2>2
<1>12. CASE i = 10
  <2>1. m = Mode("xyus", "predec", "none", 130, "illegal")
    BY <1>12 DEF IndexedModes
  <2> HIDE DEF m
  <2>2. Want(2)
    BY <1>2, <1>3, <1>4, <1>5, <2>1 DEF Mode, ByLow, MeantIndexed, IsInt, IsReg
  <2> QED
    BY <2>2
<1>13. CASE i = 11
  <2>1. m = Mode("xyus", "predec2", "none", 131, "ok")
    BY <1>13 DEF IndexedModes
  <2> HIDE DEF m
  <2>2. Want(3)
    BY <1>2, <1>3, <1>4, <1>5, <2>1 DEF Mode, ByLow, MeantIndexed, IsInt, IsReg
  <2> QED
    BY <2>2
<1>14. CASE i = 14
  <2>1. m = Mode("xyus", "none", "e", 135, "ok")
    BY <1>14 DEF IndexedModes
  <2> HIDE DEF m
  <2>2. Want(7)
    BY <1>2, <1>3, <1>4, <1>5, <2>1 DEF Mode, ByLow, MeantIndexed, IsInt, IsReg
  <2> QED
    BY <2>2
<1>15. CASE i = 15
  <2>1. m = Mode("xyus", "none", "f", 138, "ok")
    BY <1>15 DEF IndexedModes
  <2> HIDE DEF m
  <2>2. Want(10)
    BY <1>2, <1>3, <1>4, <1>5, <2>1 DEF Mode, ByLow, MeantIndexed, IsInt, IsReg
  <2> QED
    BY <2>2
<1>16. CASE i = 16
  <2>1. m = Mode("xyus", "none", "w", 142, "ok")
    BY <1>16 DEF IndexedModes
  <2> HIDE DEF m
  <2>2. Want(14)
    BY <1>2, <1>3, <1>4, <1>5, <2>1 DEF Mode, ByLow, MeantIndexed, IsInt, IsReg
  <2> QED
    BY <2>2
<1> QED
  BY <1>6, <1>7, <1>8, <1>9, <1>10, <1>11, <1>12, <1>13, <1>14, <1>15, <1>16

-----------------------------------------------------------------------------
\* An offset in one byte and in two.
Short(v) == <<v % 256>>
Long(v) == <<(v \div 256) % 256, v % 256>>

LEMMA OffsetBytes ==
    ASSUME NEW v \in Int
    PROVE  /\ Short(v) \in Seq(Byte) /\ Len(Short(v)) = 1
           /\ Long(v) \in Seq(Byte) /\ Len(Long(v)) = 2
           /\ v \in -128 .. 127 => Signed(Short(v)) = v
           /\ \A x \in Int : Address16(x + Signed(Long(v))) = Address16(x + v)
           /\ Address16(Signed(Long(v))) = Address16(v)
           /\ Number(Long(v)) = Address16(v) /\ Number(Short(v)) = v % 256
<1>1. Short(v) \in Seq(Byte) /\ Number(Short(v)) = v % 256
  BY ByteNumber, Zenon DEF Short
<1>2. v \in -128 .. 127 => Signed(Short(v)) = v
  BY ByteNumber, Zenon DEF Short
<1>3. /\ Long(v) \in Seq(Byte) /\ Number(Long(v)) = Address16(v)
      /\ \A x \in Int : Address16(x + Signed(Long(v))) = Address16(x + v)
      /\ Address16(Signed(Long(v))) = Address16(v)
  BY WordNumber, ZenonT(30) DEF Long
<1>4. Len(Short(v)) = 1 /\ Len(Long(v)) = 2
  BY DEF Short, Long
<1> QED
  BY <1>1, <1>2, <1>3, <1>4

LEMMA OffsetCode ==
    ASSUME NEW m, NEW ind, NEW a, NEW r, NEW pc,
           PostOf(m, ind, a, r, pc) \in Byte, OffsetOf(m, a, r, pc) \in Int
    PROVE  LET code == CodeOf(m, ind, a, r, pc)
               p == PostOf(m, ind, a, r, pc)
               off == OffsetOf(m, a, r, pc) IN
           /\ m.off = "8bit" => OperandIs(code, p, Short(off))
           /\ m.off = "16bit" => OperandIs(code, p, Long(off))
           /\ m.off \notin {"8bit", "16bit"} => OperandIs(code, p, << >>)
<1> DEFINE p == PostOf(m, ind, a, r, pc)
           off == OffsetOf(m, a, r, pc)
           code == CodeOf(m, ind, a, r, pc)
           none == << >>
<1>1. /\ OperandIs(<<Field(1, p)>> \o none, p, none)
      /\ OperandIs(<<Field(1, p)>> \o <<Field(1, off)>>, p, Short(off))
      /\ OperandIs(<<Field(1, p)>> \o <<Field(2, off)>>, p, Long(off))
  BY ModeBytes, ZenonT(30) DEF Short, Long
<1>2. code = <<Field(1, p)>>
               \o (CASE m.off = "8bit" -> <<Field(1, off)>> [] m.off = "16bit" -> <<Field(2, off)>>
                     [] OTHER -> none)
  BY DEF CodeOf
<1> HIDE DEF p, off, code, none
<1>3. m.off = "8bit" => code = <<Field(1, p)>> \o <<Field(1, off)>>
  BY <1>2
<1>4. m.off = "16bit" => code = <<Field(1, p)>> \o <<Field(2, off)>>
  BY <1>2
<1>5. m.off \notin {"8bit", "16bit"} => code = <<Field(1, p)>> \o none
  BY <1>2
<1>6. /\ m.off = "8bit" => OperandIs(code, p, Short(off))
      /\ m.off = "16bit" => OperandIs(code, p, Long(off))
      /\ m.off \notin {"8bit", "16bit"} => OperandIs(code, p, none)
  BY <1>1, <1>3, <1>4, <1>5, Zenon
<1> QED
  BY <1>6 DEF p, off, code, none

\* The number of an offset; 5 and 8 bits are enough for it where they are chosen.
FitsIndexed(a, r, after) ==
    IsInt(a) =>
        /\ a.attr = "5bit" => a.val \in -16 .. 15
        /\ a.attr = "8bit" =>
             (IF r.reg = "pcr" THEN ToRel16(a.val - after) ELSE a.val) \in -128 .. 127

Value(a) == IF IsInt(a) THEN a.val ELSE 0

LEMMA NumberOffset ==
    ASSUME NEW m, NEW a, NEW r, NEW pc, NEW after, ArgumentOK(a),
           a.attr # "none" => a.type \in {"int", "empty"},
           Compatible(m.off, r.reg, a, pc), m.off \in {"5bit", "8bit", "16bit"},
           r.reg # "pcr", FitsIndexed(a, r, after)
    PROVE  /\ OffsetOf(m, a, r, pc) = Value(a) /\ Value(a) \in Int /\ ~ IsReg(a)
           /\ m.off = "5bit" => Value(a) \in -16 .. 15
           /\ m.off = "8bit" => Value(a) \in -128 .. 127
<1>1. Value(a) \in Int
  BY DEF Value, ArgumentOK
<1>2. OffsetOf(m, a, r, pc) = Value(a)
  BY DEF OffsetOf, Value
<1>3. a.type \in {"int", "empty"}
  BY DEF Compatible, IsInt
<1>4. m.off = "5bit" => Value(a) \in -16 .. 15
  BY <1>3 DEF Compatible, Value, FitsIndexed, IsInt
<1>5. m.off = "8bit" => Value(a) \in -128 .. 127
  BY <1>3 DEF Compatible, Value, FitsIndexed, IsInt
<1>6. ~ IsReg(a)
  BY <1>3 DEF IsReg
<1> QED
  BY <1>1, <1>2, <1>4, <1>5, <1>6

\* i = 2, 3 and 4: an offset of 5, 8 or 16 bits from x, y, u or s.
LEMMA NumberModes ==
    ASSUME NEW i \in 2 .. 4, NEW ind \in BOOLEAN,
           NEW a, NEW r, NEW pc, NEW after, ArgumentOK(a), ArgumentOK(r), IsReg(r),
           a.attr # "none" => a.type \in {"int", "empty"},
           Chosen(IndexedModes[i], ind, a, r, pc), FitsIndexed(a, r, after)
    PROVE  Reaches(CodeOf(IndexedModes[i], ind, a, r, pc), after, MeantIndexed(ind, a, r, after))
<1> DEFINE m == IndexedModes[i]
           v == Value(a)
           p == PostOf(m, ind, a, r, pc)
           t == Operand(r.reg, Address16(v), "none", ind)
<1>1. \/ m = Mode("xyus", "none", "5bit", 0, "impossible") /\ i = 2
      \/ m = Mode("xyus", "none", "8bit", 136, "ok") /\ i = 3
      \/ m = Mode("xyus", "none", "16bit", 137, "ok") /\ i = 4
  BY DEF IndexedModes
<1> HIDE DEF m
<1>2. /\ m.index = "xyus" /\ m.attr = "none" /\ m.off \in {"5bit", "8bit", "16bit"}
      /\ m.indirect # "ok_6309"
      /\ m.off = "5bit" => m.post = 0 /\ m.indirect = "impossible"
      /\ m.off = "8bit" => m.post = 136
      /\ m.off = "16bit" => m.post = 137
  BY <1>1 DEF Mode
<1>3. /\ r.reg \in Index16 /\ r.attr = "none" /\ Compatible(m.off, r.reg, a, pc)
      /\ ~ (ind /\ m.indirect = "impossible")
  BY <1>2, IndexGroups, ZenonT(30) DEF Chosen, m
<1>4. r.reg \notin {"pc", "pcr"}
  BY <1>3 DEF Index16
<1>5. /\ OffsetOf(m, a, r, pc) = v /\ v \in Int /\ ~ IsReg(a)
      /\ m.off = "5bit" => v \in -16 .. 15
      /\ m.off = "8bit" => v \in -128 .. 127
  BY <1>2, <1>3, <1>4, NumberOffset
<1>6. MeantIndexed(ind, a, r, after) = t
  BY <1>3, <1>4, <1>5 DEF MeantIndexed, Value
<1> HIDE DEF v
<1>7. CASE m.off = "5bit"
  <2>1. ~ ind
    BY <1>2, <1>3, <1>7
  <2>2. p = FiveAt(r.reg, v)
    BY <1>2, <1>5, <1>7, <2>1, SelectType DEF PostOf, FiveAt
  <2> HIDE DEF p
  <2>3. p \in Byte /\ Postbyte(p, << >>, after) = t
    <3>1. /\ FiveAt(r.reg, v) \in Byte
          /\ Postbyte(FiveAt(r.reg, v), << >>, after) = Operand(r.reg, Address16(v), "none", FALSE)
      BY <1>3, <1>5, <1>7, FiveBits
    <3>2. ind = FALSE
      BY <2>1
    <3> QED
      BY <2>2, <3>1, <3>2
  <2>4. OperandIs(CodeOf(m, ind, a, r, pc), p, << >>)
    BY <1>5, <1>7, <2>3, OffsetCode DEF p
  <2>5. << >> \in Seq(Byte)
    BY EmptySeq
  <2>6. Reaches(CodeOf(m, ind, a, r, pc), after, t)
    BY <2>3, <2>4, <2>5, Zenon DEF Reaches
  <2> QED
    BY <1>6, <2>6 DEF m
<1>8. CASE m.off = "8bit"
  <2>1. p = PostAt(r.reg, 8, ind) /\ LowOK(8, ind)
    BY <1>2, <1>8, SelectType DEF PostOf, PostAt, LowOK
  <2>2. PostAt(r.reg, 8, ind) \in Byte /\ Postbyte(p, Short(v), after) = ByLow(r.reg, 8, Short(v), ind)
    BY <1>3, <2>1, OtherPostbytes
  <2> HIDE DEF p
  <2>3. ByLow(r.reg, 8, Short(v), ind) = t
    BY <1>5, <1>8, OffsetBytes DEF ByLow
  <2>4. OperandIs(CodeOf(m, ind, a, r, pc), p, Short(v))
    BY <1>5, <1>8, <2>1, <2>2, OffsetCode DEF p
  <2>5. Short(v) \in Seq(Byte)
    BY <1>5, OffsetBytes
  <2>6. Reaches(CodeOf(m, ind, a, r, pc), after, t)
    BY <2>1, <2>2, <2>3, <2>4, <2>5, Zenon DEF Reaches
  <2> QED
    BY <1>6, <2>6 DEF m
<1>9. CASE m.off = "16bit"
  <2>1. p = PostAt(r.reg, 9, ind) /\ LowOK(9, ind)
    BY <1>2, <1>9, SelectType DEF PostOf, PostAt, LowOK
  <2>2. PostAt(r.reg, 9, ind) \in Byte /\ Postbyte(p, Long(v), after) = ByLow(r.reg, 9, Long(v), ind)
    BY <1>3, <2>1, OtherPostbytes
  <2> HIDE DEF p
  <2>3. ByLow(r.reg, 9, Long(v), ind) = t
    BY <1>5, <1>9, OffsetBytes DEF ByLow
  <2>4. OperandIs(CodeOf(m, ind, a, r, pc), p, Long(v))
    BY <1>5, <1>9, <2>1, <2>2, OffsetCode DEF p
  <2>5. Long(v) \in Seq(Byte)
    BY <1>5, OffsetBytes
  <2>6. Reaches(CodeOf(m, ind, a, r, pc), after, t)
    BY <2>1, <2>2, <2>3, <2>4, <2>5, Zenon DEF Reaches
  <2> QED
    BY <1>6, <2>6 DEF m
<1> QED
  BY <1>2, <1>7, <1>8, <1>9

-----------------------------------------------------------------------------
\* i = 12 and 13: from the end of the instruction.
LEMMA PcrOffset ==
    ASSUME NEW m, NEW a, NEW r, NEW pc \in Int, NEW after, ArgumentOK(a),
           a.attr # "none" => a.type \in {"int", "empty"},
           r.reg = "pcr", Compatible(m.off, r.reg, a, pc), m.off \in {"8bit", "16bit"},
           after = IF m.off = "8bit" THEN pc + 2 ELSE pc + 3,
           FitsIndexed(a, r, after), ~ (IsInt(a) /\ a.val = 0 /\ a.attr = "none")
    PROVE  /\ IsInt(a) => a.val \in Int
           /\ OffsetOf(m, a, r, pc) = IF IsInt(a) THEN a.val - after ELSE 0
           /\ m.off = "8bit" /\ IsInt(a) => ToRel16(a.val - after) \in -128 .. 127
<1>1. a.type \in {"int", "empty"}
  BY DEF Compatible, IsInt
<1>2. IsInt(a) => a.val \in Int
  BY DEF ArgumentOK
<1>3. after = PcrBase(m.off, pc) /\ after \in Int
  BY DEF PcrBase
<1>4. OffsetOf(m, a, r, pc) = IF IsInt(a) THEN a.val - after ELSE 0
  BY <1>3 DEF OffsetOf
<1>5. m.off = "8bit" /\ IsInt(a) => ToRel16(a.val - after) \in -128 .. 127
  BY <1>1 DEF Compatible, FitsIndexed, IsInt
<1> QED
  BY <1>2, <1>4, <1>5

\* What is at the end of the code of label,pcr and of n,pc.
LEMMA RelativeReached ==
    ASSUME NEW m, NEW a, NEW r, NEW pc \in Int, NEW after, ArgumentOK(a),
           a.attr # "none" => a.type \in {"int", "empty"},
           r.reg \in {"pc", "pcr"}, Compatible(m.off, r.reg, a, pc), m.off \in {"8bit", "16bit"},
           after = IF m.off = "8bit" THEN pc + 2 ELSE pc + 3,
           FitsIndexed(a, r, after), ~ (r.reg = "pcr" /\ IsInt(a) /\ a.val = 0 /\ a.attr = "none")
    PROVE  LET off == OffsetOf(m, a, r, pc)
               target == Address16(IF r.reg = "pcr" /\ IsInt(a) THEN Value(a) ELSE after + Value(a)) IN
           /\ off \in Int
           /\ m.off = "8bit" => Address16(after + Signed(Short(off))) = target
           /\ m.off = "16bit" => Address16(after + Signed(Long(off))) = target
<1> DEFINE off == OffsetOf(m, a, r, pc)
           target == Address16(IF r.reg = "pcr" /\ IsInt(a) THEN Value(a) ELSE after + Value(a))
<1>1. after \in Int
  OBVIOUS
<1>2. CASE r.reg = "pc" \/ ~ IsInt(a)
  <2>1. /\ off = Value(a) /\ off \in Int
        /\ m.off = "8bit" => off \in -128 .. 127
    <3>1. CASE r.reg = "pc"
      BY <3>1, NumberOffset
    <3>2. CASE ~ IsInt(a)
      BY <3>2 DEF OffsetOf, Value
    <3> QED
      BY <1>2, <3>1, <3>2
  <2>2. target = Address16(after + off)
    BY <1>2, <2>1
  <2> HIDE DEF off, target
  <2>3. m.off = "8bit" => Address16(after + Signed(Short(off))) = target
    BY <2>1, <2>2, OffsetBytes
  <2>4. Address16(after + Signed(Long(off))) = target
    BY <1>1, <2>1, <2>2, OffsetBytes
  <2> QED
    BY <2>1, <2>3, <2>4 DEF off, target
<1>3. CASE r.reg = "pcr" /\ IsInt(a)
  <2>1. /\ a.val \in Int /\ off = a.val - after
        /\ m.off = "8bit" => ToRel16(a.val - after) \in -128 .. 127
    <3>1. r.reg = "pcr" /\ ~ (IsInt(a) /\ a.val = 0 /\ a.attr = "none")
      BY <1>3
    <3>2. /\ IsInt(a) => a.val \in Int
          /\ off = IF IsInt(a) THEN a.val - after ELSE 0
          /\ m.off = "8bit" /\ IsInt(a) => ToRel16(a.val - after) \in -128 .. 127
      BY <3>1, PcrOffset, ZenonT(30)
    <3> QED
      BY <1>3, <3>2
  <2>2. target = Address16(a.val)
    BY <1>3 DEF Value
  <2> HIDE DEF target, off
  <2>3. off \in Int /\ after + off = a.val
    BY <1>1, <2>1
  <2>4. Address16(after + off) = target
    BY <2>2, <2>3
  <2>5. ASSUME m.off = "8bit"
        PROVE  Address16(after + Signed(Short(off))) = target
    <3>1. ToRel16(off) \in -128 .. 127
      BY <2>1, <2>5
    <3>2. Signed(Short(off)) = ToRel16(off) /\ Address16(after + ToRel16(off)) = Address16(after + off)
      BY <1>1, <2>3, <3>1, ShortDistance DEF Short
    <3> QED
      BY <2>4, <3>2
  <2>6. Address16(after + Signed(Long(off))) = target
    BY <1>1, <2>3, <2>4, OffsetBytes
  <2> QED
    BY <2>3, <2>5, <2>6 DEF off, target
<1> QED
  BY <1>2, <1>3

LEMMA RelativeModes ==
    ASSUME NEW i \in {12, 13}, NEW ind \in BOOLEAN,
           NEW a, NEW r, NEW pc \in Int, NEW after, ArgumentOK(a), ArgumentOK(r), IsReg(r),
           a.attr # "none" => a.type \in {"int", "empty"},
           Chosen(IndexedModes[i], ind, a, r, pc), FitsIndexed(a, r, after),
           ~ (r.reg = "pcr" /\ IsInt(a) /\ a.val = 0 /\ a.attr = "none"),
           after = pc + Len(FlattenSeq(CodeOf(IndexedModes[i], ind, a, r, pc)))
    PROVE  Reaches(CodeOf(IndexedModes[i], ind, a, r, pc), after, MeantIndexed(ind, a, r, after))
<1> DEFINE m == IndexedModes[i]
           v == Value(a)
           p == PostOf(m, ind, a, r, pc)
           off == OffsetOf(m, a, r, pc)
           target == Address16(IF r.reg = "pcr" /\ IsInt(a) THEN v ELSE after + v)
           t == Operand("none", target, "none", ind)
           code == CodeOf(m, ind, a, r, pc)
           rest == IF i = 12 THEN Short(off) ELSE Long(off)
<1>1. \/ m = Mode("pcr", "none", "8bit", 140, "ok") /\ i = 12
      \/ m = Mode("pcr", "none", "16bit", 141, "ok") /\ i = 13
  BY DEF IndexedModes
<1>2. after = pc + Len(FlattenSeq(code))
  OBVIOUS
<1> HIDE DEF m
<1>3. /\ m.index = "pcr" /\ m.off = (IF i = 12 THEN "8bit" ELSE "16bit") /\ m.indirect = "ok"
      /\ m.post = 128 + i
  BY <1>1 DEF Mode
<1>4. r.reg \in {"pc", "pcr"} /\ Compatible(m.off, r.reg, a, pc)
  BY <1>3, IndexGroups DEF Chosen, m
<1>5. MeantIndexed(ind, a, r, after) = t
  BY <1>4 DEF MeantIndexed, Value
<1>6. p = RelativeAt(i, ind)
  BY <1>3, <1>4, SelectType DEF PostOf, RelativeAt, IndexSelect
<1>7. /\ p \in Byte
      /\ Postbyte(p, rest, after) = Operand("none", Address16(after + Signed(rest)), "none", ind)
  BY <1>6, RelativePostbytes
<1> HIDE DEF p, target, code
<1>8. off \in Int
  BY DEF OffsetOf, ArgumentOK, PcrBase
<1> HIDE DEF off
<1>9. rest \in Seq(Byte) /\ Len(rest) = (IF i = 12 THEN 1 ELSE 2)
  BY <1>8, OffsetBytes
<1>10. OperandIs(code, p, rest)
  BY <1>3, <1>7, <1>8, OffsetCode DEF p, code, off
<1>11. after = IF m.off = "8bit" THEN pc + 2 ELSE pc + 3
  BY <1>2, <1>3, <1>9, <1>10 DEF OperandIs
<1>12. Address16(after + Signed(rest)) = target
  BY <1>3, <1>4, <1>11, RelativeReached DEF off, target
<1> HIDE DEF rest
<1>13. Reaches(code, after, t)
  BY <1>7, <1>9, <1>10, <1>12, Zenon DEF Reaches
<1> QED
  BY <1>5, <1>13 DEF code, m

-----------------------------------------------------------------------------
\* i = 17 to 20: the 6309's w.
LEMMA WModes ==
    ASSUME NEW k \in 1 .. 4, NEW ind \in BOOLEAN,
           NEW a, NEW r, NEW pc, NEW after, ArgumentOK(a), ArgumentOK(r), IsReg(r),
           a.attr # "none" => a.type \in {"int", "empty"},
           Chosen(IndexedModes[16 + k], ind, a, r, pc), FitsIndexed(a, r, after)
    PROVE  Reaches(CodeOf(IndexedModes[16 + k], ind, a, r, pc), after,
                   MeantIndexed(ind, a, r, after))
<1> DEFINE m == IndexedModes[16 + k]
           v == Value(a)
           p == PostOf(m, ind, a, r, pc)
           t == Operand("w", Address16(v), r.attr, ind)
           code == CodeOf(m, ind, a, r, pc)
           rest == IF k = 2 THEN Long(v) ELSE << >>
<1>1. \/ m = Mode("w", "none", "none", 143, "ok_6309") /\ k = 1
      \/ m = Mode("w", "none", "16bit", 175, "ok_6309") /\ k = 2
      \/ m = Mode("w", "postinc2", "none", 207, "ok_6309") /\ k = 3
      \/ m = Mode("w", "predec2", "none", 239, "ok_6309") /\ k = 4
  BY DEF IndexedModes
<1> HIDE DEF m
<1>2. /\ m.index = "w" /\ m.off = (IF k = 2 THEN "16bit" ELSE "none") /\ m.indirect = "ok_6309"
      /\ m.post = WPosts[k] /\ m.attr = WUpdate[k] /\ WPosts[k] \in Int
  BY <1>1 DEF Mode, WPosts, WUpdate
<1>3. r.reg = "w" /\ r.attr = WUpdate[k] /\ Compatible(m.off, r.reg, a, pc)
  BY <1>2, IndexGroups DEF Chosen, m
<1>4. ~ IsReg(a) /\ v \in Int /\ (k # 2 => v = 0) /\ (k = 2 => OffsetOf(m, a, r, pc) = v)
  <2>1. CASE k = 2
    BY <1>2, <1>3, <2>1, NumberOffset
  <2>2. CASE k # 2
    BY <1>2, <1>3, <2>2 DEF Compatible, Value, IsInt, IsReg
  <2> QED
    BY <2>1, <2>2
<1>5. MeantIndexed(ind, a, r, after) = t
  BY <1>3, <1>4 DEF MeantIndexed, Value
<1> HIDE DEF v
<1>6. p = WAt(k, ind)
  BY <1>2, <1>3 DEF PostOf, WAt, IndexSelect
<1>7. /\ p \in Byte
      /\ Postbyte(p, rest, after)
           = Operand("w", IF k = 2 THEN Address16(Signed(rest)) ELSE 0, WUpdate[k], ind)
  BY <1>6, WPostbytes
<1> HIDE DEF p, code
<1>8. OffsetOf(m, a, r, pc) \in Int
  BY <1>2, <1>3 DEF OffsetOf, ArgumentOK
<1>9. rest \in Seq(Byte)
  BY <1>4, OffsetBytes, EmptySeq
<1>10. OperandIs(code, p, rest)
  BY <1>2, <1>4, <1>7, <1>8, OffsetCode DEF p, code
<1>11. (IF k = 2 THEN Address16(Signed(rest)) ELSE 0) = Address16(v)
  <2>1. Address16(0) = 0
    BY DEF Address16
  <2>2. Address16(Signed(Long(v))) = Address16(v)
    BY <1>4, OffsetBytes
  <2> QED
    BY <1>4, <2>1, <2>2
<1>12. Postbyte(p, rest, after) = t
  BY <1>3, <1>7, <1>11
<1> HIDE DEF rest
<1>13. Reaches(code, after, t)
  BY <1>7, <1>9, <1>10, <1>12, Zenon DEF Reaches
<1> QED
  BY <1>5, <1>13 DEF code, m

LEMMA Indexed2Right ==
    ASSUME NEW ind \in BOOLEAN, NEW a, NEW r, NEW pc \in Int, NEW after,
           ArgumentOK(a), ArgumentOK(r), a.type # "undef", r.type # "undef",
           Indexed2(ind, a, r, pc).error <= Inefficient,
           a.attr # "none" => a.type \in {"int", "empty"},
           FitsIndexed(a, r, after),
           ~ (r.reg = "pcr" /\ IsInt(a) /\ a.val = 0 /\ a.attr = "none"),
           after = pc + Len(FlattenSeq(Indexed2(ind, a, r, pc).code))
    PROVE  Reaches(Indexed2(ind, a, r, pc).code, after, MeantIndexed(ind, a, r, after))
<1>1. IsReg(r) /\ ModeUsed(ind, a, r, pc)
  BY ModeChosen
<1>2. PICK i \in 1 .. 20 :
        /\ Chosen(IndexedModes[i], ind, a, r, pc)
        /\ Indexed2(ind, a, r, pc).code = CodeOf(IndexedModes[i], ind, a, r, pc)
  BY <1>1 DEF ModeUsed
<1>3. CASE i \in {1, 5, 6, 7, 8, 9, 10, 11, 14, 15, 16}
  BY <1>1, <1>2, <1>3, PlainModes, SMTT(30)
<1>4. CASE i \in 2 .. 4
  BY <1>1, <1>2, <1>4, NumberModes
<1>5. CASE i \in {12, 13}
  BY <1>1, <1>2, <1>5, RelativeModes
<1>6. CASE i \in 17 .. 20
  <2> DEFINE k == i - 16
  <2>1. k \in 1 .. 4 /\ 16 + k = i
    BY <1>6
  <2> HIDE DEF k
  <2> QED
    BY <1>1, <1>2, <2>1, WModes
<1> QED
  BY <1>3, <1>4, <1>5, <1>6

-----------------------------------------------------------------------------
(* Operands in memory. *)
LEMMA AbsoluteRight ==
    ASSUME NEW ind \in BOOLEAN, NEW a, NEW after, ArgumentOK(a), a.type # "undef",
           Absolute(ind, a).error <= Inefficient
    PROVE  /\ ind /\ IsInt(a)
           /\ Reaches(Absolute(ind, a).code, after,
                      Operand("none", Address16(Value(a)), "none", ind))
<1> DEFINE v == Value(a)
           made == Absolute(ind, a)
           code == <<Field(1, 159), Field(2, v)>>
<1>1. ind /\ IsInt(a) /\ made = Made(code, None)
  BY DEF Absolute, Made, Value, IsInt
<1> HIDE DEF code, made
<1>2. made.code = code
  BY <1>1 DEF Made
<1>3. v \in Int
  BY DEF Value, ArgumentOK
<1>4. 159 \in Byte
  BY DEF Byte
<1> HIDE DEF v
<1>5. OperandIs(<<Field(1, 159)>> \o <<Field(2, v)>>, 159, Long(v))
  BY <1>3, <1>4, ModeBytes, ZenonT(30) DEF Long
<1>6. <<Field(1, 159)>> \o <<Field(2, v)>> = code
  <2> DEFINE S == Seq(Byte)
             f == Field(1, 159)
             g == Field(2, v)
  <2>1. f \in S /\ g \in S
    BY <1>3, FieldIsPiece DEF Piece
  <2> HIDE DEF f, g, S
  <2>2. <<f>> \o <<g>> = <<f, g>>
    BY <2>1, Paired
  <2> QED
    BY <2>2 DEF f, g, code
<1>7. Postbyte(159, Long(v), after) = Operand("none", Address16(v), "none", ind)
  <2>1. Postbyte(159, Long(v), after) = Operand("none", Number(Long(v)), "none", TRUE)
    BY AbsolutePostbyte
  <2>2. Number(Long(v)) = Address16(v) /\ ind = TRUE
    BY <1>1, <1>3, OffsetBytes
  <2> QED
    BY <2>1, <2>2
<1>8. Long(v) \in Seq(Byte)
  BY <1>3, OffsetBytes
<1>9. OperandIs(made.code, 159, Long(v))
  BY <1>2, <1>5, <1>6, Zenon
<1>10. Reaches(made.code, after, Operand("none", Address16(v), "none", ind))
  BY <1>4, <1>7, <1>8, <1>9, Zenon DEF Reaches
<1> QED
  BY <1>1, <1>10 DEF made, v

\* The operand of OIM and the like, or nothing.
ImmediateIs(op, imm, mem) ==
    IF op.ext = "imm8_mem" THEN imm = <<mem>> /\ Len(mem) = 1 ELSE imm = << >> /\ mem = << >>

Coded(form, mem, operand) == Cat(Op(form), Cat(mem, operand))

\* What the processor finds in the code.
Found(op, form, mem, operand, bytes) ==
    /\ ByForm(op, bytes) = form /\ OperandBytes(op, bytes) = operand
    /\ op.ext = "imm8_mem" => Rest(op, bytes)[1] = mem[1]

LEMMA OperandFound ==
    ASSUME NEW op, NEW form \in Form, NEW imm, NEW mem \in Seq(Byte), NEW operand \in Seq(Byte),
           ImmediateIs(op, imm, mem)
    PROVE  Found(op, form, mem, operand, Coded(form, mem, operand))
<1> DEFINE rest == Cat(mem, operand)
           bytes == Coded(form, mem, operand)
<1>1. rest \in Seq(Byte) /\ Len(rest) = Len(mem) + Len(operand)
  BY ConcatProperties DEF Cat
<1>2. op.ext # "imm8_mem" => rest = operand
  BY ConcatEmptySeq DEF Cat, ImmediateIs
<1>3. op.ext = "imm8_mem" => Tail(rest) = operand /\ rest[1] = mem[1]
  <2> SUFFICES ASSUME op.ext = "imm8_mem" PROVE Tail(rest) = operand /\ rest[1] = mem[1]
    OBVIOUS
  <2>1. Len(mem) = 1
    BY DEF ImmediateIs
  <2>2. Len(rest) = 1 + Len(operand) /\ Len(operand) \in Nat
    BY <1>1, <2>1
  <2>3. \A i \in 1 .. Len(rest) : rest[i] = IF i <= 1 THEN mem[i] ELSE operand[i - 1]
    BY <2>1, <2>2 DEF Cat
  <2> HIDE DEF rest
  <2>4. rest[1] = mem[1]
    BY <2>2, <2>3
  <2>5. Tail(rest) \in Seq(Byte) /\ Len(Tail(rest)) = Len(operand)
    BY <1>1, <2>2, HeadTailProperties
  <2>6. \A i \in 1 .. Len(operand) : Tail(rest)[i] = operand[i]
    <3> SUFFICES ASSUME NEW i \in 1 .. Len(operand) PROVE Tail(rest)[i] = operand[i]
      OBVIOUS
    <3>1. Tail(rest)[i] = rest[i + 1]
      BY <1>1, <2>2, HeadTailProperties
    <3>2. i + 1 \in 1 .. Len(rest) /\ ~ (i + 1 <= 1) /\ (i + 1) - 1 = i
      BY <2>2
    <3> QED
      BY <2>3, <3>1, <3>2
  <2>7. Tail(rest) = operand
    BY <2>5, <2>6, SeqEqual
  <2> QED
    BY <2>4, <2>7
<1> HIDE DEF rest
<1>4. bytes = Cat(Op(form), rest)
  BY DEF rest, Coded
<1> HIDE DEF bytes
<1>5. ByForm(op, bytes) = form /\ Rest(op, bytes) = rest /\ Len(bytes) = Len(Op(form)) + Len(rest)
  BY <1>1, <1>4, FormDecoded
<1>7. OperandBytes(op, bytes) = operand
  BY <1>2, <1>3, <1>5 DEF OperandBytes
<1> QED
  BY <1>3, <1>5, <1>7 DEF bytes, Found

-----------------------------------------------------------------------------
\* The arguments in brackets, or those without.
Listed(args) == IF args[1].type = "array" THEN args[1].args ELSE args

MeantAt(ind, as, after) ==
    IF Len(as) = 1 THEN Operand("none", Address16(Value(as[1])), "none", ind)
    ELSE MeantIndexed(ind, as[1], as[2], after)

LEMMA MeantIs ==
    ASSUME NEW args, NEW after
    PROVE  MeantInMemory(args, after) = MeantAt(args[1].type = "array", Listed(args), after)
BY DEF MeantInMemory, MeantAt, Listed, MeantIndexed, Value

LEMMA ListedOK ==
    ASSUME NEW args, ArgumentsOK(args), ~ HasUndefined(args), Len(args) \in Nat \ {0},
           NEW i \in 1 .. Len(Listed(args))
    PROVE  ArgumentOK(Listed(args)[i]) /\ Listed(args)[i].type # "undef"
<1>1. CASE args[1].type = "array"
  <2>1. Listed(args) = args[1].args /\ 1 \in 1 .. Len(args)
    BY <1>1 DEF Listed
  <2> QED
    BY <1>1, <2>1 DEF ArgumentsOK, HasUndefined
<1>2. CASE args[1].type # "array"
  <2>1. Listed(args) = args
    BY <1>2 DEF Listed
  <2> QED
    BY <1>2, <2>1 DEF ArgumentsOK, HasUndefined
<1> QED
  BY <1>1, <1>2

\* What an operand in memory is expected to be.
ExpectedIn(args) ==
    LET as == Listed(args) IN
    /\ args[1].type = "array" => Len(args) = 1
    /\ Len(as) = 1 => IsInt(as[1])
    /\ as[1].attr # "none" => as[1].type \in {"int", "empty"}

FitsIn(args, after) ==
    LET as == Listed(args) IN
    Len(as) = 2 => FitsIndexed(as[1], as[2], after)

\* The operand is in the code after the opcode of this form, and is what it should be.
Encodes(form, mem, bytes, after, t) ==
    \E operand \in Seq(Byte) :
        /\ bytes = Cat(Op(form), Cat(mem, operand))
        /\ Postbyte(operand[1], Tail(operand), after) = t

LEMMA IndexedPieces ==
    ASSUME NEW ind, NEW a, NEW r, NEW pc \in Int, ArgumentOK(a), a.type # "undef", r.type # "undef",
           Indexed2(ind, a, r, pc).error <= Inefficient
    PROVE  Pieces(Indexed2(ind, a, r, pc).code)
<1>1. PICK i \in 1 .. 20 : Indexed2(ind, a, r, pc).code = CodeOf(IndexedModes[i], ind, a, r, pc)
  BY ModeChosen DEF ModeUsed
<1> DEFINE m == IndexedModes[i]
           p == PostOf(m, ind, a, r, pc)
           off == OffsetOf(m, a, r, pc)
           f == Field(1, p)
           g == Field(1, off)
           h == Field(2, off)
           S == Seq(Byte)
           code == CodeOf(m, ind, a, r, pc)
<1>2. m.post \in Int
  BY ModeType
<1> HIDE DEF m
<1>3. off \in Int
  BY DEF OffsetOf, ArgumentOK, PcrBase
<1>4. p \in Int
  BY <1>2, <1>3, SelectType DEF PostOf
<1> HIDE DEF p, off
<1>5. f \in S /\ g \in S /\ h \in S
  BY <1>3, <1>4, FieldIsPiece DEF Piece
<1>6. code = <<f>> \o (CASE m.off = "8bit" -> <<g>> [] m.off = "16bit" -> <<h>> [] OTHER -> << >>)
  BY DEF CodeOf, p, off
<1> HIDE DEF f, g, h, S, code
<1>7. <<f>> \o << >> = <<f>> /\ <<f>> \o <<g>> = <<f, g>> /\ <<f>> \o <<h>> = <<f, h>>
  BY <1>5, Paired
<1>8. code = <<f>> \/ code = <<f, g>> \/ code = <<f, h>>
  BY <1>6, <1>7
<1>9. Pieces(code)
  BY <1>5, <1>8 DEF Pieces, S
<1> QED
  BY <1>1, <1>9 DEF code, m

\* The bytes up to the operand, and with it.
Start(form, imm) == FlattenSeq(<<Op(form)>> \o imm)
Whole(form, imm, code) == FlattenSeq((<<Op(form)>> \o imm) \o code)

LEMMA InOrder ==
    ASSUME NEW form \in Form, NEW op, NEW imm, NEW mem \in Seq(Byte), ImmediateIs(op, imm, mem),
           NEW code, Pieces(code)
    PROVE  /\ Start(form, imm) = Cat(Op(form), mem)
           /\ FlattenSeq(code) \in Seq(Byte)
           /\ Whole(form, imm, code) = Cat(Op(form), Cat(mem, FlattenSeq(code)))
<1> DEFINE o == Op(form)
           operand == FlattenSeq(code)
<1>1. o \in Seq(Byte)
  <2>1. Form \subseteq Int
    BY DEF Form
  <2> QED
    BY <2>1, OpIsPiece DEF Piece
<1>2. /\ FlattenSeq((<<o>> \o << >>) \o code) = Cat(o, operand)
      /\ FlattenSeq((<<o>> \o <<mem>>) \o code) = Cat(o, Cat(mem, operand))
      /\ FlattenSeq(<<o>> \o << >>) = o /\ FlattenSeq(<<o>> \o <<mem>>) = Cat(o, mem)
      /\ operand \in Seq(Byte)
  BY <1>1, FlattenedInOrder, Zenon
<1> HIDE DEF o, operand
<1>3. mem = << >> => Cat(mem, operand) = operand /\ Cat(o, mem) = o
  BY <1>1, <1>2, ConcatEmptySeq DEF Cat
<1>4. /\ FlattenSeq((<<o>> \o imm) \o code) = Cat(o, Cat(mem, operand))
      /\ FlattenSeq(<<o>> \o imm) = Cat(o, mem)
  BY <1>2, <1>3, Zenon DEF ImmediateIs
<1> QED
  BY <1>2, <1>4, Zenon DEF o, operand, Whole, Start

LEMMA ReachedEncodes ==
    ASSUME NEW form \in Form, NEW op, NEW imm, NEW mem \in Seq(Byte), ImmediateIs(op, imm, mem),
           NEW code, NEW after, NEW t, Reaches(code, after, t)
    PROVE  Encodes(form, mem, Whole(form, imm, code), after, t)
<1> DEFINE operand == FlattenSeq(code)
<1>1. PICK p \in Byte, rest \in Seq(Byte) : OperandIs(code, p, rest) /\ Postbyte(p, rest, after) = t
  BY DEF Reaches
<1>2. Pieces(code) /\ operand[1] = p /\ Tail(operand) = rest
  BY <1>1 DEF OperandIs
<1>3. /\ Start(form, imm) = Cat(Op(form), mem)
      /\ operand \in Seq(Byte)
      /\ Whole(form, imm, code) = Cat(Op(form), Cat(mem, operand))
  BY <1>2, InOrder
<1> HIDE DEF operand
<1>4. Postbyte(operand[1], Tail(operand), after) = t
  BY <1>1, <1>2
<1> QED
  BY <1>3, <1>4, Zenon DEF Encodes

LEMMA IndexedRight ==
    ASSUME NEW op, OpcodeOK(op), op.indexed \in Form,
           NEW args, ArgumentsOK(args), Len(args) \in 1 .. 2, ~ HasUndefined(args),
           NEW imm, NEW mem \in Seq(Byte), ImmediateIs(op, imm, mem), NEW pc \in Int,
           Indexed(op, args, imm, pc).error <= Inefficient, ExpectedIn(args), ~ ZeroPcr(args),
           NEW bytes, bytes = FlattenSeq(Indexed(op, args, imm, pc).code),
           NEW after, after = pc + Len(bytes), FitsIn(args, after)
    PROVE  Encodes(op.indexed, mem, bytes, after, MeantInMemory(args, after))
<1> DEFINE ind == args[1].type = "array"
           as == Listed(args)
           before == <<Op(op.indexed)>> \o imm
           at == pc + Len(FlattenSeq(before))
           rest == IF Len(as) = 1 THEN Absolute(ind, as[1]) ELSE Indexed2(ind, as[1], as[2], at)
           t == MeantAt(ind, as, after)
<1>1. (Len(args) = 1 /\ args[1].type = "array") = ind
  BY DEF ExpectedIn
<1>2. Indexed(op, args, imm, pc) =
        IF Len(as) \notin 1 .. 2 THEN Made(<< >>, Syntax) ELSE Made(before \o rest.code, rest.error)
  BY <1>1 DEF Indexed, Listed
<1>3. Len(as) \in 1 .. 2
  <2>1. Made(<< >>, Syntax).error = Syntax
    BY DEF Made
  <2> HIDE DEF as, before, rest
  <2>2. CASE Len(as) \notin 1 .. 2
    <3>1. Indexed(op, args, imm, pc) = Made(<< >>, Syntax)
      BY <1>2, <2>2
    <3> QED
      BY <2>1, <3>1
  <2> QED
    BY <2>2
<1>4. rest.error <= Inefficient /\ bytes = FlattenSeq(before \o rest.code)
  <2> DEFINE code == before \o rest.code
             error == rest.error
  <2>1. Indexed(op, args, imm, pc) = Made(code, error)
    <3> HIDE DEF as, before, rest
    <3> QED
      BY <1>2, <1>3
  <2> HIDE DEF code, error
  <2>2. Made(code, error).error = error /\ Made(code, error).code = code
    BY DEF Made
  <2>3. error <= Inefficient /\ bytes = FlattenSeq(code)
    BY <2>1, <2>2
  <2> QED
    BY <2>3 DEF code, error
<1>5. /\ ArgumentOK(as[1]) /\ as[1].type # "undef"
      /\ Len(as) = 2 => ArgumentOK(as[2]) /\ as[2].type # "undef"
  <2> HIDE DEF as
  <2>0. /\ \A n \in 1 .. 2 : n \in Nat \ {0} /\ 1 \in 1 .. n
        /\ \A n : n = 2 => 2 \in 1 .. n
    OBVIOUS
  <2>1. 1 \in 1 .. Len(as) /\ (Len(as) = 2 => 2 \in 1 .. Len(as))
    BY <1>3, <2>0, Zenon
  <2>2. Len(args) \in Nat \ {0}
    BY <2>0, Zenon
  <2> QED
    BY <2>1, <2>2, ListedOK DEF as
<1> HIDE DEF rest
<1>6. ASSUME Reaches(rest.code, after, t)
      PROVE  Encodes(op.indexed, mem, bytes, after, t)
  <2>1. bytes = Whole(op.indexed, imm, rest.code)
    BY <1>4 DEF Whole
  <2> QED
    BY <1>6, <2>1, ReachedEncodes
<1>7. CASE Len(as) = 1
  <2>1. rest = Absolute(ind, as[1]) /\ t = Operand("none", Address16(Value(as[1])), "none", ind)
    BY <1>7 DEF rest, MeantAt
  <2>2. Reaches(rest.code, after, t)
    BY <1>4, <1>5, <2>1, AbsoluteRight
  <2> QED
    BY <1>6, <2>2, MeantIs
<1>8. CASE Len(as) = 2
  <2>1. rest = Indexed2(ind, as[1], as[2], at) /\ t = MeantIndexed(ind, as[1], as[2], after)
    BY <1>8 DEF rest, MeantAt
  <2>2. FitsIndexed(as[1], as[2], after) /\ (as[1].attr # "none" => as[1].type \in {"int", "empty"})
    BY <1>8 DEF FitsIn, ExpectedIn
  <2>3. ~ (as[2].reg = "pcr" /\ IsInt(as[1]) /\ as[1].val = 0 /\ as[1].attr = "none")
    BY <1>8 DEF ZeroPcr, Listed
  <2> DEFINE o == Op(op.indexed)
             operand == FlattenSeq(rest.code)
  <2>4. o \in Seq(Byte)
    BY OpcodeInts, OpIsPiece DEF Piece
  <2>5. FlattenSeq(before) = Cat(o, mem)
    <3>1. Pieces(<< << >> >>)
      BY EmptySeq DEF Pieces
    <3>2. FlattenSeq(before) = Start(op.indexed, imm)
      BY DEF Start
    <3> QED
      BY <3>1, <3>2, InOrder
  <2>6. Len(Cat(o, mem)) = Len(o) + Len(mem) /\ Len(o) \in Nat /\ Len(mem) \in Nat
    BY <2>4, ConcatProperties, LenProperties DEF Cat
  <2>13. at = pc + Len(Cat(o, mem))
    BY <2>5
  <2>7. at \in Int
    BY <2>6, <2>13
  <2>8. Pieces(rest.code)
    BY <1>4, <1>5, <1>8, <2>1, <2>7, IndexedPieces
  <2>9. bytes = Cat(o, Cat(mem, operand)) /\ operand \in Seq(Byte)
    <3>1. bytes = Whole(op.indexed, imm, rest.code)
      BY <1>4 DEF Whole
    <3> QED
      BY <2>8, <3>1, InOrder
  <2> HIDE DEF o, operand
  <2>10. Len(bytes) = Len(o) + Len(mem) + Len(operand) /\ Len(operand) \in Nat
    <3>1. Cat(mem, operand) \in Seq(Byte) /\ Len(Cat(mem, operand)) = Len(mem) + Len(operand)
      BY <2>9, ConcatProperties DEF Cat
    <3>2. Len(Cat(o, Cat(mem, operand))) = Len(o) + Len(Cat(mem, operand))
      BY <2>4, <3>1, ConcatProperties DEF Cat
    <3> QED
      BY <2>6, <2>9, <3>1, <3>2, LenProperties
  <2> HIDE DEF at
  <2>11. after = at + Len(operand)
    BY <2>6, <2>10, <2>13
  <2> HIDE DEF as, ind
  <2>12. ind \in BOOLEAN
    BY DEF ind
  <2>14. Reaches(rest.code, after, t)
    BY <1>4, <1>5, <1>8, <2>1, <2>2, <2>3, <2>7, <2>11, <2>12, Indexed2Right DEF operand
  <2> QED
    BY <1>6, <2>14, MeantIs DEF as, ind
<1> QED
  BY <1>3, <1>7, <1>8

-----------------------------------------------------------------------------
\* An operand of one byte, the page of which is known, and one of two.
LEMMA AddressBytes ==
    ASSUME NEW v \in Int
    PROVE  /\ High(v) * 256 + (Word(v) % 256) = Address16(v)
           /\ (Word(v) \div 256) * 256 + (Word(v) % 256) = Address16(v)
           /\ Address16(Word(v)) = Address16(v) /\ Word(v) \in Int
<1> DEFINE w == v % 65536
<1>1. w \in Int /\ w = (w \div 256) * 256 + (w % 256)
  OBVIOUS
<1>2. (v \div 256) % 256 = w \div 256
  OBVIOUS
<1>3. w % 65536 = w
  OBVIOUS
<1> QED
  BY <1>1, <1>2, <1>3 DEF Address16, High, Word

\* What is found of an operand without a postbyte.
LEMMA PlainAddress ==
    ASSUME NEW op, NEW form \in Form, NEW imm, NEW mem \in Seq(Byte), ImmediateIs(op, imm, mem),
           NEW operand \in Seq(Byte)
    PROVE  Found(op, form, mem, operand, Whole(form, imm, <<operand>>))
<1>1. Pieces(<<operand>>)
  BY DEF Pieces
<1>2. FlattenSeq(<<operand>>) = operand
  BY Flattened
<1>3. Whole(form, imm, <<operand>>) = Coded(form, mem, operand)
  BY <1>1, <1>2, InOrder DEF Coded
<1> QED
  BY <1>3, OperandFound

Posted(operand, pc, bytes) == Postbyte(operand[1], Tail(operand), pc + Len(bytes))

InPage(args, dp, low) == Operand("none", Page(args, dp) * 256 + low, "none", FALSE)

LEMMA DirectIs ==
    ASSUME NEW op, NEW args, NEW bytes, NEW pc, NEW dp, NEW mem, NEW operand,
           Found(op, op.direct, mem, operand, bytes),
           op.direct # op.extended, op.direct # op.indexed
    PROVE  InMemory(op, args, bytes, pc, dp) = InPage(args, dp, operand[1])
<1> DEFINE one == Operand("none", Page(args, dp) * 256 + operand[1], "none", FALSE)
           two == Operand("none", Number(operand), "none", FALSE)
           post == Postbyte(operand[1], Tail(operand), pc + Len(bytes))
           form == op.direct
<1>1. ByForm(op, bytes) = form /\ OperandBytes(op, bytes) = operand
  BY DEF Found
<1>2. InMemory(op, args, bytes, pc, dp)
        = CASE form = op.direct -> one [] form = op.extended -> two [] form = op.indexed -> post
  BY <1>1, Zenon DEF InMemory
<1> HIDE DEF one, two, post
<1> QED
  BY <1>2 DEF one, two, post, InPage

LEMMA ExtendedIs ==
    ASSUME NEW op, NEW args, NEW bytes, NEW pc, NEW dp, NEW mem, NEW operand,
           Found(op, op.extended, mem, operand, bytes),
           op.direct # op.extended, op.extended # op.indexed
    PROVE  InMemory(op, args, bytes, pc, dp) = Operand("none", Number(operand), "none", FALSE)
<1> DEFINE one == Operand("none", Page(args, dp) * 256 + operand[1], "none", FALSE)
           two == Operand("none", Number(operand), "none", FALSE)
           post == Postbyte(operand[1], Tail(operand), pc + Len(bytes))
           form == op.extended
<1>1. ByForm(op, bytes) = form /\ OperandBytes(op, bytes) = operand
  BY DEF Found
<1>2. InMemory(op, args, bytes, pc, dp)
        = CASE form = op.direct -> one [] form = op.extended -> two [] form = op.indexed -> post
  BY <1>1, Zenon DEF InMemory
<1> HIDE DEF one, two, post
<1> QED
  BY <1>2 DEF one, two, post

LEMMA IndexedIs ==
    ASSUME NEW op, NEW args, NEW bytes, NEW pc, NEW dp, NEW mem, NEW operand,
           Found(op, op.indexed, mem, operand, bytes),
           op.direct # op.indexed, op.extended # op.indexed
    PROVE  InMemory(op, args, bytes, pc, dp) = Posted(operand, pc, bytes)
<1> DEFINE one == Operand("none", Page(args, dp) * 256 + operand[1], "none", FALSE)
           two == Operand("none", Number(operand), "none", FALSE)
           post == Postbyte(operand[1], Tail(operand), pc + Len(bytes))
           form == op.indexed
<1>1. ByForm(op, bytes) = form /\ OperandBytes(op, bytes) = operand
  BY DEF Found
<1>2. InMemory(op, args, bytes, pc, dp)
        = CASE form = op.direct -> one [] form = op.extended -> two [] form = op.indexed -> post
  BY <1>1, Zenon DEF InMemory
<1> HIDE DEF one, two, post
<1> QED
  BY <1>2 DEF one, two, post, Posted

\* The code's operand in memory is t, after the operand of OIM and the like.
Gives(op, args, mem, bytes, pc, dp, t) ==
    /\ InMemory(op, args, bytes, pc, dp) = t
    /\ op.ext = "imm8_mem" => Rest(op, bytes)[1] = mem[1]

\* The address that a direct operand stands for, and an extended one.
LEMMA DirectRight ==
    ASSUME NEW op, OpcodeOK(op), Has(op, "direct"), op.mem # {},
           NEW imm, NEW mem \in Seq(Byte), ImmediateIs(op, imm, mem),
           NEW args, NEW addr \in Int, NEW pc, NEW dp
    PROVE  Gives(op, args, mem, Whole(op.direct, imm, <<Field(1, addr)>>), pc, dp,
                 InPage(args, dp, addr % 256))
<1> DEFINE operand == Field(1, addr)
           bytes == Whole(op.direct, imm, <<operand>>)
           form == op.direct
<1>1. op.direct \in Form /\ op.direct # op.extended /\ op.direct # op.indexed
  <2>1. op.direct \in Form /\ -1 \notin Form
    BY DEF OpcodeOK, Form
  <2>2. op.direct # op.indexed
    BY DEF OpcodeOK
  <2>3. op.direct # op.extended
    BY <2>1 DEF OpcodeOK
  <2> QED
    BY <2>1, <2>2, <2>3
<1>2. operand = <<addr % 256>> /\ operand \in Seq(Byte)
  <2>1. Field(1, addr) = <<addr % 256>>
    BY FieldBytes, ZenonT(30)
  <2>2. Field(1, addr) \in Seq(Byte)
    BY FieldIsPiece DEF Piece
  <2> QED
    BY <2>1, <2>2
<1>3. operand[1] = addr % 256
  BY <1>2
<1> HIDE DEF operand
<1>4. Found(op, form, mem, operand, bytes)
  BY <1>1, <1>2, PlainAddress, ZenonT(30)
<1> HIDE DEF bytes
<1>5. InMemory(op, args, bytes, pc, dp) = InPage(args, dp, operand[1])
  BY <1>1, <1>4, DirectIs
<1> QED
  BY <1>3, <1>4, <1>5, Zenon DEF bytes, operand, Found, Gives

LEMMA ExtendedRight ==
    ASSUME NEW op, OpcodeOK(op), Has(op, "extended"), op.mem # {},
           NEW imm, NEW mem \in Seq(Byte), ImmediateIs(op, imm, mem),
           NEW args, NEW addr \in Int, NEW pc, NEW dp
    PROVE  Gives(op, args, mem, Whole(op.extended, imm, <<Field(2, addr)>>), pc, dp,
                 Operand("none", Address16(addr), "none", FALSE))
<1> DEFINE operand == Field(2, addr)
           bytes == Whole(op.extended, imm, <<operand>>)
           form == op.extended
<1>1. op.extended \in Form /\ op.extended # op.direct /\ op.extended # op.indexed
  BY DEF OpcodeOK
<1>2. operand = Long(addr) /\ operand \in Seq(Byte)
  <2>1. Field(2, addr) = <<(addr \div 256) % 256, addr % 256>>
    BY FieldBytes, ZenonT(30)
  <2>2. Field(2, addr) \in Seq(Byte)
    BY FieldIsPiece DEF Piece
  <2> QED
    BY <2>1, <2>2, Zenon DEF Long
<1>3. Number(operand) = Address16(addr)
  BY <1>2, OffsetBytes
<1> HIDE DEF operand
<1>4. Found(op, form, mem, operand, bytes)
  BY <1>1, <1>2, PlainAddress
<1> HIDE DEF bytes
<1>5. InMemory(op, args, bytes, pc, dp) = Operand("none", Number(operand), "none", FALSE)
  BY <1>1, <1>4, ExtendedIs, Zenon
<1> QED
  BY <1>3, <1>4, <1>5, Zenon DEF bytes, operand, Found, Gives

-----------------------------------------------------------------------------
\* What the code of an operand in memory reaches.
Reached(op, args, mem, bytes, pc, dp) ==
    Gives(op, args, mem, bytes, pc, dp, MeantInMemory(args, pc + Len(bytes)))

LEMMA EncodedReached ==
    ASSUME NEW op, OpcodeOK(op), op.mem # {}, NEW args,
           NEW imm, NEW mem \in Seq(Byte), ImmediateIs(op, imm, mem), NEW pc, NEW dp,
           NEW bytes, NEW t, Encodes(op.indexed, mem, bytes, pc + Len(bytes), t)
    PROVE  Gives(op, args, mem, bytes, pc, dp, t)
<1>1. op.indexed \in Form /\ op.direct # op.indexed /\ op.extended # op.indexed
  BY DEF OpcodeOK, Has
<1>2. PICK operand \in Seq(Byte) : bytes = Coded(op.indexed, mem, operand)
                                   /\ Posted(operand, pc, bytes) = t
  BY Zenon DEF Encodes, Coded, Posted
<1>3. Found(op, op.indexed, mem, operand, bytes)
  BY <1>1, <1>2, OperandFound
<1>4. InMemory(op, args, bytes, pc, dp) = Posted(operand, pc, bytes)
  BY <1>1, <1>3, IndexedIs
<1> QED
  BY <1>2, <1>3, <1>4, Zenon DEF Found, Gives

LEMMA IndexedReached ==
    ASSUME NEW op, OpcodeOK(op), op.mem # {},
           NEW args, ArgumentsOK(args), Len(args) \in 1 .. 2, ~ HasUndefined(args),
           NEW imm, NEW mem \in Seq(Byte), ImmediateIs(op, imm, mem), NEW pc \in Int, NEW dp,
           Indexed(op, args, imm, pc).error <= Inefficient, ExpectedIn(args), ~ ZeroPcr(args),
           NEW bytes, bytes = FlattenSeq(Indexed(op, args, imm, pc).code),
           FitsIn(args, pc + Len(bytes))
    PROVE  Reached(op, args, mem, bytes, pc, dp)
<1>1. op.indexed \in Form
  BY DEF OpcodeOK, Has
<1>2. Encodes(op.indexed, mem, bytes, pc + Len(bytes), MeantInMemory(args, pc + Len(bytes)))
  BY <1>1, IndexedRight
<1> QED
  BY <1>2, EncodedReached DEF Reached

\* Where the operand is one address.
LEMMA AddressReached ==
    ASSUME NEW op, OpcodeOK(op), op.mem # {},
           NEW args, IsInt(args[1]), args[1].val \in Int, Len(args) = 1,
           NEW imm, NEW mem \in Seq(Byte), ImmediateIs(op, imm, mem), NEW pc, NEW dp,
           NEW bytes
    PROVE  LET a == args[1]
               addr == Word(a.val) IN
           /\ /\ Has(op, "direct") /\ bytes = Whole(op.direct, imm, <<Field(1, addr)>>)
              /\ a.attr = "8bit" \/ dp = addr \div 256
              => Reached(op, args, mem, bytes, pc, dp)
           /\ Has(op, "extended") /\ bytes = Whole(op.extended, imm, <<Field(2, addr)>>) =>
                Reached(op, args, mem, bytes, pc, dp)
<1> DEFINE v == args[1].val
           addr == Word(v)
           t == Operand("none", Address16(v), "none", FALSE)
<1>1. MeantInMemory(args, pc + Len(bytes)) = t
  BY DEF MeantInMemory, IsInt
<1>2. /\ High(v) * 256 + (addr % 256) = Address16(v)
      /\ (addr \div 256) * 256 + (addr % 256) = Address16(v)
      /\ Address16(addr) = Address16(v) /\ addr \in Int
  BY AddressBytes
<1> HIDE DEF addr, t
<1>3. ASSUME Has(op, "direct"), bytes = Whole(op.direct, imm, <<Field(1, addr)>>),
             args[1].attr = "8bit" \/ dp = addr \div 256
      PROVE  Reached(op, args, mem, bytes, pc, dp)
  <2>1. Gives(op, args, mem, bytes, pc, dp, InPage(args, dp, addr % 256))
    BY <1>2, <1>3, DirectRight, ZenonT(30)
  <2>2. Page(args, dp) \in {High(v), addr \div 256}
    BY <1>3 DEF Page
  <2>3. Page(args, dp) * 256 + (addr % 256) = Address16(v)
    BY <1>2, <2>2
  <2>4. InPage(args, dp, addr % 256) = t
    BY <2>3 DEF InPage, t
  <2> QED
    BY <1>1, <2>1, <2>4, Zenon DEF Reached
<1>4. ASSUME Has(op, "extended"), bytes = Whole(op.extended, imm, <<Field(2, addr)>>)
      PROVE  Reached(op, args, mem, bytes, pc, dp)
  <2>1. Gives(op, args, mem, bytes, pc, dp, Operand("none", Address16(addr), "none", FALSE))
    BY <1>2, <1>4, ExtendedRight, ZenonT(30)
  <2> QED
    BY <1>1, <1>2, <2>1, Zenon DEF Reached, t
<1> QED
  BY <1>3, <1>4 DEF addr

LEMMA AddressRight ==
    ASSUME NEW op, OpcodeOK(op), op.mem # {}, NEW args, ArgumentsOK(args), ~ HasUndefined(args),
           NEW imm, NEW mem \in Seq(Byte), ImmediateIs(op, imm, mem), NEW pc \in Int, NEW dp \in Int,
           Address(op, args, imm, pc, dp).error <= Inefficient, ExpectedIn(args), ~ ZeroPcr(args),
           NEW bytes, bytes = FlattenSeq(Address(op, args, imm, pc, dp).code),
           FitsIn(args, pc + Len(bytes))
    PROVE  Reached(op, args, mem, bytes, pc, dp)
<1> DEFINE a == args[1]
           v == a.val
           made == Address(op, args, imm, pc, dp)
           attr == IF IsInt(a) THEN a.attr ELSE "16bit"
           at == IF IsInt(a) THEN v % 65536 ELSE pc
<1>1. Len(args) \in 1 .. 2
  BY DEF Address, Made
<1>2. CASE made = Indexed(op, args, imm, pc)
  <2> HIDE DEF made
  <2>1. Indexed(op, args, imm, pc).error <= Inefficient
        /\ bytes = FlattenSeq(Indexed(op, args, imm, pc).code)
    BY <1>2 DEF made
  <2> QED
    BY <1>1, <2>1, IndexedReached
<1>3. CASE made # Indexed(op, args, imm, pc)
  <2>1. Len(args) = 1 /\ a.type # "array"
    BY <1>1, <1>3 DEF Address, Made
  <2>2. IsInt(a) /\ v \in Int
    BY <2>1 DEF ExpectedIn, Listed, ArgumentsOK, ArgumentOK
  <2>3. at = Word(v) /\ attr = a.attr
    BY <2>2 DEF Word
  <2>4. made = IF IsDirect(op, attr, at, dp)
               THEN Made(<<Op(op.direct)>> \o imm \o <<Field(1, at)>>, None)
               ELSE IF "extended" \in op.mem /\ attr \in {"16bit", "none"}
               THEN Made(<<Op(op.extended)>> \o imm \o <<Field(2, at)>>, None)
               ELSE Indexed(op, args, imm, pc)
    BY <2>1 DEF Address
  <2> HIDE DEF made, at, attr
  <2>5. \/ IsDirect(op, attr, at, dp) /\ bytes = Whole(op.direct, imm, <<Field(1, at)>>)
        \/ "extended" \in op.mem /\ bytes = Whole(op.extended, imm, <<Field(2, at)>>)
    <3>1. bytes = FlattenSeq(made.code)
      BY DEF made
    <3> QED
      BY <1>3, <2>4, <3>1 DEF Made, Whole
  <2>6. \/ /\ Has(op, "direct") /\ bytes = Whole(op.direct, imm, <<Field(1, Word(v))>>)
           /\ a.attr = "8bit" \/ dp = Word(v) \div 256
        \/ Has(op, "extended") /\ bytes = Whole(op.extended, imm, <<Field(2, Word(v))>>)
    BY <2>3, <2>5, Zenon DEF Has, IsDirect
  <2> QED
    BY <2>1, <2>2, <2>6, AddressReached
<1> QED
  BY <1>2, <1>3

-----------------------------------------------------------------------------
\* What Expected says of an operand in memory.
LEMMA ExpectedParts ==
    ASSUME NEW op, OpcodeOK(op), NEW args, Expected(op, args)
    PROVE  /\ IsImmediate(op, args) \/ op.ext \in {"rel8", "rel16"} => IsInt(args[1])
           /\ op.ext = "pair" =>
                \A i \in 1 .. 2 : IsReg(args[i]) => args[i].reg \notin {"q", "pcr"}
           /\ op.ext = "reg_mem" => \A i \in 2 .. 4 : IsInt(args[i])
           /\ op.mem # {} /\ op.ext = "imm8_mem" => IsInt(args[1]) /\ ExpectedIn(Tail(args))
           /\ op.mem # {} /\ op.ext # "imm8_mem" /\ ~ IsImmediate(op, args) => ExpectedIn(args)
<1>1. op.mem # {} => op.ext \in {"none", "imm8", "imm16", "imm32", "imm8_mem"}
  BY DEF OpcodeOK
<1> DEFINE mem == IF op.ext = "imm8_mem" THEN Tail(args) ELSE args
           as == IF mem[1].type = "array" THEN mem[1].args ELSE mem
           memory1 == /\ op.ext = "imm8_mem" => IsInt(args[1])
                      /\ mem[1].type = "array" => Len(mem) = 1
                      /\ Len(as) = 1 => IsInt(as[1])
                      /\ as[1].attr # "none" => as[1].type \in {"int", "empty"}
           first == IsImmediate(op, args) \/ op.ext \in {"rel8", "rel16"}
           pair1 == \A i \in 1 .. 2 : IsReg(args[i]) => args[i].reg \notin {"q", "pcr"}
           regmem1 == \A i \in 2 .. 4 : IsInt(args[i])
<1>2. (CASE first -> IsInt(args[1])
         [] op.ext = "pair" -> pair1
         [] op.ext = "reg_mem" -> regmem1
         [] op.mem # {} /\ ~ IsImmediate(op, args) -> memory1
         [] OTHER -> TRUE)
  BY Zenon DEF Expected
<1>3. IsImmediate(op, args) => op.ext \in {"imm8", "imm16", "imm32"}
  BY DEF IsImmediate
<1>4. as = Listed(mem)
  BY DEF Listed
<1>5. memory1 => (op.ext = "imm8_mem" => IsInt(args[1])) /\ ExpectedIn(mem)
  BY <1>4 DEF ExpectedIn
<1>6. mem = IF op.ext = "imm8_mem" THEN Tail(args) ELSE args
  OBVIOUS
<1> HIDE DEF memory1, mem, as, pair1, regmem1
<1>7. first => IsInt(args[1])
  BY <1>1, <1>2, <1>3
<1>8. op.ext = "pair" => pair1
  BY <1>1, <1>2, <1>3
<1>9. op.ext = "reg_mem" => regmem1
  BY <1>1, <1>2, <1>3
<1>10. op.mem # {} /\ ~ IsImmediate(op, args) => memory1
  BY <1>1, <1>2, <1>3
<1> HIDE DEF first
<1>11. op.mem # {} /\ op.ext = "imm8_mem" => IsInt(args[1]) /\ ExpectedIn(Tail(args))
  BY <1>3, <1>5, <1>6, <1>10
<1>12. op.mem # {} /\ op.ext # "imm8_mem" /\ ~ IsImmediate(op, args) => ExpectedIn(args)
  BY <1>5, <1>6, <1>10
<1> QED
  BY <1>7, <1>8, <1>9, <1>11, <1>12 DEF first, pair1, regmem1

LEMMA FitsParts ==
    ASSUME NEW op, NEW args, NEW bytes, NEW pc, Fits(op, args, bytes, pc)
    PROVE  FitsIn(args, pc + Len(bytes))
<1> DEFINE as == IF args[1].type = "array" THEN args[1].args ELSE args
           n == as[1].val
           after == pc + Len(bytes)
           distance == IF as[2].reg = "pcr" THEN ToRel16(n - after) ELSE n
<1>1. Len(as) = 2 /\ IsInt(as[1]) =>
        /\ as[1].attr = "5bit" => n \in -16 .. 15
        /\ as[1].attr = "8bit" => distance \in -128 .. 127
  BY Zenon DEF Fits
<1>2. as = Listed(args)
  BY DEF Listed
<1> HIDE DEF as, after
<1> QED
  BY <1>1, <1>2, Zenon DEF FitsIn, FitsIndexed, after

\* An operand in memory.
LEMMA MemoryRight ==
    ASSUME NEW op, OpcodeOK(op), op.mem # {}, op.ext # "imm8_mem",
           NEW args, ArgumentsOK(args), ~ HasUndefined(args), NEW pc \in Int, NEW dp \in Int,
           Address(op, args, << >>, pc, dp).error <= Inefficient, ExpectedIn(args), ~ ZeroPcr(args),
           NEW bytes, bytes = FlattenSeq(Address(op, args, << >>, pc, dp).code),
           Fits(op, args, bytes, pc)
    PROVE  InMemory(op, args, bytes, pc, dp) = MeantInMemory(args, pc + Len(bytes))
<1>1. << >> \in Seq(Byte) /\ ImmediateIs(op, << >>, << >>)
  BY DEF ImmediateIs
<1>2. FitsIn(args, pc + Len(bytes))
  BY FitsParts
<1>3. Reached(op, args, << >>, bytes, pc, dp)
  BY <1>1, <1>2, AddressRight
<1> QED
  BY <1>3, Zenon DEF Reached, Gives

\* OIM and the like.
LEMMA Imm8MemRight ==
    ASSUME NEW op, OpcodeOK(op), op.ext = "imm8_mem",
           NEW args, ArgumentsOK(args), ~ HasUndefined(args), NEW pc \in Int, NEW dp \in Int,
           Imm8Mem(op, args, pc, dp).error <= Inefficient, IsInt(args[1]),
           ExpectedIn(Tail(args)), ~ ZeroPcr(Tail(args)),
           NEW bytes, bytes = FlattenSeq(Imm8Mem(op, args, pc, dp).code),
           Fits(op, Tail(args), bytes, pc)
    PROVE  /\ InMemory(op, Tail(args), bytes, pc, dp) = MeantInMemory(Tail(args), pc + Len(bytes))
           /\ Rest(op, bytes)[1] = args[1].val % 256
<1> DEFINE mems == Tail(args)
           v == args[1].val
           mem == Field(1, v)
           imm == <<mem>>
<1>1. Len(args) \in 2 .. 3 /\ Imm8Mem(op, args, pc, dp) = Address(op, mems, imm, pc, dp)
  BY DEF Imm8Mem, Made
<1>2. args \in Seq(Range(args)) /\ v \in Int
  BY <1>1, IntsHaveValues DEF ArgumentsOK
<1>3. ArgumentsOK(mems)
  BY <1>1, TailOK
<1>4. ~ HasUndefined(mems)
  <2>1. Len(mems) = Len(args) - 1 /\ \A i \in 1 .. Len(mems) : mems[i] = args[i + 1]
    BY <1>1, <1>2, HeadTailProperties
  <2>2. \A i \in 1 .. Len(mems) : i + 1 \in 1 .. Len(args)
    BY <1>1, <2>1
  <2> HIDE DEF mems
  <2> QED
    BY <2>1, <2>2 DEF HasUndefined
<1>5. mem = <<v % 256>> /\ mem \in Seq(Byte) /\ Len(mem) = 1
  BY <1>2, FieldBytes, FieldIsPiece, ZenonT(30) DEF Piece
<1>6. mem[1] = v % 256
  BY <1>5
<1>7. ImmediateIs(op, imm, mem)
  BY <1>5 DEF ImmediateIs
<1>8. op.mem # {}
  BY DEF OpcodeOK
<1>9. FitsIn(mems, pc + Len(bytes))
  BY FitsParts
<1>10. Address(op, mems, imm, pc, dp).error <= Inefficient
       /\ bytes = FlattenSeq(Address(op, mems, imm, pc, dp).code)
  BY <1>1
<1> HIDE DEF mems, mem
<1>11. Reached(op, mems, mem, bytes, pc, dp)
  BY <1>3, <1>4, <1>5, <1>7, <1>8, <1>9, <1>10, AddressRight, ZenonT(30) DEF mems
<1>12. /\ InMemory(op, mems, bytes, pc, dp) = MeantInMemory(mems, pc + Len(bytes))
       /\ Rest(op, bytes)[1] = mem[1]
  BY <1>11, Zenon DEF Reached, Gives
<1> QED
  BY <1>6, <1>12, Zenon DEF mems

-----------------------------------------------------------------------------
(* Instructions without an operand in memory. *)
Simple(op, form, rest, bytes) ==
    /\ ByForm(op, bytes) = form /\ Rest(op, bytes) = rest
    /\ Len(bytes) = Len(Op(form)) + Len(rest)

LEMMA TwoPieces ==
    ASSUME NEW op, NEW form \in Form, NEW rest \in Seq(Byte)
    PROVE  Simple(op, form, rest, FlattenSeq(<<Op(form), rest>>))
<1>1. FlattenSeq(<<Op(form), rest>>) = Cat(Op(form), rest)
  BY Flattened
<1> DEFINE code == Cat(Op(form), rest)
<1>2. /\ ByForm(op, code) = form /\ Rest(op, code) = rest
      /\ Len(code) = Len(Op(form)) + Len(rest)
  BY FormDecoded
<1> QED
  BY <1>1, <1>2, Zenon DEF Simple

\* The code that is made for the arguments means what they say.
CodeRight(op, args, made, pc, dp) ==
    LET bytes == FlattenSeq(made.code) IN
    Decoded(op, args, bytes, pc, dp) = Meant(op, args, pc + Len(bytes))

\* The two words of a long.
Upper(v) == v \div 65536

Lower(v) == v % 65536

IsWord(w) == w \in Int /\ 0 <= w /\ w < 65536

LongOf(high, low) == 65536 * high + low

TopOf(v) == v \div 16777216

LEMMA LongParts ==
    ASSUME NEW v \in Int
    PROVE  Upper(v) \in Int /\ IsWord(Lower(v)) /\ v = LongOf(Upper(v), Lower(v))
<1>1. v % 65536 \in Int /\ 0 <= v % 65536 /\ v % 65536 < 65536
  OBVIOUS
<1>2. v \div 65536 \in Int
  OBVIOUS
<1>3. v = 65536 * (v \div 65536) + (v % 65536)
  OBVIOUS
<1>4. IsWord(Lower(v))
  BY <1>1, SMT DEF Lower, IsWord
<1>5. Upper(v) \in Int
  BY <1>2, SMT DEF Upper
<1>6. v = LongOf(Upper(v), Lower(v))
  BY <1>3, SMT DEF Upper, Lower, LongOf
<1> QED
  BY <1>4, <1>5, <1>6

LEMMA LongDivided ==
    ASSUME NEW high \in Int, NEW r \in Int, IsWord(r)
    PROVE  TopOf(LongOf(high, r)) = high \div 256
<1> DEFINE v == 65536 * high + r
           q == high \div 256
           s == high % 256
<1>3. high = 256 * q + s /\ q \in Int /\ s \in 0 .. 255
  OBVIOUS
<1>2. v \in Int /\ v = 65536 * high + r
  OBVIOUS
<1> HIDE DEF q, s, v
<1>4. v = 65536 * (256 * q + s) + r
  BY <1>2, <1>3, SMT
<1>9. v = 16777216 * q + 65536 * s + r
  BY <1>3, <1>4, SMT
<1>5. 0 <= 65536 * s /\ 65536 * s <= 16711680
  BY <1>3, SMT
<1>6. 16777216 * q <= v /\ v < 16777216 * q + 16777216
  BY <1>3, <1>9, <1>5, SMT DEF IsWord
<1>7. v \div 16777216 = q
  BY <1>2, <1>3, <1>6, SMT
<1> QED
  BY <1>7 DEF q, v, TopOf, LongOf

LEMMA HighDivided ==
    ASSUME NEW v \in Int
    PROVE  TopOf(v) = Upper(v) \div 256
<1>1. Upper(v) \in Int /\ IsWord(Lower(v)) /\ v = LongOf(Upper(v), Lower(v))
  BY LongParts
<1>2. TopOf(LongOf(Upper(v), Lower(v))) = Upper(v) \div 256
  BY <1>1, LongDivided DEF IsWord
<1> QED
  BY <1>1, <1>2, Zenon

\* The bytes of two words.
TwoWords(h, v) == <<(h \div 256) % 256, h % 256, (v \div 256) % 256, v % 256>>

LEMMA LongBytes ==
    ASSUME NEW v \in Int
    PROVE  Field(4, v) = TwoWords(Upper(v), v) /\ Upper(v) \in Int
<1>1. 256 ^ 0 = 1 /\ 256 ^ 1 = 256 /\ 256 ^ 2 = 65536 /\ 256 ^ 3 = 16777216
  BY SMT
<1>2. v \div 16777216 = (v \div 65536) \div 256
  BY HighDivided, SMT DEF TopOf, Upper
<1>3. Field(4, v) = <<(v \div 256 ^ 3) % 256, (v \div 256 ^ 2) % 256,
                      (v \div 256 ^ 1) % 256, (v \div 256 ^ 0) % 256>>
  BY SMT DEF Field
<1> QED
  BY <1>1, <1>2, <1>3, SMT DEF TwoWords, Upper

LEMMA FourBytes ==
    ASSUME NEW h \in Int, NEW v \in Int
    PROVE  /\ Number(SubSeq(TwoWords(h, v), 1, 2)) = Address16(h)
           /\ Number(SubSeq(TwoWords(h, v), 3, 4)) = Address16(v)
<1> DEFINE a == (h \div 256) % 256
           b == h % 256
           c == (v \div 256) % 256
           d == v % 256
<1>1. TwoWords(h, v) = <<a, b, c, d>>
  BY DEF TwoWords
<1>2. Number(<<a, b>>) = Address16(h) /\ Number(<<c, d>>) = Address16(v)
  BY WordNumber
<1> HIDE DEF a, b, c, d
<1>3. SubSeq(<<a, b, c, d>>, 1, 2) = <<a, b>> /\ SubSeq(<<a, b, c, d>>, 3, 4) = <<c, d>>
  <2> DEFINE s == <<a, b, c, d>>
  <2>1. s[1] = a /\ s[2] = b /\ s[3] = c /\ s[4] = d
    OBVIOUS
  <2> HIDE DEF s
  <2>2. SubSeq(s, 1, 2) = [i \in 1 .. 2 |-> s[i + 0]] /\ SubSeq(s, 3, 4) = [i \in 1 .. 2 |-> s[i + 2]]
    OBVIOUS
  <2>3. [i \in 1 .. 2 |-> s[i + 0]] = <<a, b>> /\ [i \in 1 .. 2 |-> s[i + 2]] = <<c, d>>
    BY <2>1
  <2> QED
    BY <2>2, <2>3 DEF s
<1> QED
  BY <1>1, <1>2, <1>3

\* What is after the # is in the code.
LEMMA ImmediateRight ==
    ASSUME NEW op, OpcodeOK(op), op.ext \in {"imm8", "imm16", "imm32"},
           NEW args, ArgumentsOK(args), IsImmediate(op, args), IsInt(args[1]),
           Immediate(op, args).error <= Inefficient,
           NEW pc, NEW dp
    PROVE  CodeRight(op, args, Immediate(op, args), pc, dp)
<1> SUFFICES ASSUME NEW bytes, bytes = FlattenSeq(Immediate(op, args).code)
             PROVE  Decoded(op, args, bytes, pc, dp) = Meant(op, args, pc + Len(bytes))
  BY DEF CodeRight
<1> DEFINE v == args[1].val
           width == Width(op.ext)
           operand == Field(width, v)
           rest == Rest(op, bytes)
<1>1. Len(args) = 1
  BY DEF Immediate, Made
<1>2. v \in Int
  BY <1>1, IntsHaveValues
<1>3. width = IF op.ext = "imm8" THEN 1 ELSE IF op.ext = "imm16" THEN 2 ELSE 4
  BY DEF Width
<1>4. bytes = FlattenSeq(<<Op(op.imm), operand>>)
  BY <1>1 DEF Immediate, Made
<1>5. operand \in Seq(Byte) /\ op.imm \in Form
  BY <1>2, <1>3, FieldIsPiece DEF Piece, OpcodeOK
<1>6. rest = operand
  <2> HIDE DEF operand
  <2>1. Simple(op, op.imm, operand, bytes)
    BY <1>4, <1>5, TwoPieces
  <2> QED
    BY <2>1 DEF Simple
<1> DEFINE decoded == IF op.ext = "imm32" THEN <<Number(SubSeq(rest, 1, 2)), Number(SubSeq(rest, 3, 4))>>
                      ELSE <<Number(rest)>>
           meant == IF op.ext = "imm32" THEN <<Address16(Upper(v)), Address16(v)>>
                    ELSE <<v % 256 ^ width>>
<1>7. Decoded(op, args, bytes, pc, dp) = decoded
  BY DEF Decoded
<1>8. Meant(op, args, pc + Len(bytes)) = meant
  BY DEF Meant, Upper
<1> HIDE DEF rest
<1>9. decoded = meant
  <2>1. CASE op.ext = "imm8"
    <3>1. width = 1 /\ operand = <<v % 256>>
      BY <1>2, <1>3, <2>1, FieldBytes
    <3>2. Number(rest) = v % 256
      BY <1>2, <1>6, <3>1, ByteNumber
    <3>3. 256 ^ 1 = 256
      OBVIOUS
    <3> HIDE DEF width, operand, v
    <3> QED
      BY <2>1, <3>1, <3>2, <3>3
  <2>2. CASE op.ext = "imm16"
    <3>1. width = 2 /\ operand = <<(v \div 256) % 256, v % 256>>
      BY <1>2, <1>3, <2>2, FieldBytes
    <3>2. Number(rest) = v % 65536
      BY <1>2, <1>6, <3>1, WordNumber DEF Address16
    <3>3. 256 ^ 2 = 65536
      OBVIOUS
    <3> HIDE DEF width, operand, v
    <3> QED
      BY <2>2, <3>1, <3>2, <3>3
  <2>3. CASE op.ext = "imm32"
    <3>1. operand = TwoWords(Upper(v), v) /\ Upper(v) \in Int
      BY <1>2, <1>3, <2>3, LongBytes
    <3> HIDE DEF operand, v
    <3>2. /\ Number(SubSeq(rest, 1, 2)) = Address16(Upper(v))
          /\ Number(SubSeq(rest, 3, 4)) = Address16(v)
      BY <1>2, <1>6, <3>1, FourBytes
    <3> QED
      BY <2>3, <3>2, Zenon
  <2> QED
    BY <2>1, <2>2, <2>3
<1> QED
  BY <1>7, <1>8, <1>9, Zenon

-----------------------------------------------------------------------------
\* A distance in 16 bits.
LEMMA NearDistance ==
    ASSUME NEW v \in Int
    PROVE  ToRel16(v) \in Int /\ \A x \in Int : Address16(x + ToRel16(v)) = Address16(x + v)
<1> DEFINE d == ToRel16(v)
           q == (v + 32768) \div 65536
<1>1. d \in Int /\ q \in Int /\ d = v - 65536 * q
  <2>1. (v + 32768) % 65536 = (v + 32768) - 65536 * q /\ q \in Int
    OBVIOUS
  <2> HIDE DEF q
  <2> QED
    BY <2>1 DEF ToRel16
<1> HIDE DEF d, q
<1>2. \A x \in Int : (x + d) % 65536 = (x + v) % 65536
  <2> SUFFICES ASSUME NEW x \in Int PROVE (x + d) % 65536 = (x + v) % 65536
    OBVIOUS
  <2>1. x + v = (x + d) + 65536 * q
    BY <1>1
  <2> QED
    BY <1>1, <2>1
<1> QED
  BY <1>1, <1>2 DEF Address16, d

\* A branch goes to its target.
LEMMA RelRight ==
    ASSUME NEW op, OpcodeOK(op), op.ext \in {"rel8", "rel16"},
           NEW args, ArgumentsOK(args), IsInt(args[1]), NEW pc \in Int,
           Rel(op, args, pc).error <= Inefficient,
           NEW dp
    PROVE  CodeRight(op, args, Rel(op, args, pc), pc, dp)
<1> SUFFICES ASSUME NEW bytes, bytes = FlattenSeq(Rel(op, args, pc).code)
             PROVE  Decoded(op, args, bytes, pc, dp) = Meant(op, args, pc + Len(bytes))
  BY DEF CodeRight
<1> DEFINE v == args[1].val
           base == pc + Len(Op(op.imm))
           d == v - (base + 1)
           rel == ToRel16(d)
           operand == IF op.ext = "rel8" THEN Field(1, rel) ELSE Field(2, rel - 1)
           rest == Rest(op, bytes)
           after == pc + Len(bytes)
<1>1. Len(args) = 1
  BY DEF Rel, Made
<1>2. v \in Int
  BY <1>1, IntsHaveValues
<1>3. op.imm \in Form
  BY DEF OpcodeOK
<1>4. base \in Int /\ d \in Int
  BY <1>2, <1>3, OpBytes
<1>5. rel \in Int /\ \A x \in Int : Address16(x + rel) = Address16(x + d)
  BY <1>4, NearDistance
<1>6. rel = Distance(v, base)
  BY DEF Distance
<1>7. bytes = FlattenSeq(<<Op(op.imm), operand>>) /\ (op.ext = "rel8" => rel \in -128 .. 127)
  <2> HIDE DEF v, base, rel
  <2>1. Rel(op, args, pc) =
          IF op.ext = "rel8"
          THEN Made(<<Op(op.imm), Field(1, rel)>>,
                    IF rel \notin -128 .. 127 THEN OutOfRange ELSE None)
          ELSE Made(<<Op(op.imm), Field(2, rel - 1)>>,
                    IF ~ (rel \notin -128 .. 127) /\ args[1].attr # "16bit" THEN Inefficient ELSE None)
    BY <1>1, <1>6 DEF Rel, v, base
  <2> QED
    BY <2>1 DEF Made
<1> HIDE DEF base, d, rel
<1>8. operand \in Seq(Byte) /\ Len(operand) = IF op.ext = "rel8" THEN 1 ELSE 2
  <2>1. rel - 1 \in Int
    BY <1>5
  <2>2. /\ Field(1, rel) \in Seq(Byte) /\ Len(Field(1, rel)) = 1
        /\ Field(2, rel - 1) \in Seq(Byte) /\ Len(Field(2, rel - 1)) = 2
    BY <1>5, <2>1, FieldIsPiece DEF Piece
  <2> QED
    BY <2>2
<1>9. rest = operand /\ Len(bytes) = Len(Op(op.imm)) + Len(operand)
  <2> HIDE DEF operand
  <2>1. Simple(op, op.imm, operand, bytes)
    BY <1>3, <1>7, <1>8, TwoPieces
  <2> QED
    BY <2>1 DEF Simple
<1>10. after = IF op.ext = "rel8" THEN base + 1 ELSE base + 2
  <2>1. base = pc + Len(Op(op.imm)) /\ Len(Op(op.imm)) \in Int
    BY <1>3, OpBytes DEF base
  <2> HIDE DEF operand
  <2> QED
    BY <1>8, <1>9, <2>1
<1> HIDE DEF rest, after
<1>11. Decoded(op, args, bytes, pc, dp) = Address16(after + Signed(rest))
  BY DEF Decoded, IsImmediate, rest, after
<1>12. Meant(op, args, after) = Address16(v)
  BY DEF Meant, IsImmediate
<1> HIDE DEF v
<1>13. CASE op.ext = "rel8"
  <2>1. operand = <<rel % 256>>
    BY <1>5, <1>13, FieldBytes
  <2>2. Signed(rest) = rel
    BY <1>5, <1>7, <1>9, <1>13, <2>1, ByteNumber
  <2>3. after = base + 1 /\ after + d = v
    BY <1>2, <1>4, <1>10, <1>13 DEF d
  <2>4. Address16(after + rel) = Address16(after + d)
    BY <1>4, <1>5, <2>3
  <2> QED
    BY <1>11, <1>12, <2>2, <2>3, <2>4 DEF after
<1>14. CASE op.ext # "rel8"
  <2>1. operand = Long(rel - 1)
    <3>1. Field(2, rel - 1) = <<((rel - 1) \div 256) % 256, (rel - 1) % 256>>
      <4>1. rel - 1 \in Int
        BY <1>5
      <4> QED
        BY <4>1, FieldBytes
    <3> QED
      BY <1>14, <3>1 DEF Long
  <2>2. after = base + 2 /\ (base + 1) + d = v
    BY <1>2, <1>4, <1>10, <1>14 DEF d
  <2>3. Address16(after + Signed(Long(rel - 1))) = Address16(after + (rel - 1))
    <3>1. after \in Int /\ rel - 1 \in Int
      BY <1>4, <1>5, <2>2
    <3> QED
      BY <3>1, OffsetBytes
  <2>4. after + (rel - 1) = (base + 1) + rel /\ base + 1 \in Int
    BY <1>4, <1>5, <2>2
  <2>5. Address16((base + 1) + rel) = Address16((base + 1) + d)
    BY <1>5, <2>4
  <2>6. Address16(after + Signed(rest)) = Address16(v)
    BY <1>9, <2>1, <2>2, <2>3, <2>4, <2>5
  <2> QED
    BY <1>11, <1>12, <2>6 DEF after
<1> QED
  BY <1>13, <1>14

-----------------------------------------------------------------------------
\* The bits of a byte that is a sum of different powers of 2.
LEMMA SumOfBits ==
    ASSUME NEW a \in {0, 1}, NEW b \in {0, 2}, NEW c \in {0, 4}, NEW d \in {0, 8},
           NEW e \in {0, 16}, NEW f \in {0, 32}, NEW g \in {0, 64}, NEW h \in {0, 128}
    PROVE  LET p == a + b + c + d + e + f + g + h IN
           /\ p \in Byte
           /\ (p \div 1) % 2 = 1 <=> a # 0
           /\ (p \div 2) % 2 = 1 <=> b # 0
           /\ (p \div 4) % 2 = 1 <=> c # 0
           /\ (p \div 8) % 2 = 1 <=> d # 0
           /\ (p \div 16) % 2 = 1 <=> e # 0
           /\ (p \div 32) % 2 = 1 <=> f # 0
           /\ (p \div 64) % 2 = 1 <=> g # 0
           /\ (p \div 128) % 2 = 1 <=> h # 0
<1> DEFINE p == a + b + c + d + e + f + g + h
<1>1. p \in Byte
  BY SMT DEF Byte
<1>2. (p \div 1) % 2 = 1 <=> a # 0
  BY SMT
<1>3. (p \div 2) % 2 = 1 <=> b # 0
  BY SMT
<1>4. (p \div 4) % 2 = 1 <=> c # 0
  BY SMT
<1>5. (p \div 8) % 2 = 1 <=> d # 0
  BY SMT
<1>6. (p \div 16) % 2 = 1 <=> e # 0
  BY SMT
<1>7. (p \div 32) % 2 = 1 <=> f # 0
  BY SMT
<1>8. (p \div 64) % 2 = 1 <=> g # 0
  BY SMT
<1>9. (p \div 128) % 2 = 1 <=> h # 0
  BY SMT
<1> QED
  BY <1>1, <1>2, <1>3, <1>4, <1>5, <1>6, <1>7, <1>8, <1>9

BitOf(b, with) == IF b \in with THEN 2 ^ b ELSE 0

BitsOf(with) ==
    BitOf(0, with) + BitOf(1, with) + BitOf(2, with) + BitOf(3, with)
      + BitOf(4, with) + BitOf(5, with) + BitOf(6, with) + BitOf(7, with)

LEMMA BitsFound ==
    ASSUME NEW with
    PROVE  /\ BitsOf(with) \in Byte
           /\ \A i \in 1 .. 8 : (BitsOf(with) \div 2 ^ (i - 1)) % 2 = 1 <=> i - 1 \in with
<1>1. /\ 2 ^ 0 = 1 /\ 2 ^ 1 = 2 /\ 2 ^ 2 = 4 /\ 2 ^ 3 = 8
      /\ 2 ^ 4 = 16 /\ 2 ^ 5 = 32 /\ 2 ^ 6 = 64 /\ 2 ^ 7 = 128
  OBVIOUS
<1> DEFINE a == BitOf(0, with)
           b == BitOf(1, with)
           c == BitOf(2, with)
           d == BitOf(3, with)
           e == BitOf(4, with)
           f == BitOf(5, with)
           g == BitOf(6, with)
           h == BitOf(7, with)
           p == BitsOf(with)
<1>2. /\ a \in {0, 1} /\ b \in {0, 2} /\ c \in {0, 4} /\ d \in {0, 8}
      /\ e \in {0, 16} /\ f \in {0, 32} /\ g \in {0, 64} /\ h \in {0, 128}
  BY <1>1 DEF BitOf
<1>3. /\ a # 0 <=> 0 \in with
      /\ b # 0 <=> 1 \in with
  BY <1>1 DEF BitOf
<1>4. /\ c # 0 <=> 2 \in with
      /\ d # 0 <=> 3 \in with
  BY <1>1 DEF BitOf
<1>5. /\ e # 0 <=> 4 \in with
      /\ f # 0 <=> 5 \in with
  BY <1>1 DEF BitOf
<1>6. /\ g # 0 <=> 6 \in with
      /\ h # 0 <=> 7 \in with
  BY <1>1 DEF BitOf
<1>7. p = a + b + c + d + e + f + g + h
  BY DEF BitsOf
<1> HIDE DEF a, b, c, d, e, f, g, h, p
<1>8. /\ p \in Byte
      /\ (p \div 1) % 2 = 1 <=> a # 0
      /\ (p \div 2) % 2 = 1 <=> b # 0
      /\ (p \div 4) % 2 = 1 <=> c # 0
      /\ (p \div 8) % 2 = 1 <=> d # 0
      /\ (p \div 16) % 2 = 1 <=> e # 0
      /\ (p \div 32) % 2 = 1 <=> f # 0
      /\ (p \div 64) % 2 = 1 <=> g # 0
      /\ (p \div 128) % 2 = 1 <=> h # 0
  BY <1>2, <1>7, SumOfBits
<1>9. ASSUME NEW i \in 1 .. 8 PROVE (p \div 2 ^ (i - 1)) % 2 = 1 <=> i - 1 \in with
  <2>1. CASE i = 1
    <3>1. i - 1 = 0 /\ 2 ^ (i - 1) = 1
      BY <1>1, <2>1
    <3>2. (p \div 1) % 2 = 1 <=> 0 \in with
      BY <1>3, <1>8
    <3> QED
      BY <3>1, <3>2, ZenonT(60)
  <2>2. CASE i = 2
    <3>1. i - 1 = 1 /\ 2 ^ (i - 1) = 2
      BY <1>1, <2>2
    <3>2. (p \div 2) % 2 = 1 <=> 1 \in with
      BY <1>3, <1>8
    <3> QED
      BY <3>1, <3>2, ZenonT(60)
  <2>3. CASE i = 3
    <3>1. i - 1 = 2 /\ 2 ^ (i - 1) = 4
      BY <1>1, <2>3
    <3>2. (p \div 4) % 2 = 1 <=> 2 \in with
      BY <1>4, <1>8
    <3> QED
      BY <3>1, <3>2, ZenonT(60)
  <2>4. CASE i = 4
    <3>1. i - 1 = 3 /\ 2 ^ (i - 1) = 8
      BY <1>1, <2>4
    <3>2. (p \div 8) % 2 = 1 <=> 3 \in with
      BY <1>4, <1>8
    <3> QED
      BY <3>1, <3>2, ZenonT(60)
  <2>5. CASE i = 5
    <3>1. i - 1 = 4 /\ 2 ^ (i - 1) = 16
      BY <1>1, <2>5
    <3>2. (p \div 16) % 2 = 1 <=> 4 \in with
      BY <1>5, <1>8
    <3> QED
      BY <3>1, <3>2, ZenonT(60)
  <2>6. CASE i = 6
    <3>1. i - 1 = 5 /\ 2 ^ (i - 1) = 32
      BY <1>1, <2>6
    <3>2. (p \div 32) % 2 = 1 <=> 5 \in with
      BY <1>5, <1>8
    <3> QED
      BY <3>1, <3>2, ZenonT(60)
  <2>7. CASE i = 7
    <3>1. i - 1 = 6 /\ 2 ^ (i - 1) = 64
      BY <1>1, <2>7
    <3>2. (p \div 64) % 2 = 1 <=> 6 \in with
      BY <1>6, <1>8
    <3> QED
      BY <3>1, <3>2, ZenonT(60)
  <2>8. CASE i = 8
    <3>1. i - 1 = 7 /\ 2 ^ (i - 1) = 128
      BY <1>1, <2>8
    <3>2. (p \div 128) % 2 = 1 <=> 7 \in with
      BY <1>6, <1>8
    <3> QED
      BY <3>1, <3>2, ZenonT(60)
  <2> QED
    BY <2>1, <2>2, <2>3, <2>4, <2>5, <2>6, <2>7, <2>8
<1> QED
  BY <1>8, <1>9 DEF p

\* The registers that one argument names, and their bits.
StackedBy(r) == IF r = "d" THEN {"a", "b"} ELSE IF r \in {"s", "u"} THEN {"other"} ELSE {r}

LEMMA BitsOfRegister ==
    ASSUME NEW r, StackBits(r) # {}
    PROVE  /\ StackBits(r) \subseteq 0 .. 7
           /\ \A x : x \in StackedBy(r) <=> \E b \in StackBits(r) : x = StackOrder[b + 1]
<1>1. /\ StackOrder[1] = "cc" /\ StackOrder[2] = "a" /\ StackOrder[3] = "b" /\ StackOrder[4] = "dp"
      /\ StackOrder[5] = "x" /\ StackOrder[6] = "y" /\ StackOrder[7] = "other" /\ StackOrder[8] = "pc"
  BY DEF StackOrder
<1>2. \/ \E b \in 0 .. 7 : b # 6 /\ StackBits(r) = {b} /\ r = StackOrder[b + 1] /\ r \notin {"d", "s", "u"}
      \/ r \in {"s", "u"} /\ StackBits(r) = {6}
      \/ r = "d" /\ StackBits(r) = {1, 2}
  <2>1. r \in {"cc", "a", "b", "dp", "x", "y", "u", "s", "pc", "d"}
    BY DEF StackBits
  <2>2. CASE r \in {"cc", "a", "b"}
    BY <1>1, <2>2 DEF StackBits
  <2>3. CASE r \in {"dp", "x", "y", "pc"}
    BY <1>1, <2>3 DEF StackBits
  <2>4. CASE r \in {"u", "s", "d"}
    BY <2>4 DEF StackBits
  <2> QED
    BY <2>1, <2>2, <2>3, <2>4
<1>3. CASE \E b \in 0 .. 7 : b # 6 /\ StackBits(r) = {b} /\ r = StackOrder[b + 1] /\ r \notin {"d", "s", "u"}
  BY <1>3 DEF StackedBy
<1>4. CASE r \in {"s", "u"} /\ StackBits(r) = {6}
  BY <1>1, <1>4 DEF StackedBy
<1>5. CASE r = "d" /\ StackBits(r) = {1, 2}
  BY <1>1, <1>5 DEF StackedBy
<1> QED
  BY <1>2, <1>3, <1>4, <1>5

-----------------------------------------------------------------------------
\* An instruction whose operand is one byte that is a postbyte.
PostbyteIs(op, form, p, bytes) == ByForm(op, bytes) = form /\ Rest(op, bytes)[1] = p

LEMMA OnePostbyte ==
    ASSUME NEW op, NEW form \in Form, NEW p \in Byte
    PROVE  PostbyteIs(op, form, p, FlattenSeq(<<Op(form), Field(1, p)>>))
<1>1. Field(1, p) = <<p>> /\ <<p>> \in Seq(Byte)
  <2>1. p \in Int /\ p % 256 = p
    BY DEF Byte
  <2>2. Field(1, p) = <<p % 256>>
    BY <2>1, FieldBytes
  <2> QED
    BY <2>1, <2>2
<1>2. Simple(op, form, <<p>>, FlattenSeq(<<Op(form), <<p>>>>))
  BY <1>1, TwoPieces
<1> DEFINE bytes == FlattenSeq(<<Op(form), <<p>>>>)
<1>3. ByForm(op, bytes) = form /\ Rest(op, bytes) = <<p>>
  BY <1>2 DEF Simple
<1> HIDE DEF bytes
<1>4. PostbyteIs(op, form, p, bytes)
  BY <1>3 DEF PostbyteIs
<1> QED
  BY <1>1, <1>4 DEF bytes

\* PSHS and the like have the bits of their registers.
LEMMA StackRight ==
    ASSUME NEW op, OpcodeOK(op), op.ext \in {"stacks", "stacku"}, NEW args, NEW stack,
           Stack(op, args, stack).error <= Inefficient,
           NEW pc, NEW dp
    PROVE  CodeRight(op, args, Stack(op, args, stack), pc, dp)
<1> SUFFICES ASSUME NEW bytes, bytes = FlattenSeq(Stack(op, args, stack).code)
             PROVE  Decoded(op, args, bytes, pc, dp) = Meant(op, args, pc + Len(bytes))
  BY DEF CodeRight
<1> DEFINE with == {b \in 0 .. 7 : \E i \in 1 .. Len(args) : b \in StackBits(args[i].reg)}
           bit(b) == IF \E i \in 1 .. Len(args) : b \in StackBits(args[i].reg) THEN 2 ^ b ELSE 0
           sum == bit(0) + bit(1) + bit(2) + bit(3) + bit(4) + bit(5) + bit(6) + bit(7)
           wrong == \E i \in 1 .. Len(args) :
                       ~ IsReg(args[i]) \/ args[i].reg = stack \/ StackBits(args[i].reg) = {}
           p == BitsOf(with)
<1>1. Stack(op, args, stack)
        = IF wrong THEN Made(<< >>, Syntax) ELSE Made(<<Op(op.imm), Field(1, sum)>>, None)
  BY DEF Stack
<1>2. sum = p
  <2>1. /\ bit(0) = BitOf(0, with) /\ bit(1) = BitOf(1, with)
        /\ bit(2) = BitOf(2, with) /\ bit(3) = BitOf(3, with)
    BY DEF BitOf
  <2>2. /\ bit(4) = BitOf(4, with) /\ bit(5) = BitOf(5, with)
        /\ bit(6) = BitOf(6, with) /\ bit(7) = BitOf(7, with)
    BY DEF BitOf
  <2> HIDE DEF bit, with
  <2> QED
    BY <2>1, <2>2 DEF BitsOf
<1> HIDE DEF sum
<1>3. ~ wrong /\ bytes = FlattenSeq(<<Op(op.imm), Field(1, p)>>)
  <2> HIDE DEF wrong
  <2> QED
    BY <1>1, <1>2 DEF Made
<1>4. \A i \in 1 .. Len(args) : StackBits(args[i].reg) # {}
  BY <1>3
<1> HIDE DEF wrong
<1>5. p \in Byte /\ \A i \in 1 .. 8 : (p \div 2 ^ (i - 1)) % 2 = 1 <=> i - 1 \in with
  BY BitsFound
<1>6. op.imm \in Form
  BY DEF OpcodeOK
<1> HIDE DEF p
<1>7. Rest(op, bytes)[1] = p
  <2>1. PostbyteIs(op, op.imm, p, bytes)
    BY <1>3, <1>5, <1>6, OnePostbyte
  <2> QED
    BY <2>1 DEF PostbyteIs
<1>8. Decoded(op, args, bytes, pc, dp) = Stacked(p)
  BY <1>7 DEF Decoded, IsImmediate
<1>9. Meant(op, args, pc + Len(bytes)) = UNION {StackedBy(args[i].reg) : i \in 1 .. Len(args)}
  BY DEF Meant, IsImmediate, StackedBy
<1>10. Stacked(p) = {StackOrder[i] : i \in {j \in 1 .. 8 : j - 1 \in with}}
  BY <1>5 DEF Stacked
<1>11. ASSUME NEW x
       PROVE  x \in {StackOrder[i] : i \in {j \in 1 .. 8 : j - 1 \in with}}
                <=> \E i \in 1 .. Len(args) : x \in StackedBy(args[i].reg)
  <2>1. ASSUME NEW k \in 1 .. 8, k - 1 \in with, x = StackOrder[k]
        PROVE  \E i \in 1 .. Len(args) : x \in StackedBy(args[i].reg)
    <3>1. PICK i \in 1 .. Len(args) : k - 1 \in StackBits(args[i].reg)
      BY <2>1
    <3>2. x = StackOrder[(k - 1) + 1]
      BY <2>1
    <3>3. x \in StackedBy(args[i].reg)
      BY <1>4, <3>1, <3>2, BitsOfRegister
    <3> QED
      BY <3>3
  <2>2. ASSUME NEW i \in 1 .. Len(args), x \in StackedBy(args[i].reg)
        PROVE  \E k \in 1 .. 8 : k - 1 \in with /\ x = StackOrder[k]
    <3>1. PICK b \in StackBits(args[i].reg) : x = StackOrder[b + 1]
      BY <1>4, <2>2, BitsOfRegister
    <3>2. b \in 0 .. 7
      BY <1>4, BitsOfRegister
    <3>3. b + 1 \in 1 .. 8 /\ (b + 1) - 1 = b /\ b \in with
      BY <3>2
    <3> QED
      BY <3>1, <3>3
  <2> QED
    BY <2>1, <2>2
<1> DEFINE found == {StackOrder[i] : i \in {j \in 1 .. 8 : j - 1 \in with}}
           named == UNION {StackedBy(args[i].reg) : i \in 1 .. Len(args)}
<1>12. \A x : x \in named <=> \E i \in 1 .. Len(args) : x \in StackedBy(args[i].reg)
  OBVIOUS
<1>13. \A x : x \in found <=> x \in named
  <2> HIDE DEF found, named
  <2> SUFFICES ASSUME NEW x PROVE x \in found <=> x \in named
    OBVIOUS
  <2> QED
    BY <1>11, <1>12, Zenon DEF found
<1> HIDE DEF found, named
<1>14. found = named
  BY <1>13
<1> QED
  BY <1>8, <1>9, <1>10, <1>14, Zenon DEF found, named

\* The register in a nibble.
LEMMA NibbleNames ==
    /\ \A reg : TfrNibble(reg) # -1 => TfrNibble(reg) \in 0 .. 15 /\ TfrOrder[TfrNibble(reg) + 1] = reg
    /\ \A reg \in RegNames : reg \notin {"q", "pcr"} => TfrNibble(reg) # -1
    /\ TfrOrder[13] = "zero"
<1>1. ASSUME NEW reg, TfrNibble(reg) # -1
      PROVE  TfrNibble(reg) \in 0 .. 15 /\ TfrOrder[TfrNibble(reg) + 1] = reg
  <2>1. reg \in {"d", "x", "y", "u", "s"} \/ reg \in {"pc", "w", "v", "a", "b"}
          \/ reg \in {"cc", "dp", "e", "f"}
    BY <1>1 DEF TfrNibble
  <2>2. CASE reg \in {"d", "x", "y", "u", "s"}
    BY <2>2 DEF TfrNibble, TfrOrder
  <2>3. CASE reg \in {"pc", "w", "v", "a", "b"}
    BY <2>3 DEF TfrNibble, TfrOrder
  <2>4. CASE reg \in {"cc", "dp", "e", "f"}
    BY <2>4 DEF TfrNibble, TfrOrder
  <2> QED
    BY <2>1, <2>2, <2>3, <2>4
<1>2. ASSUME NEW reg \in RegNames, reg \notin {"q", "pcr"} PROVE TfrNibble(reg) # -1
  BY <1>2 DEF RegNames, TfrNibble
<1>3. TfrOrder[13] = "zero"
  BY DEF TfrOrder
<1> QED
  BY <1>1, <1>2, <1>3

LEMMA NibblesFound ==
    ASSUME NEW m \in 0 .. 15, NEW n \in 0 .. 15
    PROVE  /\ Nibbles(m, n) \in Byte
           /\ Transferred(Nibbles(m, n)) = <<TfrOrder[m + 1], TfrOrder[n + 1]>>
<1> DEFINE p == m * 16 + n
<1>1. Nibbles(m, n) = p
  BY DEF Nibbles
<1>2. p \in 0 .. 255 /\ p \div 16 = m /\ p % 16 = n
  OBVIOUS
<1> HIDE DEF p
<1> QED
  BY <1>1, <1>2 DEF Transferred, Byte

-----------------------------------------------------------------------------
LEMMA WorstIsWorst ==
    ASSUME NEW a \in Level, NEW b \in Level, NEW c \in Level
    PROVE  /\ Max({a, b, c}) >= a /\ Max({a, b, c}) >= b /\ Max({a, b, c}) >= c
           /\ Max({a, b}) >= a /\ Max({a, b}) >= b
<1>1. \E x \in {a, b, c} : \A y \in {a, b, c} : x >= y
  BY DEF Level
<1>2. \E x \in {a, b} : \A y \in {a, b} : x >= y
  BY DEF Level
<1>3. \A y \in {a, b, c} : Max({a, b, c}) >= y
  BY <1>1 DEF Max
<1>4. \A y \in {a, b} : Max({a, b}) >= y
  BY <1>2 DEF Max
<1> QED
  BY <1>3, <1>4

\* TFR and the like have the nibbles of their registers.
LEMMA PairRight ==
    ASSUME NEW op, OpcodeOK(op), op.ext = "pair", NEW args, ArgumentsOK(args),
           \A i \in 1 .. 2 : IsReg(args[i]) => args[i].reg \notin {"q", "pcr"},
           Pair(op, args).error <= Inefficient,
           NEW pc, NEW dp
    PROVE  CodeRight(op, args, Pair(op, args), pc, dp)
<1> SUFFICES ASSUME NEW bytes, bytes = FlattenSeq(Pair(op, args).code)
             PROVE  Decoded(op, args, bytes, pc, dp) = Meant(op, args, pc + Len(bytes))
  BY DEF CodeRight
<1> DEFINE nibble(a) == IF IsReg(a) THEN TfrNibble(a.reg) ELSE IF a.val = 0 THEN 12 ELSE a.val % 16
           sizes(a) == IF IsReg(a) THEN TfrSizes(a.reg) ELSE {8, 16}
           wrong(a) == IF IsReg(a) \/ a.val = 0 THEN None
                       ELSE IF a.val \notin 0 .. 15 THEN OutOfRange ELSE Illegal
           unequal == IF sizes(args[1]) \cap sizes(args[2]) = {} THEN Illegal ELSE None
           bad == Len(args) # 2 \/ \E i \in 1 .. Len(args) : args[i].type \notin {"reg", "int"}
           post == Nibbles(nibble(args[1]), nibble(args[2]))
           code == <<Op(op.imm), Field(1, post)>>
           error == Max({unequal, wrong(args[1]), wrong(args[2])})
           named(a) == IF IsInt(a) THEN IF a.val = 0 THEN "zero" ELSE TfrOrder[a.val + 1] ELSE a.reg
<1>1. Pair(op, args) = IF bad THEN Made(<< >>, Syntax) ELSE Made(code, error)
  BY DEF Pair
<1>2. ~ bad /\ error <= Inefficient /\ bytes = FlattenSeq(code)
  <2> HIDE DEF bad, code, error
  <2> QED
    BY <1>1 DEF Made
<1>3. ASSUME NEW i \in 1 .. 2
      PROVE  \/ IsReg(args[i]) /\ args[i].reg \in RegNames /\ args[i].reg \notin {"q", "pcr"}
             \/ IsInt(args[i]) /\ ~ IsReg(args[i]) /\ args[i].val \in Int
  <2>1. Len(args) = 2 /\ args[i].type \in {"reg", "int"}
    BY <1>2
  <2>2. ArgumentOK(args[i])
    BY <2>1 DEF ArgumentsOK
  <2>3. CASE args[i].type = "reg"
    <3>1. IsReg(args[i])
      BY <2>3 DEF IsReg
    <3>2. args[i].reg \in RegNames
      BY <2>2, <3>1 DEF ArgumentOK
    <3>3. args[i].reg \notin {"q", "pcr"}
      BY <3>1
    <3> QED
      BY <3>1, <3>2, <3>3
  <2>4. CASE args[i].type = "int"
    BY <2>2, <2>4 DEF ArgumentOK, IsReg, IsInt
  <2> QED
    BY <2>1, <2>3, <2>4
<1>4. wrong(args[1]) = None /\ wrong(args[2]) = None
  <2>1. unequal \in Level /\ wrong(args[1]) \in Level /\ wrong(args[2]) \in Level
    BY DEF Level
  <2>2. wrong(args[1]) \in {None, OutOfRange, Illegal} /\ wrong(args[2]) \in {None, OutOfRange, Illegal}
    OBVIOUS
  <2> HIDE DEF unequal, wrong
  <2>3. error >= wrong(args[1]) /\ error >= wrong(args[2]) /\ error \in Level
    BY <2>1, WorstIsWorst, WorstType
  <2> HIDE DEF error
  <2> QED
    BY <1>2, <2>2, <2>3 DEF Level
<1>5. ASSUME NEW i \in 1 .. 2
      PROVE  nibble(args[i]) \in 0 .. 15 /\ TfrOrder[nibble(args[i]) + 1] = named(args[i])
  <2>1. CASE IsReg(args[i])
    <3>1. TfrNibble(args[i].reg) \in 0 .. 15 /\ TfrOrder[TfrNibble(args[i].reg) + 1] = args[i].reg
      BY <1>3, <2>1, NibbleNames DEF IsReg, IsInt
    <3> QED
      BY <2>1, <3>1 DEF IsReg, IsInt
  <2>2. CASE ~ IsReg(args[i])
    <3>1. IsInt(args[i]) /\ wrong(args[i]) = None
      BY <1>3, <1>4, <2>2
    <3>2. args[i].val = 0
      BY <2>2, <3>1
    <3> QED
      BY <2>2, <3>1, <3>2, NibbleNames
  <2> QED
    BY <2>1, <2>2
<1> HIDE DEF nibble, wrong, unequal, bad, error
<1>6. post \in Byte /\ Transferred(post) = <<named(args[1]), named(args[2])>>
  BY <1>5, NibblesFound, SMTT(30)
<1> HIDE DEF post
<1>7. Rest(op, bytes)[1] = post
  <2>1. op.imm \in Form
    BY DEF OpcodeOK
  <2>2. PostbyteIs(op, op.imm, post, bytes)
    BY <1>2, <1>6, <2>1, OnePostbyte
  <2> QED
    BY <2>2 DEF PostbyteIs
<1>8. Decoded(op, args, bytes, pc, dp) = Transferred(post)
  BY <1>7 DEF Decoded, IsImmediate
<1>9. Meant(op, args, pc + Len(bytes)) = <<named(args[1]), named(args[2])>>
  BY DEF Meant, IsImmediate
<1> QED
  BY <1>6, <1>8, <1>9, Zenon

LEMMA FourPaired == \A a, b, c, d : <<a, b>> \o <<c, d>> = <<a, b, c, d>>
<1> SUFFICES ASSUME NEW a, NEW b, NEW c, NEW d PROVE <<a, b>> \o <<c, d>> = <<a, b, c, d>>
  OBVIOUS
<1> DEFINE S == {a, b, c, d}
<1>1. a \in S /\ b \in S /\ c \in S /\ d \in S
  OBVIOUS
<1> HIDE DEF S
<1> QED
  BY <1>1, PairPaired, ZenonT(30)

\* TFM has them as well, and an opcode for what it does to them.
LEMMA TfmRight ==
    ASSUME NEW op, OpcodeOK(op), op.ext = "tfm", NEW args, ArgumentsOK(args),
           Tfm(op, args).error <= Inefficient,
           NEW pc, NEW dp
    PROVE  CodeRight(op, args, Tfm(op, args), pc, dp)
<1> SUFFICES ASSUME NEW bytes, bytes = FlattenSeq(Tfm(op, args).code)
             PROVE  Decoded(op, args, bytes, pc, dp) = Meant(op, args, pc + Len(bytes))
  BY DEF CodeRight
<1> DEFINE kinds == {i \in 1 .. 4 : TfmKinds[i] = <<args[1].attr, args[2].attr>>}
           nibble(a) == IF IsReg(a) THEN TfrNibble(a.reg) ELSE a.val % 16
           wrong(a) == IF IsReg(a) THEN None
                       ELSE IF a.val \notin 0 .. 4 THEN OutOfRange ELSE Illegal
           bad == \/ Len(args) # 2
                  \/ \E i \in 1 .. Len(args) :
                       \/ args[i].type \notin {"reg", "int"}
                       \/ IsReg(args[i]) /\ TfrNibble(args[i].reg) \notin 0 .. 4
                  \/ kinds = {}
           post == Nibbles(nibble(args[1]), nibble(args[2]))
           form == op.imm + Min(kinds) - 1
           code == <<Op(form), Field(1, post)>>
           error == Max({wrong(args[1]), wrong(args[2])})
           k == Min(kinds)
<1>1. Tfm(op, args) = IF bad THEN Made(<< >>, Syntax) ELSE Made(code, error)
  BY DEF Tfm
<1>2. ~ bad /\ error <= Inefficient /\ bytes = FlattenSeq(code)
  <2> HIDE DEF bad, code, error
  <2> QED
    BY <1>1 DEF Made
<1>3. wrong(args[1]) = None /\ wrong(args[2]) = None
  <2>1. wrong(args[1]) \in Level /\ wrong(args[2]) \in Level
    BY DEF Level
  <2>2. wrong(args[1]) \in {None, OutOfRange, Illegal} /\ wrong(args[2]) \in {None, OutOfRange, Illegal}
    OBVIOUS
  <2> HIDE DEF wrong
  <2>3. error >= wrong(args[1]) /\ error >= wrong(args[2]) /\ error \in Level
    BY <2>1, WorstIsWorst, WorstType
  <2> HIDE DEF error
  <2> QED
    BY <1>2, <2>2, <2>3 DEF Level
<1>4. ASSUME NEW i \in 1 .. 2
      PROVE  nibble(args[i]) \in 0 .. 15 /\ TfrOrder[nibble(args[i]) + 1] = args[i].reg
  <2>1. IsReg(args[i])
    BY <1>3
  <2>2. Len(args) = 2 /\ TfrNibble(args[i].reg) \in 0 .. 4
    BY <1>2, <2>1
  <2>3. TfrOrder[TfrNibble(args[i].reg) + 1] = args[i].reg
    BY <2>2, NibbleNames
  <2> QED
    BY <2>1, <2>2, <2>3
<1>5. kinds \in SUBSET Nat /\ kinds # {}
  BY <1>2
<1>6. k \in kinds
  <2> HIDE DEF kinds
  <2> QED
    BY <1>5, LeastElement, Zenon
<1>7. k \in 1 .. 4 /\ TfmKinds[k] = <<args[1].attr, args[2].attr>>
  BY <1>6
<1> HIDE DEF k, kinds, nibble, wrong, bad, error
<1>8. form \in Form /\ form - op.imm + 1 = k
  <2>1. form = op.imm + k - 1
    BY DEF k
  <2>2. op.imm .. op.imm + 3 \subseteq Form /\ op.imm \in Int
    BY OpcodeInts DEF OpcodeOK
  <2> HIDE DEF form
  <2>3. form \in op.imm .. op.imm + 3 /\ form - op.imm + 1 = k
    BY <1>7, <2>1, <2>2
  <2> QED
    BY <2>2, <2>3
<1> HIDE DEF form
<1>9. post \in Byte /\ Transferred(post) = <<args[1].reg, args[2].reg>>
  BY <1>4, NibblesFound, SMTT(30)
<1> HIDE DEF post
<1>10. ByForm(op, bytes) = form /\ Rest(op, bytes)[1] = post
  <2>1. PostbyteIs(op, form, post, bytes)
    BY <1>2, <1>8, <1>9, OnePostbyte
  <2> QED
    BY <2>1 DEF PostbyteIs
<1>11. Decoded(op, args, bytes, pc, dp) = Transferred(post) \o TfmKinds[k]
  BY <1>8, <1>10 DEF Decoded, IsImmediate
<1>12. Meant(op, args, pc + Len(bytes)) = <<args[1].reg, args[2].reg, args[1].attr, args[2].attr>>
  BY DEF Meant, IsImmediate
<1>13. <<args[1].reg, args[2].reg>> \o <<args[1].attr, args[2].attr>>
         = <<args[1].reg, args[2].reg, args[1].attr, args[2].attr>>
  BY FourPaired, ZenonT(30)
<1> QED
  BY <1>7, <1>9, <1>11, <1>12, <1>13, Zenon

-----------------------------------------------------------------------------
\* A postbyte with a register and two bits' numbers, and an address.
BitPost(r, m, n) == 64 * r + m * 8 + n

LEMMA BitsFields ==
    ASSUME NEW r \in 0 .. 2, NEW m \in 0 .. 7, NEW n \in 0 .. 7
    PROVE  /\ BitPost(r, m, n) \in Byte /\ BitPost(r, m, n) \div 64 = r
           /\ (BitPost(r, m, n) \div 8) % 8 = m /\ BitPost(r, m, n) % 8 = n
<1> DEFINE p == 64 * r + m * 8 + n
<1>1. p \in 0 .. 255
  BY SMT
<1>2. p \div 64 = r
  BY SMT
<1>3. p % 8 = n
  BY SMT
<1>4. (p \div 8) % 8 = m
  BY SMT
<1> QED
  BY <1>1, <1>2, <1>3, <1>4 DEF Byte, BitPost

\* The two bytes after the opcode.
LEMMA TwoOperands ==
    ASSUME NEW op, NEW form \in Form, NEW p \in Int, NEW q \in Int
    PROVE  LET bytes == FlattenSeq(<<Op(form), Field(1, p), Field(1, q)>>) IN
           Rest(op, bytes) = <<p % 256, q % 256>>
<1> DEFINE a == p % 256
           b == q % 256
<1>1. Field(1, p) = <<a>> /\ Field(1, q) = <<b>>
  BY FieldBytes
<1>2. a \in Byte /\ b \in Byte
  BY DEF Byte
<1> HIDE DEF a, b
<1>3. Op(form) \in Seq(Byte) /\ <<a>> \in Seq(Byte) /\ <<b>> \in Seq(Byte) /\ <<a, b>> \in Seq(Byte)
  BY <1>2, OpIsPiece, OpBytes DEF Piece, Form
<1>4. FlattenSeq(<<Op(form), <<a>>, <<b>>>>) = Cat(Cat(Op(form), <<a>>), <<b>>)
  BY Flattened
<1>5. Cat(Cat(Op(form), <<a>>), <<b>>) = Cat(Op(form), Cat(<<a>>, <<b>>))
  BY <1>3, Joins
<1>6. Cat(<<a>>, <<b>>) = <<a, b>>
  BY <1>2, Paired DEF Cat
<1> DEFINE bytes == Cat(Op(form), <<a, b>>)
<1>7. Rest(op, bytes) = <<a, b>>
  BY <1>3, FormDecoded
<1> HIDE DEF bytes
<1>8. FlattenSeq(<<Op(form), Field(1, p), Field(1, q)>>) = bytes
  BY <1>1, <1>4, <1>5, <1>6, Zenon DEF bytes
<1> QED
  BY <1>7, <1>8, Zenon DEF a, b

\* BAND and the like have the register, the bits and the address.
LEMMA RegMemRight ==
    ASSUME NEW op, OpcodeOK(op), op.ext = "reg_mem", NEW args, ArgumentsOK(args),
           ~ HasUndefined(args), \A i \in 2 .. 4 : IsInt(args[i]),
           RegMem(op, args).error <= Inefficient,
           NEW pc, NEW dp
    PROVE  CodeRight(op, args, RegMem(op, args), pc, dp)
<1> SUFFICES ASSUME NEW bytes, bytes = FlattenSeq(RegMem(op, args).code)
             PROVE  Decoded(op, args, bytes, pc, dp) = Meant(op, args, pc + Len(bytes))
  BY DEF CodeRight
<1> DEFINE reg == IF ~ IsReg(args[1]) THEN 192
                  ELSE CASE args[1].reg = "cc" -> 0 [] args[1].reg = "a" -> 64 [] OTHER -> 128
           wrong(a) == IsInt(a) /\ a.val \notin 0 .. 7
           bit(a) == IF IsInt(a) /\ ~ wrong(a) THEN a.val ELSE 0
           bad == \/ Len(args) # 4 \/ args[1].type \notin {"reg", "int", "undef"}
                  \/ IsReg(args[1]) /\ args[1].reg \notin {"cc", "a", "b"}
           post == reg + bit(args[2]) * 8 + bit(args[3])
           low == IF IsInt(args[4]) THEN args[4].val ELSE 0
           code == <<Op(op.direct), Field(1, post), Field(1, low)>>
           error == IF wrong(args[2]) \/ wrong(args[3]) THEN OutOfRange
                    ELSE IF IsInt(args[1]) THEN Illegal ELSE None
           r == IF args[1].reg = "cc" THEN 0 ELSE IF args[1].reg = "a" THEN 1 ELSE 2
           rest == Rest(op, bytes)
<1>1. RegMem(op, args) = IF bad THEN Made(<< >>, Syntax) ELSE Made(code, error)
  BY DEF RegMem
<1>2. ~ bad /\ error <= Inefficient /\ bytes = FlattenSeq(code)
  <2> HIDE DEF bad, code, error
  <2> QED
    BY <1>1 DEF Made
<1>3. Len(args) = 4 /\ \A i \in 2 .. 4 : args[i].val \in Int
  BY <1>2, IntsHaveValues
<1>4. /\ args[2].val \in 0 .. 7 /\ args[3].val \in 0 .. 7
      /\ bit(args[2]) = args[2].val /\ bit(args[3]) = args[3].val
  BY <1>2, <1>3
<1>5. IsReg(args[1]) /\ args[1].reg \in {"cc", "a", "b"}
  <2>1. ~ IsInt(args[1])
    BY <1>2
  <2>2. args[1].type # "undef"
    BY <1>3 DEF HasUndefined
  <2> QED
    BY <1>2, <2>1, <2>2 DEF IsInt, IsReg
<1>6. r \in 0 .. 2 /\ reg = 64 * r /\ <<"cc", "a", "b">>[r + 1] = args[1].reg
  BY <1>5
<1>7. low = args[4].val /\ low \in Int
  BY <1>3
<1> HIDE DEF r, reg, bit, wrong, bad, error, low
<1>8. post = BitPost(r, args[2].val, args[3].val)
  BY <1>4, <1>6 DEF BitPost
<1>9. post \in Byte /\ post \div 64 = r /\ (post \div 8) % 8 = args[2].val /\ post % 8 = args[3].val
  BY <1>4, <1>6, <1>8, BitsFields
<1> HIDE DEF post
<1>10. rest = <<post % 256, low % 256>>
  <2>1. op.direct \in Form
    BY DEF OpcodeOK, Has
  <2>2. post \in Int
    BY <1>9 DEF Byte
  <2> QED
    BY <1>2, <1>7, <2>1, <2>2, TwoOperands
<1>11. rest[1] = post /\ rest[2] = args[4].val % 256
  BY <1>7, <1>9, <1>10 DEF Byte
<1>12. Decoded(op, args, bytes, pc, dp)
         = <<<<"cc", "a", "b">>[(post \div 64) + 1], (post \div 8) % 8, post % 8, args[4].val % 256>>
  BY <1>11, Zenon DEF Decoded, IsImmediate
<1>13. Meant(op, args, pc + Len(bytes)) = <<args[1].reg, args[2].val, args[3].val, args[4].val % 256>>
  BY DEF Meant, IsImmediate
<1> HIDE DEF rest
<1> QED
  BY <1>6, <1>9, <1>12, <1>13, Zenon

-----------------------------------------------------------------------------
\* The arguments that are an operand in memory.
MemoryArgs(op, args) == IF op.ext = "imm8_mem" THEN Tail(args) ELSE args

\* How Encode chooses.
LEMMA EncodeCases ==
    ASSUME NEW op, OpcodeOK(op), NEW args, NEW pc, NEW dp,
           Encode(op, args, pc, dp).error <= Inefficient
    PROVE  LET made == Encode(op, args, pc, dp) IN
           \/ op.ext = "inherent"
           \/ /\ op.ext \in {"imm8", "imm16", "imm32"} /\ IsImmediate(op, args)
              /\ made = Immediate(op, args)
           \/ /\ op.ext = "imm8_mem" /\ made = Imm8Mem(op, args, pc, dp)
           \/ /\ op.mem # {} /\ op.ext \in {"none", "imm8", "imm16", "imm32"}
              /\ ~ IsImmediate(op, args) /\ made = Address(op, args, << >>, pc, dp)
           \/ /\ op.mem = {}
              /\ \/ op.ext \in {"rel8", "rel16"} /\ made = Rel(op, args, pc)
                 \/ op.ext = "stacku" /\ made = Stack(op, args, "u")
                 \/ op.ext = "stacks" /\ made = Stack(op, args, "s")
                 \/ op.ext = "pair" /\ made = Pair(op, args)
                 \/ op.ext = "tfm" /\ made = Tfm(op, args)
                 \/ op.ext = "reg_mem" /\ made = RegMem(op, args)
<1> DEFINE made == Encode(op, args, pc, dp)
           immediate == op.ext \in {"imm8", "imm16", "imm32"} /\ args # << >>
                          /\ args[1].attr = "immediate"
<1>1. op.mem # {} => op.ext \in {"none", "imm8", "imm16", "imm32", "imm8_mem"}
  BY DEF OpcodeOK
<1>2. CASE op.ext = "inherent"
  BY <1>2
<1>3. CASE op.ext # "inherent" /\ immediate
  <2>1. made = Immediate(op, args)
    BY <1>3 DEF Encode
  <2>2. IsImmediate(op, args)
    BY <1>3 DEF IsImmediate
  <2> HIDE DEF made
  <2> QED
    BY <1>3, <2>1, <2>2 DEF made
<1>4. CASE ~ immediate /\ op.ext = "imm8_mem"
  <2>1. made = Imm8Mem(op, args, pc, dp)
    BY <1>4 DEF Encode
  <2> HIDE DEF made
  <2> QED
    BY <1>4, <2>1 DEF made
<1>5. CASE ~ immediate /\ op.ext \notin {"inherent", "imm8_mem"} /\ op.mem # {}
  <2>1. made = Address(op, args, << >>, pc, dp)
    BY <1>5 DEF Encode
  <2>2. args # << >>
    <3> SUFFICES ASSUME args = << >> PROVE FALSE
      OBVIOUS
    <3>1. Len(args) \notin 1 .. 2
      OBVIOUS
    <3>2. made.error = Syntax
      BY <2>1, <3>1 DEF Address, Made
    <3> QED
      BY <3>2
  <2>3. ~ IsImmediate(op, args)
    BY <1>5, <2>2 DEF IsImmediate
  <2> HIDE DEF made
  <2> QED
    BY <1>1, <1>5, <2>1, <2>3 DEF made
<1>6. CASE ~ immediate /\ op.ext \notin {"inherent", "imm8_mem"} /\ op.mem = {}
  <2>1. made = CASE op.ext \in {"rel8", "rel16"} -> Rel(op, args, pc)
                 [] op.ext = "stacku"  -> Stack(op, args, "u")
                 [] op.ext = "stacks"  -> Stack(op, args, "s")
                 [] op.ext = "pair"    -> Pair(op, args)
                 [] op.ext = "tfm"     -> Tfm(op, args)
                 [] op.ext = "reg_mem" -> RegMem(op, args)
                 [] OTHER              -> Made(<< >>, Syntax)
    BY <1>6 DEF Encode
  <2>2. made.error <= Inefficient
    OBVIOUS
  <2> HIDE DEF made
  <2>3. made # Made(<< >>, Syntax)
    BY <2>2 DEF Made
  <2> QED
    BY <1>6, <2>1, <2>3 DEF made
<1> QED
  BY <1>2, <1>3, <1>4, <1>5, <1>6

\* The code of an instruction without a complaint means what its arguments say.
LEMMA EncodeRight ==
    ASSUME NEW op, OpcodeOK(op), NEW args, ArgumentsOK(args), ~ HasUndefined(args),
           NEW pc \in Int, NEW dp \in Int,
           Encode(op, args, pc, dp).error <= Inefficient, Expected(op, args),
           NEW bytes, bytes = FlattenSeq(Encode(op, args, pc, dp).code),
           op.mem # {} /\ ~ IsImmediate(op, args) =>
             Fits(op, MemoryArgs(op, args), bytes, pc) /\ ~ ZeroPcr(MemoryArgs(op, args))
    PROVE  CodeRight(op, args, Encode(op, args, pc, dp), pc, dp)
<1> DEFINE made == Encode(op, args, pc, dp)
           right == Decoded(op, args, bytes, pc, dp) = Meant(op, args, pc + Len(bytes))
<1> HIDE DEF made
<1> SUFFICES CodeRight(op, args, made, pc, dp)
  BY DEF made
<1>1. made.error <= Inefficient /\ bytes = FlattenSeq(made.code)
  BY DEF made
<1>0. right => CodeRight(op, args, made, pc, dp)
  BY <1>1 DEF CodeRight
<1>2. CASE op.ext = "inherent"
  BY <1>0, <1>2 DEF Decoded, Meant, IsImmediate
<1>3. CASE op.ext \in {"imm8", "imm16", "imm32"} /\ IsImmediate(op, args) /\ made = Immediate(op, args)
  <2>1. IsInt(args[1])
    BY <1>3, ExpectedParts
  <2> QED
    BY <1>1, <1>3, <2>1, ImmediateRight
<1>4. CASE op.ext = "imm8_mem" /\ made = Imm8Mem(op, args, pc, dp)
  <2>1. op.mem # {} /\ ~ IsImmediate(op, args)
    BY <1>4 DEF OpcodeOK, IsImmediate
  <2>2. IsInt(args[1]) /\ ExpectedIn(Tail(args))
    BY <1>4, <2>1, ExpectedParts
  <2>3. Fits(op, Tail(args), bytes, pc) /\ ~ ZeroPcr(Tail(args))
    BY <1>4, <2>1 DEF MemoryArgs
  <2>4. /\ InMemory(op, Tail(args), bytes, pc, dp) = MeantInMemory(Tail(args), pc + Len(bytes))
        /\ Rest(op, bytes)[1] = args[1].val % 256
    BY <1>1, <1>4, <2>2, <2>3, Imm8MemRight
  <2>5. Decoded(op, args, bytes, pc, dp)
          = <<Rest(op, bytes)[1], InMemory(op, Tail(args), bytes, pc, dp)>>
    BY <1>4 DEF Decoded, IsImmediate
  <2>6. Meant(op, args, pc + Len(bytes))
          = <<args[1].val % 256, MeantInMemory(Tail(args), pc + Len(bytes))>>
    BY <1>4 DEF Meant, IsImmediate
  <2> QED
    BY <1>0, <2>4, <2>5, <2>6, Zenon
<1>5. CASE op.mem # {} /\ op.ext \in {"none", "imm8", "imm16", "imm32"}
           /\ ~ IsImmediate(op, args) /\ made = Address(op, args, << >>, pc, dp)
  <2>1. ExpectedIn(args)
    BY <1>5, ExpectedParts
  <2>2. Fits(op, args, bytes, pc) /\ ~ ZeroPcr(args)
    BY <1>5 DEF MemoryArgs
  <2>3. InMemory(op, args, bytes, pc, dp) = MeantInMemory(args, pc + Len(bytes))
    BY <1>1, <1>5, <2>1, <2>2, MemoryRight
  <2>4. Decoded(op, args, bytes, pc, dp) = InMemory(op, args, bytes, pc, dp)
    BY <1>5 DEF Decoded
  <2>5. Meant(op, args, pc + Len(bytes)) = MeantInMemory(args, pc + Len(bytes))
    BY <1>5 DEF Meant
  <2> QED
    BY <1>0, <2>3, <2>4, <2>5, Zenon
<1>6. CASE op.ext \in {"rel8", "rel16"} /\ made = Rel(op, args, pc)
  <2>1. IsInt(args[1])
    BY <1>6, ExpectedParts
  <2> QED
    BY <1>1, <1>6, <2>1, RelRight
<1>7. CASE op.ext = "stacku" /\ made = Stack(op, args, "u")
  BY <1>1, <1>7, StackRight
<1>8. CASE op.ext = "stacks" /\ made = Stack(op, args, "s")
  BY <1>1, <1>8, StackRight
<1>9. CASE op.ext = "pair" /\ made = Pair(op, args)
  <2>1. \A i \in 1 .. 2 : IsReg(args[i]) => args[i].reg \notin {"q", "pcr"}
    BY <1>9, ExpectedParts
  <2> QED
    BY <1>1, <1>9, <2>1, PairRight
<1>10. CASE op.ext = "tfm" /\ made = Tfm(op, args)
  BY <1>1, <1>10, TfmRight
<1>11. CASE op.ext = "reg_mem" /\ made = RegMem(op, args)
  <2>1. \A i \in 2 .. 4 : IsInt(args[i])
    BY <1>11, ExpectedParts
  <2> QED
    BY <1>1, <1>11, <2>1, RegMemRight
<1> QED
  BY <1>2, <1>3, <1>4, <1>5, <1>6, <1>7, <1>8, <1>9, <1>10, <1>11, EncodeCases DEF made

-----------------------------------------------------------------------------
(* What the trace says of the program. *)
\* An instruction's entry is what instr.c makes of its line at its address.
ErrorOf(args, error) == Raise(IF HasUndefined(args) THEN Inconsistent ELSE None, error)

MadeAt(l, t) ==
    /\ t.pc \in Int /\ t.dp \in Int
    /\ t.code = FlattenSeq(Encode(l.op, l.args, t.pc, t.dp).code)
    /\ t.error = ErrorOf(l.args, Encode(l.op, l.args, t.pc, t.dp).error)

Entry(p, t) ==
    /\ t.line \in 1 .. Len(p)
    /\ p[t.line].kind = "instr" => MadeAt(p[t.line], t)

Entries(p, s) == \A i \in 1 .. Len(s) : Entry(p, s[i])

Traced == (\E S : trace \in Seq(S)) /\ Entries(program, trace)

LEMMA EntryAppended ==
    ASSUME NEW p, NEW S, NEW s \in Seq(S), Entries(p, s), NEW t, Entry(p, t)
    PROVE  (\E T : Append(s, t) \in Seq(T)) /\ Entries(p, Append(s, t))
<1> DEFINE T == S \cup {t}
           u == Append(s, t)
<1>1. s \in Seq(T) /\ t \in T /\ Len(s) \in Nat
  BY SeqDef, LenProperties
<1>2. /\ u \in Seq(T) /\ Len(u) = Len(s) + 1 /\ u[Len(s) + 1] = t
      /\ \A i \in 1 .. Len(s) : u[i] = s[i]
  BY <1>1, AppendProperties
<1> HIDE DEF u, T
<1>3. \A i \in 1 .. Len(u) : Entry(p, u[i])
  <2> SUFFICES ASSUME NEW i \in 1 .. Len(u) PROVE Entry(p, u[i])
    OBVIOUS
  <2>1. CASE i = Len(s) + 1
    BY <1>2, <2>1
  <2>2. CASE i \in 1 .. Len(s)
    BY <1>2, <2>2 DEF Entries
  <2> QED
    BY <1>1, <1>2, <2>1, <2>2
<1> QED
  BY <1>2, <1>3 DEF Entries, u

\* What a line emits is traced after the lines before it.
LEMMA EmitsTraced ==
    ASSUME Traced, NEW code, NEW error, Emits(code, error), next \in 1 .. Len(program),
           line.kind = "instr" =>
             /\ here.pc \in Int /\ here.dp \in Int
             /\ code = Encode(line.op, line.args, here.pc, here.dp).code
             /\ error = ErrorOf(line.args, Encode(line.op, line.args, here.pc, here.dp).error)
    PROVE  Traced'
<1> DEFINE t == [line |-> next, pc |-> here.pc, dp |-> here.dp,
                 code |-> FlattenSeq(code), error |-> error]
<1>1. trace' = Append(trace, t) /\ program' = program
  BY DEF Emits
<1>2. /\ t.line = next /\ t.pc = here.pc /\ t.dp = here.dp
      /\ t.code = FlattenSeq(code) /\ t.error = error
  OBVIOUS
<1> HIDE DEF t
<1>3. Entry(program, t)
  <2>1. t.line \in 1 .. Len(program)
    BY <1>2
  <2>2. ASSUME program[t.line].kind = "instr" PROVE MadeAt(program[t.line], t)
    <3>1. program[t.line] = line
      BY <1>2 DEF line
    <3> HIDE DEF line
    <3>2. /\ here.pc \in Int /\ here.dp \in Int
          /\ code = Encode(line.op, line.args, here.pc, here.dp).code
          /\ error = ErrorOf(line.args, Encode(line.op, line.args, here.pc, here.dp).error)
      BY <2>2, <3>1
    <3>3. MadeAt(line, t)
      BY <1>2, <3>2 DEF MadeAt
    <3> QED
      BY <3>1, <3>3
  <2> QED
    BY <2>1, <2>2 DEF Entry
<1>4. PICK S : trace \in Seq(S)
  BY DEF Traced
<1>5. Entries(program, trace)
  BY DEF Traced
<1>6. (\E T : Append(trace, t) \in Seq(T)) /\ Entries(program, Append(trace, t))
  BY <1>3, <1>4, <1>5, EntryAppended
<1> QED
  BY <1>1, <1>6 DEF Traced

LEMMA NextTraced == Inv /\ Traced /\ [Next]_vars => Traced'
<1> SUFFICES ASSUME Inv, Traced, [Next]_vars PROVE Traced'
  OBVIOUS
<1>1. here \in Sect /\ Len(program) \in Nat /\ next \in Nat /\ next >= 1
  BY InvFacts DEF Inv
<1>2. here.pc \in Int /\ here.dp \in Int
  BY <1>1, SectFacts
<1>3. \A kind : AtLine(kind) => next \in 1 .. Len(program) /\ line.kind = kind
  BY <1>1 DEF AtLine
<1> HIDE DEF here, line
<1>4. CASE Instruction
  <2> DEFINE made == Encode(line.op, line.args, here.pc, here.dp)
  <2>1. next \in 1 .. Len(program)
    BY <1>3, <1>4 DEF Instruction
  <2>2. Emits(made.code, ErrorOf(line.args, made.error))
    BY <1>4 DEF Instruction, ErrorOf
  <2> HIDE DEF made
  <2>3. made = Encode(line.op, line.args, here.pc, here.dp)
    BY DEF made
  <2> QED
    BY <1>2, <2>1, <2>2, <2>3, EmitsTraced
<1>5. CASE Constants
  <2>1. next \in 1 .. Len(program) /\ line.kind = "data" /\ Emits(line.val, None)
    BY <1>3, <1>5 DEF Constants
  <2> QED
    BY <2>1, EmitsTraced
<1>6. CASE (Next /\ ~ Instruction /\ ~ Constants) \/ UNCHANGED vars
  <2>1. trace' = trace /\ program' = program
    BY <1>6 DEF Next, Org, Put, Rmb, Setdp, Section, End, Output, AtLine, Moves, vars
  <2> QED
    BY <2>1 DEF Traced
<1> QED
  BY <1>4, <1>5, <1>6

LEMMA ErrorLow ==
    ASSUME NEW args, NEW error \in Level, ErrorOf(args, error) <= Inefficient
    PROVE  ~ HasUndefined(args) /\ error <= Inefficient
BY DEF ErrorOf, Raise, Level

\* EncodeRight, of the code that the trace holds.
LEMMA CodeMeans ==
    ASSUME NEW l, OpcodeOK(l.op), ArgumentsOK(l.args), NEW t, MadeAt(l, t),
           t.error <= Inefficient, Expected(l.op, l.args),
           l.op.mem # {} /\ ~ IsImmediate(l.op, l.args) =>
             Fits(l.op, MemoryArgs(l.op, l.args), t.code, t.pc) /\ ~ ZeroPcr(MemoryArgs(l.op, l.args))
    PROVE  Decoded(l.op, l.args, t.code, t.pc, t.dp) = Meant(l.op, l.args, t.pc + Len(t.code))
<1> DEFINE made == Encode(l.op, l.args, t.pc, t.dp)
<1>1. /\ t.pc \in Int /\ t.dp \in Int /\ t.code = FlattenSeq(made.code)
      /\ t.error = ErrorOf(l.args, made.error)
  BY DEF MadeAt
<1>2. MadeOK(made)
  BY <1>1, EncodeType
<1> HIDE DEF made
<1>3. made.error \in Level
  BY <1>2 DEF MadeOK
<1>4. ~ HasUndefined(l.args) /\ made.error <= Inefficient
  BY <1>1, <1>3, ErrorLow
<1>5. CodeRight(l.op, l.args, made, t.pc, t.dp)
  BY <1>1, <1>4, EncodeRight DEF made
<1> QED
  BY <1>1, <1>5 DEF CodeRight

LEMMA TracedReaches == Inv /\ Traced => OperandsAreReached
<1> SUFFICES ASSUME Inv, Traced, NEW i \in 1 .. Len(trace),
                    Sound(trace[i]), NotZeroPcr(trace[i])
             PROVE  Right(trace[i])
  BY DEF OperandsAreReached
<1> DEFINE t == trace[i]
           l == program[t.line]
<1>1. t.line \in 1 .. Len(program) /\ (l.kind = "instr" => MadeAt(l, t))
  BY DEF Traced, Entries, Entry
<1>2. LineOK(l)
  BY <1>1, ProgramsAssumption DEF Inv
<1>3. l.kind = "instr" /\ t.error <= Inefficient /\ Expected(l.op, l.args)
  BY DEF Sound
<1>4. OpcodeOK(l.op) /\ ArgumentsOK(l.args)
  BY <1>2, <1>3 DEF LineOK
<1>5. l.op.mem # {} /\ ~ IsImmediate(l.op, l.args) =>
        /\ Fits(l.op, MemoryArgs(l.op, l.args), t.code, t.pc)
        /\ ~ ZeroPcr(MemoryArgs(l.op, l.args))
  BY DEF Sound, NotZeroPcr, MemoryArgs
<1>6. Right(t) <=> Decoded(l.op, l.args, t.code, t.pc, t.dp) = Meant(l.op, l.args, t.pc + Len(t.code))
  BY DEF Right
<1> HIDE DEF t, l
<1>7. Right(t)
  BY <1>1, <1>3, <1>4, <1>5, <1>6, CodeMeans
<1> QED
  BY <1>7 DEF t

\* An instruction that is assembled without a complaint works on what its
\* arguments say: the opcode, the postbyte and the bytes after it that instr.c
\* makes, taken apart as the processor does, are the operand, the registers or
\* the target of the line, in every addressing mode, wherever the line is, for
\* all programs, values and pages; but for label,pcr where the label is 0.
THEOREM OperandsReached == Spec => []OperandsAreReached
<1>1. Init => Traced
  <2> SUFFICES ASSUME Init PROVE Traced
    OBVIOUS
  <2>1. trace \in Seq(Nat) /\ Len(trace) = 0
    BY EmptySeq DEF Init
  <2> QED
    BY <2>1 DEF Traced, Entries
<1> QED
  BY <1>1, Invariant, NextTraced, TracedReaches, PTL DEF Spec
=============================================================================
