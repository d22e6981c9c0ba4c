---- MODULE RingBuffers_proofs ----
(***************************************************************************)
(* Proofs about RingBuffers for every set of buffers, every set of bytes   *)
(* and every offset table: the pointers never leave their page, the 8-bit  *)
(* counts of CNPV are right, the rings implement bounded queues, and CNPV  *)
(* goes by its caller's C on a 6309.                                       *)
(***************************************************************************)
EXTENDS RingBuffers, SequenceTheorems, TLAPS

\* The two 8-bit sums of CNPV over plain integers: with offset o, the borrow
\* correction of end - start = d < 0, and the sum of offset and bytes used.
LEMMA ByteArithmetic ==
    ASSUME NEW o \in 0..254
    PROVE  /\ \A d \in (o - 255)..(-1) : ((d % 256) - o) % 256 = d + 256 - o
           /\ \A u \in 0..(255 - o) : (u + o) % 256 = u + o
<1>1. ASSUME NEW d \in (o - 255)..(-1) PROVE ((d % 256) - o) % 256 = d + 256 - o
  <2>1. d % 256 = d + 256
    BY <1>1
  <2>2. d + 256 - o \in 0..255
    BY <1>1
  <2> QED
    BY <1>1, <2>1, <2>2
<1>2. ASSUME NEW u \in 0..(255 - o) PROVE (u + o) % 256 = u + o
  BY <1>2
<1> QED
  BY <1>1, <1>2

\* What INSV and REMV do to a pointer, without the 8-bit arithmetic.
LEMMA AdvanceValue ==
    ASSUME NEW b \in Buffer, NEW p \in Slot(b)
    PROVE  /\ Advance(b, p) = IF p = 255 THEN Offs[b] ELSE p + 1
           /\ Advance(b, p) \in Slot(b)
<1>1. Offs[b] \in 0..254
  BY OffsAssumption
<1>2. p \in Offs[b]..255
  BY DEF Slot
<1>3. (p + 1) % 256 = IF p = 255 THEN 0 ELSE p + 1
  BY <1>1, <1>2
<1> QED
  BY <1>1, <1>2, <1>3 DEF Advance, Slot

\* CNPV's 8-bit subtraction, borrow and correction give the distance from
\* start to end around the ring.
LEMMA BetweenValue ==
    ASSUME NEW b \in Buffer, NEW s \in Slot(b), NEW e \in Slot(b)
    PROVE  /\ Between(b, s, e) = IF e < s THEN e - s + Size(b) ELSE e - s
           /\ Between(b, s, e) \in 0..(255 - Offs[b])
<1>1. Offs[b] \in 0..254
  BY OffsAssumption
<1>2. s \in Offs[b]..255 /\ e \in Offs[b]..255
  BY DEF Slot
<1>3. CASE e < s
  <2>1. e - s \in (Offs[b] - 255)..(-1)
    BY <1>1, <1>2, <1>3
  <2>2. Between(b, s, e) = (((e - s) % 256) - Offs[b]) % 256
    BY <1>3 DEF Between
  <2>3. Between(b, s, e) = e - s + 256 - Offs[b]
    BY <1>1, <2>1, <2>2, ByteArithmetic
  <2> QED
    BY <1>1, <1>2, <1>3, <2>3 DEF Size
<1>4. CASE ~(e < s)
  BY <1>1, <1>2, <1>4 DEF Between
<1> QED
  BY <1>3, <1>4

\* The counts of CNPV add up to the capacity.
LEMMA SpaceValue ==
    ASSUME NEW b \in Buffer, bufStart[b] \in Slot(b), bufEnd[b] \in Slot(b)
    PROVE  SpaceLeft(b) = 255 - Offs[b] - BytesUsed(b)
<1>1. Offs[b] \in 0..254
  BY OffsAssumption
<1>2. BytesUsed(b) \in 0..(255 - Offs[b])
  BY BetweenValue DEF BytesUsed
<1>3. (BytesUsed(b) + Offs[b]) % 256 = BytesUsed(b) + Offs[b]
  BY <1>1, <1>2, ByteArithmetic
<1> QED
  BY <1>1, <1>2, <1>3 DEF SpaceLeft

\* Every answer the vectors build has the shape of Return.
LEMMA Answers ==
    /\ Done \in Abstract!Return
    /\ \A e \in {1, NoEvent} : Refused(e) \in Abstract!Return
    /\ \A c \in Char, e \in {0, NoEvent} : Got(c, e) \in Abstract!Return
    /\ \A n \in Nat : Counted(n) \in Abstract!Return
BY DEF Done, Refused, Got, Counted, Abstract!Return, Abstract!Event

\* ... and every call they note is one of Call.
LEMMA Calls ==
    /\ <<>> \in Abstract!Call
    /\ \A b \in Buffer, c \in Char : <<"INSV", b, c>> \in Abstract!Call
    /\ \A b \in Buffer, v \in {"REMV", "Examine", "Purge"} : <<v, b>> \in Abstract!Call
    /\ \A b \in Buffer, carry, odd \in BOOLEAN :
          <<"Count", b, carry, odd>> \in Abstract!Call
BY DEF Abstract!Call

-----------------------------------------------------------------------------
\* TypeOK is inductive: every vector call leaves pointers in their page.
\* It is what keeps a keyboard or sound buffer from writing over the variables
\* that share its page in mosrom.inc.
THEOREM TypeCorrect == Spec => []TypeOK
<1>1. Init => TypeOK
  <2> SUFFICES ASSUME Init PROVE TypeOK
    OBVIOUS
  <2>1. \A b \in Buffer : 255 \in Slot(b)
    BY OffsAssumption DEF Slot
  <2>2. call \in Abstract!Call /\ ret \in Abstract!Return
    BY Answers, Calls DEF Init
  <2> QED
    BY <2>1, <2>2 DEF Init, TypeOK
<1>2. TypeOK /\ [Next]_vars => TypeOK'
  <2> SUFFICES ASSUME TypeOK, [Next]_vars PROVE TypeOK'
    OBVIOUS
  <2>1. ASSUME NEW b \in Buffer, NEW p \in Slot(b)
        PROVE  Advance(b, p) \in Slot(b) /\ Advance(b, p) \in 0..255
    <3>1. Advance(b, p) \in Slot(b)
      BY <2>1, AdvanceValue
    <3> QED
      BY <3>1, OffsAssumption DEF Slot
  <2>2. ASSUME NEW b \in Buffer, NEW p \in Slot(b) PROVE <<b, p>> \in Cell
    BY OffsAssumption DEF Slot, Cell
  <2>3. ASSUME NEW b \in Buffer, NEW c \in Char, INSV(b, c) PROVE TypeOK'
    <3>1. call' \in Abstract!Call /\ ret' \in Abstract!Return
      BY <2>3, Answers, Calls DEF INSV
    <3> QED
      BY <2>1, <2>2, <2>3, <3>1 DEF INSV, TypeOK
  <2>4. ASSUME NEW b \in Buffer, REMV(b) PROVE TypeOK'
    <3>1. mem[<<b, bufStart[b]>>] \in Char
      BY <2>2 DEF TypeOK
    <3>2. call' \in Abstract!Call /\ ret' \in Abstract!Return
      BY <2>4, <3>1, Answers, Calls DEF REMV
    <3> QED
      BY <2>1, <2>4, <3>2 DEF REMV, TypeOK
  <2>5. ASSUME NEW b \in Buffer, Examine(b) PROVE TypeOK'
    <3>1. mem[<<b, bufStart[b]>>] \in Char
      BY <2>2 DEF TypeOK
    <3>2. call' \in Abstract!Call /\ ret' \in Abstract!Return
      BY <2>5, <3>1, Answers, Calls DEF Examine
    <3> QED
      BY <2>5, <3>2 DEF Examine, TypeOK
  <2>6. ASSUME NEW b \in Buffer, Purge(b) PROVE TypeOK'
    BY <2>6, Answers, Calls DEF Purge, TypeOK
  <2>7. ASSUME NEW b \in Buffer, NEW carry \in BOOLEAN, NEW odd \in BOOLEAN,
               Count(b, carry, odd)
        PROVE  TypeOK'
    <3>1. BytesUsed(b) \in 0..(255 - Offs[b]) /\ Offs[b] \in 0..254
      BY BetweenValue, OffsAssumption DEF TypeOK, BytesUsed
    <3>2. BytesUsed(b) \in Nat /\ SpaceLeft(b) \in Nat
      BY <3>1, SpaceValue DEF TypeOK
    <3>3. call' \in Abstract!Call /\ ret' \in Abstract!Return
      BY <2>7, <3>2, Answers, Calls DEF Count
    <3> QED
      BY <2>7, <3>3 DEF Count, TypeOK
  <2>8. CASE UNCHANGED vars
    BY <2>8 DEF vars, TypeOK
  <2> QED
    BY <2>3, <2>4, <2>5, <2>6, <2>7, <2>8 DEF Next
<1> QED
  BY <1>1, <1>2, PTL DEF Spec

\* CNPV's two counts always add up to the capacity of the buffer.
THEOREM CountsCorrect == Spec => []CountsBalance
<1>1. TypeOK => CountsBalance
  <2> SUFFICES ASSUME TypeOK, NEW b \in Buffer
               PROVE  /\ BytesUsed(b) \in 0..Capacity[b]
                      /\ BytesUsed(b) + SpaceLeft(b) = Capacity[b]
    BY DEF CountsBalance
  <2>1. BytesUsed(b) \in 0..(255 - Offs[b]) /\ Offs[b] \in 0..254
    BY BetweenValue, OffsAssumption DEF TypeOK, BytesUsed
  <2>2. SpaceLeft(b) = 255 - Offs[b] - BytesUsed(b)
    BY SpaceValue DEF TypeOK
  <2> QED
    BY <2>1, <2>2 DEF Capacity
<1> QED
  BY <1>1, TypeCorrect, PTL

-----------------------------------------------------------------------------
\* Refinement.  The lemmas are about one ring and plain pointers, so that they
\* apply to the state before a step and to the state after it.

LEMMA BetweenSteps ==
    ASSUME NEW b \in Buffer, NEW s \in Slot(b), NEW e \in Slot(b)
    PROVE  /\ Between(b, s, e) = 0 <=> s = e
           /\ Advance(b, e) # s =>
                  Between(b, s, Advance(b, e)) = Between(b, s, e) + 1
           /\ Advance(b, e) = s <=> Between(b, s, e) = 255 - Offs[b]
           /\ s # e => Between(b, Advance(b, s), e) = Between(b, s, e) - 1
           /\ Between(b, s, e) = 1 <=> (s # e /\ Advance(b, s) = e)
<1>1. Offs[b] \in 0..254 /\ s \in Offs[b]..255 /\ e \in Offs[b]..255
  BY OffsAssumption DEF Slot
<1>2. Between(b, s, e) = IF e < s THEN e - s + 256 - Offs[b] ELSE e - s
  BY BetweenValue, <1>1 DEF Size
<1>3. /\ Advance(b, e) = (IF e = 255 THEN Offs[b] ELSE e + 1)
      /\ Advance(b, s) = (IF s = 255 THEN Offs[b] ELSE s + 1)
      /\ Advance(b, e) \in Slot(b) /\ Advance(b, s) \in Slot(b)
  BY AdvanceValue
<1> DEFINE ae == Advance(b, e)
           as == Advance(b, s)
<1>4. Between(b, s, ae) = IF ae < s THEN ae - s + 256 - Offs[b] ELSE ae - s
  BY BetweenValue, <1>1, <1>3 DEF Size
<1>5. Between(b, as, e) = IF e < as THEN e - as + 256 - Offs[b] ELSE e - as
  BY BetweenValue, <1>1, <1>3 DEF Size
<1> HIDE DEF ae, as
<1>6. /\ ae = (IF e = 255 THEN Offs[b] ELSE e + 1)
      /\ as = (IF s = 255 THEN Offs[b] ELSE s + 1)
  BY <1>3 DEF ae, as
<1>7. Between(b, s, e) = 0 <=> s = e
  BY <1>1, <1>2
<1>8. ae # s => Between(b, s, ae) = Between(b, s, e) + 1
  BY <1>1, <1>2, <1>4, <1>6
<1>9. ae = s <=> Between(b, s, e) = 255 - Offs[b]
  BY <1>1, <1>2, <1>6
<1>10. s # e => Between(b, as, e) = Between(b, s, e) - 1
  BY <1>1, <1>2, <1>5, <1>6
<1>11. Between(b, s, e) = 1 <=> (s # e /\ as = e)
  BY <1>1, <1>2, <1>6
<1> QED
  BY <1>7, <1>8, <1>9, <1>10, <1>11 DEF ae, as

LEMMA NthSteps ==
    ASSUME NEW b \in Buffer, NEW s \in Slot(b), NEW e \in Slot(b)
    PROVE  /\ Nth(b, s, 1) = s
           /\ Nth(b, s, Between(b, s, e) + 1) = e
           /\ \A i \in 1..Between(b, s, e) :
                  /\ Nth(b, s, i) \in Slot(b) /\ Nth(b, s, i) # e
                  /\ Nth(b, Advance(b, s), i) = Nth(b, s, i + 1)
<1>1. Offs[b] \in 0..254 /\ s \in Offs[b]..255 /\ e \in Offs[b]..255
  BY OffsAssumption DEF Slot
<1> DEFINE n == Between(b, s, e)
           as == Advance(b, s)
<1>2. n = IF e < s THEN e - s + 256 - Offs[b] ELSE e - s
  BY BetweenValue, <1>1 DEF Size
<1>3. as = IF s = 255 THEN Offs[b] ELSE s + 1
  BY AdvanceValue
<1> HIDE DEF n, as
<1>4. Nth(b, s, 1) = s
  BY <1>1 DEF Nth
<1>5. Nth(b, s, n + 1) = e
  BY <1>1, <1>2 DEF Nth, Size
<1>6. ASSUME NEW i \in 1..n
      PROVE  /\ Nth(b, s, i) \in Slot(b) /\ Nth(b, s, i) # e
             /\ Nth(b, as, i) = Nth(b, s, i + 1)
  <2>1. i \in Int /\ 1 <= i /\ i <= n
    BY <1>1, <1>2, <1>6
  <2>2. Nth(b, s, i) = IF s + i - 1 < 256 THEN s + i - 1
                                          ELSE s + i - 1 - 256 + Offs[b]
    BY <1>1, <2>1 DEF Nth, Size
  <2>3. Nth(b, s, i) \in Slot(b) /\ Nth(b, s, i) # e
    BY <1>1, <1>2, <2>1, <2>2 DEF Slot
  <2>4. Nth(b, as, i) = Nth(b, s, i + 1)
    BY <1>1, <1>2, <1>3, <2>1 DEF Nth, Size
  <2> QED
    BY <2>3, <2>4
<1> QED
  BY <1>4, <1>5, <1>6 DEF n, as

\* The bytes stored in a ring form a sequence of BytesUsed(b) bytes.
LEMMA StoredFacts ==
    ASSUME TypeOK, NEW b \in Buffer
    PROVE  /\ BytesUsed(b) \in Nat
           /\ Stored(b) \in Seq(Char)
           /\ Len(Stored(b)) = BytesUsed(b)
           /\ bufStart[b] # bufEnd[b] => Head(Stored(b)) = mem[<<b, bufStart[b]>>]
<1>1. bufStart[b] \in Slot(b) /\ bufEnd[b] \in Slot(b)
  BY DEF TypeOK
<1>2. BytesUsed(b) \in Nat
  BY <1>1, BetweenValue, OffsAssumption DEF BytesUsed
<1>3. ASSUME NEW i \in 1..BytesUsed(b)
      PROVE  mem[<<b, Nth(b, bufStart[b], i)>>] \in Char
  <2>1. Nth(b, bufStart[b], i) \in Slot(b)
    BY <1>1, <1>3, NthSteps DEF BytesUsed
  <2>2. Nth(b, bufStart[b], i) \in 0..255
    BY <2>1, OffsAssumption DEF Slot
  <2>3. <<b, Nth(b, bufStart[b], i)>> \in Cell
    BY <2>1, <2>2 DEF Cell
  <2> QED
    BY <2>3 DEF TypeOK
<1>4. Stored(b) \in [1..BytesUsed(b) -> Char]
  BY <1>3 DEF Stored
<1>5. Stored(b) \in Seq(Char) /\ Len(Stored(b)) = BytesUsed(b)
  BY <1>2, <1>4
<1>6. ASSUME bufStart[b] # bufEnd[b]
      PROVE  Head(Stored(b)) = mem[<<b, bufStart[b]>>]
  <2>1. BytesUsed(b) # 0
    BY <1>1, <1>6, BetweenSteps DEF BytesUsed
  <2>2. 1 \in 1..BytesUsed(b) /\ Head(Stored(b)) = Stored(b)[1]
    BY <1>2, <1>5, <2>1
  <2> QED
    BY <1>1, <2>2, NthSteps DEF Stored
<1> QED
  BY <1>2, <1>5, <1>6

LEMMA SeqIsFunction ==
    ASSUME NEW S, NEW s \in Seq(S)
    PROVE  s = [i \in 1..Len(s) |-> s[i]]
BY LenProperties

LEMMA InsertRefines ==
    ASSUME TypeOK, TypeOK', NEW b \in Buffer, NEW c \in Char, INSV(b, c)
    PROVE  Abstract!INSV(b, c)
<1> DEFINE q == [x \in Buffer |-> Stored(x)]
           n == BytesUsed(b)
<1>1. bufStart[b] \in Slot(b) /\ bufEnd[b] \in Slot(b)
  BY DEF TypeOK
<1>2. n \in Nat /\ Len(q[b]) = n /\ q[b] = Stored(b) /\ Stored(b) \in Seq(Char)
  BY StoredFacts
<1>3. n = 255 - Offs[b] <=> Advance(b, bufEnd[b]) = bufStart[b]
  BY <1>1, BetweenSteps DEF BytesUsed
<1>4. n <= 255 - Offs[b] /\ Offs[b] \in 0..254
  BY <1>1, BetweenValue, OffsAssumption DEF BytesUsed
<1>5. CASE Advance(b, bufEnd[b]) # bufStart[b]
  <2>1. /\ bufStart' = bufStart
        /\ bufEnd' = [bufEnd EXCEPT ![b] = Advance(b, bufEnd[b])]
        /\ mem' = [mem EXCEPT ![<<b, bufEnd[b]>>] = c]
        /\ call' = <<"INSV", b, c>> /\ ret' = Done
    BY <1>5 DEF INSV
  <2>2. bufEnd'[b] = Advance(b, bufEnd[b])
    BY <2>1 DEF TypeOK
  <2>3. BytesUsed(b)' = n + 1
    BY <1>1, <1>5, <2>1, <2>2, BetweenSteps DEF BytesUsed
  <2>4. <<b, bufEnd[b]>> \in Cell
    BY <1>1, OffsAssumption DEF Slot, Cell
  <2>5. mem'[<<b, bufEnd[b]>>] = c
    BY <2>1, <2>4 DEF TypeOK
  <2>6. ASSUME NEW i \in 1..n PROVE Stored(b)'[i] = Stored(b)[i]
    <3>1. i \in 1..(n + 1)
      BY <1>2
    <3>2. Nth(b, bufStart[b], i) # bufEnd[b]
      BY <1>1, NthSteps DEF BytesUsed
    <3>3. mem'[<<b, Nth(b, bufStart[b], i)>>] = mem[<<b, Nth(b, bufStart[b], i)>>]
      BY <2>1, <3>2 DEF TypeOK
    <3> QED
      BY <2>1, <2>3, <3>1, <3>3 DEF Stored
  <2>7. Stored(b)'[n + 1] = c
    <3>1. n + 1 \in 1..(n + 1)
      BY <1>2
    <3>2. Nth(b, bufStart[b], n + 1) = bufEnd[b]
      BY <1>1, NthSteps DEF BytesUsed
    <3> QED
      BY <2>1, <2>3, <2>5, <3>1, <3>2 DEF Stored
  <2>8. Stored(b)' = Append(Stored(b), c)
    <3>1. Stored(b)' =
            [i \in 1..(n + 1) |-> mem'[<<b, Nth(b, bufStart'[b], i)>>]]
      BY <2>3 DEF Stored
    <3>2. /\ Append(Stored(b), c) \in Seq(Char)
          /\ Len(Append(Stored(b), c)) = n + 1
          /\ \A i \in 1..n : Append(Stored(b), c)[i] = Stored(b)[i]
          /\ Append(Stored(b), c)[n + 1] = c
      BY <1>2, AppendProperties
    <3>3. \A i \in 1..(n + 1) : Stored(b)'[i] = Append(Stored(b), c)[i]
      <4>1. \A i \in 1..(n + 1) : i = n + 1 \/ i \in 1..n
        BY <1>2
      <4> QED
        BY <2>6, <2>7, <3>2, <4>1
    <3>4. Append(Stored(b), c) = [i \in 1..(n + 1) |-> Append(Stored(b), c)[i]]
      BY <3>2, SeqIsFunction
    <3> QED
      BY <3>1, <3>3, <3>4
  <2>9. ASSUME NEW x \in Buffer, x # b PROVE Stored(x)' = Stored(x)
    <3>1. bufEnd'[x] = bufEnd[x]
      BY <2>1, <2>9 DEF TypeOK
    <3>2. \A p : mem'[<<x, p>>] = mem[<<x, p>>]
      BY <2>1, <2>9 DEF TypeOK
    <3> QED
      BY <2>1, <3>1, <3>2 DEF Stored, BytesUsed
  <2>10. q' = [q EXCEPT ![b] = Append(q[b], c)]
    BY <1>2, <2>8, <2>9
  <2>11. Len(q[b]) < Capacity[b]
    <3>1. Capacity[b] = 255 - Offs[b]
      BY DEF Capacity
    <3>2. n # 255 - Offs[b]
      BY <1>3, <1>5
    <3>3. n \in Nat /\ Offs[b] \in 0..254 /\ n <= 255 - Offs[b]
      BY <1>2, <1>4
    <3>4. n < 255 - Offs[b]
      <4> HIDE DEF n
      <4> QED
        BY <3>2, <3>3
    <3> QED
      BY <1>2, <3>1, <3>4
  <2> QED
    BY <2>1, <2>10, <2>11 DEF Abstract!INSV, Abstract!Done, Done
<1>6. CASE Advance(b, bufEnd[b]) = bufStart[b]
  <2>1. /\ UNCHANGED <<bufStart, bufEnd, mem>>
        /\ call' = <<"INSV", b, c>>
        /\ ret' = Refused(IF b \in Input THEN 1 ELSE NoEvent)
    BY <1>6 DEF INSV
  <2>2. q' = q
    BY <2>1 DEF Stored, BytesUsed
  <2>3. Len(q[b]) = Capacity[b]
    BY <1>2, <1>3, <1>6 DEF Capacity
  <2> QED
    BY <2>1, <2>2, <2>3 DEF Abstract!INSV, Abstract!Refused, Abstract!Done, Refused, Done
<1> QED
  BY <1>5, <1>6

LEMMA RemoveRefines ==
    ASSUME TypeOK, NEW b \in Buffer, REMV(b)
    PROVE  Abstract!REMV(b)
<1> DEFINE q == [x \in Buffer |-> Stored(x)]
           n == BytesUsed(b)
<1>1. bufStart[b] \in Slot(b) /\ bufEnd[b] \in Slot(b)
  BY DEF TypeOK
<1>2. n \in Nat /\ Len(q[b]) = n /\ q[b] = Stored(b) /\ Stored(b) \in Seq(Char)
  BY StoredFacts
<1>3. n = 0 <=> bufStart[b] = bufEnd[b]
  BY <1>1, BetweenSteps DEF BytesUsed
<1>4. CASE bufStart[b] # bufEnd[b]
  <2> DEFINE next == Advance(b, bufStart[b])
  <2>1. /\ bufStart' = [bufStart EXCEPT ![b] = next]
        /\ bufEnd' = bufEnd /\ mem' = mem /\ call' = <<"REMV", b>>
        /\ ret' = Got(mem[<<b, bufStart[b]>>],
                      IF next = bufEnd[b] /\ b \notin Input THEN 0 ELSE NoEvent)
    BY <1>4 DEF INSV, REMV
  <2>2. bufStart'[b] = next
    BY <2>1 DEF TypeOK
  <2>3. BytesUsed(b)' = n - 1
    BY <1>1, <1>4, <2>1, <2>2, BetweenSteps DEF BytesUsed
  <2>4. q[b] # <<>>
    BY <1>2, <1>3, <1>4
  <2>5. /\ Tail(Stored(b)) \in Seq(Char) /\ Len(Tail(Stored(b))) = n - 1
        /\ \A i \in 1..(n - 1) : Tail(Stored(b))[i] = Stored(b)[i + 1]
    BY <1>2, <2>4, HeadTailProperties
  <2>6. ASSUME NEW i \in 1..(n - 1) PROVE Stored(b)'[i] = Stored(b)[i + 1]
    <3>1. i \in 1..n /\ i + 1 \in 1..n
      BY <1>2
    <3>2. Nth(b, next, i) = Nth(b, bufStart[b], i + 1)
      BY <1>1, <3>1, NthSteps DEF BytesUsed
    <3>3. Stored(b)'[i] = mem[<<b, Nth(b, next, i)>>]
      BY <2>1, <2>2, <2>3 DEF Stored
    <3>4. Stored(b)[i + 1] = mem[<<b, Nth(b, bufStart[b], i + 1)>>]
      BY <3>1 DEF Stored
    <3> QED
      BY <3>2, <3>3, <3>4
  <2>7. Stored(b)' = Tail(Stored(b))
    <3>1. Stored(b)' =
            [i \in 1..(n - 1) |-> mem[<<b, Nth(b, next, i)>>]]
      BY <2>1, <2>2, <2>3 DEF Stored
    <3>2. Tail(Stored(b)) = [i \in 1..(n - 1) |-> Tail(Stored(b))[i]]
      BY <2>5, SeqIsFunction
    <3> QED
      BY <2>5, <2>6, <3>1, <3>2
  <2>8. ASSUME NEW x \in Buffer, x # b PROVE Stored(x)' = Stored(x)
    BY <2>1, <2>8 DEF Stored, BytesUsed, TypeOK
  <2>9. q' = [q EXCEPT ![b] = Tail(q[b])]
    BY <1>2, <2>7, <2>8
  <2>10. Head(q[b]) = mem[<<b, bufStart[b]>>]
    BY <1>2, <1>4, StoredFacts
  <2>11. Len(q[b]) = 1 <=> next = bufEnd[b]
    BY <1>1, <1>2, <1>4, BetweenSteps DEF BytesUsed
  <2> HIDE DEF next, q
  <2> QED
    BY <2>1, <2>4, <2>9, <2>10, <2>11
    DEF Abstract!REMV, Abstract!Got, Abstract!Done, Got, Done, q
<1>5. CASE bufStart[b] = bufEnd[b]
  <2>1. /\ UNCHANGED <<bufStart, bufEnd, mem>>
        /\ call' = <<"REMV", b>> /\ ret' = Refused(NoEvent)
    BY <1>5 DEF REMV
  <2>2. q' = q
    BY <2>1 DEF Stored, BytesUsed
  <2>3. q[b] = <<>>
    BY <1>2, <1>3, <1>5, EmptySeq
  <2> QED
    BY <2>1, <2>2, <2>3
    DEF Abstract!REMV, Abstract!Refused, Abstract!Done, Refused, Done
<1> QED
  BY <1>4, <1>5

LEMMA OthersRefine ==
    ASSUME TypeOK, NEW b \in Buffer
    PROVE  /\ Examine(b) => Abstract!Examine(b)
           /\ Purge(b) => Abstract!Purge(b)
           /\ \A carry, odd \in BOOLEAN :
                 Count(b, carry, odd) => Abstract!Count(b, carry, odd)
<1> DEFINE q == [x \in Buffer |-> Stored(x)]
<1>1. bufStart[b] \in Slot(b) /\ bufEnd[b] \in Slot(b)
  BY DEF TypeOK
<1>2. /\ BytesUsed(b) \in Nat /\ Len(q[b]) = BytesUsed(b)
      /\ q[b] = Stored(b) /\ Stored(b) \in Seq(Char)
  BY StoredFacts
<1>3. q[b] = <<>> <=> bufStart[b] = bufEnd[b]
  <2>1. BytesUsed(b) = 0 <=> bufStart[b] = bufEnd[b]
    BY <1>1, BetweenSteps DEF BytesUsed
  <2> QED
    BY <1>2, <2>1, EmptySeq
<1>4. UNCHANGED <<bufStart, bufEnd, mem>> => q' = q
  BY DEF Stored, BytesUsed
<1>5. Examine(b) => Abstract!Examine(b)
  <2>1. bufStart[b] # bufEnd[b] => Head(q[b]) = mem[<<b, bufStart[b]>>]
    BY <1>2, StoredFacts
  <2> QED
    BY <1>3, <1>4, <2>1
    DEF Examine, Abstract!Examine, Got, Refused, Done,
        Abstract!Got, Abstract!Refused, Abstract!Done
<1>6. Purge(b) => Abstract!Purge(b)
  <2> SUFFICES ASSUME Purge(b) PROVE Abstract!Purge(b)
    OBVIOUS
  <2>1. /\ bufStart' = bufStart /\ mem' = mem
        /\ call' = <<"Purge", b>> /\ ret' = Done
        /\ bufEnd' = [bufEnd EXCEPT ![b] = bufStart[b]]
    BY DEF Purge
  <2>2. bufEnd'[b] = bufStart[b]
    BY <2>1 DEF TypeOK
  <2>3. BytesUsed(b)' = 0
    BY <1>1, <2>1, <2>2, BetweenSteps DEF BytesUsed
  <2>4. Stored(b)' = <<>>
    BY <2>3 DEF Stored
  <2>5. ASSUME NEW x \in Buffer, x # b PROVE Stored(x)' = Stored(x)
    BY <2>1, <2>5 DEF Stored, BytesUsed, TypeOK
  <2>6. q' = [q EXCEPT ![b] = <<>>]
    BY <2>4, <2>5
  <2> QED
    BY <2>1, <2>6 DEF Abstract!Purge, Abstract!Done, Done
<1>7. ASSUME NEW carry \in BOOLEAN, NEW odd \in BOOLEAN, Count(b, carry, odd)
      PROVE  Abstract!Count(b, carry, odd)
  <2>1. SpaceLeft(b) = Capacity[b] - Len(q[b])
    BY <1>1, <1>2, SpaceValue DEF Capacity
  <2>2. q' = q
    BY <1>4, <1>7 DEF Count
  <2> QED
    BY <1>2, <1>7, <2>1, <2>2
    DEF Count, Tested, Abstract!Count, Abstract!Flag, Counted, Done,
        Abstract!Counted, Abstract!Done
<1> QED
  BY <1>5, <1>6, <1>7

\* The rings implement bounded first-in first-out queues, answers and events
\* included, for every offset table and every content of the memory.
THEOREM RingsImplementQueues == Spec => ImplementsQueues
<1>1. Init => Abstract!Init
  <2> SUFFICES ASSUME Init PROVE Abstract!Init
    OBVIOUS
  <2>1. ASSUME NEW b \in Buffer PROVE Stored(b) = <<>>
    <3>1. 255 \in Slot(b)
      BY OffsAssumption DEF Slot
    <3>2. BytesUsed(b) = 0
      BY <3>1, BetweenSteps DEF Init, BytesUsed
    <3> QED
      BY <3>2 DEF Stored
  <2> QED
    BY <2>1 DEF Init, Abstract!Init, Abstract!Done, Done
<1>2. TypeOK /\ TypeOK' /\ [Next]_vars => [Abstract!Next]_(Abstract!vars)
  <2> SUFFICES ASSUME TypeOK, TypeOK', [Next]_vars
               PROVE  [Abstract!Next]_(Abstract!vars)
    OBVIOUS
  <2>1. ASSUME NEW b \in Buffer, NEW c \in Char, INSV(b, c) PROVE Abstract!Next
    BY <2>1, InsertRefines DEF Abstract!Next
  <2>2. ASSUME NEW b \in Buffer, REMV(b) PROVE Abstract!Next
    BY <2>2, RemoveRefines DEF Abstract!Next
  <2>3. ASSUME NEW b \in Buffer,
               \/ Examine(b) \/ Purge(b)
               \/ \E carry, odd \in BOOLEAN : Count(b, carry, odd)
        PROVE  Abstract!Next
    BY <2>3, OthersRefine DEF Abstract!Next
  <2>4. CASE UNCHANGED vars
    BY <2>4 DEF vars, Abstract!vars, Stored, BytesUsed
  <2> QED
    BY <2>1, <2>2, <2>3, <2>4 DEF Next
<1> QED
  BY <1>1, <1>2, TypeCorrect, PTL DEF Spec, ImplementsQueues, Abstract!Spec

-----------------------------------------------------------------------------
\* On a 6309 CNPV gives the space left to a caller with C set and the bytes
\* used to one with C clear.  On a 6809 it does not: there only the assumption
\* that bit 0 of B agrees with C would make it so.
THEOREM CountHeedsCarry == Cpu = "6309" => (Spec => []CountAsAsked)
<1> SUFFICES ASSUME Cpu = "6309" PROVE Spec => []CountAsAsked
  OBVIOUS
<1>1. Init => CountAsAsked
  BY DEF Init, CountAsAsked
<1>2. TypeOK /\ CountAsAsked /\ [Next]_vars => CountAsAsked'
  <2> SUFFICES ASSUME TypeOK, CountAsAsked, [Next]_vars,
                      NEW b \in Buffer, NEW carry \in BOOLEAN, NEW odd \in BOOLEAN,
                      call' = <<"Count", b, carry, odd>>
               PROVE  ret'.count = IF carry THEN Capacity[b] - BytesUsed(b)'
                                            ELSE BytesUsed(b)'
    BY DEF CountAsAsked
  <2>1. CASE Count(b, carry, odd)
    <3>1. BytesUsed(b)' = BytesUsed(b)
      BY <2>1 DEF Count, BytesUsed
    <3>2. SpaceLeft(b) = Capacity[b] - BytesUsed(b)
      BY SpaceValue DEF TypeOK, Capacity
    <3>3. \A n : Counted(n).count = n
      BY DEF Counted, Done
    <3> QED
      BY <2>1, <3>1, <3>2, <3>3 DEF Count, Tested
  <2>2. CASE UNCHANGED vars
    BY <2>2 DEF vars, CountAsAsked, BytesUsed
  <2>3. CASE Next
    <3>1. Count(b, carry, odd)
      BY <2>3 DEF Next, INSV, REMV, Examine, Purge, Count
    <3> QED
      BY <2>1, <3>1
  <2> QED
    BY <2>2, <2>3
<1> QED
  BY <1>1, <1>2, TypeCorrect, PTL DEF Spec
====
