---- MODULE MosSound_proofs ----
(***************************************************************************)
(* Proofs about the sound system for any number of channels up to four,    *)
(* any room of whole notes, any notes and any size of a byte: the types,   *)
(* that the buffers hold whole notes, that no note is left in a buffer     *)
(* nobody serves, and that a channel nobody serves is silent.              *)
(***************************************************************************)
EXTENDS MosSound, SequenceTheorems, TLAPS

-----------------------------------------------------------------------------
(* Buffers of whole notes. *)
NoteByte == {"head", "pitch", "duration"} \X AnyNote

\* The bytes 3i-2 to 3i are those of one note.
IsNote(s, i) ==
    \E n \in AnyNote : /\ s[3 * i - 2] = <<"head", n>>
                       /\ s[3 * i - 1] = <<"pitch", n>>
                       /\ s[3 * i] = <<"duration", n>>

Whole(s) == \E m \in Nat : Len(s) = 3 * m /\ \A i \in 1..m : IsNote(s, i)

Buffer == {s \in Seq(NoteByte) : Whole(s) /\ Len(s) <= Room}

\* The empty buffer holds whole notes.
LEMMA EmptyIsWhole == <<>> \in Buffer
<1>1. <<>> \in Seq(NoteByte) /\ Len(<<>>) = 0
  OBVIOUS
<1>2. Whole(<<>>)
  BY <1>1 DEF Whole
<1> QED
  BY <1>1, <1>2, RoomAssumption DEF Buffer

\* The first byte of a buffer that is not empty is the head of a note.
LEMMA FirstNote ==
    ASSUME NEW s \in Buffer, s # <<>>
    PROVE  Len(s) >= 3 /\ s[1][2] \in AnyNote
<1>1. PICK m \in Nat : Len(s) = 3 * m /\ \A i \in 1..m : IsNote(s, i)
  BY DEF Buffer, Whole
<1>2. s \in Seq(NoteByte)
  BY DEF Buffer
<1>3. m >= 1
  <2>1. Len(s) # 0
    BY <1>2
  <2> QED
    BY <1>1, <2>1
<1>4. IsNote(s, 1)
  BY <1>1, <1>3
<1>5. PICK n \in AnyNote : s[1] = <<"head", n>>
  <2>1. 3 * 1 - 2 = 1
    OBVIOUS
  <2> QED
    BY <1>4, <2>1 DEF IsNote
<1>6. s[1][2] = n
  BY <1>5
<1> QED
  BY <1>1, <1>3, <1>6

\* Taking three bytes leaves whole notes.
LEMMA TakeNote ==
    ASSUME NEW s \in Buffer, s # <<>>
    PROVE  SubSeq(s, 4, Len(s)) \in Buffer
<1> DEFINE r == SubSeq(s, 4, Len(s))
<1>1. PICK m \in Nat : Len(s) = 3 * m /\ \A i \in 1..m : IsNote(s, i)
  BY DEF Buffer, Whole
<1>2. s \in Seq(NoteByte) /\ Len(s) >= 3 /\ Len(s) <= Room
  BY FirstNote DEF Buffer
<1>3. r \in Seq(NoteByte) /\ Len(r) = Len(s) - 3 /\ \A j \in 1..Len(r) : r[j] = s[j + 3]
  <2>1. \A i \in 4..Len(s) : s[i] \in NoteByte
    BY <1>2
  <2>2. /\ r \in Seq(NoteByte) /\ Len(r) = IF 4 <= Len(s) THEN Len(s) - 4 + 1 ELSE 0
        /\ \A j \in 1..(Len(s) - 4 + 1) : r[j] = s[4 + j - 1]
    BY <1>2, <2>1, SubSeqProperties
  <2> HIDE DEF r
  <2>3. Len(r) = Len(s) - 3
    <3>1. Len(s) \in Nat /\ Len(s) >= 3
      BY <1>2
    <3>2. Len(r) = IF 4 <= Len(s) THEN Len(s) - 4 + 1 ELSE 0
      BY <2>2, Zenon
    <3> QED
      BY <3>1, <3>2, SMTT(30)
  <2>4. ASSUME NEW j \in 1..Len(r)
        PROVE  r[j] = s[j + 3]
    <3>1. j \in 1..(Len(s) - 4 + 1) /\ 4 + j - 1 = j + 3
      BY <1>2, <2>3
    <3> QED
      BY <2>2, <3>1
  <2> QED
    BY <2>2, <2>3, <2>4
<1> HIDE DEF r
<1>4. m - 1 \in Nat /\ Len(r) = 3 * (m - 1)
  BY <1>1, <1>2, <1>3
<1>5. ASSUME NEW i \in 1..(m - 1)
      PROVE  IsNote(r, i)
  <2>1. i + 1 \in 1..m
    BY <1>4
  <2>2. /\ 3 * i - 2 \in 1..Len(r) /\ 3 * i - 1 \in 1..Len(r) /\ 3 * i \in 1..Len(r)
        /\ 3 * (i + 1) - 2 = (3 * i - 2) + 3 /\ 3 * (i + 1) - 1 = (3 * i - 1) + 3
        /\ 3 * (i + 1) = 3 * i + 3
    BY <1>4
  <2>3. r[3 * i - 2] = s[3 * (i + 1) - 2] /\ r[3 * i - 1] = s[3 * (i + 1) - 1]
        /\ r[3 * i] = s[3 * (i + 1)]
    BY <1>3, <2>2
  <2>4. IsNote(s, i + 1)
    BY <1>1, <2>1
  <2> QED
    BY <2>3, <2>4 DEF IsNote
<1>6. Whole(r)
  BY <1>4, <1>5 DEF Whole
<1>7. Len(r) <= Room
  BY <1>2, <1>3, RoomAssumption
<1> QED
  BY <1>3, <1>6, <1>7 DEF Buffer, r

\* The bytes of note n for which a buffer that holds s has room.
Accepted(s, n) == SubSeq(Bytes(n), 1, IF Room - Len(s) < 3 THEN Room - Len(s) ELSE 3)

\* The bytes that INSV accepts are a whole note or none of it: the room of a
\* buffer of whole notes is a multiple of three.
LEMMA PutNote ==
    ASSUME NEW s \in Buffer, NEW n \in AnyNote
    PROVE  s \o Accepted(s, n) \in Buffer
<1> DEFINE room == Room - Len(s)
           b == Bytes(n)
<1>1. PICK m \in Nat : Len(s) = 3 * m /\ \A i \in 1..m : IsNote(s, i)
  BY DEF Buffer, Whole
<1>2. s \in Seq(NoteByte) /\ Len(s) <= Room /\ Room \in Nat /\ Room % 3 = 0
  BY RoomAssumption DEF Buffer
<1>3. room = 0 \/ room >= 3
  BY <1>1, <1>2
<1>4. /\ b = <<<<"head", n>>, <<"pitch", n>>, <<"duration", n>>>>
      /\ b \in Seq(NoteByte) /\ Len(b) = 3
  BY DEF Bytes, NoteByte
<1> HIDE DEF b
<1>5. CASE room = 0
  <2>1. SubSeq(b, 1, 0) = <<>>
    BY <1>4
  <2>2. s \o <<>> = s
    BY <1>2
  <2>3. Accepted(s, n) = SubSeq(b, 1, 0)
    BY <1>5 DEF Accepted, b
  <2> QED
    BY <2>1, <2>2, <2>3
<1>6. CASE room >= 3
  <2> DEFINE r == s \o b
  <2>1. SubSeq(b, 1, 3) = b
    BY <1>4, SubSeqFull
  <2>2. /\ r \in Seq(NoteByte) /\ Len(r) = Len(s) + 3
        /\ \A j \in 1..Len(s) : r[j] = s[j]
        /\ r[Len(s) + 1] = b[1] /\ r[Len(s) + 2] = b[2] /\ r[Len(s) + 3] = b[3]
    BY <1>2, <1>4
  <2> HIDE DEF r
  <2>3. ASSUME NEW i \in 1..m
        PROVE  IsNote(r, i)
    <3>1. 3 * i - 2 \in 1..Len(s) /\ 3 * i - 1 \in 1..Len(s) /\ 3 * i \in 1..Len(s)
      BY <1>1
    <3>2. r[3 * i - 2] = s[3 * i - 2] /\ r[3 * i - 1] = s[3 * i - 1] /\ r[3 * i] = s[3 * i]
      BY <2>2, <3>1
    <3>3. IsNote(s, i)
      BY <1>1
    <3> QED
      BY <3>2, <3>3 DEF IsNote
  <2>4. IsNote(r, m + 1)
    <3>1. 3 * (m + 1) - 2 = Len(s) + 1 /\ 3 * (m + 1) - 1 = Len(s) + 2 /\ 3 * (m + 1) = Len(s) + 3
      BY <1>1
    <3>2. r[3 * (m + 1) - 2] = <<"head", n>> /\ r[3 * (m + 1) - 1] = <<"pitch", n>>
          /\ r[3 * (m + 1)] = <<"duration", n>>
      BY <1>4, <2>2, <3>1
    <3> QED
      BY <3>2 DEF IsNote
  <2>5. m + 1 \in Nat /\ Len(r) = 3 * (m + 1) /\ \A i \in 1..(m + 1) : IsNote(r, i)
    BY <1>1, <2>2, <2>3, <2>4
  <2>6. Whole(r)
    BY <2>5 DEF Whole
  <2>7. r \in Buffer
    BY <1>2, <1>6, <2>2, <2>6 DEF Buffer
  <2>8. Accepted(s, n) = SubSeq(b, 1, 3)
    <3>1. Len(s) \in Nat
      BY <1>2
    <3>2. (IF room < 3 THEN room ELSE 3) = 3
      BY <1>2, <1>6, <3>1
    <3> HIDE DEF room
    <3>3. Accepted(s, n) = SubSeq(b, 1, IF room < 3 THEN room ELSE 3)
      BY Zenon DEF Accepted, b, room
    <3> QED
      BY <3>2, <3>3, Zenon
  <2> QED
    BY <2>1, <2>7, <2>8 DEF r
<1> QED
  BY <1>3, <1>5, <1>6

-----------------------------------------------------------------------------
(* The record irq_sound works on, and what each subroutine leaves of it. *)
Chan == [occ : BOOLEAN, busy : BOOLEAN, dur : 0..Forever, mul : 0..Forever,
         phase : 0..4, env : BOOLEAN]

Waits == [Channel -> BOOLEAN]
Counts == {Off} \cup 0..3

Record == [q : [Channel -> Buffer], chan : [Channel -> Chan],
           parm : Waits, sync : Counts, hold : {0, 1},
           started : SUBSET Channel]

\* On the other channels only the wait for a chord may end.
Elsewhere(t, u, c) ==
    \A d \in Channel : d # c =>
        u.q[d] = t.q[d] /\ u.chan[d] = t.chan[d] /\ (u.parm[d] => t.parm[d])

(***************************************************************************)
(* A channel with notes is served, one that is not served is silent, and a *)
(* channel that waits for its chord still has the note unless it has been  *)
(* flushed.  The last is what the first two need to be inductive: a        *)
(* channel that is released takes its note without looking.                *)
(***************************************************************************)
Fine(t, c) ==
    /\ t.q[c] # <<>> => t.chan[c].occ
    /\ ~t.chan[c].occ => t.chan[c].phase = 4 /\ t.chan[c].dur = 0 /\ ~t.parm[c]
    /\ t.parm[c] /\ ~t.chan[c].busy => t.q[c] # <<>>

\* The bounds of a byte that the counters need.
LEMMA Bytes256 ==
    /\ Forever \in Nat /\ Radix \in Nat /\ Radix > 2 /\ Forever = Radix - 1
    /\ SubTicks \in 0..Forever /\ 0 \in 0..Forever
BY RadixAssumption DEF Forever

\* Replacing the bytes of one channel.
LEMMA WithChan ==
    ASSUME NEW t \in Record, NEW c \in Channel, NEW k \in Chan
    PROVE  LET u == [t EXCEPT !.chan[c] = k]
           IN  /\ u \in Record /\ u.chan[c] = k /\ Elsewhere(t, u, c)
               /\ u.q = t.q /\ u.parm = t.parm /\ u.sync = t.sync /\ u.hold = t.hold
               /\ u.started = t.started
BY DEF Record, Elsewhere

\* Replacing one buffer.
LEMMA WithQ ==
    ASSUME NEW t \in Record, NEW c \in Channel, NEW s \in Buffer
    PROVE  LET u == [t EXCEPT !.q[c] = s]
           IN  /\ u \in Record /\ u.q[c] = s /\ Elsewhere(t, u, c)
               /\ u.chan = t.chan /\ u.parm = t.parm /\ u.sync = t.sync /\ u.hold = t.hold
               /\ u.started = t.started
BY DEF Record, Elsewhere

\* Replacing the waits for the chord and its count.
LEMMA WithParm ==
    ASSUME NEW t \in Record, NEW p \in Waits, NEW y \in Counts,
           NEW u, u = [t EXCEPT !.parm = p, !.sync = y]
    PROVE  u \in Record
BY DEF Record

\* Replacing the channels started together.
LEMMA WithStarted ==
    ASSUME NEW t \in Record, NEW z \in SUBSET Channel
    PROVE  LET u == [t EXCEPT !.started = z]
           IN  /\ u \in Record /\ u.q = t.q /\ u.chan = t.chan /\ u.parm = t.parm
               /\ u.sync = t.sync /\ u.hold = t.hold /\ u.started = z
BY DEF Record

\* One channel's record with one of its fields replaced.
LEMMA PhaseField ==
    ASSUME NEW k \in Chan, NEW x \in 0..4
    PROVE  LET j == [k EXCEPT !.phase = x]
           IN  /\ j \in Chan /\ j.phase = x /\ j.occ = k.occ /\ j.busy = k.busy
               /\ j.dur = k.dur /\ j.env = k.env
BY DEF Chan

\* The same for the duration.
LEMMA DurField ==
    ASSUME NEW k \in Chan, NEW x \in 0..Forever
    PROVE  LET j == [k EXCEPT !.dur = x]
           IN  /\ j \in Chan /\ j.dur = x /\ j.occ = k.occ /\ j.busy = k.busy
               /\ j.phase = k.phase /\ j.env = k.env
BY DEF Chan

\* The same for the count of the sub-ticks.
LEMMA MulField ==
    ASSUME NEW k \in Chan, NEW x \in 0..Forever
    PROVE  LET j == [k EXCEPT !.mul = x]
           IN  /\ j \in Chan /\ j.dur = k.dur /\ j.occ = k.occ /\ j.busy = k.busy
               /\ j.phase = k.phase /\ j.env = k.env
BY DEF Chan

\* The same for the envelope.
LEMMA EnvField ==
    ASSUME NEW k \in Chan, NEW x \in BOOLEAN
    PROVE  LET j == [k EXCEPT !.env = x]
           IN  /\ j \in Chan /\ j.dur = k.dur /\ j.occ = k.occ /\ j.busy = k.busy
               /\ j.phase = k.phase
BY DEF Chan

\* The same for the flag that the channel is served.
LEMMA OccField ==
    ASSUME NEW k \in Chan, NEW x \in BOOLEAN
    PROVE  LET j == [k EXCEPT !.occ = x]
           IN  /\ j \in Chan /\ j.occ = x /\ j.dur = k.dur /\ j.busy = k.busy
               /\ j.phase = k.phase /\ j.env = k.env
BY DEF Chan

\* The same for the flag that a flush is wanted.
LEMMA BusyField ==
    ASSUME NEW k \in Chan, NEW x \in BOOLEAN
    PROVE  LET j == [k EXCEPT !.busy = x]
           IN  /\ j \in Chan /\ j.busy = x /\ j.occ = k.occ /\ j.dur = k.dur
               /\ j.phase = k.phase /\ j.env = k.env
BY DEF Chan

\* A subroutine that changes no more than the volume.
Quieter(t, u, c) ==
    /\ u \in Record /\ Elsewhere(t, u, c)
    /\ u.q = t.q /\ u.parm = t.parm /\ u.sync = t.sync /\ u.hold = t.hold
    /\ u.chan[c].occ = t.chan[c].occ /\ u.chan[c].busy = t.chan[c].busy
    /\ u.chan[c].dur = t.chan[c].dur /\ u.chan[c].phase \in {t.chan[c].phase, 4}

\* Silencing a channel leaves it in order.
LEMMA QuieterFine ==
    ASSUME NEW t, NEW u, NEW c, Quieter(t, u, c), Fine(t, c)
    PROVE  Fine(u, c)
BY DEF Quieter, Fine

\* A step at one channel leaves the others in order.
LEMMA ElsewhereFine ==
    ASSUME NEW t, NEW u, NEW c, NEW d \in Channel, d # c, Elsewhere(t, u, c), Fine(t, d)
    PROVE  Fine(u, d)
BY DEF Elsewhere, Fine

\* Two steps at one channel are a step at it.
LEMMA ElsewhereTwice ==
    ASSUME NEW t, NEW u, NEW w, NEW c, Elsewhere(t, u, c), Elsewhere(u, w, c)
    PROVE  Elsewhere(t, w, c)
BY DEF Elsewhere

\* No step is a step at any channel.
LEMMA ElsewhereSelf ==
    ASSUME NEW t, NEW c
    PROVE  Elsewhere(t, t, c)
BY DEF Elsewhere

\* A record of Record is a channel's record under each channel.
LEMMA Parts ==
    ASSUME NEW t \in Record, NEW c \in Channel
    PROVE  /\ t.chan[c] \in Chan /\ t.q[c] \in Buffer /\ t.chan[c].dur \in 0..Forever
           /\ t.chan[c].mul \in 0..Forever /\ t.chan[c].phase \in 0..4
           /\ t.sync \in Counts /\ t.hold \in {0, 1} /\ t.parm \in Waits
           /\ t.started \in SUBSET Channel
BY DEF Record, Chan

\* snd_silence changes nothing but the sound of its channel.
LEMMA SilenceQuieter ==
    ASSUME NEW t \in Record, NEW c \in Channel
    PROVE  Quieter(t, Silence(t, c), c)
<1> DEFINE k == [t.chan[c] EXCEPT !.phase = 4]
           u == [t EXCEPT !.chan[c] = k]
<1>1. /\ k \in Chan /\ k.phase = 4 /\ k.occ = t.chan[c].occ /\ k.busy = t.chan[c].busy
      /\ k.dur = t.chan[c].dur
  <2>1. t.chan[c] \in Chan /\ 4 \in 0..4
    BY Parts
  <2> QED
    BY <2>1, PhaseField
<1>2. Silence(t, c) = u
  BY DEF Silence
<1> HIDE DEF k
<1>3. /\ u \in Record /\ u.chan[c] = k /\ Elsewhere(t, u, c)
      /\ u.q = t.q /\ u.parm = t.parm /\ u.sync = t.sync /\ u.hold = t.hold
  BY <1>1, WithChan
<1> HIDE DEF u
<1> QED
  BY <1>1, <1>2, <1>3 DEF Quieter

\* So does the silencing that leaves a channel with an envelope alone.
LEMMA SilenceIfQuieter ==
    ASSUME NEW t \in Record, NEW c \in Channel
    PROVE  Quieter(t, SilenceIfNoEnvelope(t, c), c)
<1>1. Quieter(t, t, c)
  BY ElsewhereSelf DEF Quieter
<1> QED
  BY <1>1, SilenceQuieter DEF SilenceIfNoEnvelope

\* What every subroutine on channel c keeps.
Keeps(t, u, c) == u \in Record /\ Elsewhere(t, u, c) /\ Fine(u, c)

\* Silencing keeps a channel in order.
LEMMA QuieterKeeps ==
    ASSUME NEW t \in Record, NEW u, NEW c \in Channel, Quieter(t, u, c), Fine(t, c)
    PROVE  Keeps(t, u, c)
BY QuieterFine DEF Keeps, Quieter

\* A subroutine that keeps order after one that only touched its channel.
LEMMA KeepsTwice ==
    ASSUME NEW t, NEW u, NEW w, NEW c, Elsewhere(t, u, c), Keeps(u, w, c)
    PROVE  Keeps(t, w, c)
BY ElsewhereTwice DEF Keeps

\* snd_check_silence_and_finish makes a channel dormant that is silent.
LEMMA FinishKeeps ==
    ASSUME NEW t \in Record, NEW c \in Channel, Fine(t, c), t.chan[c].dur = 0, ~t.parm[c]
    PROVE  Keeps(t, Finish(t, c), c)
<1> DEFINE u == IF t.chan[c].phase = 4 /\ t.q[c] = <<>>
                THEN [t EXCEPT !.chan[c].occ = FALSE] ELSE t
<1>1. u \in Record /\ Elsewhere(t, u, c) /\ Fine(u, c)
  <2>1. CASE t.chan[c].phase = 4 /\ t.q[c] = <<>>
    <3> DEFINE k == [t.chan[c] EXCEPT !.occ = FALSE]
               w == [t EXCEPT !.chan[c] = k]
    <3>1. k \in Chan /\ ~k.occ /\ k.phase = 4 /\ k.dur = 0
      BY <2>1, Parts, OccField
    <3>2. u = w
      BY <2>1
    <3> HIDE DEF k, u
    <3>3. w \in Record /\ w.chan[c] = k /\ Elsewhere(t, w, c) /\ w.q = t.q /\ w.parm = t.parm
      BY <3>1, WithChan
    <3> HIDE DEF w
    <3> QED
      BY <2>1, <3>1, <3>2, <3>3 DEF Fine
  <2>2. CASE ~(t.chan[c].phase = 4 /\ t.q[c] = <<>>)
    BY <2>2, ElsewhereSelf
  <2> QED
    BY <2>1, <2>2
<1>2. Finish(t, c) = SilenceIfNoEnvelope(u, c)
  BY DEF Finish
<1> HIDE DEF u
<1>3. Keeps(u, SilenceIfNoEnvelope(u, c), c)
  BY <1>1, SilenceIfQuieter, QuieterKeeps
<1> QED
  BY <1>1, <1>2, <1>3, KeepsTwice

\* snd_get_from_buff takes one whole note from a buffer that holds one.
LEMMA GetFromBufferKeeps ==
    ASSUME NEW t \in Record, NEW c \in Channel, Fine(t, c), t.q[c] # <<>>, ~t.parm[c]
    PROVE  Keeps(t, GetFromBuffer(t, c), c)
<1> DEFINE note == t.q[c][1][2]
           s == SubSeq(t.q[c], 4, Len(t.q[c]))
           k == [t.chan[c] EXCEPT !.dur = note.d]
           z == IF note.s = 0 THEN t.started ELSE t.started \cup {c}
           a == [t EXCEPT !.q[c] = s]
           b == [a EXCEPT !.chan[c] = k]
           taken == [b EXCEPT !.started = z]
<1>1. note \in AnyNote /\ s \in Buffer
  BY Parts, FirstNote, TakeNote
<1>2. note.d \in 0..Forever /\ note.env \in BOOLEAN
  BY <1>1 DEF AnyNote
<1>3. k \in Chan /\ k.occ = t.chan[c].occ /\ z \in SUBSET Channel
  BY <1>2, Parts, DurField
<1>4. t.chan[c].occ
  BY DEF Fine
<1>5. GetFromBuffer(t, c) =
         IF note.h THEN SilenceIfNoEnvelope(taken, c)
         ELSE [taken EXCEPT !.chan[c].env = note.env, !.chan[c].mul = SubTicks,
                            !.chan[c].phase = 0]
  <2>1. taken = [t EXCEPT !.q[c] = SubSeq(@, 4, Len(@)), !.chan[c].dur = note.d,
                          !.started = IF note.s = 0 THEN @ ELSE @ \cup {c}]
    BY DEF Record
  <2> HIDE DEF taken
  <2> QED
    BY <2>1 DEF GetFromBuffer
<1> HIDE DEF s, k, z, note
<1>6. a \in Record /\ Elsewhere(t, a, c) /\ a.parm = t.parm
  BY <1>1, WithQ
<1> HIDE DEF a
<1>7. b \in Record /\ Elsewhere(a, b, c) /\ b.parm = a.parm /\ b.chan[c] = k
  BY <1>3, <1>6, WithChan
<1> HIDE DEF b
<1>8. taken \in Record /\ Elsewhere(b, taken, c) /\ taken.parm = b.parm /\ taken.chan = b.chan
  BY <1>3, <1>7, WithStarted, ElsewhereSelf DEF Elsewhere
<1> HIDE DEF taken
<1>9. Elsewhere(t, taken, c)
  BY <1>6, <1>7, <1>8, ElsewhereTwice
<1>10. ~taken.parm[c] /\ taken.chan[c].occ
  BY <1>3, <1>4, <1>6, <1>7, <1>8
<1>11. Fine(taken, c)
  BY <1>10 DEF Fine
<1>12. CASE note.h
  <2>1. Keeps(taken, SilenceIfNoEnvelope(taken, c), c)
    BY <1>8, <1>11, SilenceIfQuieter, QuieterKeeps
  <2> QED
    BY <1>5, <1>9, <1>12, <2>1, KeepsTwice
<1>13. CASE ~note.h
  <2> DEFINE j == [taken.chan[c] EXCEPT !.env = note.env, !.mul = SubTicks, !.phase = 0]
             w == [taken EXCEPT !.chan[c] = j]
  <2>1. j \in Chan /\ j.occ = taken.chan[c].occ
    <3>1. taken.chan[c] \in Chan
      BY <1>8, Parts
    <3>2. SubTicks \in 0..Forever
      BY Bytes256
    <3> DEFINE j1 == [taken.chan[c] EXCEPT !.env = note.env]
               j2 == [j1 EXCEPT !.mul = SubTicks]
               j3 == [j2 EXCEPT !.phase = 0]
    <3>3. j1 \in Chan /\ j1.occ = taken.chan[c].occ
      BY <1>2, <3>1, EnvField
    <3>4. j = j3
      BY <3>1 DEF Chan
    <3> HIDE DEF j1, j
    <3>5. j2 \in Chan /\ j2.occ = j1.occ
      BY <3>2, <3>3, MulField
    <3> HIDE DEF j2
    <3>6. j3 \in Chan /\ j3.occ = j2.occ
      <4>1. 0 \in 0..4
        OBVIOUS
      <4> QED
        BY <3>5, <4>1, PhaseField
    <3> QED
      BY <3>3, <3>4, <3>5, <3>6
  <2>2. GetFromBuffer(t, c) = w
    <3>1. [taken EXCEPT !.chan[c].env = note.env, !.chan[c].mul = SubTicks,
                        !.chan[c].phase = 0] = w
      BY <1>8 DEF Record, Chan
    <3> QED
      BY <1>5, <1>13, <3>1
  <2> HIDE DEF j
  <2>3. w \in Record /\ w.chan[c] = j /\ Elsewhere(taken, w, c) /\ w.parm = taken.parm
    BY <1>8, <2>1, WithChan
  <2> HIDE DEF w
  <2>4. Fine(w, c)
    BY <1>10, <2>1, <2>3 DEF Fine
  <2> QED
    BY <1>9, <2>2, <2>3, <2>4, ElsewhereTwice DEF Keeps
<1> QED
  BY <1>12, <1>13

\* x_Synchronise_sound_routines: a chord note stays in its buffer and its
\* channel waits.
LEMMA SynchroniseKeeps ==
    ASSUME NEW t \in Record, NEW c \in Channel, Fine(t, c), t.chan[c].dur = 0, ~t.parm[c]
    PROVE  Keeps(t, Synchronise(t, c), c)
<1> DEFINE s == t.q[c][1][2].s
           count == IF t.sync = Off THEN s ELSE t.sync - 1
           p == [t.parm EXCEPT ![c] = TRUE]
           u == [t EXCEPT !.parm = p, !.sync = count]
<1>1. CASE t.q[c] = <<>>
  BY <1>1, FinishKeeps DEF Synchronise
<1>2. CASE t.q[c] # <<>> /\ s = 0
  BY <1>2, GetFromBufferKeeps DEF Synchronise
<1>3. CASE t.q[c] # <<>> /\ s # 0 /\ t.sync = 0
  BY <1>3, SilenceIfQuieter, QuieterKeeps DEF Synchronise
<1>4. CASE t.q[c] # <<>> /\ s # 0 /\ t.sync # 0
  <2>1. s \in 0..3
    BY <1>4, Parts, FirstNote DEF AnyNote
  <2>2. count \in Counts
    <3>1. t.sync \in Counts
      BY Parts
    <3> QED
      BY <1>4, <2>1, <3>1 DEF Off, Counts
  <2>3. p \in Waits
    BY Parts DEF Waits
  <2>9. \A d \in Channel : d # c => p[d] = t.parm[d]
    BY Parts DEF Waits
  <2>4. Synchronise(t, c) = SilenceIfNoEnvelope(u, c)
    <3>1. [t EXCEPT !.parm[c] = TRUE, !.sync = count] = u
      OBVIOUS
    <3> HIDE DEF u, p
    <3> QED
      BY <1>4, <3>1 DEF Synchronise
  <2> HIDE DEF p, count
  <2>5. u \in Record /\ u.q = t.q /\ u.chan = t.chan /\ u.parm = p
    <3>1. u = [t EXCEPT !.parm = p, !.sync = count]
      OBVIOUS
    <3> HIDE DEF u
    <3>2. u \in Record
      BY <2>2, <2>3, <3>1, WithParm
    <3>3. u.q = t.q /\ u.chan = t.chan /\ u.parm = p
      BY <3>1 DEF Record
    <3> QED
      BY <3>2, <3>3
  <2> HIDE DEF u
  <2>6. Elsewhere(t, u, c)
    BY <2>5, <2>9 DEF Elsewhere
  <2>7. Fine(u, c)
    <3>1. t.chan[c].occ
      BY <1>4 DEF Fine
    <3> QED
      BY <1>4, <2>5, <3>1 DEF Fine
  <2>8. Keeps(u, SilenceIfNoEnvelope(u, c), c)
    BY <2>5, <2>7, SilenceIfQuieter, QuieterKeeps
  <2> QED
    BY <2>4, <2>6, <2>8, KeepsTwice
<1> QED
  BY <1>1, <1>2, <1>3, <1>4

\* Forgetting the chord ends the wait of every channel.
LEMMA ForgetChordIs ==
    ASSUME NEW t \in Record
    PROVE  LET u == ForgetChord(t)
           IN  /\ u \in Record /\ u.q = t.q /\ u.chan = t.chan /\ u.sync = Off
               /\ u.hold = t.hold /\ u.started = t.started
               /\ \A d \in Channel : ~u.parm[d]
<1> DEFINE p == [c \in Channel |-> FALSE]
           u == [t EXCEPT !.parm = p, !.sync = Off]
<1>1. p \in Waits /\ Off \in Counts /\ \A d \in Channel : ~p[d]
  BY DEF Waits, Counts
<1>2. ForgetChord(t) = u
  BY DEF ForgetChord
<1> HIDE DEF p
<1>3. /\ u \in Record /\ u.q = t.q /\ u.chan = t.chan /\ u.sync = Off
      /\ u.hold = t.hold /\ u.started = t.started /\ u.parm = p
  <2>1. u = [t EXCEPT !.parm = p, !.sync = Off]
    OBVIOUS
  <2> HIDE DEF u
  <2>2. u \in Record
    BY <1>1, <2>1, WithParm
  <2>3. /\ u.q = t.q /\ u.chan = t.chan /\ u.sync = Off
        /\ u.hold = t.hold /\ u.started = t.started /\ u.parm = p
    BY <2>1 DEF Record
  <2> QED
    BY <2>2, <2>3
<1> HIDE DEF u
<1> QED
  BY <1>1, <1>2, <1>3

\* irq_sound_check_get_next, for a channel that was flushed or whose duration
\* is over.
LEMMA CheckGetNextKeeps ==
    ASSUME NEW t \in Record, NEW c \in Channel, Fine(t, c), t.chan[c].busy \/ t.chan[c].dur = 0
    PROVE  Keeps(t, CheckGetNext(t, c), c)
<1> DEFINE released == IF t.chan[c].phase = 4 THEN t ELSE [t EXCEPT !.chan[c].phase = 3]
           flushed == [released EXCEPT !.chan[c].busy = FALSE, !.chan[c].dur = 0]
           u == IF released.chan[c].busy THEN ForgetChord(flushed) ELSE released
           v == [u EXCEPT !.parm[c] = FALSE]
<1>1. /\ released \in Record /\ Elsewhere(t, released, c) /\ Fine(released, c)
      /\ released.chan[c].busy = t.chan[c].busy /\ released.chan[c].dur = t.chan[c].dur
  <2>1. CASE t.chan[c].phase = 4
    BY <2>1, ElsewhereSelf
  <2>2. CASE t.chan[c].phase # 4
    <3> DEFINE k == [t.chan[c] EXCEPT !.phase = 3]
               w == [t EXCEPT !.chan[c] = k]
    <3>1. /\ k \in Chan /\ k.occ = t.chan[c].occ /\ k.busy = t.chan[c].busy
          /\ k.dur = t.chan[c].dur
      <4>1. t.chan[c] \in Chan /\ 3 \in 0..4
        BY Parts
      <4> QED
        BY <4>1, PhaseField
    <3>2. released = w
      BY <2>2
    <3> HIDE DEF k, released
    <3>3. /\ w \in Record /\ w.chan[c] = k /\ Elsewhere(t, w, c)
          /\ w.q = t.q /\ w.parm = t.parm
      BY <3>1, WithChan
    <3> HIDE DEF w
    <3>4. t.chan[c].occ
      BY <2>2 DEF Fine
    <3>5. Fine(w, c)
      BY <3>1, <3>3, <3>4 DEF Fine
    <3> QED
      BY <3>1, <3>2, <3>3, <3>5
  <2> QED
    BY <2>1, <2>2
<1>2. CheckGetNext(t, c) =
        IF ~u.parm[c] THEN Synchronise(u, c)
        ELSE IF u.hold = 0 THEN SilenceIfNoEnvelope(u, c) ELSE GetFromBuffer(v, c)
  BY DEF CheckGetNext
<1> HIDE DEF released
<1>3. u \in Record /\ Elsewhere(released, u, c) /\ Fine(u, c) /\ ~u.chan[c].busy
      /\ u.chan[c].dur = 0
  <2>1. CASE released.chan[c].busy
    <3> DEFINE k1 == [released.chan[c] EXCEPT !.busy = FALSE]
               k == [k1 EXCEPT !.dur = 0]
               w == [released EXCEPT !.chan[c] = k]
    <3>1. released.chan[c] \in Chan /\ 0 \in 0..Forever
      BY <1>1, Parts, Bytes256
    <3>2. k1 \in Chan /\ ~k1.busy /\ k1.occ = released.chan[c].occ
          /\ k1.phase = released.chan[c].phase
      BY <3>1, BusyField
    <3>3. flushed = w
      BY <1>1, <3>1 DEF Record, Chan
    <3> HIDE DEF k1
    <3>4. k \in Chan /\ ~k.busy /\ k.occ = k1.occ /\ k.phase = k1.phase /\ k.dur = 0
      BY <3>1, <3>2, DurField
    <3> HIDE DEF k, flushed
    <3>5. w \in Record /\ w.chan[c] = k /\ Elsewhere(released, w, c) /\ w.q = released.q
      BY <1>1, <3>4, WithChan
    <3> HIDE DEF w
    <3>6. u = ForgetChord(w)
      BY <2>1, <3>3
    <3> HIDE DEF u
    <3>7. u \in Record /\ u.q = w.q /\ u.chan = w.chan /\ \A d \in Channel : ~u.parm[d]
      BY <3>5, <3>6, ForgetChordIs
    <3>8. Elsewhere(released, u, c)
      BY <3>5, <3>7 DEF Elsewhere
    <3>9. Fine(u, c)
      BY <1>1, <3>2, <3>4, <3>5, <3>7 DEF Fine
    <3> QED
      BY <3>4, <3>5, <3>7, <3>8, <3>9
  <2>2. CASE ~released.chan[c].busy
    BY <1>1, <2>2, ElsewhereSelf
  <2> QED
    BY <2>1, <2>2
<1> HIDE DEF u
<1>4. Elsewhere(t, u, c)
  BY <1>1, <1>3, ElsewhereTwice
<1>5. CASE ~u.parm[c]
  BY <1>2, <1>3, <1>4, <1>5, SynchroniseKeeps, KeepsTwice
<1>6. CASE u.parm[c] /\ u.hold = 0
  <2>1. Keeps(u, SilenceIfNoEnvelope(u, c), c)
    BY <1>3, SilenceIfQuieter, QuieterKeeps
  <2> QED
    BY <1>2, <1>4, <1>6, <2>1, KeepsTwice
<1>7. CASE u.parm[c] /\ u.hold # 0
  <2> DEFINE p == [u.parm EXCEPT ![c] = FALSE]
  <2>1. p \in Waits /\ ~p[c] /\ (\A d \in Channel : d # c => p[d] = u.parm[d])
        /\ u.sync \in Counts
    BY <1>3, Parts DEF Waits
  <2>2. v = [u EXCEPT !.parm = p, !.sync = u.sync]
    BY <1>3 DEF Record
  <2> HIDE DEF p, v
  <2>3. v \in Record /\ v.q = u.q /\ v.chan = u.chan /\ v.parm = p
    <3>1. v \in Record
      BY <1>3, <2>1, <2>2, WithParm
    <3>2. v.q = u.q /\ v.chan = u.chan /\ v.parm = p
      BY <1>3, <2>2 DEF Record
    <3> QED
      BY <3>1, <3>2
  <2>4. Elsewhere(u, v, c)
    BY <2>1, <2>3 DEF Elsewhere
  <2>5. v.q[c] # <<>> /\ Fine(v, c) /\ ~v.parm[c]
    BY <1>3, <1>7, <2>1, <2>3 DEF Fine
  <2>6. Keeps(v, GetFromBuffer(v, c), c)
    BY <2>3, <2>5, GetFromBufferKeeps
  <2>7. Elsewhere(t, v, c)
    BY <1>4, <2>4, ElsewhereTwice
  <2> QED
    BY <1>2, <1>7, <2>6, <2>7, KeepsTwice
<1> QED
  BY <1>5, <1>6, <1>7

\* The countdown of a note that sounds.
LEMMA CountDownKeeps ==
    ASSUME NEW t \in Record, NEW c \in Channel, Fine(t, c), t.chan[c].dur # 0
    PROVE  Keeps(t, CountDown(t, c), c)
<1> DEFINE mul == (t.chan[c].mul - 1) % Radix
           dur == (t.chan[c].dur - 1) % Radix
           km == [t.chan[c] EXCEPT !.mul = mul]
           ks == [t.chan[c] EXCEPT !.mul = SubTicks]
           kd == [ks EXCEPT !.dur = dur]
           um == [t EXCEPT !.chan[c] = km]
           next == [t EXCEPT !.chan[c] = kd]
<1>1. mul \in 0..Forever /\ dur \in 0..Forever /\ t.chan[c] \in Chan /\ SubTicks \in 0..Forever
  BY Parts, Bytes256
<1>2. CountDown(t, c) =
        IF t.chan[c].dur = Forever THEN t
        ELSE IF mul # 0 THEN um
        ELSE IF next.chan[c].dur # 0 THEN next ELSE CheckGetNext(next, c)
  <2>1. [t EXCEPT !.chan[c].mul = mul] = um
    OBVIOUS
  <2>2. [t EXCEPT !.chan[c].mul = SubTicks, !.chan[c].dur = (@ - 1) % Radix] = next
    BY <1>1 DEF Record, Chan
  <2>3. CountDown(t, c) =
          IF t.chan[c].dur = Forever THEN t
          ELSE IF mul # 0 THEN [t EXCEPT !.chan[c].mul = mul]
          ELSE IF [t EXCEPT !.chan[c].mul = SubTicks, !.chan[c].dur = (@ - 1) % Radix].chan[c].dur # 0
          THEN [t EXCEPT !.chan[c].mul = SubTicks, !.chan[c].dur = (@ - 1) % Radix]
          ELSE CheckGetNext([t EXCEPT !.chan[c].mul = SubTicks, !.chan[c].dur = (@ - 1) % Radix], c)
    BY DEF CountDown
  <2> HIDE DEF um, next, mul
  <2> QED
    BY <2>1, <2>2, <2>3, Zenon
<1> HIDE DEF mul, dur
<1>3. km \in Chan /\ km.occ = t.chan[c].occ /\ km.busy = t.chan[c].busy
  BY <1>1, MulField
<1>4. ks \in Chan /\ ks.occ = t.chan[c].occ /\ ks.busy = t.chan[c].busy
  BY <1>1, MulField
<1> HIDE DEF km, ks
<1>5. kd \in Chan /\ kd.occ = ks.occ /\ kd.busy = ks.busy
  BY <1>1, <1>4, DurField
<1> HIDE DEF kd
<1>6. t.chan[c].occ
  BY DEF Fine
<1>7. um \in Record /\ um.chan[c] = km /\ Elsewhere(t, um, c) /\ um.q = t.q /\ um.parm = t.parm
  BY <1>3, WithChan
<1>8. next \in Record /\ next.chan[c] = kd /\ Elsewhere(t, next, c) /\ next.q = t.q
      /\ next.parm = t.parm
  BY <1>5, WithChan
<1> HIDE DEF um, next
<1>9. Fine(um, c) /\ Fine(next, c)
  BY <1>3, <1>4, <1>5, <1>6, <1>7, <1>8 DEF Fine
<1>10. Keeps(t, t, c) /\ Keeps(t, um, c) /\ Keeps(t, next, c)
  BY <1>7, <1>8, <1>9, ElsewhereSelf DEF Keeps
<1>11. next.chan[c].dur = 0 => Keeps(t, CheckGetNext(next, c), c)
  BY <1>8, <1>9, CheckGetNextKeeps, KeepsTwice
<1> QED
  BY <1>2, <1>10, <1>11

\* The body of irq_sound_loop.
LEMMA ServeNoteKeeps ==
    ASSUME NEW t \in Record, NEW c \in Channel, Fine(t, c)
    PROVE  Keeps(t, ServeNote(t, c), c)
<1> DEFINE u == IF t.chan[c].busy \/ t.chan[c].dur = 0 THEN CheckGetNext(t, c) ELSE t
<1>1. Keeps(t, u, c)
  BY CheckGetNextKeeps, ElsewhereSelf DEF Keeps
<1>2. ServeNote(t, c) = IF u.chan[c].dur = 0 THEN CheckGetNext(u, c) ELSE CountDown(u, c)
  BY DEF ServeNote
<1> HIDE DEF u
<1>3. u \in Record /\ Fine(u, c) /\ Elsewhere(t, u, c)
  BY <1>1 DEF Keeps
<1>4. CASE u.chan[c].dur = 0
  BY <1>2, <1>3, <1>4, CheckGetNextKeeps, KeepsTwice
<1>5. CASE u.chan[c].dur # 0
  BY <1>2, <1>3, <1>5, CountDownKeeps, KeepsTwice
<1> QED
  BY <1>4, <1>5

\* The step of the envelope.
LEMMA EnvelopeKeeps ==
    ASSUME NEW t \in Record, NEW c \in Channel, Fine(t, c), NEW u \in EnvelopeStep(t, c)
    PROVE  Keeps(t, u, c)
<1>1. CASE u = t
  BY <1>1, ElsewhereSelf DEF Keeps
<1>2. CASE u # t
  <2> DEFINE k == [t.chan[c] EXCEPT !.phase = t.chan[c].phase + 1]
             w == [t EXCEPT !.chan[c] = k]
  <2>1. t.chan[c].phase < 4 /\ u = w
    BY <1>2 DEF EnvelopeStep
  <2>2. t.chan[c] \in Chan /\ t.chan[c].phase + 1 \in 0..4
    BY <2>1, Parts
  <2>3. /\ k \in Chan /\ k.occ = t.chan[c].occ /\ k.busy = t.chan[c].busy
        /\ k.dur = t.chan[c].dur
    BY <2>2, PhaseField
  <2> HIDE DEF k
  <2>4. w \in Record /\ w.chan[c] = k /\ Elsewhere(t, w, c) /\ w.q = t.q /\ w.parm = t.parm
    BY <2>3, WithChan
  <2> HIDE DEF w
  <2>5. t.chan[c].occ
    BY <2>1, <2>2 DEF Fine
  <2>6. Fine(w, c)
    BY <2>3, <2>4, <2>5 DEF Fine
  <2> QED
    BY <2>1, <2>4, <2>6 DEF Keeps
<1> QED
  BY <1>1, <1>2

\* A note goes in whole or not at all, and its channel is served from then on.
LEMMA PutKeeps ==
    ASSUME NEW t \in Record, NEW c \in Channel, NEW n \in AnyNote, Fine(t, c)
    PROVE  Keeps(t, Put(t, c, n), c)
<1> DEFINE s == t.q[c] \o Accepted(t.q[c], n)
           a == [t EXCEPT !.q[c] = s]
           k == [a.chan[c] EXCEPT !.occ = TRUE]
           u == [a EXCEPT !.chan[c] = k]
<1>1. t.q[c] \in Buffer
  BY Parts
<1>2. s \in Buffer
  BY <1>1, PutNote
<1>3. Put(t, c, n) = u
  BY DEF Put, Accepted, Record
<1> HIDE DEF s
<1>4. a \in Record /\ Elsewhere(t, a, c) /\ a.chan = t.chan
  BY <1>2, WithQ
<1> HIDE DEF a
<1>5. k \in Chan /\ k.occ /\ k.busy = t.chan[c].busy
  BY <1>4, Parts, OccField
<1> HIDE DEF k
<1>6. u \in Record /\ Elsewhere(a, u, c) /\ u.chan[c] = k /\ u.q = a.q /\ u.parm = a.parm
  BY <1>4, <1>5, WithChan
<1>7. a.parm = t.parm /\ a.q[c] = s
  BY <1>2, WithQ DEF a
<1> HIDE DEF u
<1>8. s = <<>> => t.q[c] = <<>>
  <2>1. t.q[c] \in Seq(NoteByte) /\ s \in Seq(NoteByte)
    BY <1>1, <1>2 DEF Buffer
  <2>2. Accepted(t.q[c], n) \in Seq(NoteByte)
    <3>1. Bytes(n) \in Seq(NoteByte) /\ Len(Bytes(n)) = 3
      BY DEF Bytes, NoteByte
    <3>2. ASSUME NEW x \in Int, x <= 3
          PROVE  SubSeq(Bytes(n), 1, x) \in Seq(NoteByte)
      BY <3>1, <3>2, SMTT(30)
    <3>3. Len(t.q[c]) \in Int /\ Room \in Int
      BY <2>1, RoomAssumption
    <3> QED
      BY <3>2, <3>3 DEF Accepted
  <2>3. Len(s) = Len(t.q[c]) + Len(Accepted(t.q[c], n))
    BY <2>1, <2>2, ConcatProperties DEF s
  <2>4. /\ Len(s) \in Nat /\ Len(t.q[c]) \in Nat /\ Len(Accepted(t.q[c], n)) \in Nat
        /\ s = <<>> => Len(s) = 0
        /\ Len(t.q[c]) = 0 => t.q[c] = <<>>
    BY <2>1, <2>2, LenProperties, EmptySeq
  <2>5. ASSUME s = <<>> PROVE Len(t.q[c]) = 0
    <3>1. Len(s) = 0
      BY <2>4, <2>5
    <3>2. ASSUME NEW x \in Nat, NEW y \in Nat, 0 = x + y PROVE x = 0
      BY <3>2
    <3> QED
      BY <2>3, <2>4, <3>1, <3>2
  <2> QED
    BY <2>4, <2>5
<1>9. Fine(u, c)
  BY <1>5, <1>6, <1>7, <1>8 DEF Fine
<1> QED
  BY <1>3, <1>4, <1>6, <1>9, ElsewhereTwice DEF Keeps

\* SOUND with F set empties the buffer and leaves the rest to irq_sound.
LEMMA FlushedSoundKeeps ==
    ASSUME NEW t \in Record, NEW c \in Channel, Fine(t, c)
    PROVE  Keeps(t, [t EXCEPT !.q[c] = <<>>, !.chan[c].busy = TRUE], c)
<1> DEFINE a == [t EXCEPT !.q[c] = <<>>]
           k == [a.chan[c] EXCEPT !.busy = TRUE]
           u == [a EXCEPT !.chan[c] = k]
<1>1. [t EXCEPT !.q[c] = <<>>, !.chan[c].busy = TRUE] = u
  OBVIOUS
<1>2. a \in Record /\ Elsewhere(t, a, c) /\ a.chan = t.chan /\ a.q[c] = <<>> /\ a.parm = t.parm
  BY EmptyIsWhole, WithQ
<1> HIDE DEF a
<1>3. /\ k \in Chan /\ k.busy /\ k.occ = t.chan[c].occ /\ k.dur = t.chan[c].dur
      /\ k.phase = t.chan[c].phase
  BY <1>2, Parts, BusyField, ZenonT(30)
<1> HIDE DEF k
<1>4. u \in Record /\ Elsewhere(a, u, c) /\ u.chan[c] = k /\ u.q = a.q /\ u.parm = a.parm
  BY <1>2, <1>3, WithChan
<1> HIDE DEF u
<1>5. Fine(u, c)
  BY <1>2, <1>3, <1>4 DEF Fine
<1> QED
  BY <1>1, <1>2, <1>4, <1>5, ElsewhereTwice DEF Keeps

\* x_Buffer_handling of a sound buffer silences its channel at once.
LEMMA FlushKeeps ==
    ASSUME NEW t \in Record, NEW c \in Channel, Fine(t, c)
    PROVE  Keeps(t, [ForgetChord(Silence(t, c)) EXCEPT !.q[c] = <<>>, !.chan[c].dur = 0,
                         !.chan[c].occ = FALSE, !.chan[c].busy = TRUE], c)
<1> DEFINE a == Silence(t, c)
           b == ForgetChord(a)
           d == [b EXCEPT !.q[c] = <<>>]
           k1 == [d.chan[c] EXCEPT !.dur = 0]
           k2 == [k1 EXCEPT !.occ = FALSE]
           k == [k2 EXCEPT !.busy = TRUE]
           u == [d EXCEPT !.chan[c] = k]
           w == [b EXCEPT !.q[c] = <<>>, !.chan[c].dur = 0,
                          !.chan[c].occ = FALSE, !.chan[c].busy = TRUE]
<1>1. a \in Record /\ Elsewhere(t, a, c)
  BY SilenceQuieter DEF Quieter
<1>2. a.chan[c].phase = 4
  <2>1. a.chan[c] = [t.chan[c] EXCEPT !.phase = 4]
    BY DEF Silence, Record
  <2>2. t.chan[c] \in Chan /\ 4 \in 0..4
    BY Parts
  <2> QED
    BY <2>1, <2>2, PhaseField
<1> HIDE DEF a
<1>3. /\ b \in Record /\ b.q = a.q /\ b.chan = a.chan
      /\ \A e \in Channel : ~b.parm[e]
  BY <1>1, ForgetChordIs
<1>4. Elsewhere(a, b, c)
  BY <1>3 DEF Elsewhere
<1> HIDE DEF b
<1>5. /\ d \in Record /\ Elsewhere(b, d, c) /\ d.chan = b.chan /\ d.q[c] = <<>>
      /\ d.parm = b.parm
  BY <1>3, EmptyIsWhole, WithQ
<1>6. w = u
  <2>1. d.chan = b.chan
    BY <1>5
  <2> QED
    BY <1>3, ZenonT(30) DEF Record, Chan
<1> HIDE DEF d, w
<1>7. k1 \in Chan /\ k1.dur = 0 /\ k1.phase = 4
  <2>1. d.chan[c] \in Chan /\ d.chan[c].phase = 4 /\ 0 \in 0..Forever
    BY <1>2, <1>3, <1>5, Parts, Bytes256
  <2> QED
    BY <2>1, DurField
<1> HIDE DEF k1
<1>8. k2 \in Chan /\ k2.dur = 0 /\ k2.phase = 4 /\ ~k2.occ
  BY <1>7, OccField
<1> HIDE DEF k2
<1>9. k \in Chan /\ k.dur = 0 /\ k.phase = 4 /\ ~k.occ
  BY <1>8, BusyField
<1> HIDE DEF k
<1>10. u \in Record /\ Elsewhere(d, u, c) /\ u.chan[c] = k /\ u.q = d.q /\ u.parm = d.parm
  BY <1>5, <1>9, WithChan
<1> HIDE DEF u
<1>11. Fine(u, c)
  BY <1>3, <1>5, <1>9, <1>10 DEF Fine
<1>12. Elsewhere(t, u, c)
  BY <1>1, <1>4, <1>5, <1>10, ElsewhereTwice
<1>13. Keeps(t, w, c)
  BY <1>6, <1>10, <1>11, <1>12 DEF Keeps
<1> QED
  BY <1>13 DEF w, b, a

-----------------------------------------------------------------------------
(* The invariant. *)
InOrder ==
    /\ State \in Record /\ \A c \in Channel : Fine(State, c)
    /\ loop \in {Idle} \cup Channel
    /\ waiting \in {Nobody} \cup [ch : Channel, note : Notes]

\* All is in order after reset, with nothing to play.
LEMMA InitInOrder == Init => InOrder
<1> SUFFICES ASSUME Init PROVE InOrder
  OBVIOUS
<1>1. Quiet \in Chan
  BY Bytes256 DEF Quiet, Chan
<1>2. /\ q \in [Channel -> Buffer] /\ chan \in [Channel -> Chan] /\ parm \in Waits
      /\ sync \in Counts /\ hold \in {0, 1} /\ started \in SUBSET Channel
  BY <1>1, EmptyIsWhole DEF Init, Waits, Counts
<1>3. State \in Record
  BY <1>2 DEF State, Record
<1>4. ASSUME NEW c \in Channel
      PROVE  Fine(State, c)
  <2>1. State.q[c] = <<>> /\ State.chan[c] = Quiet /\ ~State.parm[c]
    BY DEF Init, State
  <2>2. ~Quiet.occ /\ Quiet.phase = 4 /\ Quiet.dur = 0
    BY DEF Quiet
  <2> QED
    BY <2>1, <2>2 DEF Fine
<1> QED
  BY <1>3, <1>4 DEF Init, InOrder

\* A step that makes a record in order the state.
LEMMA BecomeInOrder ==
    ASSUME InOrder, NEW c \in Channel, NEW t, Keeps(State, t, c), Become(t)
    PROVE  State' \in Record /\ \A d \in Channel : Fine(State', d)
<1>1. t \in Record /\ Fine(t, c) /\ Elsewhere(State, t, c)
  BY DEF Keeps
<1>2. State' = t
  BY <1>1 DEF State, Become, Record
<1>3. ASSUME NEW d \in Channel
      PROVE  Fine(t, d)
  BY <1>1, ElsewhereFine DEF InOrder
<1> QED
  BY <1>1, <1>2, <1>3

\* Every step keeps the channels in order.
LEMMA NextInOrder == InOrder /\ [Next]_vars => InOrder'
<1> SUFFICES ASSUME InOrder, [Next]_vars
             PROVE  InOrder'
  OBVIOUS
<1>0. State \in Record /\ \A c \in Channel : Fine(State, c)
  BY DEF InOrder
<1>1. CASE Tick
  <2>1. /\ State' \in Record /\ State'.q = State.q /\ State'.chan = State.chan
        /\ State'.parm = State.parm
    <3>1. hold' \in {0, 1} /\ sync' \in Counts /\ started' \in SUBSET Channel
      BY <1>0, <1>1 DEF Tick, State, Record, Counts
    <3>2. q \in [Channel -> Buffer] /\ chan \in [Channel -> Chan] /\ parm \in Waits
      BY <1>0 DEF State, Record
    <3>3. q' = q /\ chan' = chan /\ parm' = parm
      BY <1>1 DEF Tick
    <3> QED
      BY <3>1, <3>2, <3>3 DEF State, Record
  <2>2. \A c \in Channel : Fine(State', c)
    BY <1>0, <2>1 DEF Fine
  <2>3. loop' \in Channel /\ waiting' = waiting
    BY <1>1, ChannelsAssumption DEF Tick, Channel
  <2> QED
    BY <2>1, <2>2, <2>3 DEF InOrder
<1>2. CASE Serve
  <2>1. loop \in Channel /\ loop' = loop - 1 /\ waiting' = waiting
    BY <1>2 DEF Serve, InOrder
  <2>2. loop' \in {Idle} \cup Channel
    BY <2>1, ChannelsAssumption DEF Channel, Idle
  <2>3. CASE chan[loop].occ
    <3>1. PICK t \in EnvelopeStep(ServeNote(State, loop), loop) : Become(t)
      BY <1>2, <2>3 DEF Serve
    <3> DEFINE u == ServeNote(State, loop)
    <3>2. u \in Record /\ Fine(u, loop) /\ Elsewhere(State, u, loop)
      BY <1>0, <2>1, ServeNoteKeeps DEF Keeps
    <3> HIDE DEF u
    <3>3. Keeps(u, t, loop)
      BY <2>1, <3>1, <3>2, EnvelopeKeeps DEF u
    <3>4. Keeps(State, t, loop)
      BY <3>2, <3>3, KeepsTwice
    <3> QED
      BY <2>1, <2>2, <3>1, <3>4, BecomeInOrder DEF InOrder
  <2>4. CASE ~chan[loop].occ
    <3>1. Become(State) /\ Keeps(State, State, loop)
      BY <1>0, <1>2, <2>1, <2>4, ElsewhereSelf DEF Serve, Keeps
    <3> QED
      BY <2>1, <2>2, <3>1, BecomeInOrder DEF InOrder
  <2> QED
    BY <2>3, <2>4
<1>3. CASE Insert
  <2>1. waiting.ch \in Channel /\ waiting.note \in AnyNote
    BY <1>3, NotesAssumption DEF Insert, InOrder
  <2>2. Keeps(State, Put(State, waiting.ch, waiting.note), waiting.ch)
    BY <1>0, <2>1, PutKeeps
  <2>3. Become(Put(State, waiting.ch, waiting.note)) /\ waiting' = Nobody /\ loop' = loop
    BY <1>3 DEF Insert
  <2>4. State' \in Record /\ \A d \in Channel : Fine(State', d)
    BY <2>1, <2>2, <2>3, BecomeInOrder
  <2> QED
    BY <2>3, <2>4 DEF InOrder
<1>4. ASSUME UNCHANGED <<q, chan, parm, sync, hold, started>>
      PROVE  State' = State
  BY <1>4 DEF State
<1>5. CASE GiveUp
  BY <1>4, <1>5 DEF GiveUp, InOrder
<1>6. ASSUME NEW c \in Channel, NEW n \in Notes, NEW f \in Forced, Sound(c, n, f)
      PROVE  InOrder'
  <2> DEFINE t == IF f THEN [State EXCEPT !.q[c] = <<>>, !.chan[c].busy = TRUE] ELSE State
  <2>1. Keeps(State, t, c)
    <3>1. Keeps(State, State, c)
      BY <1>0, ElsewhereSelf DEF Keeps
    <3> QED
      BY <1>0, <3>1, FlushedSoundKeeps
  <2>2. Become(t) /\ loop' = loop
    BY <1>6 DEF Sound
  <2>3. waiting' \in [ch : Channel, note : Notes]
    BY <1>6 DEF Sound
  <2> HIDE DEF t
  <2>4. State' \in Record /\ \A d \in Channel : Fine(State', d)
    BY <2>1, <2>2, BecomeInOrder
  <2> QED
    BY <2>2, <2>3, <2>4 DEF InOrder
<1>7. ASSUME NEW c \in Channel, Bell(c)
      PROVE  InOrder'
  <2>1. Keeps(State, Put(State, c, BellNote), c)
    BY <1>0, NotesAssumption, PutKeeps
  <2>2. Become(Put(State, c, BellNote)) /\ loop' = loop /\ waiting' = waiting
    BY <1>7 DEF Bell
  <2>3. State' \in Record /\ \A d \in Channel : Fine(State', d)
    BY <2>1, <2>2, BecomeInOrder
  <2> QED
    BY <2>2, <2>3 DEF InOrder
<1>8. ASSUME NEW c \in Channel, Flush(c)
      PROVE  InOrder'
  <2> DEFINE t == [ForgetChord(Silence(State, c))
                      EXCEPT !.q[c] = <<>>, !.chan[c].dur = 0,
                             !.chan[c].occ = FALSE, !.chan[c].busy = TRUE]
  <2>1. Keeps(State, t, c)
    BY <1>0, FlushKeeps
  <2>2. Become(t) /\ loop' = loop /\ waiting' = waiting
    BY <1>8 DEF Flush
  <2> HIDE DEF t
  <2>3. State' \in Record /\ \A d \in Channel : Fine(State', d)
    BY <2>1, <2>2, BecomeInOrder
  <2> QED
    BY <2>2, <2>3 DEF InOrder
<1>9. CASE UNCHANGED vars
  BY <1>4, <1>9 DEF vars, InOrder
<1> QED
  BY <1>1, <1>2, <1>3, <1>5, <1>6, <1>7, <1>8, <1>9 DEF Next

\* The channels are in order in every state.
LEMMA InOrderInvariant == Spec => []InOrder
BY InitInOrder, NextInOrder, PTL DEF Spec

\* Type correctness: no buffer holds more than its room, no duration runs
\* through zero and the count of a chord stays in the range of S.
THEOREM TypeCorrect == Spec => []TypeOK
<1>1. InOrder => TypeOK
  <2> SUFFICES ASSUME InOrder PROVE TypeOK
    OBVIOUS
  <2>1. /\ q \in [Channel -> Buffer] /\ chan \in [Channel -> Chan] /\ parm \in Waits
        /\ sync \in Counts /\ hold \in {0, 1} /\ started \in SUBSET Channel
    BY DEF InOrder, State, Record
  <2>2. ASSUME NEW c \in Channel
        PROVE  Len(q[c]) \in 0..Room
    <3>1. q[c] \in Seq(NoteByte) /\ Len(q[c]) <= Room
      BY <2>1 DEF Buffer
    <3> QED
      BY <3>1, RoomAssumption
  <2> QED
    BY <2>1, <2>2 DEF TypeOK, InOrder, Chan, Waits, Counts
<1> QED
  BY <1>1, InOrderInvariant, PTL

\* The buffers hold whole notes, although irq_sound takes three bytes and
\* VDU 7 inserts three without looking at the answer.
THEOREM NotesAreWhole == Spec => []WholeNotes
<1>1. InOrder => WholeNotes
  <2> SUFFICES ASSUME InOrder, NEW c \in Channel
               PROVE  /\ Len(q[c]) % 3 = 0
                      /\ \A i \in 1..(Len(q[c]) \div 3) :
                            SubSeq(q[c], 3 * i - 2, 3 * i) = Bytes(q[c][3 * i][2])
    BY DEF WholeNotes
  <2> DEFINE s == q[c]
  <2>1. s \in Buffer
    BY DEF InOrder, State, Record
  <2> HIDE DEF s
  <2>2. PICK m \in Nat : Len(s) = 3 * m /\ \A i \in 1..m : IsNote(s, i)
    BY <2>1 DEF Buffer, Whole
  <2>3. Len(s) % 3 = 0 /\ Len(s) \div 3 = m
    BY <2>2
  <2>4. ASSUME NEW i \in 1..m
        PROVE  SubSeq(s, 3 * i - 2, 3 * i) = Bytes(s[3 * i][2])
    <3>1. PICK n \in AnyNote : /\ s[3 * i - 2] = <<"head", n>>
                               /\ s[3 * i - 1] = <<"pitch", n>>
                               /\ s[3 * i] = <<"duration", n>>
      BY <2>2 DEF IsNote
    <3> DEFINE r == SubSeq(s, 3 * i - 2, 3 * i)
               b == Bytes(n)
    <3>2. /\ 3 * i - 2 \in 1..Len(s) /\ 3 * i \in 1..Len(s) /\ s \in Seq(NoteByte)
          /\ \A j \in (3 * i - 2)..(3 * i) : s[j] \in NoteByte
      BY <2>1, <2>2 DEF Buffer
    <3>3. /\ r \in Seq(NoteByte) /\ Len(r) = 3
          /\ r[1] = <<"head", n>> /\ r[2] = <<"pitch", n>> /\ r[3] = <<"duration", n>>
      <4>1. /\ r \in Seq(NoteByte)
            /\ Len(r) = IF 3 * i - 2 <= 3 * i THEN 3 * i - (3 * i - 2) + 1 ELSE 0
            /\ \A j \in 1..(3 * i - (3 * i - 2) + 1) : r[j] = s[3 * i - 2 + j - 1]
        BY <3>2, SubSeqProperties
      <4>2. 3 * i - (3 * i - 2) + 1 = 3 /\ 3 * i - 2 <= 3 * i
        OBVIOUS
      <4>3. 3 * i - 2 + 1 - 1 = 3 * i - 2 /\ 3 * i - 2 + 2 - 1 = 3 * i - 1
            /\ 3 * i - 2 + 3 - 1 = 3 * i
        OBVIOUS
      <4> HIDE DEF r
      <4>4. Len(r) = 3 /\ \A j \in 1..3 : r[j] = s[3 * i - 2 + j - 1]
        BY <4>1, <4>2
      <4>5. 1 \in 1..3 /\ 2 \in 1..3 /\ 3 \in 1..3
        OBVIOUS
      <4>6. r[1] = s[3 * i - 2 + 1 - 1] /\ r[2] = s[3 * i - 2 + 2 - 1]
            /\ r[3] = s[3 * i - 2 + 3 - 1]
        BY <4>4, <4>5
      <4> QED
        BY <3>1, <4>1, <4>3, <4>4, <4>6
    <3>4. /\ b \in Seq(NoteByte) /\ Len(b) = 3
          /\ b[1] = <<"head", n>> /\ b[2] = <<"pitch", n>> /\ b[3] = <<"duration", n>>
      BY DEF Bytes, NoteByte
    <3> HIDE DEF r, b
    <3>5. r = b
      <4>1. \A j \in 1..Len(r) : r[j] = b[j]
        <5>1. 1..Len(r) = {1, 2, 3}
          BY <3>3
        <5> QED
          BY <3>3, <3>4, <5>1
      <4> QED
        BY <3>3, <3>4, <4>1, SeqEqual
    <3>6. s[3 * i][2] = n
      BY <3>1
    <3> QED
      BY <3>5, <3>6 DEF r, b
  <2> QED
    BY <2>3, <2>4 DEF s
<1> QED
  BY <1>1, InOrderInvariant, PTL

\* No note waits in a buffer that irq_sound passes over.
THEOREM NoNoteStranded == Spec => []NoStrandedNote
<1>1. InOrder => NoStrandedNote
  BY DEF InOrder, NoStrandedNote, Fine, State
<1> QED
  BY <1>1, InOrderInvariant, PTL

\* A channel irq_sound passes over makes no sound and waits for no chord.
THEOREM DormantChannelsSilent == Spec => []DormantIsSilent
<1>1. InOrder => DormantIsSilent
  BY DEF InOrder, DormantIsSilent, Fine, State
<1> QED
  BY <1>1, InOrderInvariant, PTL
====
