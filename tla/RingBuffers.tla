---- MODULE RingBuffers ----
(***************************************************************************)
(* The ring buffers of mosrom.asm behind INSV, REMV and CNPV.              *)
(* A buffer occupies the bytes Offs[b]..255 of a page: the pointers are    *)
(* 8-bit registers that wrap from 255 to Offs[b], start = end means empty, *)
(* and one byte is never used.  Each default entry point runs with         *)
(* interrupts barred (SEI), so each is one step.                           *)
(***************************************************************************)
EXTENDS Integers, Sequences

CONSTANTS Buffer,       \* the buffer numbers
          Input,        \* those below 2: keyboard and RS423 input
          Char,         \* the bytes that may be stored
          Offs,         \* mostbl_BUFFER_ADDRESS_OFFS
          Cpu,          \* CPU_6809 or CPU_6309, the processor assembled for
          NoChar, NoEvent

ASSUME OffsAssumption == Offs \in [Buffer -> 0..254]
ASSUME CpuAssumption == Cpu \in {"6809", "6309"}

VARIABLES bufStart,     \* mosbuf_buf_start[b]: where the next byte is taken
          bufEnd,       \* mosbuf_buf_end[b]: where the next byte is put
          mem,          \* mem[b, p]: the byte at offset p of buffer b's page
          call,         \* the last call
          ret           \* what it returned, and the event it raised

vars == <<bufStart, bufEnd, mem, call, ret>>

Slot(b) == Offs[b]..255
Size(b) == 256 - Offs[b]
Capacity == [b \in Buffer |-> 255 - Offs[b]]
Cell == {c \in Buffer \X (0..255) : c[2] \in Slot(c[1])}

\* (mutant) the reload of the start offset after the pointer reaches 0 is lost
AdvanceWithoutWrap(b, p) == (p + 1) % 256

\* incb; bne; ldb mostbl_BUFFER_ADDRESS_OFFS,X
Advance(b, p) == LET n == (p + 1) % 256 IN IF n = 0 THEN Offs[b] ELSE n

\* (mutant) the borrow of end - start is not corrected by the start offset
BetweenWithoutBorrow(b, start, end) == (end - start) % 256

\* CNPV: end - start, and on a borrow less the start offset...
Between(b, start, end) ==
    LET d == (end - start) % 256
    IN  IF end < start THEN (d - Offs[b]) % 256 ELSE d

BytesUsed(b) == Between(b, bufStart[b], bufEnd[b])

\* ... and then, for the space left: adda offset; coma.
SpaceLeft(b) == 255 - ((BytesUsed(b) + Offs[b]) % 256)

\* Counting from 1 at start, the i-th byte of the ring is at this offset.
Nth(b, start, i) ==
    LET p == start + i - 1 IN IF p < 256 THEN p ELSE p - Size(b)

Stored(b) ==
    [i \in 1..BytesUsed(b) |-> mem[<<b, Nth(b, bufStart[b], i)>>]]

Abstract == INSTANCE ByteQueues WITH queue <- [b \in Buffer |-> Stored(b)]

\* The answers of the vectors: carry clear, carry set, a byte in A and Y,
\* a count in X.  An event is raised by the call itself.
Done == [carry |-> FALSE, char |-> NoChar, count |-> 0, event |-> NoEvent]
Refused(e) == [Done EXCEPT !.carry = TRUE, !.event = e]
Got(c, e) == [Done EXCEPT !.char = c, !.event = e]
Counted(n) == [Done EXCEPT !.count = n]

-----------------------------------------------------------------------------
\* Reset fills &2CE..&2FF with &FF, so every pointer starts at 255.  Nothing
\* clears the buffers' memory.
Init ==
    /\ bufStart = [b \in Buffer |-> 255]
    /\ bufEnd = [b \in Buffer |-> 255]
    /\ mem \in [Cell -> Char]
    /\ call = <<>> /\ ret = Done

\* (mutant) the byte is stored without comparing the pointers first
INSVUnchecked(b, c) ==
    /\ call' = <<"INSV", b, c>>
    /\ bufEnd' = [bufEnd EXCEPT ![b] = Advance(b, bufEnd[b])]
    /\ mem' = [mem EXCEPT ![<<b, bufEnd[b]>>] = c]
    /\ ret' = Done
    /\ UNCHANGED bufStart

\* INSV.  A full input buffer raises event 1 and refuses the byte.
INSV(b, c) ==
    LET next == Advance(b, bufEnd[b])
    IN  /\ call' = <<"INSV", b, c>>
        /\ \/ /\ next # bufStart[b]
              /\ bufEnd' = [bufEnd EXCEPT ![b] = next]
              /\ mem' = [mem EXCEPT ![<<b, bufEnd[b]>>] = c]
              /\ ret' = Done
              /\ UNCHANGED bufStart
           \/ /\ next = bufStart[b]
              /\ ret' = Refused(IF b \in Input THEN 1 ELSE NoEvent)
              /\ UNCHANGED <<bufStart, bufEnd, mem>>

\* REMV with V clear.  Taking the last byte of an output buffer raises event 0.
REMV(b) ==
    LET next == Advance(b, bufStart[b])
    IN  /\ call' = <<"REMV", b>>
        /\ \/ /\ bufStart[b] # bufEnd[b]
              /\ bufStart' = [bufStart EXCEPT ![b] = next]
              /\ ret' = Got(mem[<<b, bufStart[b]>>],
                            IF next = bufEnd[b] /\ b \notin Input
                            THEN 0 ELSE NoEvent)
              /\ UNCHANGED <<bufEnd, mem>>
           \/ /\ bufStart[b] = bufEnd[b]
              /\ ret' = Refused(NoEvent)
              /\ UNCHANGED <<bufStart, bufEnd, mem>>

\* REMV with V set: the next byte is read and left where it is.
Examine(b) ==
    /\ call' = <<"Examine", b>>
    /\ ret' = IF bufStart[b] = bufEnd[b] THEN Refused(NoEvent)
                                         ELSE Got(mem[<<b, bufStart[b]>>], NoEvent)
    /\ UNCHANGED <<bufStart, bufEnd, mem>>

\* CNPV with V set: end := start.
Purge(b) ==
    /\ call' = <<"Purge", b>>
    /\ bufEnd' = [bufEnd EXCEPT ![b] = bufStart[b]]
    /\ ret' = Done
    /\ UNCHANGED <<bufStart, mem>>

\* The bit CNPV tests to choose the count: tim #1,0,S reads the C of the
\* stacked flags, but bitb ,S after pshs B reads the caller's B.
Tested(carry, odd) == IF Cpu = "6309" THEN carry ELSE odd

\* CNPV with V clear, for a caller whose C is carry and whose B is odd or not.
Count(b, carry, odd) ==
    /\ call' = <<"Count", b, carry, odd>>
    /\ \/ ~Tested(carry, odd) /\ ret' = Counted(BytesUsed(b))
       \/ Tested(carry, odd) /\ ret' = Counted(SpaceLeft(b))
    /\ UNCHANGED <<bufStart, bufEnd, mem>>

Next ==
    \E b \in Buffer :
        \/ \E c \in Char : INSV(b, c)
        \/ REMV(b) \/ Examine(b) \/ Purge(b)
        \/ \E carry, odd \in BOOLEAN : Count(b, carry, odd)

Spec == Init /\ [][Next]_vars

-----------------------------------------------------------------------------
\* The pointers stay inside the buffer's page, the bytes are bytes, and the
\* answer is one that REMV, INSV or CNPV can give.
TypeOK ==
    /\ bufStart \in [Buffer -> 0..255] /\ bufEnd \in [Buffer -> 0..255]
    /\ \A b \in Buffer : bufStart[b] \in Slot(b) /\ bufEnd[b] \in Slot(b)
    /\ mem \in [Cell -> Char]
    /\ call \in Abstract!Call /\ ret \in Abstract!Return

\* Used and free as CNPV computes them in 8 bits (with its borrow correction)
\* always add up to the capacity, one less than the bytes reserved: the RS423
\* handshake and ADVAL compare the two counts of the same buffer.
CountsBalance ==
    \A b \in Buffer : /\ BytesUsed(b) \in 0..Capacity[b]
                      /\ BytesUsed(b) + SpaceLeft(b) = Capacity[b]

\* INSV, REMV and CNPV behave as bounded first-in first-out queues: no byte is
\* lost, duplicated or reordered by the pointers' wrap, a refusal happens only
\* when the queue is full or empty, and the buffer-empty and buffer-full
\* events are raised by exactly the calls that find it so.  CNPV counts what
\* its flag asks for, which on a 6809 is bit 0 of B.
ImplementsQueues == Abstract!Spec

\* What CNPV's callers are told: C set asks for the space left, C clear for
\* the bytes used, whatever is in B.
CountAsAsked ==
    \A b \in Buffer, carry, odd \in BOOLEAN :
        call = <<"Count", b, carry, odd>> =>
            ret.count = IF carry THEN Capacity[b] - BytesUsed(b) ELSE BytesUsed(b)
====
