---- MODULE ByteQueues ----
(***************************************************************************)
(* What the MOS buffer vectors INSV, REMV and CNPV promise their callers:  *)
(* one bounded first-in first-out queue of bytes for each buffer number.   *)
(* RingBuffers shows how mosrom.asm keeps the promise with 8-bit pointers. *)
(***************************************************************************)
EXTENDS Naturals, Sequences

CONSTANTS Buffer,       \* the buffer numbers: keyboard, RS423, printer, sound...
          Input,        \* the input buffers, 0 and 1, which raise other events
          Char,         \* the bytes that may be stored
          Capacity,     \* Capacity[b]: how many bytes buffer b holds
          Cpu,          \* the processor the MOS is assembled for
          NoChar,       \* "no byte was returned"
          NoEvent       \* "no event was raised"

VARIABLES queue,        \* queue[b]: the bytes of buffer b, oldest first
          call,         \* the last call
          ret           \* what it returned, and the event it raised

vars == <<queue, call, ret>>

\* A vector, or what its flags ask of it, with the buffer and the byte, or
\* with the C flag and bit 0 of register B.
Call == {<<>>} \cup ({"INSV"} \X Buffer \X Char)
        \cup ({"REMV", "Examine", "Purge"} \X Buffer)
        \cup ({"Count"} \X Buffer \X BOOLEAN \X BOOLEAN)

Event == {0, 1}         \* 0: output buffer empty, 1: input buffer full

Return == [carry : BOOLEAN, char : Char \cup {NoChar},
           count : Nat, event : Event \cup {NoEvent}]

\* The four shapes of answer: done, refused, a byte, a count.
Done == [carry |-> FALSE, char |-> NoChar, count |-> 0, event |-> NoEvent]
Refused(e) == [Done EXCEPT !.carry = TRUE, !.event = e]
Got(c, e) == [Done EXCEPT !.char = c, !.event = e]
Counted(n) == [Done EXCEPT !.count = n]

Init ==
    /\ queue = [b \in Buffer |-> <<>>]
    /\ call = <<>> /\ ret = Done

INSV(b, c) ==
    /\ call' = <<"INSV", b, c>>
    /\ \/ /\ Len(queue[b]) < Capacity[b]
          /\ queue' = [queue EXCEPT ![b] = Append(@, c)]
          /\ ret' = Done
       \/ /\ Len(queue[b]) = Capacity[b]
          /\ ret' = Refused(IF b \in Input THEN 1 ELSE NoEvent)
          /\ UNCHANGED queue

REMV(b) ==
    /\ call' = <<"REMV", b>>
    /\ \/ /\ queue[b] # <<>>
          /\ queue' = [queue EXCEPT ![b] = Tail(@)]
          /\ ret' = Got(Head(queue[b]), IF Len(queue[b]) = 1 /\ b \notin Input
                                        THEN 0 ELSE NoEvent)
       \/ /\ queue[b] = <<>>
          /\ ret' = Refused(NoEvent)
          /\ UNCHANGED queue

Examine(b) ==
    /\ call' = <<"Examine", b>>
    /\ ret' = IF queue[b] = <<>> THEN Refused(NoEvent)
                                 ELSE Got(Head(queue[b]), NoEvent)
    /\ UNCHANGED queue

Purge(b) ==
    /\ call' = <<"Purge", b>>
    /\ queue' = [queue EXCEPT ![b] = <<>>]
    /\ ret' = Done

\* The flag that chooses between the two counts: C, which a 6809's MOS takes
\* from bit 0 of B.
Flag(carry, odd) == IF Cpu = "6309" THEN carry ELSE odd

Count(b, carry, odd) ==
    /\ call' = <<"Count", b, carry, odd>>
    /\ \/ ~Flag(carry, odd) /\ ret' = Counted(Len(queue[b]))
       \/ Flag(carry, odd) /\ ret' = Counted(Capacity[b] - Len(queue[b]))
    /\ UNCHANGED queue

Next ==
    \E b \in Buffer :
        \/ \E c \in Char : INSV(b, c)
        \/ REMV(b) \/ Examine(b) \/ Purge(b)
        \/ \E carry, odd \in BOOLEAN : Count(b, carry, odd)

Spec == Init /\ [][Next]_vars
====
