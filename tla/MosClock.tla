---- MODULE MosClock ----
(***************************************************************************)
(* Time in the MOS: the 10 ms tick of shared_100mstick.asm advances the    *)
(* centisecond clock, the interval timer and the countdown of a timed      *)
(* INKEY; OSWORD 1..4 read and write the first two with interrupts barred; *)
(* OSBYTE 129 waits for a key in the loop of mos_RDCHV, with interrupts    *)
(* allowed, so the tick can come between any two of its loads and stores.  *)
(***************************************************************************)
EXTENDS Integers, Sequences

CONSTANTS Bytes,        \* bytes of the clock and the timer (5)
          Radix,        \* values of a byte (256)
          TimerValues,  \* what programs write to the interval timer
          Limits        \* the time limits, <<X, Y>>, programs give to INKEY

ASSUME BytesAssumption == Bytes \in Nat \ {0, 1}
ASSUME RadixAssumption == Radix \in Nat \ {0, 1}
ASSUME LimitsAssumption == Limits \subseteq (0..(Radix - 1)) \X (0..(Radix - 1))

VARIABLES store,        \* oswksp_TIME and oswksp_TIME2, high byte first
          switch,       \* sysvar_TIMER_SWITCH: the store that is valid, 1 or 2
          timer,        \* oswksp_OSWORD3_CTDOWN, high byte first
          crossed,      \* EVENT 5 was raised by the last tick
          due,          \* history: ticks until the timer is to cross zero when a
                        \* small -n was written last, 0 when there are none
          ret,          \* what OSWORD 1 returned
          call,         \* history: the last tick, read or write of the clock
          inkey,        \* oswksp_INKEY_CTDOWN: the two bytes in memory order
          pc, acc,      \* where the INKEY is, and register A
          key, escape   \* a key is in the buffer; the Escape flag is set

clock == <<store, switch, ret, call>>
interval == <<timer, crossed, due>>
wait == <<inkey, pc, acc, key, escape>>
vars == <<clock, interval, wait>>

Byte == 0..(Radix - 1)
Number == [1..Bytes -> Byte]

\* Radix to the power n.
Power[n \in Nat] == IF n = 0 THEN 1 ELSE Radix * Power[n - 1]

Span == Power[Bytes]

ASSUME TimerAssumption == TimerValues \subseteq 0..(Span - 1)

\* The value of a number stored high byte first, and the number of a value.
Value(s) ==
    LET v[i \in 0..Bytes] == IF i = 0 THEN 0 ELSE v[i - 1] * Radix + s[i]
    IN  v[Bytes]
Digits(v) == [i \in 1..Bytes |-> (v \div Power[Bytes - i]) % Radix]

\* SEC; then for every byte from the lowest: lda, adca #0, sta.
Full(s, i) == \A j \in (i + 1)..Bytes : s[j] = Radix - 1
AddOne(s) == [i \in 1..Bytes |-> IF Full(s, i) THEN (s[i] + 1) % Radix ELSE s[i]]

\* (mutant) the event is raised at the tick after the timer was zero
CrossesLate(s) == \A i \in 1..Bytes : s[i] = 0

\* inc b,x from the lowest byte while it becomes 0; the loop ends when its
\* pointer is 0, so the highest byte is never increased.
Crosses(s) == Full(s, 1)
Increment(s) == [AddOne(s) EXCEPT ![1] = s[1]]

\* (mutant) the countdown runs on through zero
DecrementAlways(k) ==
    <<(k[1] - 1) % Radix, IF k[1] = 0 THEN (k[2] - 1) % Radix ELSE k[2]>>

\* (mutant) the second byte is decremented without looking whether it is 0
DecrementUntested(k) ==
    IF k[1] # 0 THEN <<k[1] - 1, k[2]>> ELSE <<Radix - 1, k[2] - 1>>

\* The first byte is decremented, after the second one when it is 0, and both
\* stay when they are 0.
Decrement(k) ==
    IF k[1] # 0 THEN <<k[1] - 1, k[2]>>
    ELSE IF k[2] = 0 THEN k ELSE <<Radix - 1, k[2] - 1>>

TheClock == INSTANCE Clock WITH time <- Value(store[switch])

-----------------------------------------------------------------------------
Init ==
    /\ \E s \in Number : store = [i \in {1, 2} |-> s]
    /\ switch = 1 /\ ret = 0 /\ call = <<"none">>
    /\ timer = [i \in 1..Bytes |-> 0] /\ crossed = FALSE /\ due = 0
    /\ inkey = <<0, 0>> /\ pc = "idle" /\ acc = 0
    /\ key = FALSE /\ escape = FALSE

\* (mutant) the store is filled and the switch left as it was
TickWithoutSwitch ==
    /\ call' = TheClock!NextTick
    /\ store' = [store EXCEPT ![3 - switch] = AddOne(store[switch])]
    /\ timer' = Increment(timer) /\ crossed' = Crosses(timer)
    /\ due' = IF due = 0 THEN 0 ELSE due - 1
    /\ inkey' = Decrement(inkey)
    /\ UNCHANGED <<switch, ret, pc, acc, key, escape>>

\* M_100MSTICK: the clock goes to the other store, which becomes the valid
\* one; then the timer, then the countdown.
Tick ==
    /\ call' = TheClock!NextTick
    /\ store' = [store EXCEPT ![3 - switch] = AddOne(store[switch])]
    /\ switch' = 3 - switch
    /\ timer' = Increment(timer) /\ crossed' = Crosses(timer)
    /\ due' = IF due = 0 THEN 0 ELSE due - 1
    /\ inkey' = Decrement(inkey)
    /\ UNCHANGED <<ret, pc, acc, key, escape>>

\* OSWORD 1 copies the valid store.
ReadClock ==
    /\ call' = <<"read">>
    /\ ret' = Value(store[switch])
    /\ UNCHANGED <<store, switch, interval, wait>>

\* (mutant) the store is filled and the switch left as it was
WriteWithoutSwitch(v) ==
    /\ call' = <<"write", v>>
    /\ store' = [store EXCEPT ![3 - switch] = Digits(v)]
    /\ UNCHANGED <<switch, ret, interval, wait>>

\* OSWORD 2 fills the store that is not valid and then makes it valid.
WriteClock(v) ==
    /\ call' = <<"write", v>>
    /\ store' = [store EXCEPT ![3 - switch] = Digits(v)]
    /\ switch' = 3 - switch
    /\ UNCHANGED <<ret, interval, wait>>

\* The values whose highest byte is &FF, -1 down to -Radix^(Bytes-1).
Small == (Span - Power[Bytes - 1])..(Span - 1)

\* OSWORD 4
WriteTimer(v) ==
    /\ timer' = Digits(v) /\ crossed' = FALSE
    /\ due' = IF v \in Small THEN Span - v ELSE 0
    /\ UNCHANGED <<clock, wait>>

\* OSBYTE 129 stores X in the second byte of the countdown...
Inkey(l) ==
    /\ pc = "idle"
    /\ inkey' = [inkey EXCEPT ![2] = l[1]]
    /\ acc' = l[2]
    /\ pc' = "store"
    /\ UNCHANGED <<clock, interval, key, escape>>

\* ... and then Y in the first.
InkeyStore ==
    /\ pc = "store"
    /\ inkey' = [inkey EXCEPT ![1] = acc]
    /\ pc' = "poll"
    /\ UNCHANGED <<clock, interval, acc, key, escape>>

\* One turn of the loop: Escape, then a key from the buffer ends the call.
Poll ==
    /\ pc = "poll"
    /\ pc' = IF escape \/ key THEN "idle" ELSE "low"
    /\ key' = (key /\ escape)
    /\ UNCHANGED <<clock, interval, inkey, acc, escape>>

\* lda oswksp_INKEY_CTDOWN
ReadLow ==
    /\ pc = "low"
    /\ acc' = inkey[1] /\ pc' = "high"
    /\ UNCHANGED <<clock, interval, inkey, key, escape>>

\* ora oswksp_INKEY_CTDOWN+1; bne: both bytes were 0, the time is over.
ReadHigh ==
    /\ pc = "high"
    /\ pc' = IF acc = 0 /\ inkey[2] = 0 THEN "idle" ELSE "poll"
    /\ UNCHANGED <<clock, interval, inkey, acc, key, escape>>

\* The keyboard puts a key in the buffer or sets the Escape flag, and the
\* program acknowledges the Escape.
Keyboard ==
    /\ \/ key' = TRUE /\ UNCHANGED escape
       \/ escape' = TRUE /\ UNCHANGED key
       \/ pc = "idle" /\ escape' = FALSE /\ UNCHANGED key
    /\ UNCHANGED <<clock, interval, inkey, pc, acc>>

RDCH == InkeyStore \/ Poll \/ ReadLow \/ ReadHigh

Next ==
    \/ Tick \/ ReadClock \/ RDCH \/ Keyboard
    \/ \E v \in 0..(Span - 1) : WriteClock(v)
    \/ \E v \in TimerValues : WriteTimer(v)
    \/ \E l \in Limits : Inkey(l)

\* The tick keeps coming, and the foreground runs between ticks.
Fairness == WF_vars(Tick) /\ WF_vars(RDCH)

Spec == Init /\ [][Next]_vars /\ Fairness

-----------------------------------------------------------------------------
\* Every byte of the two stores, the timer and the countdown stays a byte, and
\* the wait of INKEY is at one of its loads and stores.
TypeOK ==
    /\ store \in [{1, 2} -> Number] /\ switch \in {1, 2} /\ ret \in 0..(Span - 1)
    /\ call \in TheClock!Call
    /\ timer \in Number /\ crossed \in BOOLEAN /\ due \in 0..Span
    /\ inkey \in Byte \X Byte /\ acc \in Byte
    /\ pc \in {"idle", "store", "poll", "low", "high"}
    /\ key \in BOOLEAN /\ escape \in BOOLEAN

\* The two stores are one clock: each tick adds one, each write sets the value
\* it was given, and a read gives the value that the last write and the ticks
\* since then make, whichever of the stores is valid; nothing else changes it.
ImplementsClock == TheClock!Spec

\* Every tick is counted exactly once, with the carry through all the bytes.
TicksAreCounted == [][Tick => TheClock!Tick]_vars

\* A program that writes -n to the interval timer gets EVENT 5 at the n-th
\* tick and at none before it, if n is small enough for the highest byte,
\* which is never increased, to be &FF already.
EventOnTime == [][due # 0 /\ Tick => (crossed' <=> due = 1)]_vars

\* A timed INKEY returns, even when no key is ever pressed.
InkeyReturns == pc # "idle" ~> pc = "idle"
====
