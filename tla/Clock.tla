---- MODULE Clock ----
(***************************************************************************)
(* What OSWORD 1 and 2 promise about TIME: one counter of centiseconds,    *)
(* which every tick increases by one and only OSWORD 2 sets, to the value  *)
(* it is given.  MosClock keeps it in two stores, filled alternately.      *)
(***************************************************************************)
EXTENDS Naturals

CONSTANT Span           \* the counter runs over 0..Span-1

VARIABLES time,         \* the centisecond clock
          ret,          \* what OSWORD 1 returned last
          call          \* the last event: a tick, a read, or a write of a value

vars == <<time, ret, call>>

Call == {<<"none">>, <<"read">>} \cup ({"tick"} \X {0, 1})
        \cup ({"write"} \X (0..(Span - 1)))

\* A tick that follows a tick has the other number, so that an implementation
\* cannot let a tick pass unnoticed.
NextTick == IF call = <<"tick", 0>> THEN <<"tick", 1>> ELSE <<"tick", 0>>

Init == time \in 0..(Span - 1) /\ ret = 0 /\ call = <<"none">>

Tick ==
    /\ call' = NextTick
    /\ time' = (time + 1) % Span
    /\ UNCHANGED ret

Write(v) ==
    /\ call' = <<"write", v>>
    /\ time' = v
    /\ UNCHANGED ret

Read ==
    /\ call' = <<"read">>
    /\ ret' = time
    /\ UNCHANGED time

Next == Tick \/ Read \/ \E v \in 0..(Span - 1) : Write(v)

Spec == Init /\ [][Next]_vars
====
