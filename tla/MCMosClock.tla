---- MODULE MCMosClock ----
(* Numbers of two bytes of two values each; the clock starts anywhere, and  *)
(* programs write anything to the timer.                                    *)
EXTENDS MosClock
AllTimerValues == 0..(Span - 1)
AllLimits == Byte \X Byte
====
