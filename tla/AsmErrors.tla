----------------------------- MODULE AsmErrors -----------------------------
(***************************************************************************)
(* The error level of the cross assembler asm6809 (error.h and error.c):   *)
(* the worst error of the pass so far.                                     *)
(***************************************************************************)
EXTENDS Naturals

\* The types of errors, in the order of error.h.
None == 0
Inefficient == 1
Illegal == 2
Inconsistent == 3
OutOfRange == 4
Syntax == 5
Data == 6
Fatal == 7

\* error(): the level keeps the highest type, but an inconsistency takes the
\* place of a value out of range.
Raise(lev, type) ==
    IF type > lev THEN type
    ELSE IF type = Inconsistent /\ lev = OutOfRange THEN Inconsistent
    ELSE lev

RaiseIf(wrong, lev, type) == IF wrong THEN Raise(lev, type) ELSE lev
=============================================================================
