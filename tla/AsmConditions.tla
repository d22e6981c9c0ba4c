--------------------------- MODULE AsmConditions ---------------------------
(***************************************************************************)
(* Conditional assembly of the cross assembler asm6809: IF, ELSIF, ELSE    *)
(* and ENDIF in assemble_prog().  A condition state is a record            *)
(*                                                                         *)
(*   list   cond_list, the open IFs, innermost last, each "if" (no branch  *)
(*          taken yet), "if_done" (one was taken, or the IF was met in     *)
(*          excluded code) or "else"                                       *)
(*   out    cond_excluded: the length of the list at the element that      *)
(*          started to exclude code, 0 when nothing is excluded            *)
(*                                                                         *)
(* Each operator gives the state after the pseudo-op, and Complaint(op, c) *)
(* says whether the pseudo-op is a syntax error in state c.                *)
(***************************************************************************)
EXTENDS Naturals, Sequences

CondState == {"if", "if_done", "else"}

CondType == [list : Seq(CondState), out : Nat]

NoCond == [list |-> << >>, out |-> 0]

Excluded(c) == c.out # 0

\* cond_excluded == cond_list: the innermost IF is the one that excludes.
InnermostExcludes(c) == c.out # 0 /\ c.out = Len(c.list)

Innermost(c) == c.list[Len(c.list)]

Enclosing(c) == SubSeq(c.list, 1, Len(c.list) - 1)

CondOps == {"if", "elsif", "else", "endif"}

\* ELSIF, ELSE and ENDIF without IF, and a second ELSE that is noticed.
Complaint(op, c) ==
    \/ op \in {"elsif", "else", "endif"} /\ c.list = << >>
    \/ op \in {"elsif", "else"} /\ c.list # << >> /\ Innermost(c) = "else"

\* The expression of an IF is evaluated only in code that is not excluded,
\* that of an ELSIF only while no branch of its IF has been taken.
Evaluates(op, c) ==
    \/ op = "if" /\ ~ Excluded(c)
    \/ /\ op = "elsif"
       /\ ~ Complaint(op, c)
       /\ InnermostExcludes(c)
       /\ Innermost(c) = "if"

SetInnermost(c, s) == [c.list EXCEPT ![Len(c.list)] = s]

CondIf(c, holds) ==
    IF ~ Excluded(c) /\ ~ holds
    THEN [list |-> Append(c.list, "if"), out |-> Len(c.list) + 1]
    ELSE [c EXCEPT !.list = Append(c.list, "if_done")]

CondElsif(c, holds) ==
    IF ~ Excluded(c) THEN [c EXCEPT !.out = Len(c.list)]
    ELSE IF Evaluates("elsif", c) /\ holds
    THEN [list |-> SetInnermost(c, "if_done"), out |-> 0]
    ELSE c

\* (mutant) the branch after ELSE is taken although another one was
ElseAgain(c) ==
    IF ~ Excluded(c) THEN [list |-> SetInnermost(c, "else"), out |-> Len(c.list)]
    ELSE IF InnermostExcludes(c)
    THEN [list |-> SetInnermost(c, "else"), out |-> 0]
    ELSE c

CondElse(c) ==
    IF ~ Excluded(c) THEN [list |-> SetInnermost(c, "else"), out |-> Len(c.list)]
    ELSE IF InnermostExcludes(c) /\ Innermost(c) = "if"
    THEN [list |-> SetInnermost(c, "else"), out |-> 0]
    ELSE c

CondEndif(c) ==
    [list |-> Enclosing(c), out |-> IF InnermostExcludes(c) THEN 0 ELSE c.out]

\* What the pseudo-op makes of c; an erroneous one changes nothing.
CondStep(op, c, holds) ==
    IF Complaint(op, c) THEN c
    ELSE CASE op = "if"    -> CondIf(c, holds)
           [] op = "elsif" -> CondElsif(c, holds)
           [] op = "else"  -> CondElse(c)
           [] op = "endif" -> CondEndif(c)

\* What each open IF amounts to, in the terms of Conditionals.
BranchesOf(c) ==
    [i \in 1 .. Len(c.list) |->
        IF c.out = 0 \/ i < c.out THEN "active"
        ELSE IF i = c.out /\ c.list[i] = "if" THEN "waiting"
        ELSE "spent"]
=============================================================================
