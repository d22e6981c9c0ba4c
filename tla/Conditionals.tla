---------------------------- MODULE Conditionals ----------------------------
(***************************************************************************)
(* What conditional assembly promises: of the branches of an IF at most    *)
(* one is assembled, the first whose condition holds, and only if the code *)
(* around the IF is.  The README of asm6809 describes IF, ELSIF, ELSE and  *)
(* ENDIF so; AsmPasses implements it.                                      *)
(***************************************************************************)
EXTENDS Naturals, Sequences

VARIABLE branches   \* the open IFs, innermost last: "waiting" for a condition
                    \* that holds, "active", or "spent": no branch of it that
                    \* is still to come will be assembled

Assembling == \A i \in 1 .. Len(branches) : branches[i] = "active"

Init == branches = << >>

If == \E b \in IF Assembling THEN {"active", "waiting"} ELSE {"spent"} :
         branches' = Append(branches, b)

\* ELSIF and ELSE end the branch before them.
NextBranch ==
    /\ branches # << >>
    /\ LET last == Len(branches) IN
       branches' = [branches EXCEPT ![last] = IF @ = "waiting" THEN "active" ELSE "spent"]

EndIf ==
    /\ branches # << >>
    /\ branches' = SubSeq(branches, 1, Len(branches) - 1)

\* Every pass begins outside of any IF.
Restart == branches' = << >>

Next == If \/ NextBranch \/ EndIf \/ Restart

Spec == Init /\ [][Next]_branches
=============================================================================
