------------------------------- MODULE M6809 -------------------------------
(***************************************************************************)
(* What the 6809 (and the 6309) makes of the bytes after an opcode, as far *)
(* as the assembler encodes them: addresses, offsets and registers.        *)
(***************************************************************************)
EXTENDS Integers, Sequences

\* One byte or two.
Number(bytes) == IF Len(bytes) = 1 THEN bytes[1] ELSE bytes[1] * 256 + bytes[2]

\* A two's complement number.
Signed(bytes) ==
    LET n == 256 ^ Len(bytes) v == Number(bytes) IN IF v >= n \div 2 THEN v - n ELSE v

Address16(v) == v % 65536

\* What an instruction works on in memory: at base + add, the registers that
\* are changed, and whether the address is read from there.
Operand(base, add, update, indirect) ==
    [base |-> base, add |-> add, update |-> update, indirect |-> indirect]

IndexRegister(p) == <<"x", "y", "u", "s">>[((p \div 32) % 4) + 1]

WPosts == <<143, 175, 207, 239>>
WUpdate == <<"none", "none", "postinc2", "predec2">>

\* The postbyte p, the bytes after it, and the address of the next instruction.
Postbyte(p, rest, after) ==
    LET reg == IndexRegister(p)
        low == p % 16
        ind == (p \div 16) % 2 = 1
        of(add, update) == Operand(reg, add, update, ind)
        w == {i \in 1 .. 4 : p \in {WPosts[i], WPosts[i] + 1}} IN
    IF p < 128
    THEN Operand(reg, Address16(IF p % 32 > 15 THEN (p % 32) - 32 ELSE p % 32), "none", FALSE)
    ELSE IF w # {}
    THEN LET i == CHOOSE i \in w : TRUE IN
         Operand("w", IF i = 2 THEN Address16(Signed(rest)) ELSE 0, WUpdate[i], p # WPosts[i])
    ELSE CASE low = 0 -> of(0, "postinc") [] low = 1 -> of(0, "postinc2")
           [] low = 2 -> of(0, "predec")  [] low = 3 -> of(0, "predec2")
           [] low = 4 -> of(0, "none")
           [] low = 5 -> of("b", "none")  [] low = 6 -> of("a", "none")
           [] low = 7 -> of("e", "none")
           [] low \in {8, 9} -> of(Address16(Signed(rest)), "none")
           [] low = 10 -> of("f", "none") [] low = 11 -> of("d", "none")
           [] low = 14 -> of("w", "none")
           [] low \in {12, 13} ->
                Operand("none", Address16(after + Signed(rest)), "none", ind)
           [] low = 15 -> Operand("none", Number(rest), "none", ind)

\* The registers of PSHS and the like; the other stack's pointer is "u" or "s".
StackOrder == <<"cc", "a", "b", "dp", "x", "y", "other", "pc">>
Stacked(p) == {StackOrder[i] : i \in {i \in 1 .. 8 : (p \div 2 ^ (i - 1)) % 2 = 1}}

\* The registers of TFR and the like.
TfrOrder == <<"d", "x", "y", "u", "s", "pc", "w", "v",
              "a", "b", "cc", "dp", "zero", "zero", "e", "f">>
Transferred(p) == <<TfrOrder[(p \div 16) + 1], TfrOrder[(p % 16) + 1]>>
=============================================================================
