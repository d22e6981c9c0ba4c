---------------------------- MODULE AsmOperands ----------------------------
(***************************************************************************)
(* The instructions of asm6809 (instr.c): from an opcode and its evaluated *)
(* arguments to the code.                                                  *)
(*                                                                         *)
(* An argument has a type: "int" with val, "reg" with reg, "array" with    *)
(* args in it, "empty" (nothing before the comma) or "undef"; and the      *)
(* attribute that its notation gives it: <<n is "5bit", <n "8bit", >n      *)
(* "16bit", #n "immediate", r+ "postinc" and so on.  An opcode is a record *)
(* of its type, the ways in which it addresses memory, and the code for    *)
(* each.  What an instruction makes is the pieces of code in the order in  *)
(* which they are emitted, and the worst error.                            *)
(***************************************************************************)
EXTENDS Integers, Sequences, SequencesExt, FiniteSetsExt, AsmErrors

Made(code, error) == [code |-> code, error |-> error]

\* section_emit_uint8(), 16 and 32, and section_emit_op().
Field(n, v) == [i \in 1 .. n |-> (v \div 256 ^ (n - i)) % 256]
Op(op) == IF op > 255 THEN Field(2, op) ELSE Field(1, op)

IsInt(a) == a.type = "int"
IsReg(a) == a.type = "reg"

\* An argument with a symbol that is not defined, which is an inconsistency.
HasUndefined(args) ==
    \E i \in 1 .. Len(args) :
        \/ args[i].type = "undef"
        \/ \E j \in 1 .. Len(args[i].args) : args[i].args[j].type = "undef"

\* to_rel16()
ToRel16(i) == ((i + 32768) % 65536) - 32768

(* Registers: register.c's tables. *)
Index16 == {"x", "y", "u", "s"}

StackBits(reg) ==
    CASE reg = "cc" -> {0} [] reg = "a" -> {1} [] reg = "b" -> {2} [] reg = "dp" -> {3}
      [] reg = "x" -> {4}  [] reg = "y" -> {5} [] reg \in {"u", "s"} -> {6}
      [] reg = "pc" -> {7} [] reg = "d" -> {1, 2}
      [] OTHER -> {}

TfrNibble(reg) ==
    CASE reg = "d" -> 0  [] reg = "x" -> 1 [] reg = "y" -> 2   [] reg = "u" -> 3   [] reg = "s" -> 4
      [] reg = "pc" -> 5 [] reg = "w" -> 6 [] reg = "v" -> 7   [] reg = "a" -> 8   [] reg = "b" -> 9
      [] reg = "cc" -> 10 [] reg = "dp" -> 11 [] reg = "e" -> 14 [] reg = "f" -> 15
      [] OTHER -> -1

\* The sizes as bit masks; -1, for pcr, has all bits.
TfrSizes(reg) ==
    IF reg \in {"a", "b", "cc", "dp", "e", "f"} THEN {8}
    ELSE IF reg = "q" THEN {32}
    ELSE IF reg = "pcr" THEN {8, 16, 32}
    ELSE {16}
-----------------------------------------------------------------------------
(* Immediate and relative. *)
Width(ext) == CASE ext \in {"imm8", "rel8"} -> 1 [] ext \in {"imm16", "rel16"} -> 2 [] OTHER -> 4

Immediate(op, args) ==
    IF Len(args) # 1 THEN Made(<< >>, Syntax)
    ELSE Made(<<Op(op.imm), Field(Width(op.ext), IF IsInt(args[1]) THEN args[1].val ELSE 0)>>, None)

\* The distance to a branch's target, from the pc after an 8-bit offset at here.
Distance(target, here) == ToRel16(target - (here + 1))

Rel(op, args, pc) ==
    LET here == pc + Len(Op(op.imm))
        rel8 == Distance(args[1].val, here)
        far == rel8 \notin -128 .. 127 IN
    IF Len(args) # 1 THEN Made(<< >>, Syntax)
    ELSE IF ~ IsInt(args[1]) THEN Made(<<Op(op.imm), Field(Width(op.ext), 0)>>, None)
    ELSE IF op.ext = "rel8"
    THEN Made(<<Op(op.imm), Field(1, rel8)>>, IF far THEN OutOfRange ELSE None)
    ELSE Made(<<Op(op.imm), Field(2, rel8 - 1)>>,
              IF ~ far /\ args[1].attr # "16bit" THEN Inefficient ELSE None)
-----------------------------------------------------------------------------
(* Indexed addressing. *)
\* indexed_modes[], in its order: index register, its attribute, the offset,
\* the postbyte, and what [ ] does to it.
Mode(index, attr, off, post, indirect) ==
    [index |-> index, attr |-> attr, off |-> off, post |-> post, indirect |-> indirect]

IndexedModes == <<
    Mode("xyus", "none", "zero", 132, "ok"),
    Mode("xyus", "none", "5bit", 0, "impossible"),
    Mode("xyus", "none", "8bit", 136, "ok"),
    Mode("xyus", "none", "16bit", 137, "ok"),
    Mode("xyus", "none", "a", 134, "ok"),
    Mode("xyus", "none", "b", 133, "ok"),
    Mode("xyus", "none", "d", 139, "ok"),
    Mode("xyus", "postinc", "none", 128, "illegal"),
    Mode("xyus", "postinc2", "none", 129, "ok"),
    Mode("xyus", "predec", "none", 130, "illegal"),
    Mode("xyus", "predec2", "none", 131, "ok"),
    Mode("pcr", "none", "8bit", 140, "ok"),
    Mode("pcr", "none", "16bit", 141, "ok"),
    Mode("xyus", "none", "e", 135, "ok"),
    Mode("xyus", "none", "f", 138, "ok"),
    Mode("xyus", "none", "w", 142, "ok"),
    Mode("w", "none", "none", 143, "ok_6309"),
    Mode("w", "none", "16bit", 175, "ok_6309"),
    Mode("w", "postinc2", "none", 207, "ok_6309"),
    Mode("w", "predec2", "none", 239, "ok_6309")>>

IndexType(reg) ==
    IF reg \in Index16 THEN "xyus" ELSE IF reg \in {"pc", "pcr"} THEN "pcr" ELSE reg

IndexSelect(reg) ==
    CASE reg = "y" -> 32 [] reg = "u" -> 64 [] reg = "s" -> 96 [] OTHER -> 0

\* off_type_compatible() for argument a before register reg, at pc.
Compatible(off, reg, a, pc) ==
    LET short == IF reg = "pcr" THEN ToRel16(a.val - (pc + 2)) ELSE a.val IN
    IF a.attr # "none" THEN a.attr = off
    ELSE CASE off = "none"  -> a.type = "empty"
           [] off = "zero"  -> a.type = "empty" \/ (IsInt(a) /\ a.val = 0)
           [] off = "5bit"  -> a.type = "empty" \/ (IsInt(a) /\ a.val \in -16 .. 15)
           [] off = "8bit"  -> a.type = "empty" \/ (IsInt(a) /\ short \in -128 .. 127)
           [] off = "16bit" -> a.type \in {"empty", "int"}
           [] OTHER         -> IsReg(a) /\ a.reg = off

\* (mutant) the pc after an 8-bit offset
ShortBase(off, pc) == pc + 2

\* What the offset of label,pcr counts from: the end of the instruction.
PcrBase(off, pc) == IF off = "8bit" THEN pc + 2 ELSE pc + 3

\* instr_indexed2(): a zero has by now become nothing.
Indexed2(indirect, a, r, pc) ==
    LET fits == {i \in 1 .. Len(IndexedModes) :
                   LET m == IndexedModes[i] IN
                   /\ m.index = IndexType(r.reg) /\ m.attr = r.attr
                   /\ Compatible(m.off, r.reg, a, pc)
                   /\ ~ (indirect /\ m.indirect = "impossible")}
        m == IndexedModes[Min(fits)]
        given == IsInt(a) /\ ~ (a.attr = "none" /\ a.val = 0)
        off == IF ~ given THEN 0
               ELSE IF r.reg = "pcr" /\ m.off \in {"8bit", "16bit"} THEN a.val - PcrBase(m.off, pc)
               ELSE a.val
        short == IF m.off = "5bit" THEN off % 32 ELSE 0
        bit == IF ~ indirect THEN 0 ELSE IF m.indirect = "ok_6309" THEN 1 ELSE 16 IN
    IF a.type = "undef" \/ r.type = "undef" THEN Made(<<Field(1, 0)>>, None)
    ELSE IF ~ IsReg(r) \/ IndexType(r.reg) \notin {"xyus", "pcr", "w"} \/ fits = {}
    THEN Made(<< >>, Syntax)
    ELSE Made(<<Field(1, m.post + IndexSelect(r.reg) + short + bit)>>
                \o (CASE m.off = "8bit" -> <<Field(1, off)>> [] m.off = "16bit" -> <<Field(2, off)>>
                      [] OTHER -> << >>),
              IF indirect /\ m.indirect = "illegal" THEN Illegal ELSE None)

\* [addr], or addr where there is no extended addressing.
Absolute(indirect, a) ==
    IF a.type \notin {"undef", "int"} \/ a.attr \notin {"undef", "none", "16bit"}
    THEN Made(<< >>, Syntax)
    ELSE Made(<<Field(1, IF indirect THEN 159 ELSE 143), Field(2, IF IsInt(a) THEN a.val ELSE 0)>>,
              IF indirect THEN None ELSE Illegal)

\* instr_indexed(); imm is the operand of OIM and the like, or empty.
Indexed(op, args, imm, pc) ==
    LET indirect == Len(args) = 1 /\ args[1].type = "array"
        as == IF indirect THEN args[1].args ELSE args
        before == <<Op(op.indexed)>> \o imm
        here == pc + Len(FlattenSeq(before))
        rest == IF Len(as) = 1 THEN Absolute(indirect, as[1])
                ELSE Indexed2(indirect, as[1], as[2], here) IN
    IF Len(as) \notin 1 .. 2 THEN Made(<< >>, Syntax)
    ELSE Made(before \o rest.code, rest.error)

IsDirect(op, attr, addr, dp) ==
    "direct" \in op.mem /\ (attr = "8bit" \/ (attr = "none" /\ dp = addr \div 256))

\* instr_address(): direct, extended, or else indexed.
Address(op, args, imm, pc, dp) ==
    LET a == args[1]
        known == IsInt(a)
        attr == IF known THEN a.attr ELSE "16bit"
        addr == IF known THEN a.val % 65536 ELSE pc IN
    IF Len(args) \notin 1 .. 2 \/ ("indexed" \notin op.mem /\ Len(args) > 1)
    THEN Made(<< >>, Syntax)
    ELSE IF Len(args) = 2 \/ a.type = "array" THEN Indexed(op, args, imm, pc)
    ELSE IF IsDirect(op, attr, addr, dp)
    THEN Made(<<Op(op.direct)>> \o imm \o <<Field(1, addr)>>, None)
    ELSE IF "extended" \in op.mem /\ attr \in {"16bit", "none"}
    THEN Made(<<Op(op.extended)>> \o imm \o <<Field(2, addr)>>, None)
    ELSE Indexed(op, args, imm, pc)

\* instr_imm8_mem()
Imm8Mem(op, args, pc, dp) ==
    IF Len(args) \notin 2 .. 3 \/ ("indexed" \notin op.mem /\ Len(args) > 2)
    THEN Made(<< >>, Syntax)
    ELSE Address(op, Tail(args), <<Field(1, IF IsInt(args[1]) THEN args[1].val ELSE 0)>>, pc, dp)
-----------------------------------------------------------------------------
(* Registers in the postbyte. *)
\* instr_stack(): PSHS, PULU, ...
Stack(op, args, stack) ==
    LET bit(b) == IF \E i \in 1 .. Len(args) : b \in StackBits(args[i].reg) THEN 2 ^ b ELSE 0 IN
    IF \E i \in 1 .. Len(args) :
          ~ IsReg(args[i]) \/ args[i].reg = stack \/ StackBits(args[i].reg) = {}
    THEN Made(<< >>, Syntax)
    ELSE Made(<<Op(op.imm), Field(1, bit(0) + bit(1) + bit(2) + bit(3)
                                       + bit(4) + bit(5) + bit(6) + bit(7))>>, None)

\* nibble[0] << 4 | nibble[1] as a byte: -1 has all bits.
Nibbles(m, n) == IF n = -1 THEN 255 ELSE (m % 16) * 16 + n

\* instr_pair(): TFR, EXG, and the 6309's operations between registers.  Its
\* arguments are defined, here: an undefined one leaves nibble[] unset.
Pair(op, args) ==
    LET nibble(a) == IF IsReg(a) THEN TfrNibble(a.reg) ELSE IF a.val = 0 THEN 12 ELSE a.val % 16
        sizes(a) == IF IsReg(a) THEN TfrSizes(a.reg) ELSE {8, 16}
        wrong(a) == IF IsReg(a) \/ a.val = 0 THEN None
                    ELSE IF a.val \notin 0 .. 15 THEN OutOfRange ELSE Illegal
        unequal == IF sizes(args[1]) \cap sizes(args[2]) = {} THEN Illegal ELSE None IN
    IF Len(args) # 2 \/ \E i \in 1 .. Len(args) : args[i].type \notin {"reg", "int"}
    THEN Made(<< >>, Syntax)
    ELSE Made(<<Op(op.imm), Field(1, Nibbles(nibble(args[1]), nibble(args[2])))>>,
              Max({unequal, wrong(args[1]), wrong(args[2])}))

\* instr_tfm(): r+,r+ and r-,r- and r+,r and r,r+.
TfmKinds == <<<<"postinc", "postinc">>, <<"postdec", "postdec">>, <<"postinc", "none">>,
              <<"none", "postinc">>>>

Tfm(op, args) ==
    LET kinds == {i \in 1 .. 4 : TfmKinds[i] = <<args[1].attr, args[2].attr>>}
        nibble(a) == IF IsReg(a) THEN TfrNibble(a.reg) ELSE a.val % 16
        wrong(a) == IF IsReg(a) THEN None
                    ELSE IF a.val \notin 0 .. 4 THEN OutOfRange ELSE Illegal IN
    IF \/ Len(args) # 2
       \/ \E i \in 1 .. Len(args) :
            \/ args[i].type \notin {"reg", "int"}
            \/ IsReg(args[i]) /\ TfrNibble(args[i].reg) \notin 0 .. 4
       \/ kinds = {}
    THEN Made(<< >>, Syntax)
    ELSE Made(<<Op(op.imm + Min(kinds) - 1),
                Field(1, Nibbles(nibble(args[1]), nibble(args[2])))>>,
              Max({wrong(args[1]), wrong(args[2])}))

\* instr_reg_mem(): BAND and the like; a bit out of range is left out.
RegMem(op, args) ==
    LET reg == IF ~ IsReg(args[1]) THEN 192
               ELSE CASE args[1].reg = "cc" -> 0 [] args[1].reg = "a" -> 64 [] OTHER -> 128
        bad(a) == IsInt(a) /\ a.val \notin 0 .. 7
        bit(a) == IF IsInt(a) /\ ~ bad(a) THEN a.val ELSE 0 IN
    IF \/ Len(args) # 4 \/ args[1].type \notin {"reg", "int", "undef"}
       \/ IsReg(args[1]) /\ args[1].reg \notin {"cc", "a", "b"}
    THEN Made(<< >>, Syntax)
    ELSE Made(<<Op(op.direct), Field(1, reg + bit(args[2]) * 8 + bit(args[3])),
                Field(1, IF IsInt(args[4]) THEN args[4].val ELSE 0)>>,
              IF bad(args[2]) \/ bad(args[3]) THEN OutOfRange
              ELSE IF IsInt(args[1]) THEN Illegal ELSE None)
-----------------------------------------------------------------------------
\* assemble_prog()'s choice among the forms.
Encode(op, args, pc, dp) ==
    IF op.ext = "inherent" THEN Made(<<Op(op.imm)>>, IF args # << >> THEN Syntax ELSE None)
    ELSE IF op.ext \in {"imm8", "imm16", "imm32"} /\ args # << >> /\ args[1].attr = "immediate"
    THEN Immediate(op, args)
    ELSE IF op.ext = "imm8_mem" THEN Imm8Mem(op, args, pc, dp)
    ELSE IF op.mem # {} THEN Address(op, args, << >>, pc, dp)
    ELSE CASE op.ext \in {"rel8", "rel16"} -> Rel(op, args, pc)
           [] op.ext = "stacku"  -> Stack(op, args, "u")
           [] op.ext = "stacks"  -> Stack(op, args, "s")
           [] op.ext = "pair"    -> Pair(op, args)
           [] op.ext = "tfm"     -> Tfm(op, args)
           [] op.ext = "reg_mem" -> RegMem(op, args)
           [] OTHER              -> Made(<< >>, Syntax)
=============================================================================
