----------------------------- MODULE MCAsmCode -----------------------------
(* AsmCode on programs of a few lines: some place data in all ways, the others
   have one instruction at an address. *)
EXTENDS AsmCode

L(kind, val) == [kind |-> kind, val |-> val, op |-> << >>, args |-> << >>]
I(op, args) == [kind |-> "instr", val |-> 0, op |-> op, args |-> args]
none == L("rmb", 0)

\* Data of FDB, FCB and FILL.
D(pieces) == L("data", pieces)
Fill(n) == D([i \in 1 .. n |-> <<(i + 9) % 256>>])
Words == D(<<<<1, 2>>, <<3, 4>>>>)

Placements ==
    {none, L("org", 0), L("org", 2), L("org", -1), L("put", 3), L("put", -2), L("rmb", 2),
     L("rmb", -1), L("section", "DATA"), L("section", "CODE"), L("section", "BSS")}
Layouts ==
    {<<a, Words, b, d, c, D(<<<<30>>>>), e>> :
        a \in {none, L("org", 2), L("section", "DATA")}, b \in Placements, c \in Placements,
        d \in {D(<<<<20>>>>), D(<<<<20>>, <<21>>, <<22>>>>)}, e \in {L("end", 4660), none}}
    \cup {<<L("org", 250), Fill(n), D(<<<<1, 2>>>>), b, Words>> : n \in {31, 32, 63, 127, 130},
        b \in {none, L("rmb", 3), L("org", 249), L("put", 5)}}
    \cup {<<L("org", 65530), Words, m, D(<<<<20>>>>), Words>> :
        m \in {none, L("rmb", 1), L("org", 65531), L("put", 65500)}}

\* Opcodes (opcode.c).
O(ext, imm, direct, indexed, extended) ==
    [ext |-> ext, imm |-> imm, direct |-> direct, indexed |-> indexed, extended |-> extended,
     mem |-> IF ext = "reg_mem" THEN {}
             ELSE {m \in {"direct", "indexed", "extended"} :
                     0 <= CASE m = "direct" -> direct [] m = "indexed" -> indexed
                            [] OTHER -> extended}]

lda == O("imm8", 134, 150, 166, 182)
orcc == O("imm8", 26, -1, -1, -1)
ldy == O("imm16", 4238, 4254, 4270, 4286)
ldq == O("imm32", 205, 4316, 4332, 4348)
neg == O("none", -1, 0, 96, 112)
leax == O("none", -1, -1, 48, -1)
oim == O("imm8_mem", -1, 1, 97, 113)
bra == O("rel8", 32, -1, -1, -1)
lbra == O("rel16", 22, -1, -1, -1)
lbeq == O("rel16", 4135, -1, -1, -1)
pshs == O("stacks", 52, -1, -1, -1)
pulu == O("stacku", 55, -1, -1, -1)
tfr == O("pair", 31, -1, -1, -1)
tfm == O("tfm", 4408, -1, -1, -1)
band == O("reg_mem", -1, 4400, -1, -1)
nop == O("inherent", 18, -1, -1, -1)

A(type, attr, val, reg, args) ==
    [type |-> type, attr |-> attr, val |-> val, reg |-> reg, args |-> args]
N(attr, val) == A("int", attr, val, "none", << >>)
RI(attr, reg) == A("reg", attr, 99, reg, << >>)
R(reg) == RI("none", reg)
Empty == A("empty", "none", 0, "none", << >>)
Undefined == A("undef", "undef", 0, "none", << >>)
Indirectly(args) == <<A("array", "none", 0, "none", args)>>

Values == {-32768, -129, -128, -17, -16, -1, 0, 1, 15, 16, 127, 128, 255, 300, 40000}
Near(at) == {at + d : d \in {-127, -126, -125, -124, -123, 0, 129, 130, 131, 132, 133}}

Sized == {"none", "5bit", "8bit", "16bit"}
Bases == {R("x"), R("s"), R("pc"), R("pcr"), R("w"), R("d")}

Offsets(at) ==
    {N(attr, v) : attr \in Sized, v \in Values \cup Near(at)}
    \cup {Empty, Undefined, R("a"), R("d"), R("w"), RI("8bit", "b")}
Changed ==
    {RI(attr, r) : attr \in {"postinc", "postinc2", "predec", "predec2"},
                   r \in {"y", "u", "w", "pc"}}

InMemories(at) ==
    {<<o, r>> : o \in Offsets(at), r \in Bases} \cup {<<Empty, r>> : r \in Changed}
    \cup {<<N("none", 0), RI("postinc", "x")>>}
OperandsAt(at) ==
    InMemories(at) \cup {Indirectly(m) : m \in InMemories(at)}
    \cup {<<N(attr, v)>> : attr \in Sized \cup {"immediate"}, v \in Values \cup Near(at)}
    \cup {Indirectly(<<N("none", v)>>) : v \in Values} 
    \cup {<<Undefined>>, <<Empty>>, <<R("x")>>, <<Empty, Empty, Empty>>,
          <<A("array", "8bit", 0, "none", <<N("none", 1)>>), R("x")>>}

Regs == {"cc", "a", "d", "x", "u", "s", "pc", "pcr", "w", "v", "f", "q"}
Registers ==
    {I(op, <<R(p), R(q)>>) : op \in {pshs, pulu, tfr}, p \in Regs, q \in Regs}
    \cup {I(tfr, <<N("none", n), R("x")>>) : n \in {0, 3, 16}}
    \cup {I(tfm, <<RI(a, p), RI(b, q)>>) :
              a \in {"postinc", "postdec", "none"}, b \in {"postinc", "postdec", "none"},
              p \in {"x", "d", "a"}, q \in {"y", "s"}}
    \cup {I(band, <<R(p), N("none", i), N("none", j), N("none", 99)>>) :
              p \in {"cc", "a", "b", "x"}, i \in {0, 3, 7, 8}, j \in {0, 5, 7}}
    \cup {I(band, <<R("a"), R("b"), N("none", 1), N("none", 99)>>)}
    \cup {I(nop, args) : args \in {<< >>, <<Empty>>}}

Branches(at) ==
    {I(op, <<N(attr, v)>>) : op \in {bra, lbra, lbeq}, attr \in {"none", "16bit"},
                             v \in Values \cup Near(at)}
    \cup {I(bra, <<Undefined>>), I(bra, <<R("x")>>), I(lbeq, <<Undefined>>)}

Instructions(at) ==
    {I(op, o) : op \in {lda, ldy, leax}, o \in OperandsAt(at)}
    \cup {I(oim, <<N("none", 129)>> \o o) : o \in OperandsAt(at)}
    \cup {I(oim, <<R("a"), N("none", 1)>>), I(lda, <<RI("immediate", "x")>>)}
    \cup {I(op, <<N("immediate", v)>>) :
              op \in {lda, ldy, ldq, neg, orcc}, v \in {0, 255, 256, 65535, 65536, -1}}
    \cup {I(op, <<N("none", v)>>) : op \in {neg, orcc}, v \in Values}
    \cup Branches(at)

MCPrograms ==
    Layouts
    \cup {<<L("org", 4096), L("setdp", dp), i>> : i \in Instructions(4096), dp \in {-1, 0}}
    \cup UNION {{<<L("org", at), L("setdp", 257), i>> : i \in Branches(at)} :
                  at \in {0, 100, 65500}}
    \cup {<<L("org", 40), L("setdp", 1), I(lda, o)>> : o \in OperandsAt(40)}
    \cup {<<i>> : i \in Registers}

MCStarts == {[pc |-> 0, put |-> 0], [pc |-> 4, put |-> 6]}
=============================================================================
