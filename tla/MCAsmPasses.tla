---------------------------- MODULE MCAsmPasses ----------------------------
(* AsmPasses on an address space of 32 bytes with pages of eight, short
   branches of -4 .. 3, three symbols and three sections. *)
EXTENDS AsmPasses

L(label, op, sym, off) == [label |-> label, op |-> op, sym |-> sym, off |-> off]
I(op, off) == L(NoName, op, NoName, off)     \* a line with a number
S(op, sym) == L(NoName, op, sym, 0)          \* a line with a symbol

MCNames == {"a", "b", "c", ".exec"}

\* The symbols: defined late or twice, by EQU, SET or as labels, in terms of
\* each other, and used by data, branches, variable-size instructions and END.
Definitions == {L("a", "equ", "b", 1), L("a", "set", "b", 1), L("a", "mem", "b", 0)}
More == {L("b", "equ", NoName, 9), L("b", "none", NoName, 0), L("b", "equ", "a", 0),
         L("a", "set", NoName, 3), L("b", "org", NoName, 24), L("b", "fdb", "a", 0)}
Uses == {S("fdb", "a"), S("mem", "b"), S("bra", "b"), S("bra", "a"), S("rmb", "b"),
         S("align", "b"), S("put", "a"), S("org", "a"), I("setdp", 1), S("end", "a")}
Symbols == {<<u, d, m, w>> : u \in Uses \ {S("end", "a")}, d \in Definitions, m \in More, w \in Uses}

\* The conditions: on a symbol that is defined later, or whose value depends on
\* what the condition excludes.
Ifs == {S("if", "b"), S("if", "a"), I("if", 0)}
Bodies == {S("mem", "b"), L("a", "equ", NoName, 2), I("error", 0), I("warn", 0), I("else", 0),
           S("elsif", "b")}
Conditions == {<<i, x, y, e, d>> : i \in Ifs, x \in Bodies, y \in Bodies,
                                    e \in {I("endif", 0), I("none", 0)}, d \in More}

\* The IFs alone, nested up to five deep, complete or not.
Nested == [1 .. 6 -> {I("if", 0), I("if", 1), I("elsif", 1), I("else", 0), I("endif", 0)}]

\* The sections: entered in any order, left and entered again.
Switches == {S("section", "CODE"), S("section", "DATA"), L("a", "section", "BSS", 0)}
Fillers == {S("fdb", "a"), S("mem", "b"), I("rmb", 30), I("rmb", -1), I("org", -3), I("put", -1)}
Sections == {<<f, s, g, t, h, L("b", "fdb", NoName, 0)>> :
               f \in Fillers, s \in Switches, g \in Fillers, t \in Switches, h \in Fillers}

\* Chains of definitions that take a pass each, with code that moves meanwhile.
Chains == {<<u, L("a", "equ", "b", 1), s, v, L("b", "equ", "c", 0), w, L("c", op, NoName, 17)>> :
             u \in Uses \ {S("end", "a")}, s \in Fillers \cup Switches, v \in Fillers \cup Switches,
             w \in {S("mem", "a"), S("bra", "a"), S("mem", "c"), I("fdb", 1)},
             op \in {"equ", "set", "none"}}

MCPrograms == Symbols \cup Conditions \cup Chains \cup Sections \cup Nested

MCInitDP == -1

\* Nothing defined, or a by option -d.
MCDefines == {[n \in MCNames |-> Absent],
              [n \in MCNames |-> IF n = "a" THEN [pass |-> 0, val |-> 5] ELSE Absent]}
=============================================================================
