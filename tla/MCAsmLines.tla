----------------------------- MODULE MCAsmLines -----------------------------
(* AsmLines on small files: one that is assembled and one that it, or a macro,
   may include. *)
EXTENDS AsmLines

L(label, op, arg, par) == [label |-> label, op |-> op, arg |-> arg, par |-> par]
I(op, arg) == L(NoName, op, arg, NoName)
C(m, par) == L(NoName, "call", m, par)
M(m) == L(m, "macro", NoName, NoName)
endm == I("endm", NoName)
blank == I("none", NoName)
label == L("1", "none", NoName, NoName)
flagged == I("flag", NoName)
else == I("else", NoName)
endif == I("endif", NoName)

One(lines) == [main |-> lines, other |-> << >>]
Two(lines, others) == [main |-> lines, other |-> others]

\* Macros: nested, recursive, redefined, with their argument passed on, chosen
\* by conditions, and not finished.
Bodies == {M("n"), endm, C("m", "pos"), C("n", "one"), I("if", "pos"), endif, I("byte", "pos"), blank,
           label}
Definitions ==
    {One(<<M("m"), x, y, z, endm, w, C("m", "zero"), C("m", "one")>>) :
        x \in Bodies, y \in Bodies, z \in Bodies, w \in {endm, blank, C("n", "pos")}}
    \cup {One(<<c, M("m"), x, e, d, M("m"), y, endm, C("m", "flag"), flagged>>) :
        c \in {I("if", "flag"), I("if", "one"), blank}, x \in Bodies, e \in {endm, I("endm", "one")},
        d \in {else, endif, blank, C("m", "one"), I("include", "other")}, y \in Bodies}

\* Files: that include themselves or each other, begin or end a definition,
\* change the section, leave an IF open.
Begins == {M("m"), label, I("if", "one"), blank, C("m", NoName)}
Middles == {endm, label, I("section", "DATA"), I("include", "other"), I("if", "zero")}
Ends == {endm, I("back", "1"), I("fwd", "1"), C("m", NoName), endif}
Inclusions == {Two(<<x, I("include", "other"), y, z>>, <<u, v>>) :
                 x \in Begins \ {C("m", NoName)}, y \in Middles, z \in Ends,
                 u \in Begins, v \in Middles}

\* Local labels: about each other, in two sections, and in code that is
\* assembled in some passes only.
Marks ==
    {label, L("1", "back", "1", NoName), I("back", "1"), L("1", "fwd", "1", NoName),
     I("section", "DATA"), I("section", "CODE"), blank}
Fewer == Marks \ {I("section", "CODE"), L("1", "fwd", "1", NoName)}
Locals ==
    {One(<<I("fwd", "1"), c, x, d, y, e, z, f>>) :
        c \in {I("if", "flag"), I("if", "one"), label}, x \in Marks,
        d \in {else, I("section", "DATA")}, y \in Fewer, e \in {endif, I("back", "1")},
        z \in Fewer, f \in {flagged, I("back", "1")}}

MCSources == Definitions \cup Inclusions \cup Locals
=============================================================================
