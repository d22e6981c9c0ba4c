----------------------------- MODULE AsmPasses -----------------------------
(***************************************************************************)
(* The pass loop of the cross assembler asm6809: main() assembles the      *)
(* program again and again until a pass ends without an inconsistency.     *)
(* Symbols (symbol.c), sections (section.c) and the error level (error.c)  *)
(* are what one pass hands to the next.                                    *)
(*                                                                         *)
(* A line is [label, op, sym, off]; its operand is sym + off, or off when  *)
(* sym is NoName.  SECTION keeps the section's name in sym.  The data      *)
(* emitted is abstracted to its size and to the value it was made from.    *)
(***************************************************************************)
EXTENDS Integers, Sequences, AsmConditions, AsmErrors

CONSTANTS
    Programs,     \* the programs that may be assembled, sequences of lines
    Names,        \* symbol names
    NoName,       \* no label, no symbol in the operand
    Exec,         \* ".exec", the symbol that END sets
    SectNames,    \* section names
    Code,         \* "CODE", the section every pass starts in
    NoSect,       \* cur_section before the first pass
    Undef,        \* the value of an expression that could not be evaluated
    Defines,      \* the values that option -d may give to symbols: table states
    InitDP,       \* option --setdp
    MaxPasses,    \* option --max-passes
    Pages, Page,  \* number and size of the pages of the address space ($100, $100)
    Reach         \* a short branch reaches -Reach .. Reach - 1

Ops == {"none", "equ", "set", "org", "section", "fdb", "rmb", "align", "put",
        "setdp", "mem", "bra", "error", "warn", "end"} \cup CondOps

Value == Int \cup {Undef}

Line == {l \in [label : Names \cup {NoName}, op : Ops,
                 sym : Names \cup {NoName} \cup SectNames, off : Int] :
            l.op = "section" <=> l.sym \in SectNames}

\* A name that is not in the table has pass -1 and no value.
Symbol == {s \in [pass : Nat \cup {-1}, val : Value] : s.pass = -1 => s.val = Undef}

Table == [Names -> Symbol]

ASSUME NamesAssumption ==
    /\ NoName \notin Names /\ Exec \in Names
    /\ Names \cap SectNames = {} /\ NoName \notin SectNames
    /\ Code \in SectNames /\ NoSect \notin SectNames
    /\ Undef \notin Int

ASSUME SizesAssumption ==
    /\ Pages \in Nat \ {0} /\ Page \in Nat \ {0} /\ Reach \in Nat
    /\ InitDP \in Int /\ MaxPasses \in Nat \ {0, 1}

ASSUME InputAssumption == Programs \subseteq Seq(Line) /\ Defines \subseteq Table

VARIABLES
    prog,      \* the program being assembled
    pass,      \* asm_pass
    next,      \* the line of prog to assemble next
    cond,      \* cond_list and cond_excluded, see AsmConditions
    level,     \* error_level
    table,     \* symbols; pass = -1 for a name that is not in it
    sect,      \* sections: pass, at (pc and put), dp, last (last_pc and
               \* last_put), and as history the section this one was placed
               \* after in its pass, and the address it began at
    cur,       \* cur_section
    phase,     \* "begin" a pass, in its "lines", assembly "done" or "failed"
    trace      \* history: the lines assembled in this pass, with their
               \* address, the value of their operand and of their label

vars == <<prog, pass, next, cond, level, table, sect, cur, phase, trace>>
-----------------------------------------------------------------------------
Mem == Pages * Page

(* Symbols. *)
Absent == [pass |-> -1, val |-> Undef]

Known(n) == table[n].val # Undef

\* eval_node() of an operand; symbol_get() complains about unknown symbols.
Operand(l) ==
    IF l.sym \notin Names THEN l.off
    ELSE IF Known(l.sym) THEN table[l.sym].val + l.off
    ELSE Undef

\* The same with symbol_ignore_undefined.
Condition(l) == IF l.sym \in Names /\ ~ Known(l.sym) THEN l.off ELSE Operand(l)

Else(v, default) == IF v = Undef THEN default ELSE v

\* (mutant) only what SET defined counts as redefined
RedefinedBySet(tab, n, changeable, p) == changeable /\ tab[n].pass = p

Redefined(tab, n, changeable, p) == ~ changeable /\ tab[n].pass = p

\* (mutant) a change is noticed only in what SET defined
UnstableBySet(tab, n, v, changeable) == changeable /\ tab[n].pass # -1 /\ tab[n].val # v

\* node_equal() of the old value and the new one is false for unknown values.
Unstable(tab, n, v, changeable) ==
    /\ ~ changeable
    /\ tab[n].pass # -1
    /\ tab[n].val # v \/ v = Undef

\* symbol_set() on table tab at error level lev: the new table and level.
SymbolSet(tab, lev, n, v, changeable, p) ==
    IF Redefined(tab, n, changeable, p)
    THEN [table |-> tab, level |-> Raise(lev, Syntax)]
    ELSE [table |-> [tab EXCEPT ![n] = [pass |-> p, val |-> v]],
          level |-> RaiseIf(Unstable(tab, n, v, changeable), lev, Inconsistent)]

(* Sections. *)
Start == [pc |-> 0, put |-> 0]

NewSection == [pass |-> -1, at |-> Start, dp |-> InitDP, last |-> Start,
               after |-> NoSect, base |-> 0]

\* (mutant) where the section is now, not where it ended in the pass before
EndNow(s) == sect[s].at

\* A section selected for the first time in pass p starts where the current
\* one ended in the pass before.
EndOf(s) == sect[s].last

Follows(p) == cur # NoSect /\ sect[cur].pass = p

StartAfter(p) == IF Follows(p) THEN EndOf(cur) ELSE Start

SectionSet(s, p) ==
    IF sect[s].pass = p THEN sect
    ELSE [sect EXCEPT ![s] =
            [pass |-> p, at |-> StartAfter(p), dp |-> InitDP, last |-> @.last,
             after |-> IF Follows(p) THEN cur ELSE NoSect, base |-> StartAfter(p).pc]]

Here == sect[cur].at.pc

MoveTo(pc, put) == [sect EXCEPT ![cur].at = [pc |-> pc, put |-> put]]

Skip(n) == MoveTo(Here + n, sect[cur].at.put + n)

\* section_emit() of n bytes: the address must be in memory.
Beyond(n) == Here < 0 \/ Here + n > Mem

\* to_rel16()
ToRel(v) == ((v + Mem \div 2) % Mem) - Mem \div 2

TooFar(v) == ToRel(v - (Here + 2)) \notin (- Reach) .. (Reach - 1)

\* instr_address(): direct addressing on the page that SETDP promised.
IsDirect(v) == v # Undef /\ sect[cur].dp = (v % Mem) \div Page
-----------------------------------------------------------------------------
Init ==
    /\ prog \in Programs
    /\ table \in Defines
    /\ pass = 0 /\ next = 1 /\ cond = NoCond /\ level = None
    /\ sect = [s \in SectNames |-> NewSection] /\ cur = NoSect
    /\ phase = "begin" /\ trace = {}

\* The head of the loop in main().
BeginPass ==
    /\ phase = "begin"
    /\ level' = None
    /\ sect' = SectionSet(Code, pass)
    /\ cur' = Code
    /\ next' = 1 /\ cond' = NoCond /\ trace' = {}
    /\ phase' = "lines"
    /\ UNCHANGED <<prog, pass, table>>

line == prog[next]

NextLine == next' = next + 1 /\ UNCHANGED <<prog, pass, phase>>

\* A line with this pseudo-op or kind of instruction is to be assembled.
At(op) == /\ phase = "lines" /\ next <= Len(prog)
          /\ line.op = op
          /\ ~ Excluded(cond)
          /\ NextLine
          /\ UNCHANGED cond

val == Operand(line)

\* The error level after the operand has been evaluated.
Evaluated == RaiseIf(val = Undef, level, Inconsistent)

Record(labelled) ==
    trace' = trace \cup {[line |-> next, pc |-> Here, val |-> val, label |-> labelled]}

\* set_label() with value v.
Label(v, changeable) ==
    IF line.label = NoName THEN [table |-> table, level |-> Evaluated]
    ELSE SymbolSet(table, Evaluated, line.label, v, changeable, pass)

\* EQU and SET.
Define(op, changeable) ==
    /\ At(op)
    /\ table' = Label(val, changeable).table
    /\ level' = Label(val, changeable).level
    /\ Record(val)
    /\ UNCHANGED <<sect, cur>>

Equ == Define("equ", FALSE)
Set == Define("set", TRUE)

Org ==
    LET pc == Else(val, Here) IN
    /\ At("org")
    /\ sect' = MoveTo(pc, IF pc >= 0 THEN pc ELSE sect[cur].at.put)
    /\ table' = Label(pc, FALSE).table
    /\ level' = Label(pc, FALSE).level
    /\ Record(pc)
    /\ UNCHANGED cur

Section ==
    /\ At("section")
    /\ sect' = SectionSet(line.sym, pass)
    /\ cur' = line.sym
    /\ table' = Label(sect'[cur'].at.pc, FALSE).table
    /\ level' = Label(sect'[cur'].at.pc, FALSE).level
    /\ Record(sect'[cur'].at.pc)

\* Every other line gives its label the address, then does its own work: it
\* adds an error of the given type if wrong.
Other(op, wrong, type) ==
    /\ At(op)
    /\ table' = Label(Here, FALSE).table
    /\ level' = RaiseIf(wrong, Label(Here, FALSE).level, type)
    /\ Record(Here)
    /\ UNCHANGED cur

Emit(op, n, wrong) == /\ Other(op, wrong \/ Beyond(n), OutOfRange)
                      /\ sect' = Skip(n)

NoOp == Other("none", FALSE, None) /\ UNCHANGED sect
Fdb  == Emit("fdb", 2, FALSE)
Bra  == Emit("bra", 2, val # Undef /\ TooFar(val))
Mem1 == Emit("mem", IF IsDirect(val) THEN 2 ELSE 3, FALSE)

Rmb ==
    LET count == Else(val, 0) IN
    /\ Other("rmb", count < 0, OutOfRange)
    /\ sect' = IF count < 0 THEN sect ELSE Skip(count)

Align ==
    LET align == Else(val, 0) IN
    /\ Other("align", align < 1, OutOfRange)
    /\ sect' = IF align < 1 THEN sect ELSE Skip((align - (Here % align)) % align)

Put ==
    LET put == Else(val, sect[cur].at.put) IN
    /\ Other("put", put < 0, OutOfRange)
    /\ sect' = IF put < 0 THEN sect ELSE MoveTo(Here, put)

SetDP ==
    LET dp == Else(val, -1) IN
    /\ Other("setdp", FALSE, None)
    /\ sect' = [sect EXCEPT ![cur].dp = IF dp < 0 THEN -1 ELSE dp % Pages]

Error == Other("error", TRUE, Fatal) /\ UNCHANGED sect
Warn  == Other("warn", TRUE, Illegal) /\ UNCHANGED sect

\* pseudo_end() passes the number of the pass as "changeable" and 0 as the
\* number of the pass.
End ==
    LET labelled == Label(Here, FALSE)
        ended == SymbolSet(labelled.table, labelled.level, Exec, val, pass # 0, 0) IN
    /\ At("end")
    /\ table' = ended.table
    /\ level' = ended.level
    /\ Record(Here)
    /\ UNCHANGED <<sect, cur>>

\* IF, ELSIF, ELSE and ENDIF are met in excluded code too.
Conditional ==
    /\ phase = "lines" /\ next <= Len(prog)
    /\ line.op \in CondOps
    /\ cond' = CondStep(line.op, cond, Condition(line) # 0)
    /\ level' = RaiseIf(Complaint(line.op, cond), level, Syntax)
    /\ NextLine
    /\ UNCHANGED <<table, sect, cur, trace>>

Excludes ==
    /\ phase = "lines" /\ next <= Len(prog)
    /\ line.op \notin CondOps
    /\ Excluded(cond)
    /\ NextLine
    /\ UNCHANGED <<cond, level, table, sect, cur, trace>>

\* The end of assemble_prog(), section_finish_pass() and the decision in
\* main(): only inconsistencies lead to another pass.
Moved == {s \in SectNames : sect[s].last.pc # sect[s].at.pc}

PassLevel == RaiseIf(Moved # {}, RaiseIf(cond.list # << >>, level, Syntax), Inconsistent)

\* (mutant) the end of the section is not kept
ForgetEnd(s) == sect[s]

\* verify_section()
KeepEnd(s) ==
    IF s \in Moved THEN [sect[s] EXCEPT !.last = sect[s].at] ELSE sect[s]

\* (mutant) one pass too many
OneMorePass == PassLevel = Inconsistent /\ pass < MaxPasses

AnotherPass == PassLevel = Inconsistent /\ pass + 1 < MaxPasses

EndPass ==
    /\ phase = "lines" /\ next > Len(prog)
    /\ level' = PassLevel
    /\ sect' = [s \in SectNames |-> KeepEnd(s)]
    /\ pass' = IF AnotherPass THEN pass + 1 ELSE pass
    /\ phase' = IF AnotherPass THEN "begin"
                ELSE IF PassLevel < Inconsistent THEN "done" ELSE "failed"
    /\ UNCHANGED <<prog, next, cond, table, cur, trace>>

Next ==
    \/ BeginPass \/ EndPass
    \/ Equ \/ Set \/ Org \/ Section \/ NoOp \/ Fdb \/ Bra \/ Mem1 \/ Rmb \/ Align
    \/ Put \/ SetDP \/ Error \/ Warn \/ End
    \/ Conditional \/ Excludes

Spec == Init /\ [][Next]_vars
-----------------------------------------------------------------------------
Place == [pc : Int, put : Int]

SectionType == [pass : Int, at : Place, dp : Int, last : Place,
                after : SectNames \cup {NoSect}, base : Int]

TraceType == [line : Nat \ {0}, pc : Int, val : Value, label : Value]

\* The types of the variables; the address, put and DP are plain integers.
TypeOK ==
    /\ prog \in Seq(Line)
    /\ pass \in 0 .. MaxPasses - 1
    /\ next \in 1 .. Len(prog) + 1
    /\ cond \in CondType
    /\ level \in None .. Fatal
    /\ table \in Table
    /\ sect \in [SectNames -> SectionType]
    /\ cur \in SectNames \cup {NoSect}
    /\ phase \in {"begin", "lines", "done", "failed"}
    /\ \A t \in trace : t \in TraceType /\ t.line \in 1 .. Len(prog)

\* Symbols that SET (or END) may change without another pass.
Changeable(n) ==
    n = Exec \/ \E i \in 1 .. Len(prog) : prog[i].label = n /\ prog[i].op = "set"

Fixed(n) == n \in Names /\ ~ Changeable(n)

\* What line t used for its operand, and gave its label, is still so.
UsesFinal(t) == Fixed(prog[t.line].sym) => t.val # Undef /\ t.val = Operand(prog[t.line])

LabelFinal(t) ==
    Fixed(prog[t.line].label) => t.label # Undef /\ t.label = table[prog[t.line].label].val

\* An assembly that succeeds was consistent: whatever a line of the last pass
\* used or defined before the symbols it depends on were known, or while they
\* still changed, is what the symbols are in the end.
OutputIsFinal == phase = "done" => \A t \in trace : UsesFinal(t) /\ LabelFinal(t)

\* In the output a section begins where the section it was placed after ends,
\* although it was placed there from what the pass before knew of that end.
SectionsAbut ==
    phase = "done" =>
        \A s \in SectNames :
            sect[s].pass = pass /\ sect[s].after # NoSect =>
                sect[s].base = sect[sect[s].after].at.pc

DefinedTwice(t, u) ==
    /\ t.line # u.line
    /\ prog[t.line].label = prog[u.line].label
    /\ prog[t.line].label \notin {NoName, Exec}
    /\ "set" \notin {prog[t.line].op, prog[u.line].op}

\* A name is defined once by the lines that a successful assembly used, except
\* that SET may give it any number of values.  (END also sets .exec, and makes
\* symbol_set() forget in which pass.)
DefinedOnce == phase = "done" => \A t, u \in trace : ~ DefinedTwice(t, u)

\* Of the branches of an IF at most one is assembled, in whatever order ELSIF
\* and ELSE follow it and however the IFs are nested: the conditional assembly
\* with its list and its pointer implements Conditionals.
Branches == INSTANCE Conditionals WITH branches <- BranchesOf(cond)

OneBranchOfEachIf == Branches!Spec

\* No line's size or choice depends on a symbol.
FixedSize ==
    \A i \in 1 .. Len(prog) :
        prog[i].op \in {"mem", "setdp", "if", "elsif", "org", "rmb", "align"} =>
            prog[i].sym = NoName

\* Where sizes do not depend on symbols, and MaxPasses leaves a pass for every
\* link of a chain of definitions and one more, the passes settle: the assembler
\* gives up for instability only over a symbol whose value is never known.
FixedSizeSettles ==
    phase = "failed" /\ level = Inconsistent /\ FixedSize =>
        \E t \in trace : t.val = Undef

\* error.h: a value out of range is "considered fatal at the end of a pass only
\* if no inconsistencies were found"; an unknown symbol is an inconsistency.
RangeOnlyIfConsistent ==
    phase = "failed" /\ level = OutOfRange => \A t \in trace : t.val # Undef
=============================================================================
