------------------------------ MODULE AsmLines ------------------------------
(***************************************************************************)
(* Where the lines that asm6809 assembles come from: assemble_prog(),      *)
(* which calls itself for INCLUDE and for the expansion of a macro, the    *)
(* definition of macros, their positional variables, and the local labels, *)
(* which are told apart by the number of lines met before them in their    *)
(* section.                                                                *)
(*                                                                         *)
(* A line is [label, op, arg, par].  arg is a file after INCLUDE, a macro  *)
(* after CALL (a line with the name of a macro for an opcode), which gives *)
(* it par for its only positional variable, a section, a local label after *)
(* BACK and FWD (data made from 1B and 1F), or an operand.                 *)
(* Every line that emits data emits one byte.  The placement of sections,  *)
(* and symbols but for one that a FLAG line defines, are left to           *)
(* AsmPasses.                                                              *)
(***************************************************************************)
EXTENDS Integers, Sequences, AsmConditions, AsmErrors, FiniteSets, SequencesExt

CONSTANTS
    Sources,     \* what the files may hold: functions from Files to lines
    Files, Main, \* file names, and the one on the command line
    Macros,      \* names of macros
    SectNames, Code,
    Labels,      \* local labels
    NoName,      \* no label, operand or argument
    Undef,       \* the value of what could not be evaluated
    MaxDepth,    \* max_program_depth (8)
    MaxPasses    \* option --max-passes

\* Operands: the numbers 0 and 1, the positional variable, and the symbol.
Operands == {"zero", "one", "pos", "flag"}

Line ==
    {l \in [label : Labels \cup Macros \cup {NoName},
            op  : {"none", "byte", "back", "fwd", "macro", "endm", "include", "call", "section",
                   "flag"} \cup CondOps,
            arg : Operands \cup Files \cup Macros \cup SectNames \cup Labels \cup {NoName},
            par : Operands \cup {NoName}] :
        /\ l.op = "include" => l.arg \in Files
        /\ l.op = "call" => l.arg \in Macros
        /\ l.op = "section" => l.arg \in SectNames
        /\ l.op \in {"back", "fwd"} => l.arg \in Labels}

ASSUME NamesAssumption ==
    /\ Main \in Files /\ Code \in SectNames
    /\ Files \cap Macros = {}
    /\ NoName \notin Files \cup Macros \cup SectNames \cup Labels \cup Operands
    /\ Undef \notin Int \cup {NoName}

ASSUME InputAssumption == Sources \subseteq [Files -> Seq(Line)]

ASSUME SizesAssumption == MaxDepth \in Nat \ {0} /\ MaxPasses \in Nat \ {0, 1}

VARIABLES
    files,    \* the files and their lines
    pass,     \* asm_pass
    level,    \* error_level
    frames,   \* the active calls of assemble_prog(), innermost last: the prog
              \* it assembles, the next line, the conditions, why it was
              \* called, the section to go back to, and as history
              \* the argument of a macro
    ctxs,     \* prog_ctx_stack, innermost last: contexts of the progs being
              \* assembled and of the macro being defined
    interp,   \* interp_stack, the arguments of the macros, innermost last
    defining, \* defining_macro_level, and defining_macro_ctx or NoCtx
    macros,   \* what the macros are: pass, lines, and as history the place
              \* of the MACRO line
    sects,    \* sections: pass, pc, last_pc, line_number, local_labels
    cur,      \* cur_section
    flag,     \* the pass in which FLAG was last defined, -1 for never
    phase,    \* "begin" a pass, in its "lines", "done", "failed", or stopped by
              \* an assertion that "aborted" or a "crash"
    trace     \* history: for every pass the places where local labels were
              \* given and used

vars == <<files, pass, level, frames, ctxs, interp, defining, macros, sects, cur, flag, phase,
          trace>>
-----------------------------------------------------------------------------
(* Contexts.  That of the i-th call of assemble_prog() has depth i; one for *)
(* a definition has type "definition".  prog->type of an expansion and of a *)
(* definition is prog_type_macro.                                           *)
NoCtx == [type |-> "none", prog |-> NoName, depth |-> 0]

CtxOf(type, prog, depth) == [type |-> type, prog |-> prog, depth |-> depth]

OfMacro(c) == c.type \in {"expansion", "definition"}

\* (mutant) an unfinished macro stays on the stack
FreeQuietly(stack, c) ==
    [stack |-> Front(stack), unfinished |-> FALSE, fails |-> FALSE]

\* prog_ctx_free(c): a macro that is on top of c is an unfinished one, and
\* goes too; then c itself must be on top.
Free(stack, c) ==
    LET unfinished == Last(stack) # c /\ OfMacro(Last(stack))
        rest == IF unfinished THEN Front(stack) ELSE stack IN
    [stack |-> IF rest = << >> THEN rest ELSE Front(rest),
     unfinished |-> unfinished,
     fails |-> rest = << >> \/ Last(rest) # c]

(* Sections and local labels. *)
NewSection == [pass |-> -1, pc |-> 0, last |-> 0, count |-> 0,
               labels |-> [l \in Labels |-> {}]]

\* section_set() for section s in pass p, in sections ss.
Selected(ss, s, p) ==
    IF ss[s].pass = p THEN ss
    ELSE [ss EXCEPT ![s] = [@ EXCEPT !.pass = p, !.count = 0,
              !.pc = IF ss[cur].pass = p THEN ss[cur].last ELSE 0]]

\* The definition of label l in section s that has the line number n.
DefinedAt(s, l, n) == {d \in s.labels[l] : d.line = n}

\* (mutant) the first definition of the label
BackFirst(s, l) ==
    {d \in s.labels[l] : d.line <= s.count /\ \A e \in s.labels[l] : d.line <= e.line}

\* symbol_local_backref(): the last definition up to this line.
Back(s, l) ==
    {d \in s.labels[l] :
        d.line <= s.count /\ \A e \in s.labels[l] : e.line <= s.count => e.line <= d.line}

\* symbol_local_fwdref(): the first definition after this line.
Fwd(s, l) ==
    {d \in s.labels[l] :
        d.line > s.count /\ \A e \in s.labels[l] : e.line > s.count => d.line <= e.line}

ValueOf(ds) == IF ds = {} THEN Undef ELSE (CHOOSE d \in ds : TRUE).val

\* symbol_local_set(): the definition replaces that of the same line.
SetLocal(s, l, v) ==
    [s EXCEPT !.labels[l] = (@ \ DefinedAt(s, l, s.count)) \cup {[line |-> s.count, val |-> v]}]

UnstableLocal(s, l, v) == \E d \in DefinedAt(s, l, s.count) : d.val # v
-----------------------------------------------------------------------------
Init ==
    /\ files \in Sources
    /\ pass = 0 /\ level = None /\ frames = << >> /\ ctxs = << >> /\ interp = << >>
    /\ defining = [level |-> 0, ctx |-> NoCtx]
    /\ macros = [m \in Macros |-> [pass |-> -1, lines |-> << >>, from |-> << >>]]
    /\ sects = [s \in SectNames |-> NewSection] /\ cur = Code
    /\ flag = -1 /\ phase = "begin" /\ trace = << >>

Frame(prog, kind, arg) ==
    [prog |-> prog, next |-> 1, cond |-> NoCond, kind |-> kind, back |-> cur, arg |-> arg]

\* assemble_prog() is called for prog by the last of the calls.
Call(prog, kind, arg, calls) ==
    /\ frames' = Append(calls, Frame(prog, kind, arg))
    /\ ctxs' = Append(ctxs, CtxOf(kind, prog, Len(calls) + 1))

\* The head of the loop in main().
BeginPass ==
    /\ phase = "begin"
    /\ level' = None
    /\ sects' = Selected(sects, Code, pass) /\ cur' = Code
    /\ trace' = Append(trace, {})
    /\ Call(Main, "file", NoName, << >>)
    /\ phase' = "lines"
    /\ UNCHANGED <<files, pass, interp, defining, macros, flag>>

top == Last(frames)

Lines(p) == IF p \in Files THEN files[p] ELSE macros[p].lines

line == Lines(top.prog)[top.next]

here == sects[cur]

\* The calls, when the innermost has taken its line.
Advanced == Append(Front(frames), [top EXCEPT !.next = @ + 1])

\* Every line, blank or not, advances the section's line number.
Counted == [sects EXCEPT ![cur].count = @ + 1]

AtLine == phase = "lines" /\ frames # << >> /\ top.next <= Len(Lines(top.prog))

IsBlank == line.op = "none" /\ line.label = NoName

Blank ==
    /\ AtLine /\ IsBlank
    /\ frames' = Advanced /\ sects' = Counted
    /\ UNCHANGED <<files, pass, level, ctxs, interp, defining, macros, cur, flag, phase, trace>>

(* The definition of macros. *)
StartsMacro == line.op = "macro" /\ ~ Excluded(top.cond)
EndsMacro == line.op = "endm" /\ ~ Excluded(top.cond)

\* (mutant) MACRO within a definition is a line like any other
CountOnce == IF EndsMacro /\ defining.level > 0 THEN defining.level - 1 ELSE defining.level

\* defining_macro_level after this line.
Nesting ==
    IF StartsMacro THEN defining.level + 1
    ELSE IF EndsMacro /\ defining.level > 0 THEN defining.level - 1
    ELSE defining.level

\* pseudo_macro(): a macro of an earlier pass is kept as it is, and the lines
\* that follow are lost.
StartMacro ==
    /\ AtLine /\ StartsMacro /\ defining.level = 0
    /\ frames' = Advanced /\ sects' = Counted
    /\ IF line.label \notin Macros
       THEN /\ level' = Raise(level, Syntax)
            /\ defining' = [defining EXCEPT !.level = 1]
            /\ UNCHANGED <<ctxs, macros>>
       ELSE IF macros[line.label].pass # -1
       THEN /\ level' = RaiseIf(macros[line.label].pass = pass, level, Syntax)
            /\ defining' = [defining EXCEPT !.level = 1]
            /\ UNCHANGED <<ctxs, macros>>
       ELSE LET ctx == CtxOf("definition", line.label, Len(frames)) IN
            /\ defining' = [level |-> 1, ctx |-> ctx]
            /\ ctxs' = Append(ctxs, ctx)
            /\ macros' = [macros EXCEPT ![line.label] =
                            [pass |-> pass, lines |-> << >>, from |-> <<top.prog, top.next>>]]
            /\ UNCHANGED level
    /\ UNCHANGED <<files, pass, interp, cur, flag, phase, trace>>

\* ENDM without MACRO, or pseudo_endm(), which refuses some arguments.
EndMacro ==
    /\ AtLine /\ EndsMacro /\ defining.level <= 1
    /\ frames' = Advanced /\ sects' = Counted
    /\ IF defining.level = 0
       THEN level' = Raise(level, Syntax) /\ UNCHANGED <<ctxs, defining, phase>>
       ELSE IF line.arg # NoName
       THEN /\ level' = Raise(level, Syntax)
            /\ defining' = [defining EXCEPT !.level = 0]
            /\ UNCHANGED <<ctxs, phase>>
       ELSE IF defining.ctx = NoCtx
       THEN defining' = [defining EXCEPT !.level = 0] /\ UNCHANGED <<ctxs, level, phase>>
       ELSE LET freed == Free(ctxs, defining.ctx) IN
            /\ defining' = [level |-> 0, ctx |-> NoCtx]
            /\ ctxs' = freed.stack
            /\ level' = RaiseIf(freed.unfinished, level, Syntax)
            /\ phase' = IF freed.fails THEN "aborted" ELSE phase
    /\ UNCHANGED <<files, pass, interp, macros, cur, flag, trace>>

\* defining_macro_ctx points to a context that has been freed.
Dangling == defining.ctx # NoCtx /\ ~ \E i \in 1 .. Len(ctxs) : ctxs[i] = defining.ctx

\* Another line of the definition.  A freed context may still hold what it did
\* or not: the line is added all the same, or the assembler crashes.
BodyLine ==
    /\ AtLine /\ ~ IsBlank
    /\ defining.level > 0 /\ Nesting > 0
    /\ frames' = Advanced /\ sects' = Counted
    /\ defining' = [defining EXCEPT !.level = Nesting]
    /\ \/ /\ macros' = IF defining.ctx = NoCtx THEN macros
                       ELSE [macros EXCEPT ![defining.ctx.prog].lines = Append(@, line)]
          /\ UNCHANGED phase
       \/ Dangling /\ phase' = "crash" /\ UNCHANGED macros
    /\ UNCHANGED <<files, pass, level, ctxs, interp, cur, flag, trace>>

(* Positional variables and operands. *)
\* interp_get(1) complains outside of macros and about a missing argument.
Missing(a) == a = "pos" /\ (interp = << >> \/ Last(interp) = NoName)

ValueOfOperand(a) ==
    IF Missing(a) THEN Undef
    ELSE IF a = "pos" THEN Last(interp)
    ELSE IF a = "flag" THEN IF flag = -1 THEN Undef ELSE 1
    ELSE IF a = "one" THEN 1
    ELSE 0

\* An operand that is undefined, even by an unknown symbol, is false.
Holds(a) == ValueOfOperand(a) \notin {0, Undef}

NotDefining == AtLine /\ ~ IsBlank /\ defining.level = 0

Conditional ==
    /\ NotDefining /\ line.op \in CondOps
    /\ LET step == CondStep(line.op, top.cond, Holds(line.arg)) IN
       frames' = Append(Front(frames), [top EXCEPT !.next = @ + 1, !.cond = step])
    /\ level' = RaiseIf(\/ Complaint(line.op, top.cond)
                        \/ Evaluates(line.op, top.cond) /\ Missing(line.arg), level, Syntax)
    /\ sects' = Counted
    /\ UNCHANGED <<files, pass, ctxs, interp, defining, macros, cur, flag, phase, trace>>

\* MACRO and ENDM are passed over too.
Excludes ==
    /\ AtLine /\ ~ IsBlank /\ defining.level = 0
    /\ line.op \notin CondOps /\ Excluded(top.cond)
    /\ frames' = Advanced /\ sects' = Counted
    /\ UNCHANGED <<files, pass, level, ctxs, interp, defining, macros, cur, flag, phase, trace>>

\* A line that is assembled.
Assembles(ops) ==
    /\ NotDefining /\ ~ Excluded(top.cond) /\ line.op \in ops
    /\ UNCHANGED <<files, pass, defining, macros>>

counted == Counted[cur]

\* set_label() of a local label, with the address that s then has.
Labelled(s) == IF line.label \in Labels THEN SetLocal(s, line.label, s.pc) ELSE s

Unstable(s) == line.label \in Labels /\ UnstableLocal(s, line.label, s.pc)

Given(s, name) ==
    IF line.label \notin Labels THEN {}
    ELSE {[sect |-> name, line |-> s.count, use |-> "label", label |-> line.label, val |-> s.pc]}

Used(val) == {[sect |-> cur, line |-> counted.count, use |-> line.op, label |-> line.arg,
               val |-> val]}

Traced(entries) == trace' = [trace EXCEPT ![Len(trace)] = @ \cup entries]

\* Lines with only a label, and those that emit a byte.  The operand is
\* evaluated before the label gets its value.
Plain ==
    LET s == counted
        val == CASE line.op = "back" -> ValueOf(Back(s, line.arg))
                 [] line.op = "fwd"  -> ValueOf(Fwd(s, line.arg))
                 [] line.op = "byte" -> ValueOfOperand(line.arg)
                 [] line.op = "none" -> 0
        size == IF line.op = "none" THEN 0 ELSE 1
        evaluated == IF line.op = "byte" /\ Missing(line.arg) THEN Raise(level, Syntax)
                     ELSE RaiseIf(val = Undef, level, Inconsistent) IN
    /\ Assembles({"none", "byte", "back", "fwd"})
    /\ level' = RaiseIf(Unstable(s), evaluated, Inconsistent)
    /\ sects' = [sects EXCEPT ![cur] = [Labelled(s) EXCEPT !.pc = @ + size]]
    /\ Traced(Given(s, cur) \cup IF line.op \in {"back", "fwd"} THEN Used(val) ELSE {})
    /\ frames' = Advanced
    /\ UNCHANGED <<ctxs, interp, cur, flag, phase>>

\* The symbol that FLAG defines has one value.
Flag ==
    /\ Assembles({"flag"})
    /\ level' = RaiseIf(flag = pass, level, Syntax)
    /\ flag' = pass
    /\ frames' = Advanced /\ sects' = Counted
    /\ UNCHANGED <<ctxs, interp, cur, phase, trace>>

\* The label of SECTION is one of the new section.
Section ==
    LET s == Selected(Counted, line.arg, pass)[line.arg] IN
    /\ Assembles({"section"})
    /\ cur' = line.arg
    /\ sects' = [Counted EXCEPT ![line.arg] = Labelled(s)]
    /\ level' = RaiseIf(Unstable(s), level, Inconsistent)
    /\ Traced(Given(s, line.arg))
    /\ frames' = Advanced
    /\ UNCHANGED <<ctxs, interp, flag, phase>>

\* (mutant) one call more than the options allow
OneTooDeep == Len(frames) > MaxDepth

TooDeep == Len(frames) >= MaxDepth

\* INCLUDE, and a macro with its arguments, which assemble_prog() may refuse.
Enters(prog, kind, arg) ==
    LET s == counted IN
    /\ sects' = [sects EXCEPT ![cur] = Labelled(s)]
    /\ Traced(Given(s, cur))
    /\ IF TooDeep
       THEN frames' = Advanced /\ UNCHANGED ctxs
       ELSE Call(prog, kind, arg, Advanced)
    /\ UNCHANGED <<cur, flag, phase>>

Include ==
    /\ Assembles({"include"})
    /\ Enters(line.arg, "file", NoName)
    /\ level' = RaiseIf(TooDeep, RaiseIf(Unstable(counted), level, Inconsistent), Fatal)
    /\ UNCHANGED interp

\* interp_push(), and interp_pop() at once if the macro is not entered.
Push(arg) == IF TooDeep THEN interp ELSE Append(interp, arg)

Expand ==
    LET arg == IF line.par = NoName THEN NoName ELSE ValueOfOperand(line.par)
        known == macros[line.arg].pass # -1
        before == RaiseIf(Unstable(counted),
                          RaiseIf(line.par = "flag" /\ arg = Undef,
                                  RaiseIf(Missing(line.par), level, Syntax), Inconsistent),
                          Inconsistent) IN
    /\ Assembles({"call"})
    /\ IF known
       THEN /\ Enters(line.arg, "expansion", arg)
            /\ interp' = Push(arg)
            /\ level' = RaiseIf(TooDeep, before, Fatal)
       ELSE /\ level' = Raise(before, Syntax)
            /\ sects' = [sects EXCEPT ![cur] = Labelled(counted)]
            /\ Traced(Given(counted, cur))
            /\ frames' = Advanced
            /\ UNCHANGED <<ctxs, interp, cur, flag, phase>>

\* interp_pop() after the expansion of a macro.
Pop == IF top.kind = "expansion" THEN Front(interp) ELSE interp

\* (mutant) the end of a macro is not noticed
AtEndOfFile ==
    phase = "lines" /\ frames # << >> /\ top.kind = "file" /\ top.next > Len(Lines(top.prog))

AtEnd == phase = "lines" /\ frames # << >> /\ top.next > Len(Lines(top.prog))

\* The end of assemble_prog(), and what pseudo_include() and the expansion do
\* after it.
Return ==
    LET freed == Free(ctxs, CtxOf(top.kind, top.prog, Len(frames))) IN
    /\ AtEnd
    /\ level' = RaiseIf(freed.unfinished, RaiseIf(top.cond.list # << >>, level, Syntax), Syntax)
    /\ ctxs' = freed.stack
    /\ frames' = Front(frames)
    /\ interp' = Pop
    /\ cur' = IF top.kind = "file" /\ Len(frames) > 1 THEN top.back ELSE cur
    /\ phase' = IF freed.fails THEN "aborted" ELSE phase
    /\ UNCHANGED <<files, pass, defining, macros, sects, flag, trace>>

\* section_finish_pass() and the decision in main().
Moved == {s \in SectNames : sects[s].last # sects[s].pc}

PassLevel == RaiseIf(Moved # {}, level, Inconsistent)

EndPass ==
    LET again == PassLevel = Inconsistent /\ pass + 1 < MaxPasses IN
    /\ phase = "lines" /\ frames = << >>
    /\ level' = PassLevel
    /\ sects' = [s \in SectNames |-> [sects[s] EXCEPT !.last = sects[s].pc]]
    /\ pass' = IF again THEN pass + 1 ELSE pass
    /\ phase' = IF again THEN "begin" ELSE IF PassLevel < Inconsistent THEN "done" ELSE "failed"
    /\ UNCHANGED <<files, frames, ctxs, interp, defining, macros, cur, flag, trace>>

Next ==
    \/ BeginPass \/ EndPass \/ Return
    \/ Blank \/ StartMacro \/ EndMacro \/ BodyLine
    \/ Conditional \/ Excludes
    \/ Plain \/ Flag \/ Section \/ Include \/ Expand

Spec == Init /\ [][Next]_vars

\* The assembler is a sequential program: it takes its next step.
FairSpec == Spec /\ WF_vars(Next)
-----------------------------------------------------------------------------
Value == Int \cup {NoName, Undef}

FrameType ==
    [prog : Files \cup Macros, next : Nat \ {0}, cond : CondType, kind : {"file", "expansion"},
     back : SectNames, arg : Value]

CtxType == [type : {"file", "expansion", "definition", "none"},
            prog : Files \cup Macros \cup {NoName}, depth : Nat]

MacroType == [pass : Nat \cup {-1}, lines : Seq(Line),
              from : {<< >>} \cup (Files \cup Macros) \X Nat]

Local == [line : Nat, val : Nat]

SectionType == [pass : Nat \cup {-1}, pc : Nat, last : Nat, count : Nat,
                labels : [Labels -> SUBSET Local]]

\* The types of the variables; no more calls than the options allow.
TypeOK ==
    /\ files \in [Files -> Seq(Line)]
    /\ pass \in 0 .. MaxPasses - 1 /\ level \in None .. Fatal
    /\ frames \in Seq(FrameType) /\ Len(frames) <= MaxDepth
    /\ ctxs \in Seq(CtxType) /\ interp \in Seq(Value)
    /\ defining \in [level : Nat, ctx : CtxType]
    /\ macros \in [Macros -> MacroType]
    /\ sects \in [SectNames -> SectionType] /\ cur \in SectNames
    /\ flag \in Nat \cup {-1}
    /\ phase \in {"begin", "lines", "done", "failed", "aborted", "crash"}

Clean == level < Syntax

\* The context on top, where errors are reported, is that of the innermost call
\* or of the macro being defined by it.
ContextsMatch ==
    Clean =>
        /\ Len(ctxs) = Len(frames) + (IF defining.ctx = NoCtx THEN 0 ELSE 1)
        /\ \A i \in 1 .. Len(frames) : ctxs[i] = CtxOf(frames[i].kind, frames[i].prog, i)
        /\ defining.ctx # NoCtx => Last(ctxs) = defining.ctx

\* How many of the first n calls are for macros.
Expansions(calls, n) == Cardinality({i \in 1 .. n : calls[i].kind = "expansion"})

\* A positional variable is the argument of the innermost macro.
ArgumentsMatch ==
    /\ Len(interp) = Expansions(frames, Len(frames))
    /\ \A i \in 1 .. Len(frames) :
         frames[i].kind = "expansion" => interp[Expansions(frames, i)] = frames[i].arg

\* The three stacks agree.  As long as nothing was wrong with the syntax, the
\* contexts are those of the calls, and no context is freed that is not on top
\* or used after it was freed; the arguments are those of the macros even then.
StacksMatch ==
    /\ ContextsMatch /\ ArgumentsMatch
    /\ phase \in {"aborted", "crash"} => ~ Clean

\* How many of the definitions begun from line i on are open after line j.
Open(lines, i, j) ==
    Cardinality({k \in i .. j : lines[k].op = "macro"})
        - Cardinality({k \in i .. j : lines[k].op = "endm"})

\* The lines i .. j of a text that are not blank.
Spelt(text, i, j) == {k \in i .. j : text[k].op # "none" \/ text[k].label # NoName}

\* The lines are these, in their order.
Spells(lines, text, i, j) ==
    /\ Len(lines) = Cardinality(Spelt(text, i, j))
    /\ \A k \in Spelt(text, i, j) : lines[Cardinality(Spelt(text, i, k))] = text[k]

\* The lines are those between the MACRO on line i and the ENDM that belongs to it.
IsDefinition(lines, text, i) ==
    \E j \in i + 1 .. Len(text) :
        /\ Open(text, i, j) = 0
        /\ \A k \in i .. j - 1 : Open(text, i, k) > 0
        /\ Spells(lines, text, i + 1, j - 1)

\* A macro is the lines, but for blank ones, between its MACRO and the ENDM
\* that belongs to it, other definitions in between included.
MacroIsItsText ==
    phase = "done" =>
        \A m \in Macros : macros[m].pass # -1 =>
            IsDefinition(macros[m].lines, Lines(macros[m].from[1]), macros[m].from[2])

\* What the local reference r should be: the nearest definition of the label
\* in its section that the last pass met.
Nearest(r) ==
    LET ds == {d \in trace[Len(trace)] :
                 d.use = "label" /\ d.sect = r.sect /\ d.label = r.label} IN
    IF r.use = "back"
    THEN {d.val : d \in {d \in ds : d.line <= r.line /\
                             \A e \in ds : e.line <= r.line => e.line <= d.line}}
    ELSE {d.val : d \in {d \in ds : d.line > r.line /\
                             \A e \in ds : e.line > r.line => d.line <= e.line}}

\* Every local reference of a successful assembly is to its nearest definition.
LocalsAreNearest ==
    phase = "done" =>
        \A r \in trace[Len(trace)] : r.use # "label" => Nearest(r) = {r.val}

\* Where local labels were given and used in pass p, without their values.
Places(p) == {[sect |-> t.sect, line |-> t.line, use |-> t.use, label |-> t.label] : t \in trace[p]}

\* If every pass gives and uses the local labels on the same lines, which the
\* README asks for, then a local reference of a successful assembly is to the
\* nearest definition, although what it finds in the table may be from the pass
\* before.
SteadyLocals ==
    (\A p \in 1 .. Len(trace) : Places(p) = Places(Len(trace))) => LocalsAreNearest

\* program.c: a context that is freed is on top of the stack, or below a macro
\* that has not been finished.
OnlyTheTopIsFreed == phase # "aborted"

\* Assembly ends, even if files include themselves and macros expand or define
\* each other without end.
Terminates == <>(phase \in {"done", "failed", "aborted", "crash"})
=============================================================================
