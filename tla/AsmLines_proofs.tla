-------------------------- MODULE AsmLines_proofs --------------------------
(***************************************************************************)
(* Proofs about AsmLines for all files, macros, sections and labels and    *)
(* all limits of depth and passes: the types, that the stacks agree, that  *)
(* local references are to the nearest definition, and that macros are the *)
(* text of their definition.                                               *)
(***************************************************************************)
EXTENDS AsmLines, SequenceTheorems, FiniteSetTheorems, TLAPS

USE DEF None, Inefficient, Illegal, Inconsistent, OutOfRange, Syntax, Data, Fatal

(* The error level and the conditions. *)
Level == None .. Fatal

\* An error never lowers a level that leads to another pass or to failure, nor
\* one that says that something was wrong with the syntax.
LEMMA RaiseKeeps ==
    ASSUME NEW lev \in Level, NEW type \in Level, NEW wrong \in BOOLEAN
    PROVE  /\ Raise(lev, type) \in Level /\ RaiseIf(wrong, lev, type) \in Level
           /\ RaiseIf(wrong, lev, type) < Inconsistent => lev < Inconsistent
           /\ RaiseIf(wrong, lev, type) < Inconsistent /\ type >= Inconsistent => ~ wrong
           /\ RaiseIf(wrong, lev, type) < Syntax => lev < Syntax
           /\ RaiseIf(wrong, lev, type) < Syntax /\ type >= Syntax => ~ wrong
BY DEF Raise, RaiseIf, Level

\* A pseudo-op of the conditional assembly keeps the type of its state.
LEMMA CondStepType ==
    ASSUME NEW c \in CondType, NEW op \in CondOps, NEW holds \in BOOLEAN
    PROVE  CondStep(op, c, holds) \in CondType
<1>1. c.list \in Seq(CondState) /\ c.out \in Nat /\ Len(c.list) \in Nat
  BY DEF CondType
<1>2. CASE Complaint(op, c)
  BY <1>2 DEF CondStep
<1>3. CASE op = "if"
  <2>1. Append(c.list, "if") \in Seq(CondState) /\ Append(c.list, "if_done") \in Seq(CondState)
    BY <1>1 DEF CondState
  <2> QED
    BY <1>3, <2>1, <1>1 DEF CondStep, Complaint, CondIf, CondType
<1>4. CASE op # "if" /\ ~ Complaint(op, c)
  <2>1. c.list # << >> /\ Len(c.list) \in 1 .. Len(c.list)
    BY <1>1, <1>4, EmptySeq DEF Complaint, CondOps
  <2>2. /\ SetInnermost(c, "if_done") \in Seq(CondState)
        /\ SetInnermost(c, "else") \in Seq(CondState)
    BY <1>1, <2>1, ExceptSeq DEF SetInnermost, CondState
  <2>3. Enclosing(c) \in Seq(CondState)
    BY <1>1, <2>1, SubSeqProperties DEF Enclosing
  <2> QED
    BY <1>1, <1>4, <2>2, <2>3
       DEF CondStep, CondElsif, CondElse, CondEndif, CondType, CondOps
<1> QED
  BY <1>2, <1>3, <1>4

-----------------------------------------------------------------------------
\* The end of a sequence.
LEMMA FrontLast ==
    ASSUME NEW S, NEW s \in Seq(S)
    PROVE  /\ Front(s) \in Seq(S) /\ Len(s) \in Nat
           /\ s # << >> => /\ Len(s) > 0 /\ Len(Front(s)) = Len(s) - 1
                           /\ Last(s) \in S
                           /\ \A i \in 1 .. Len(s) - 1 : Front(s)[i] = s[i]
           /\ s = << >> => Len(s) = 0
<1>1. Len(s) \in Nat /\ s \in [1 .. Len(s) -> S]
  BY LenProperties
<1> DEFINE n == Len(s)
<1>2. \A i \in 1 .. n - 1 : s[i] \in S
  BY <1>1
<1> HIDE DEF n
<1>3. n \in Nat
  BY <1>1 DEF n
<1>4. /\ Front(s) \in Seq(S)
      /\ Len(Front(s)) = IF 1 <= n - 1 THEN (n - 1) - 1 + 1 ELSE 0
      /\ \A i \in 1 .. (n - 1) - 1 + 1 : Front(s)[i] = s[1 + i - 1]
  BY <1>2, <1>3, SubSeqProperties DEF Front, n
<1>5. \A i \in 1 .. n - 1 : Front(s)[i] = s[i]
  <2> SUFFICES ASSUME NEW i \in 1 .. n - 1 PROVE Front(s)[i] = s[i]
    OBVIOUS
  <2>1. i \in 1 .. (n - 1) - 1 + 1 /\ 1 + i - 1 = i
    BY <1>3
  <2> QED
    BY <1>4, <2>1
<1>6. (s # << >> => n > 0) /\ (s = << >> => n = 0)
  BY <1>3, EmptySeq DEF n
<1>7. n > 0 => Len(Front(s)) = n - 1
  BY <1>3, <1>4
<1>8. n > 0 => s[n] \in S
  BY <1>1, <1>3 DEF n
<1> QED
  BY <1>1, <1>4, <1>5, <1>6, <1>7, <1>8 DEF Last, n

\* The calls without the next line: what the stacks are compared with.
SameCalls(calls) ==
    /\ calls \in Seq(FrameType) /\ Len(calls) = Len(frames)
    /\ \A i \in 1 .. Len(frames) : /\ calls[i].kind = frames[i].kind
                                  /\ calls[i].prog = frames[i].prog
                                  /\ calls[i].arg = frames[i].arg
                                  /\ calls[i].back = frames[i].back

\* The innermost call may take a line, and change its conditions.
LEMMA SameCallsTop ==
    ASSUME TypeOK, frames # << >>, NEW c \in CondType
    PROVE  /\ SameCalls(Advanced)
           /\ SameCalls(Append(Front(frames), [top EXCEPT !.next = @ + 1, !.cond = c]))
<1>1. /\ top \in FrameType /\ top = frames[Len(frames)] /\ Len(frames) \in Nat /\ Len(frames) > 0
      /\ Front(frames) \in Seq(FrameType) /\ Len(Front(frames)) = Len(frames) - 1
      /\ \A i \in 1 .. Len(frames) - 1 : Front(frames)[i] = frames[i]
  BY FrontLast DEF TypeOK, top, Last
<1>2. ASSUME NEW t \in FrameType, t.kind = top.kind, t.prog = top.prog, t.arg = top.arg,
             t.back = top.back
      PROVE  SameCalls(Append(Front(frames), t))
  <2>1. /\ Append(Front(frames), t) \in Seq(FrameType)
        /\ Len(Append(Front(frames), t)) = Len(frames)
        /\ \A i \in 1 .. Len(frames) - 1 : Append(Front(frames), t)[i] = frames[i]
        /\ Append(Front(frames), t)[Len(frames)] = t
    BY <1>1, AppendProperties
  <2> QED
    BY <1>1, <1>2, <2>1 DEF SameCalls
<1>3. [top EXCEPT !.next = @ + 1] \in FrameType
  BY <1>1 DEF FrameType
<1>4. [top EXCEPT !.next = @ + 1, !.cond = c] \in FrameType
  <2>1. [[top EXCEPT !.next = @ + 1] EXCEPT !.cond = c] \in FrameType
    BY <1>3 DEF FrameType
  <2> QED
    BY <2>1
<1>5. SameCalls(Advanced)
  <2> DEFINE t == [top EXCEPT !.next = @ + 1]
  <2>1. t \in FrameType /\ t.kind = top.kind /\ t.prog = top.prog /\ t.arg = top.arg
        /\ t.back = top.back
    BY <1>1, <1>3 DEF FrameType
  <2> HIDE DEF t
  <2>2. SameCalls(Append(Front(frames), t))
    BY <1>2, <2>1
  <2> QED
    BY <2>2 DEF Advanced, t
<1>6. SameCalls(Append(Front(frames), [top EXCEPT !.next = @ + 1, !.cond = c]))
  <2> DEFINE t == [top EXCEPT !.next = @ + 1, !.cond = c]
  <2>1. t \in FrameType /\ t.kind = top.kind /\ t.prog = top.prog /\ t.arg = top.arg
        /\ t.back = top.back
    BY <1>1, <1>4 DEF FrameType
  <2> HIDE DEF t
  <2>2. SameCalls(Append(Front(frames), t))
    BY <1>2, <2>1
  <2> QED
    BY <2>2 DEF t
<1> QED
  BY <1>5, <1>6

LEMMA SameCallsAdvanced ==
    ASSUME TypeOK, frames # << >>
    PROVE  SameCalls(Advanced)
<1>1. NoCond \in CondType
  BY EmptySeq DEF NoCond, CondType
<1> QED
  BY <1>1, SameCallsTop

\* What holds at every line.
LEMMA LineTypes ==
    ASSUME TypeOK, AtLine
    PROVE  /\ phase = "lines" /\ frames # << >> /\ top \in FrameType /\ line \in Line
           /\ Advanced \in Seq(FrameType) /\ Len(Advanced) = Len(frames)
           /\ Counted \in [SectNames -> SectionType] /\ counted \in SectionType
           /\ level \in Level
<1>1. phase = "lines" /\ frames # << >> /\ top.next <= Len(Lines(top.prog))
  BY DEF AtLine
<1>2. top \in FrameType
  BY <1>1, FrontLast DEF TypeOK, top
<1>3. Lines(top.prog) \in Seq(Line)
  BY <1>2 DEF TypeOK, Lines, FrameType, MacroType
<1>4. line \in Line
  <2>1. Len(Lines(top.prog)) \in Nat
    BY <1>3, LenProperties
  <2>2. top.next \in 1 .. Len(Lines(top.prog))
    BY <1>1, <1>2, <2>1 DEF FrameType
  <2> QED
    BY <1>3, <2>2, ElementOfSeq DEF line
<1>5. SameCalls(Advanced)
  BY <1>1, SameCallsAdvanced
<1>6. Counted \in [SectNames -> SectionType]
  <2>1. ASSUME NEW s \in SectionType PROVE [s EXCEPT !.count = @ + 1] \in SectionType
    BY DEF SectionType
  <2>2. sects[cur] \in SectionType
    BY DEF TypeOK
  <2>3. [sects[cur] EXCEPT !.count = @ + 1] \in SectionType
    BY <2>1, <2>2
  <2> QED
    BY <2>3 DEF Counted, TypeOK
<1>7. counted \in SectionType
  BY <1>6 DEF counted, TypeOK
<1>8. level \in Level
  BY DEF TypeOK, Level
<1> QED
  BY <1>1, <1>2, <1>4, <1>5, <1>6, <1>7, <1>8 DEF SameCalls

LEMMA LabelledType ==
    ASSUME NEW s \in SectionType
    PROVE  Labelled(s) \in SectionType /\ Unstable(s) \in BOOLEAN
<1>1. Unstable(s) \in BOOLEAN
  BY DEF Unstable, UnstableLocal
<1>2. ASSUME line.label \in Labels
      PROVE  SetLocal(s, line.label, s.pc) \in SectionType
  <2>1. [line |-> s.count, val |-> s.pc] \in Local
    BY DEF SectionType, Local
  <2>2. (s.labels[line.label] \ DefinedAt(s, line.label, s.count))
           \cup {[line |-> s.count, val |-> s.pc]} \in SUBSET Local
    BY <1>2, <2>1 DEF SectionType
  <2> QED
    BY <1>2, <2>2 DEF SetLocal, SectionType
<1> QED
  BY <1>1, <1>2 DEF Labelled

LEMMA SelectedType ==
    ASSUME NEW ss \in [SectNames -> SectionType], NEW s \in SectNames, NEW p \in Nat,
           cur \in SectNames
    PROVE  Selected(ss, s, p) \in [SectNames -> SectionType]
<1> DEFINE pc == IF ss[cur].pass = p THEN ss[cur].last ELSE 0
           new == [ss[s] EXCEPT !.pass = p, !.count = 0, !.pc = pc]
<1>1. ss[s] \in SectionType /\ pc \in Nat
  BY DEF SectionType
<1> HIDE DEF pc
<1>2. new \in SectionType
  BY <1>1 DEF SectionType
<1>3. Selected(ss, s, p) = IF ss[s].pass = p THEN ss ELSE [ss EXCEPT ![s] = new]
  BY DEF Selected, pc
<1> HIDE DEF new
<1> QED
  BY <1>2, <1>3

\* A positional variable is the last argument, if there is one.
LEMMA OperandTypes ==
    ASSUME TypeOK, NEW a
    PROVE  ValueOfOperand(a) \in Value /\ Missing(a) \in BOOLEAN /\ Holds(a) \in BOOLEAN
<1>1. Missing(a) \in BOOLEAN /\ Holds(a) \in BOOLEAN
  BY DEF Missing, Holds
<1>2. a = "pos" /\ ~ Missing(a) => Last(interp) \in Value
  BY FrontLast DEF Missing, TypeOK
<1> QED
  BY <1>1, <1>2 DEF ValueOfOperand, Value

LEMMA FreeType ==
    ASSUME TypeOK, NEW c
    PROVE  /\ Free(ctxs, c).stack \in Seq(CtxType)
           /\ Free(ctxs, c).unfinished \in BOOLEAN /\ Free(ctxs, c).fails \in BOOLEAN
<1>1. ctxs \in Seq(CtxType) /\ Front(ctxs) \in Seq(CtxType) /\ Front(Front(ctxs)) \in Seq(CtxType)
  BY FrontLast DEF TypeOK
<1> QED
  BY <1>1 DEF Free, OfMacro

\* A call of assemble_prog() by the last of the calls f.
LEMMA CallType ==
    ASSUME TypeOK, NEW f \in Seq(FrameType), Len(f) < MaxDepth,
           NEW p \in Files \cup Macros, NEW kind \in {"file", "expansion"}, NEW arg \in Value,
           Call(p, kind, arg, f)
    PROVE  frames' \in Seq(FrameType) /\ Len(frames') <= MaxDepth /\ ctxs' \in Seq(CtxType)
<1>1. Frame(p, kind, arg) \in FrameType
  BY EmptySeq DEF Frame, FrameType, TypeOK, NoCond, CondType
<1>2. Len(f) \in Nat
  BY LenProperties
<1>3. CtxOf(kind, p, Len(f) + 1) \in CtxType
  BY <1>2 DEF CtxOf, CtxType
<1>4. Append(ctxs, CtxOf(kind, p, Len(f) + 1)) \in Seq(CtxType)
  BY <1>3, AppendProperties DEF TypeOK
<1>5. Append(f, Frame(p, kind, arg)) \in Seq(FrameType) /\ Len(Append(f, Frame(p, kind, arg))) = Len(f) + 1
  BY <1>1, AppendProperties
<1> QED
  BY <1>2, <1>4, <1>5, SizesAssumption DEF Call
-----------------------------------------------------------------------------
LEMMA RaiseType ==
    ASSUME NEW lev \in Level, NEW type \in {Inconsistent, Syntax, Fatal}
    PROVE  /\ Raise(lev, type) \in Level
           /\ Raise(lev, type) < Syntax => lev < Syntax /\ type = Inconsistent
BY DEF Raise, Level

LEMMA TypeInit == Init => TypeOK
<1> SUFFICES ASSUME Init PROVE TypeOK
  OBVIOUS
<1>1. NewSection \in SectionType
  BY DEF NewSection, SectionType
<1>2. frames \in Seq(FrameType) /\ Len(frames) = 0 /\ ctxs \in Seq(CtxType) /\ interp \in Seq(Value)
  BY EmptySeq DEF Init
<1>3. [pass |-> -1, lines |-> << >>, from |-> << >>] \in MacroType
  BY EmptySeq DEF MacroType
<1> QED
  BY <1>1, <1>2, <1>3, NamesAssumption, InputAssumption, SizesAssumption
     DEF Init, TypeOK, CtxType, NoCtx

LEMMA TypeBeginPass == TypeOK /\ BeginPass => TypeOK'
<1> SUFFICES ASSUME TypeOK, BeginPass PROVE TypeOK'
  OBVIOUS
<1>1. pass \in Nat
  BY SizesAssumption DEF TypeOK
<1>2. sects' \in [SectNames -> SectionType]
  BY <1>1, SelectedType, NamesAssumption DEF BeginPass, TypeOK
<1> DEFINE none == << >>
<1>3. none \in Seq(FrameType) /\ Len(none) < MaxDepth /\ NoName \in Value
  BY EmptySeq, SizesAssumption DEF Value
<1>4. frames' \in Seq(FrameType) /\ Len(frames') <= MaxDepth /\ ctxs' \in Seq(CtxType)
  <2>1. Call(Main, "file", NoName, none)
    BY DEF BeginPass
  <2> HIDE DEF none
  <2>2. Main \in Files \cup Macros /\ "file" \in {"file", "expansion"}
    BY NamesAssumption
  <2> QED
    BY <1>3, <2>1, <2>2, CallType
<1> QED
  BY <1>2, <1>4, NamesAssumption DEF BeginPass, TypeOK

LEMMA TypeEndPass == TypeOK /\ EndPass => TypeOK'
<1> SUFFICES ASSUME TypeOK, EndPass PROVE TypeOK'
  OBVIOUS
<1>1. PassLevel \in None .. Fatal
  BY RaiseType DEF PassLevel, RaiseIf, TypeOK, Level
<1>2. ASSUME NEW s \in SectNames PROVE [sects[s] EXCEPT !.last = sects[s].pc] \in SectionType
  BY DEF TypeOK, SectionType
<1>3. pass' \in 0 .. MaxPasses - 1
  BY SizesAssumption DEF EndPass, TypeOK
<1> QED
  BY <1>1, <1>2, <1>3 DEF EndPass, TypeOK

LEMMA TypeReturn == TypeOK /\ Return => TypeOK'
<1> SUFFICES ASSUME TypeOK, Return PROVE TypeOK'
  OBVIOUS
<1> DEFINE freed == Free(ctxs, CtxOf(top.kind, top.prog, Len(frames)))
<1>1. freed.stack \in Seq(CtxType) /\ freed.unfinished \in BOOLEAN
  BY FreeType
<1>2. frames # << >> /\ top \in FrameType /\ Len(frames) \in Nat
      /\ Front(frames) \in Seq(FrameType) /\ Len(Front(frames)) = Len(frames) - 1
  BY FrontLast DEF TypeOK, top, Return, AtEnd
<1>3. Pop \in Seq(Value)
  BY FrontLast DEF Pop, TypeOK
<1>4. level' \in Level
  <2>1. level \in Level /\ Syntax \in Level
    BY DEF TypeOK, Level
  <2>2. (top.cond.list # << >>) \in BOOLEAN
    OBVIOUS
  <2>3. RaiseIf(top.cond.list # << >>, level, Syntax) \in Level
    BY <2>1, <2>2, RaiseKeeps
  <2> QED
    BY <1>1, <2>1, <2>3, RaiseKeeps DEF Return
<1>5. cur' \in SectNames
  BY <1>2 DEF Return, TypeOK, FrameType
<1>6. frames' \in Seq(FrameType) /\ Len(frames') <= MaxDepth
  BY <1>2, SizesAssumption DEF Return, TypeOK
<1>7. phase' \in {"begin", "lines", "done", "failed", "aborted", "crash"}
  BY DEF Return, TypeOK
<1> QED
  BY <1>1, <1>3, <1>4, <1>5, <1>6, <1>7 DEF Return, TypeOK, Level

\* The lines that leave the program where it is.
LEMMA TypeQuiet ==
    ASSUME TypeOK, Blank \/ Excludes \/ Conditional \/ Flag
    PROVE  TypeOK'
<1>1. AtLine
  BY DEF Blank, Excludes, Conditional, Flag, Assembles, NotDefining
<1>2. /\ Advanced \in Seq(FrameType) /\ Len(Advanced) = Len(frames)
      /\ Counted \in [SectNames -> SectionType] /\ level \in Level /\ frames # << >>
      /\ top \in FrameType
  BY <1>1, LineTypes
<1>3. CASE Blank
  BY <1>2, <1>3 DEF Blank, TypeOK
<1>4. CASE Excludes
  BY <1>2, <1>4 DEF Excludes, TypeOK
<1>5. CASE Conditional
  <2> DEFINE step == CondStep(line.op, top.cond, Holds(line.arg))
  <2>1. step \in CondType
    BY <1>2, <1>5, OperandTypes, CondStepType DEF Conditional, FrameType
  <2>2. frames' \in Seq(FrameType) /\ Len(frames') = Len(frames)
    <3>1. frames' = Append(Front(frames), [top EXCEPT !.next = @ + 1, !.cond = step])
      BY <1>5 DEF Conditional
    <3> HIDE DEF step
    <3> QED
      BY <1>2, <2>1, <3>1, SameCallsTop DEF SameCalls
  <2>3. level' \in None .. Fatal
    BY <1>2, <1>5, RaiseType DEF Conditional, Level, RaiseIf
  <2> QED
    BY <1>2, <1>5, <2>2, <2>3 DEF Conditional, TypeOK
<1>6. CASE Flag
  <2>1. level' \in None .. Fatal
    BY <1>2, <1>6, RaiseType DEF Flag, Level, RaiseIf
  <2>2. pass \in Nat
    BY SizesAssumption DEF TypeOK
  <2> QED
    BY <1>2, <1>6, <2>1, <2>2 DEF Flag, Assembles, TypeOK
<1> QED
  BY <1>3, <1>4, <1>5, <1>6

\* The lines that make macros.
LEMMA TypeMacros ==
    ASSUME TypeOK, StartMacro \/ EndMacro \/ BodyLine
    PROVE  TypeOK'
<1>1. AtLine
  BY DEF StartMacro, EndMacro, BodyLine
<1>2. /\ Advanced \in Seq(FrameType) /\ Len(Advanced) = Len(frames)
      /\ Counted \in [SectNames -> SectionType] /\ level \in Level
      /\ top \in FrameType /\ line \in Line /\ Len(frames) \in Nat /\ pass \in Nat
      /\ Raise(level, Syntax) \in None .. Fatal
  <2>1. Raise(level, Syntax) \in None .. Fatal /\ pass \in Nat
    BY RaiseType, SizesAssumption DEF TypeOK, Level
  <2>2. Len(frames) \in Nat
    BY FrontLast DEF TypeOK
  <2> QED
    BY <1>1, LineTypes, <2>1, <2>2
<1>3. CASE StartMacro
  <2>1. [defining EXCEPT !.level = 1] \in [level : Nat, ctx : CtxType]
    BY DEF TypeOK
  <2>2. CASE line.label \notin Macros
    BY <1>2, <1>3, <2>1, <2>2 DEF StartMacro, TypeOK
  <2>3. CASE line.label \in Macros /\ macros[line.label].pass # -1
    BY <1>2, <1>3, <2>1, <2>3 DEF StartMacro, RaiseIf, TypeOK, Level
  <2>4. CASE line.label \in Macros /\ macros[line.label].pass = -1
    <3> DEFINE ctx == CtxOf("definition", line.label, Len(frames))
               new == [pass |-> pass, lines |-> << >>, from |-> <<top.prog, top.next>>]
    <3>1. ctx \in CtxType
      BY <1>2, <2>4 DEF CtxOf, CtxType
    <3>2. new \in MacroType
      BY <1>2, EmptySeq DEF MacroType, FrameType
    <3>3. /\ defining' = [level |-> 1, ctx |-> ctx] /\ ctxs' = Append(ctxs, ctx)
          /\ macros' = [macros EXCEPT ![line.label] = new]
          /\ frames' = Advanced /\ sects' = Counted
          /\ UNCHANGED <<level, files, pass, interp, cur, flag, phase, trace>>
      BY <1>3, <2>4 DEF StartMacro
    <3> HIDE DEF ctx, new
    <3>4. Append(ctxs, ctx) \in Seq(CtxType)
      BY <3>1, AppendProperties DEF TypeOK
    <3> QED
      BY <1>2, <3>1, <3>2, <3>3, <3>4 DEF TypeOK
  <2> QED
    BY <2>2, <2>3, <2>4
<1>4. CASE EndMacro
  <2> DEFINE freed == Free(ctxs, defining.ctx)
  <2>1. freed.stack \in Seq(CtxType) /\ freed.unfinished \in BOOLEAN
    BY FreeType
  <2>2. defining' \in [level : Nat, ctx : CtxType]
    <3>1. [level |-> 0, ctx |-> NoCtx] \in [level : Nat, ctx : CtxType]
      BY DEF NoCtx, CtxType
    <3>2. [defining EXCEPT !.level = 0] \in [level : Nat, ctx : CtxType]
      BY DEF TypeOK
    <3> HIDE DEF freed
    <3>3. defining' \in {defining, [defining EXCEPT !.level = 0], [level |-> 0, ctx |-> NoCtx]}
      BY <1>4 DEF EndMacro
    <3> QED
      BY <3>1, <3>2, <3>3 DEF TypeOK
  <2>3. RaiseIf(freed.unfinished, level, Syntax) \in None .. Fatal
    BY <1>2 DEF RaiseIf, Level
  <2> HIDE DEF freed
  <2>4. /\ ctxs' \in {ctxs, freed.stack} /\ phase' \in {phase, "aborted"}
        /\ level' \in {level, Raise(level, Syntax), RaiseIf(freed.unfinished, level, Syntax)}
    BY <1>4 DEF EndMacro, freed
  <2> QED
    BY <1>2, <1>4, <2>1, <2>2, <2>3, <2>4 DEF EndMacro, TypeOK
<1>5. CASE BodyLine
  <2>1. defining' \in [level : Nat, ctx : CtxType]
    <3>1. defining.level \in Nat
      BY DEF TypeOK
    <3>2. Nesting \in Nat
      BY <3>1 DEF Nesting
    <3>3. [defining EXCEPT !.level = Nesting] \in [level : Nat, ctx : CtxType]
      BY <3>2 DEF TypeOK
    <3> QED
      BY <1>5, <3>3 DEF BodyLine
  <2>2. [macros EXCEPT ![defining.ctx.prog].lines = Append(@, line)] \in [Macros -> MacroType]
    <3>1. ASSUME NEW m \in MacroType PROVE [m EXCEPT !.lines = Append(@, line)] \in MacroType
      BY <1>2, AppendProperties DEF MacroType
    <3>2. ASSUME defining.ctx.prog \in Macros
          PROVE  [macros[defining.ctx.prog] EXCEPT !.lines = Append(@, line)] \in MacroType
      BY <3>1, <3>2 DEF TypeOK
    <3> QED
      BY <3>2 DEF TypeOK
  <2> QED
    BY <1>2, <1>5, <2>1, <2>2 DEF BodyLine, TypeOK
<1> QED
  BY <1>3, <1>4, <1>5

\* The lines that are assembled in the call they are in.
LEMMA TypePlain == TypeOK /\ Plain => TypeOK'
<1> SUFFICES ASSUME TypeOK, Plain PROVE TypeOK'
  OBVIOUS
<1>1. AtLine
  BY DEF Plain, Assembles, NotDefining
<1>2. /\ Advanced \in Seq(FrameType) /\ Len(Advanced) = Len(frames) /\ level \in Level
      /\ counted \in SectionType
  BY <1>1, LineTypes
<1>3. level' \in None .. Fatal
  <2>1. \E val : level' = RaiseIf(Unstable(counted),
                             IF line.op = "byte" /\ Missing(line.arg) THEN Raise(level, Syntax)
                             ELSE RaiseIf(val = Undef, level, Inconsistent), Inconsistent)
    BY DEF Plain
  <2> QED
    BY <1>2, <2>1, RaiseType DEF RaiseIf, Level
<1>4. \E n \in {0, 1} : sects' = [sects EXCEPT ![cur] = [Labelled(counted) EXCEPT !.pc = @ + n]]
  BY DEF Plain
<1>5. ASSUME NEW s \in SectionType, NEW n \in {0, 1} PROVE [s EXCEPT !.pc = @ + n] \in SectionType
  BY DEF SectionType
<1>6. sects' \in [SectNames -> SectionType]
  <2>1. PICK n \in {0, 1} : sects' = [sects EXCEPT ![cur] = [Labelled(counted) EXCEPT !.pc = @ + n]]
    BY <1>4
  <2>2. [Labelled(counted) EXCEPT !.pc = @ + n] \in SectionType
    BY <1>2, <1>5, LabelledType
  <2> QED
    BY <2>1, <2>2 DEF TypeOK
<1>7. UNCHANGED <<files, pass, defining, macros, ctxs, interp, cur, flag, phase>> /\ frames' = Advanced
  BY DEF Plain, Assembles
<1> QED
  BY <1>2, <1>3, <1>6, <1>7 DEF TypeOK

LEMMA TypeSection == TypeOK /\ Section => TypeOK'
<1> SUFFICES ASSUME TypeOK, Section PROVE TypeOK'
  OBVIOUS
<1>1. AtLine /\ line.op = "section"
  BY DEF Section, Assembles, NotDefining
<1>2. /\ Advanced \in Seq(FrameType) /\ Len(Advanced) = Len(frames) /\ level \in Level
      /\ Counted \in [SectNames -> SectionType] /\ line \in Line
  BY <1>1, LineTypes
<1>3. line.arg \in SectNames
  BY <1>1, <1>2 DEF Line
<1> DEFINE s == Selected(Counted, line.arg, pass)[line.arg]
<1>4. s \in SectionType
  <2>1. pass \in Nat /\ cur \in SectNames
    BY SizesAssumption DEF TypeOK
  <2>2. Selected(Counted, line.arg, pass) \in [SectNames -> SectionType]
    BY <1>2, <1>3, <2>1, SelectedType
  <2> QED
    BY <1>3, <2>2
<1>5. /\ cur' = line.arg /\ sects' = [Counted EXCEPT ![line.arg] = Labelled(s)]
      /\ level' = RaiseIf(Unstable(s), level, Inconsistent) /\ frames' = Advanced
      /\ UNCHANGED <<files, pass, defining, macros, ctxs, interp, flag, phase>>
  BY DEF Section, Assembles
<1> HIDE DEF s
<1>6. level' \in None .. Fatal
  BY <1>2, <1>5, RaiseType DEF RaiseIf, Level
<1>7. sects' \in [SectNames -> SectionType]
  BY <1>2, <1>4, <1>5, LabelledType
<1> QED
  BY <1>2, <1>3, <1>5, <1>6, <1>7 DEF TypeOK

\* The lines that call assemble_prog().
LEMMA EntersType ==
    ASSUME TypeOK, AtLine, NEW p \in Files \cup Macros, NEW kind \in {"file", "expansion"},
           NEW arg \in Value, Enters(p, kind, arg)
    PROVE  /\ frames' \in Seq(FrameType) /\ Len(frames') <= MaxDepth /\ ctxs' \in Seq(CtxType)
           /\ sects' \in [SectNames -> SectionType] /\ UNCHANGED <<cur, flag, phase>>
<1>1. /\ Advanced \in Seq(FrameType) /\ Len(Advanced) = Len(frames) /\ counted \in SectionType
  BY LineTypes
<1>2. sects' \in [SectNames -> SectionType]
  BY <1>1, LabelledType DEF Enters, TypeOK
<1>3. CASE TooDeep
  BY <1>1, <1>2, <1>3 DEF Enters, TypeOK
<1>4. CASE ~ TooDeep
  <2>1. Len(Advanced) < MaxDepth
    BY <1>1, <1>4, FrontLast, SizesAssumption DEF TooDeep, TypeOK
  <2>2. Call(p, kind, arg, Advanced)
    BY <1>4 DEF Enters
  <2> QED
    BY <1>1, <1>2, <2>1, <2>2, CallType DEF Enters
<1> QED
  BY <1>3, <1>4

LEMMA TypeInclude == TypeOK /\ Include => TypeOK'
<1> SUFFICES ASSUME TypeOK, Include PROVE TypeOK'
  OBVIOUS
<1>1. AtLine /\ line.op = "include"
  BY DEF Include, Assembles, NotDefining
<1>2. level \in Level /\ line \in Line
  BY <1>1, LineTypes
<1>3. line.arg \in Files \cup Macros /\ NoName \in Value /\ "file" \in {"file", "expansion"}
  BY <1>1, <1>2 DEF Line, Value
<1>4. Enters(line.arg, "file", NoName)
  BY DEF Include
<1>5. level' \in None .. Fatal
  BY <1>2, RaiseType DEF Include, RaiseIf, Level
<1>6. UNCHANGED <<files, pass, defining, macros, interp>>
  BY DEF Include, Assembles
<1>7. /\ frames' \in Seq(FrameType) /\ Len(frames') <= MaxDepth /\ ctxs' \in Seq(CtxType)
      /\ sects' \in [SectNames -> SectionType] /\ UNCHANGED <<cur, flag, phase>>
  BY <1>1, <1>3, <1>4, EntersType
<1> QED
  BY <1>5, <1>6, <1>7 DEF TypeOK

LEMMA TypeExpand == TypeOK /\ Expand => TypeOK'
<1> SUFFICES ASSUME TypeOK, Expand PROVE TypeOK'
  OBVIOUS
<1>1. AtLine /\ line.op = "call"
  BY DEF Expand, Assembles, NotDefining
<1>2. /\ level \in Level /\ line \in Line /\ counted \in SectionType
      /\ Advanced \in Seq(FrameType) /\ Len(Advanced) = Len(frames)
  BY <1>1, LineTypes
<1> DEFINE arg == IF line.par = NoName THEN NoName ELSE ValueOfOperand(line.par)
           before == RaiseIf(Unstable(counted),
                             RaiseIf(line.par = "flag" /\ arg = Undef,
                                     RaiseIf(Missing(line.par), level, Syntax), Inconsistent),
                             Inconsistent)
<1>3. line.arg \in Files \cup Macros /\ "expansion" \in {"file", "expansion"}
  BY <1>1, <1>2 DEF Line
<1>4. arg \in Value
  BY OperandTypes DEF Value
<1>5. before \in Level
  BY <1>2, RaiseType DEF RaiseIf
<1>6. UNCHANGED <<files, pass, defining, macros>>
  BY DEF Expand, Assembles
<1>7. CASE macros[line.arg].pass # -1
  <2>1. /\ Enters(line.arg, "expansion", arg) /\ interp' = Push(arg)
        /\ level' = RaiseIf(TooDeep, before, Fatal)
    BY <1>7 DEF Expand
  <2> HIDE DEF arg, before
  <2>2. interp' \in Seq(Value)
    BY <1>4, <2>1, AppendProperties DEF Push, TypeOK
  <2>3. level' \in None .. Fatal
    BY <1>5, <2>1, RaiseType DEF RaiseIf, Level
  <2>4. /\ frames' \in Seq(FrameType) /\ Len(frames') <= MaxDepth /\ ctxs' \in Seq(CtxType)
        /\ sects' \in [SectNames -> SectionType] /\ UNCHANGED <<cur, flag, phase>>
    BY <1>1, <1>3, <1>4, <2>1, EntersType
  <2> QED
    BY <1>6, <2>2, <2>3, <2>4 DEF TypeOK
<1>8. CASE macros[line.arg].pass = -1
  <2>1. /\ level' = Raise(before, Syntax) /\ sects' = [sects EXCEPT ![cur] = Labelled(counted)]
        /\ frames' = Advanced /\ UNCHANGED <<ctxs, interp, cur, flag, phase>>
    BY <1>8 DEF Expand
  <2> HIDE DEF before
  <2>2. level' \in None .. Fatal
    BY <1>5, <2>1, RaiseType DEF Level
  <2>3. sects' \in [SectNames -> SectionType]
    BY <1>2, <2>1, LabelledType DEF TypeOK
  <2> QED
    BY <1>2, <1>6, <2>1, <2>2, <2>3 DEF TypeOK
<1> QED
  BY <1>7, <1>8

LEMMA TypeStep == TypeOK /\ [Next]_vars => TypeOK'
<1> SUFFICES ASSUME TypeOK, [Next]_vars PROVE TypeOK'
  OBVIOUS
<1>1. CASE UNCHANGED vars
  BY <1>1 DEF vars, TypeOK
<1> QED
  BY <1>1, TypeBeginPass, TypeEndPass, TypeReturn, TypeQuiet, TypeMacros, TypePlain, TypeSection,
     TypeInclude, TypeExpand DEF Next

\* The variables keep their types, and there are never more calls of
\* assemble_prog() than max_program_depth allows.
THEOREM TypeCorrect == Spec => []TypeOK
<1> QED
  BY TypeInit, TypeStep, PTL DEF Spec
-----------------------------------------------------------------------------
(* How many of the calls are for macros. *)
LEMMA ExpansionsNext ==
    ASSUME NEW f, NEW n \in Nat
    PROVE  /\ Expansions(f, 0) = 0 /\ Expansions(f, n) \in Nat
           /\ Expansions(f, n + 1) =
                Expansions(f, n) + IF f[n + 1].kind = "expansion" THEN 1 ELSE 0
<1> DEFINE E(m) == {i \in 1 .. m : f[i].kind = "expansion"}
<1>1. Expansions(f, 0) = 0
  <2>1. {i \in 1 .. 0 : f[i].kind = "expansion"} = {}
    OBVIOUS
  <2> QED
    BY <2>1, FS_EmptySet DEF Expansions
<1>2. IsFiniteSet(E(n))
  <2>1. IsFiniteSet(1 .. n) /\ E(n) \in SUBSET (1 .. n)
    BY FS_Interval
  <2> HIDE DEF E
  <2> QED
    BY <2>1, FS_Subset
<1>3. n + 1 \notin E(n)
  OBVIOUS
<1>4. E(n + 1) = IF f[n + 1].kind = "expansion" THEN E(n) \cup {n + 1} ELSE E(n)
  <2>1. 1 .. n + 1 = (1 .. n) \cup {n + 1}
    OBVIOUS
  <2> QED
    BY <2>1
<1>5. Expansions(f, n) = Cardinality(E(n)) /\ Expansions(f, n + 1) = Cardinality(E(n + 1))
  BY DEF Expansions
<1> HIDE DEF E
<1>6. Cardinality(E(n)) \in Nat
  BY <1>2, FS_CardinalityType
<1>7. Cardinality(E(n) \cup {n + 1}) = Cardinality(E(n)) + 1
  BY <1>2, <1>3, FS_AddElement
<1> QED
  BY <1>1, <1>4, <1>5, <1>6, <1>7

\* The number depends on what the calls are for, and grows with them.
LEMMA ExpansionsSame ==
    ASSUME NEW f, NEW g, NEW n \in Nat, \A i \in 1 .. n : f[i].kind = g[i].kind
    PROVE  Expansions(f, n) = Expansions(g, n)
<1>1. {i \in 1 .. n : f[i].kind = "expansion"} = {i \in 1 .. n : g[i].kind = "expansion"}
  OBVIOUS
<1> QED
  BY <1>1 DEF Expansions

LEMMA ExpansionsGrow ==
    ASSUME NEW f, NEW n \in Nat, NEW m \in 0 .. n
    PROVE  Expansions(f, m) \in Nat /\ Expansions(f, m) <= Expansions(f, n)
<1> DEFINE E(k) == {i \in 1 .. k : f[i].kind = "expansion"}
<1>1. IsFiniteSet(1 .. n) /\ E(n) \in SUBSET (1 .. n) /\ E(m) \in SUBSET E(n)
  BY FS_Interval
<1>2. Expansions(f, m) = Cardinality(E(m)) /\ Expansions(f, n) = Cardinality(E(n))
  BY DEF Expansions
<1> HIDE DEF E
<1>3. IsFiniteSet(E(n))
  BY <1>1, FS_Subset
<1>4. Cardinality(E(m)) <= Cardinality(E(n)) /\ IsFiniteSet(E(m))
  BY <1>1, <1>3, FS_Subset
<1> QED
  BY <1>2, <1>4, FS_CardinalityType

\* The argument of a macro is where its number says.
LEMMA ArgumentIndex ==
    ASSUME NEW f, NEW n \in Nat, NEW i \in 1 .. n, f[i].kind = "expansion"
    PROVE  Expansions(f, i) \in 1 .. Expansions(f, n)
<1>1. i - 1 \in Nat /\ (i - 1) + 1 = i
  OBVIOUS
<1>2. Expansions(f, i) >= 1
  BY <1>1, ExpansionsNext
<1>3. Expansions(f, i) \in Nat /\ Expansions(f, i) <= Expansions(f, n) /\ Expansions(f, n) \in Nat
  BY ExpansionsGrow, ExpansionsNext
<1> QED
  BY <1>2, <1>3

(* What the steps do to the arguments. *)
LEMMA ArgumentsKept ==
    ASSUME TypeOK, ArgumentsMatch, SameCalls(frames'), interp' = interp
    PROVE  ArgumentsMatch'
<1> DEFINE n == Len(frames)
<1>1. n \in Nat /\ Len(frames') = n
  BY FrontLast DEF TypeOK, SameCalls
<1>2. \A i \in 1 .. n : frames'[i].kind = frames[i].kind /\ frames'[i].arg = frames[i].arg
  BY DEF SameCalls
<1> HIDE DEF n
<1>3. ASSUME NEW i \in 0 .. n PROVE Expansions(frames', i) = Expansions(frames, i)
  BY <1>1, <1>2, ExpansionsSame
<1>4. Len(interp) = Expansions(frames', n)
  BY <1>1, <1>3 DEF ArgumentsMatch, n
<1>5. ASSUME NEW i \in 1 .. n, frames'[i].kind = "expansion"
      PROVE  interp[Expansions(frames', i)] = frames'[i].arg
  BY <1>1, <1>2, <1>3, <1>5 DEF ArgumentsMatch, n
<1> QED
  BY <1>1, <1>4, <1>5 DEF ArgumentsMatch

LEMMA ArgumentsCall ==
    ASSUME TypeOK, ArgumentsMatch, NEW f, SameCalls(f),
           NEW p \in Files \cup Macros, NEW kind \in {"file", "expansion"}, NEW arg \in Value,
           frames' = Append(f, Frame(p, kind, arg)),
           interp' = IF kind = "expansion" THEN Append(interp, arg) ELSE interp
    PROVE  ArgumentsMatch'
<1> DEFINE n == Len(frames)
           new == Frame(p, kind, arg)
<1>1. n \in Nat /\ Len(f) = n /\ f \in Seq(FrameType) /\ interp \in Seq(Value)
  BY FrontLast DEF TypeOK, SameCalls
<1>2. new \in FrameType /\ new.kind = kind /\ new.arg = arg
  BY EmptySeq DEF Frame, FrameType, TypeOK, NoCond, CondType
<1> HIDE DEF new
<1>3. Len(frames') = n + 1 /\ frames'[n + 1] = new /\ \A i \in 1 .. n : frames'[i] = f[i]
  BY <1>1, <1>2, AppendProperties DEF new
<1>4. \A i \in 1 .. n : frames'[i].kind = frames[i].kind /\ frames'[i].arg = frames[i].arg
  BY <1>3 DEF SameCalls
<1> DEFINE e == Len(interp)
<1>5. e = Expansions(frames, n) /\ \A i \in 1 .. n : frames[i].kind = "expansion" =>
                                        interp[Expansions(frames, i)] = frames[i].arg
  BY DEF ArgumentsMatch
<1>6. e \in Nat
  BY <1>1, LenProperties
<1>7. /\ Len(interp') = e + IF kind = "expansion" THEN 1 ELSE 0
      /\ \A i \in 1 .. e : interp'[i] = interp[i]
      /\ kind = "expansion" => interp'[e + 1] = arg
  BY <1>1, <1>6, AppendProperties
<1> HIDE DEF n, e
<1>8. ASSUME NEW i \in 0 .. n PROVE Expansions(frames', i) = Expansions(frames, i)
  <2>1. i \in Nat /\ \A j \in 1 .. i : frames'[j].kind = frames[j].kind
    BY <1>1, <1>4
  <2> QED
    BY ONLY <2>1, ExpansionsSame
<1>9. Expansions(frames', n + 1) = e + IF kind = "expansion" THEN 1 ELSE 0
  <2>1. Expansions(frames', n + 1) =
          Expansions(frames', n) + IF frames'[n + 1].kind = "expansion" THEN 1 ELSE 0
    BY <1>1, ExpansionsNext
  <2>2. n \in 0 .. n
    BY <1>1
  <2> QED
    BY <1>2, <1>3, <1>5, <1>8, <2>1, <2>2
<1>10. ASSUME NEW i \in 1 .. n + 1, frames'[i].kind = "expansion"
       PROVE  interp'[Expansions(frames', i)] = frames'[i].arg
  <2>1. CASE i \in 1 .. n
    <3>1. Expansions(frames, i) \in 1 .. e
      BY <1>1, <1>4, <1>5, <1>10, <2>1, ArgumentIndex
    <3>2. Expansions(frames', i) = Expansions(frames, i)
      BY <1>8, <2>1
    <3>3. frames[i].kind = "expansion" /\ frames'[i].arg = frames[i].arg
      BY <1>4, <1>10, <2>1
    <3>4. interp[Expansions(frames, i)] = frames[i].arg
      BY <1>5, <2>1, <3>3
    <3>5. interp'[Expansions(frames, i)] = interp[Expansions(frames, i)]
      BY <1>7, <3>1
    <3> QED
      BY <3>2, <3>3, <3>4, <3>5
  <2>2. CASE i = n + 1
    <3>1. frames'[i] = Frame(p, kind, arg) /\ Frame(p, kind, arg).kind = kind
            /\ Frame(p, kind, arg).arg = arg
      BY <1>2, <1>3, <2>2 DEF new
    <3>2. kind = "expansion"
      BY <1>10, <3>1
    <3>3. Expansions(frames', i) = e + 1
      BY <1>9, <2>2, <3>2
    <3> QED
      BY <1>7, <3>1, <3>2, <3>3
  <2>3. i \in 1 .. n \/ i = n + 1
    BY <1>1
  <2> QED
    BY <2>1, <2>2, <2>3, Zenon
<1> QED
  BY <1>3, <1>7, <1>9, <1>10 DEF ArgumentsMatch

LEMMA ArgumentsReturn == TypeOK /\ ArgumentsMatch /\ Return => ArgumentsMatch'
<1> SUFFICES ASSUME TypeOK, ArgumentsMatch, Return PROVE ArgumentsMatch'
  OBVIOUS
<1> DEFINE n == Len(frames)
           e == Len(interp)
<1>1. frames' = Front(frames) /\ interp' = Pop /\ frames # << >>
  BY DEF Return, AtEnd
<1>2. /\ n \in Nat /\ n > 0 /\ Len(frames') = n - 1 /\ top = frames[n]
      /\ \A i \in 1 .. n - 1 : frames'[i] = frames[i]
  BY <1>1, FrontLast DEF TypeOK, top, Last
<1>3. e = Expansions(frames, n) /\ \A i \in 1 .. n : frames[i].kind = "expansion" =>
                                        interp[Expansions(frames, i)] = frames[i].arg
  BY DEF ArgumentsMatch
<1>4. e \in Nat /\ interp \in Seq(Value)
  BY FrontLast DEF TypeOK
<1>5. e > 0 => Len(Front(interp)) = e - 1 /\ \A i \in 1 .. e - 1 : Front(interp)[i] = interp[i]
  BY <1>4, FrontLast
<1> HIDE DEF n, e
<1>6. ASSUME NEW i \in 0 .. n - 1 PROVE Expansions(frames', i) = Expansions(frames, i)
  BY <1>2, <1>6, ExpansionsSame
<1> DEFINE k == Expansions(frames, n - 1)
<1>7. k \in Nat /\ e = k + IF top.kind = "expansion" THEN 1 ELSE 0
  <2>1. n - 1 \in Nat /\ (n - 1) + 1 = n
    BY <1>2
  <2> QED
    <3>1. /\ k \in Nat
          /\ Expansions(frames, n) =
               k + IF frames[n].kind = "expansion" THEN 1 ELSE 0
      <4> DEFINE m == n - 1
      <4>1. m \in Nat /\ m + 1 = n
        BY <2>1
      <4> HIDE DEF m
      <4>2. /\ Expansions(frames, m) \in Nat
            /\ Expansions(frames, m + 1) =
                 Expansions(frames, m) + IF frames[m + 1].kind = "expansion" THEN 1 ELSE 0
        BY <4>1, ExpansionsNext
      <4> QED
        BY <4>1, <4>2 DEF m
    <3> QED
      BY <1>2, <1>3, <3>1
<1> HIDE DEF k
<1>8. Len(interp') = k /\ \A i \in 1 .. k : interp'[i] = interp[i]
  BY <1>1, <1>4, <1>5, <1>7 DEF Pop, e
<1>9. Expansions(frames', n - 1) = k
  BY <1>2, <1>6 DEF k
<1>10. ASSUME NEW i \in 1 .. n - 1, frames'[i].kind = "expansion"
       PROVE  interp'[Expansions(frames', i)] = frames'[i].arg
  <2>1. frames[i].kind = "expansion" /\ frames'[i].arg = frames[i].arg /\ i \in 1 .. n
    BY <1>2, <1>10
  <2>2. Expansions(frames, i) \in 1 .. k
    BY <1>2, <2>1, ArgumentIndex DEF k
  <2> QED
    BY <1>2, <1>3, <1>6, <1>8, <2>1, <2>2
<1> QED
  BY <1>2, <1>8, <1>9, <1>10 DEF ArgumentsMatch
-----------------------------------------------------------------------------
(* The stacks agree, and in between:  a pass begins with nothing wrong and  *)
(* no calls; there is no definition without a call, or while lines are      *)
(* assembled.                                                               *)
InStep ==
    /\ StacksMatch
    /\ phase = "begin" => Clean /\ frames = << >>
    /\ Clean /\ frames = << >> => defining.ctx = NoCtx
    /\ Clean /\ defining.ctx # NoCtx => defining.level > 0
    /\ defining.ctx # NoCtx => defining.ctx.type = "definition"

LEMMA InStepInit == Init => InStep
<1> SUFFICES ASSUME Init PROVE InStep
  OBVIOUS
<1>1. Len(frames) = 0 /\ Len(ctxs) = 0 /\ Len(interp) = 0 /\ defining.ctx = NoCtx /\ Clean
  BY EmptySeq DEF Init, Clean
<1>2. Expansions(frames, 0) = 0
  BY ExpansionsNext
<1> QED
  BY <1>1, <1>2 DEF Init, InStep, StacksMatch, ContextsMatch, ArgumentsMatch

\* Within a pass the level of errors does not fall.
LEMMA CleanBefore == TypeOK /\ InStep /\ Next /\ Clean' => Clean
<1> SUFFICES ASSUME TypeOK, InStep, Next, Clean' PROVE Clean
  OBVIOUS
<1>1. level \in Level
  BY DEF TypeOK, Level
<1>2. CASE BeginPass
  BY <1>2 DEF BeginPass, InStep
<1>3. CASE EndPass
  BY <1>1, <1>3, RaiseType DEF EndPass, PassLevel, RaiseIf, Clean
<1>4. CASE Return
  <2>1. \E a, b \in BOOLEAN : level' = RaiseIf(a, RaiseIf(b, level, Syntax), Syntax)
    <3>1. Free(ctxs, CtxOf(top.kind, top.prog, Len(frames))).unfinished \in BOOLEAN
          /\ (top.cond.list # << >>) \in BOOLEAN
      BY FreeType
    <3> QED
      BY <1>4, <3>1 DEF Return
  <2> QED
    BY <1>1, <2>1, RaiseType DEF RaiseIf, Clean
<1>5. CASE Blank \/ Excludes \/ BodyLine \/ Conditional \/ Flag \/ Section \/ StartMacro \/ EndMacro
  <2>1. \E type \in {Inconsistent, Syntax} : level' = level \/ level' = Raise(level, type)
    <3>1. CASE Blank \/ Excludes \/ BodyLine
      BY <3>1 DEF Blank, Excludes, BodyLine
    <3>2. CASE Conditional \/ Flag \/ Section
      BY <3>2 DEF Conditional, Flag, Section, RaiseIf
    <3>3. CASE StartMacro \/ EndMacro
      BY <3>3 DEF StartMacro, EndMacro, RaiseIf
    <3> QED
      BY <1>5, <3>1, <3>2, <3>3
  <2> QED
    BY <1>1, <2>1, RaiseType DEF Clean
<1>6. CASE Plain
  <2>1. \E val : level' = RaiseIf(Unstable(counted),
                             IF line.op = "byte" /\ Missing(line.arg) THEN Raise(level, Syntax)
                             ELSE RaiseIf(val = Undef, level, Inconsistent), Inconsistent)
    BY <1>6 DEF Plain
  <2> QED
    BY <1>1, <2>1, RaiseType DEF RaiseIf, Clean
<1>7. CASE Include
  BY <1>1, <1>7, RaiseType DEF Include, RaiseIf, Clean
<1>8. CASE Expand
  <2> DEFINE arg == IF line.par = NoName THEN NoName ELSE ValueOfOperand(line.par)
             before == RaiseIf(Unstable(counted),
                               RaiseIf(line.par = "flag" /\ arg = Undef,
                                       RaiseIf(Missing(line.par), level, Syntax), Inconsistent),
                               Inconsistent)
  <2>1. before \in Level /\ (before < Syntax => Clean)
    BY <1>1, RaiseType DEF RaiseIf, Clean
  <2>2. level' = RaiseIf(TooDeep, before, Fatal) \/ level' = Raise(before, Syntax)
    BY <1>8 DEF Expand
  <2> HIDE DEF before
  <2> QED
    BY <2>1, <2>2, RaiseType DEF RaiseIf, Clean
<1> QED
  BY <1>2, <1>3, <1>4, <1>5, <1>6, <1>7, <1>8 DEF Next

\* A call that ends with nothing wrong has not left a macro unfinished.
LEMMA NoneUnfinished ==
    ASSUME TypeOK, InStep, Return, Clean'
    PROVE  /\ Clean /\ defining.ctx = NoCtx
           /\ ~ Free(ctxs, CtxOf(top.kind, top.prog, Len(frames))).unfinished
<1> DEFINE c == CtxOf(top.kind, top.prog, Len(frames))
           freed == Free(ctxs, c)
<1>1. /\ level' = RaiseIf(freed.unfinished, RaiseIf(top.cond.list # << >>, level, Syntax), Syntax)
      /\ top \in FrameType /\ level \in Level
  BY FrontLast DEF Return, AtEnd, TypeOK, Level, top
<1>2. c.type \in {"file", "expansion"}
  BY <1>1 DEF CtxOf, FrameType
<1>3. Clean /\ ~ freed.unfinished
  <2> HIDE DEF freed
  <2> QED
    BY <1>1, RaiseType DEF RaiseIf, Clean
<1> HIDE DEF c
<1>4. defining.ctx = NoCtx
  <2> SUFFICES ASSUME defining.ctx # NoCtx PROVE FALSE
    OBVIOUS
  <2>1. Last(ctxs) = defining.ctx /\ defining.ctx.type = "definition"
    BY <1>3 DEF InStep, StacksMatch, ContextsMatch
  <2>2. Last(ctxs) # c /\ OfMacro(Last(ctxs))
    BY <1>2, <2>1 DEF OfMacro
  <2> QED
    BY <1>3, <2>2 DEF Free
<1> QED
  BY <1>3, <1>4 DEF c

\* Lines that leave the stacks alone.
LEMMA InStepKept ==
    ASSUME TypeOK, InStep, frames # << >>, SameCalls(frames'), UNCHANGED <<ctxs, interp>>,
           defining'.ctx = defining.ctx, defining' = defining \/ defining'.level > 0,
           Clean' => Clean, phase' # "begin", phase' \in {"aborted", "crash"} => ~ Clean'
    PROVE  InStep'
<1> DEFINE n == Len(frames)
<1>1. n \in Nat /\ Len(frames') = n /\ n > 0 /\ frames' # << >>
  BY FrontLast, EmptySeq DEF TypeOK, SameCalls
<1>2. \A i \in 1 .. n : frames'[i].kind = frames[i].kind /\ frames'[i].prog = frames[i].prog
  BY DEF SameCalls
<1>3. ArgumentsMatch'
  BY ArgumentsKept DEF InStep, StacksMatch
<1>4. ContextsMatch'
  BY <1>1, <1>2 DEF ContextsMatch, InStep, StacksMatch
<1> QED
  BY <1>1, <1>3, <1>4 DEF InStep, StacksMatch

\* A call while no macro is being defined.
LEMMA InStepCalled ==
    ASSUME TypeOK, InStep, NEW f, SameCalls(f), NEW p \in Files \cup Macros,
           NEW kind \in {"file", "expansion"}, NEW arg \in Value, Call(p, kind, arg, f),
           interp' = IF kind = "expansion" THEN Append(interp, arg) ELSE interp,
           defining' = defining, Clean' => Clean, Clean => defining.ctx = NoCtx,
           phase' = "lines"
    PROVE  InStep'
<1> DEFINE n == Len(frames)
           new == Frame(p, kind, arg)
           c == CtxOf(kind, p, n + 1)
<1>1. n \in Nat /\ Len(f) = n /\ f \in Seq(FrameType) /\ ctxs \in Seq(CtxType) /\ Len(ctxs) \in Nat
  BY FrontLast DEF TypeOK, SameCalls
<1>2. new \in FrameType /\ new.kind = kind /\ new.prog = p
  BY EmptySeq DEF Frame, FrameType, TypeOK, NoCond, CondType
<1>3. c \in CtxType
  BY <1>1 DEF CtxOf, CtxType
<1>4. frames' = Append(f, new) /\ ctxs' = Append(ctxs, c)
  BY <1>1 DEF Call
<1>5. ArgumentsMatch'
  BY <1>4, ArgumentsCall DEF InStep, StacksMatch
<1> HIDE DEF new, c
<1>6. /\ Len(frames') = n + 1 /\ frames'[n + 1] = new /\ \A i \in 1 .. n : frames'[i] = f[i]
      /\ Len(ctxs') = Len(ctxs) + 1 /\ ctxs'[Len(ctxs) + 1] = c
      /\ \A i \in 1 .. Len(ctxs) : ctxs'[i] = ctxs[i]
      /\ frames' \in Seq(FrameType)
  BY <1>1, <1>2, <1>3, <1>4, AppendProperties
<1>7. \A i \in 1 .. n : frames'[i].kind = frames[i].kind /\ frames'[i].prog = frames[i].prog
  BY <1>6 DEF SameCalls
<1>8. frames' # << >>
  BY <1>1, <1>6, EmptySeq
<1> HIDE DEF n
<1>9. ContextsMatch'
  <2> SUFFICES ASSUME Clean' PROVE
          /\ Len(ctxs') = Len(frames') + (IF defining'.ctx = NoCtx THEN 0 ELSE 1)
          /\ \A i \in 1 .. Len(frames') : ctxs'[i] = CtxOf(frames'[i].kind, frames'[i].prog, i)
          /\ defining'.ctx # NoCtx => Last(ctxs') = defining'.ctx
    BY DEF ContextsMatch
  <2>1. /\ defining.ctx = NoCtx /\ defining' = defining /\ Len(ctxs) = n
        /\ \A i \in 1 .. n : ctxs[i] = CtxOf(frames[i].kind, frames[i].prog, i)
    BY DEF InStep, StacksMatch, ContextsMatch, n
  <2>2. ASSUME NEW i \in 1 .. n + 1
        PROVE  ctxs'[i] = CtxOf(frames'[i].kind, frames'[i].prog, i)
    <3>1. CASE i \in 1 .. n
      BY <1>6, <1>7, <2>1, <3>1
    <3>2. CASE i = n + 1
      BY <1>2, <1>6, <2>1, <3>2 DEF c
    <3>3. i \in 1 .. n \/ i = n + 1
      BY <1>1
    <3> QED
      BY <3>1, <3>2, <3>3, Zenon
  <2> QED
    BY <1>1, <1>6, <2>1, <2>2
<1> QED
  BY <1>5, <1>8, <1>9 DEF InStep, StacksMatch

\* No definition goes on while lines are assembled.
LEMMA NoneDefined ==
    ASSUME InStep, Clean, defining.level = 0
    PROVE  defining.ctx = NoCtx
BY DEF InStep

LEMMA InStepBeginPass == TypeOK /\ InStep /\ BeginPass => InStep'
<1> SUFFICES ASSUME TypeOK, InStep, BeginPass PROVE InStep'
  OBVIOUS
<1> DEFINE none == << >>
<1>1. Clean /\ frames = none /\ defining.ctx = NoCtx
  BY DEF InStep, BeginPass
<1>2. SameCalls(none)
  BY <1>1, EmptySeq DEF SameCalls
<1>3. Call(Main, "file", NoName, none)
  BY DEF BeginPass
<1>4. interp' = interp /\ defining' = defining /\ phase' = "lines"
  BY DEF BeginPass
<1>5. Main \in Files \cup Macros /\ NoName \in Value
  BY NamesAssumption DEF Value
<1> HIDE DEF none
<1>6. interp' = IF "file" = "expansion" THEN Append(interp, NoName) ELSE interp
  BY <1>4
<1> QED
  BY <1>1, <1>2, <1>3, <1>4, <1>5, <1>6, InStepCalled

LEMMA InStepEndPass == TypeOK /\ InStep /\ EndPass => InStep'
<1> SUFFICES ASSUME TypeOK, InStep, EndPass PROVE InStep'
  OBVIOUS
<1>1. level' = PassLevel /\ frames = << >> /\ UNCHANGED <<frames, ctxs, interp, defining>>
  BY DEF EndPass
<1>2. Clean' => Clean
  BY <1>1, RaiseType DEF PassLevel, RaiseIf, Clean, TypeOK, Level
<1>3. phase' \in {"begin", "done", "failed"} /\ (phase' = "begin" => level' = Inconsistent)
  BY DEF EndPass
<1>4. ContextsMatch'
  BY <1>1, <1>2 DEF InStep, StacksMatch, ContextsMatch
<1>5. ArgumentsMatch'
  BY <1>1 DEF InStep, StacksMatch, ArgumentsMatch, Expansions
<1> QED
  BY <1>1, <1>2, <1>3, <1>4, <1>5 DEF InStep, StacksMatch, Clean

\* The call that ends has the context on top, unless a macro is unfinished.
LEMMA InStepReturn == TypeOK /\ InStep /\ Return => InStep'
<1> SUFFICES ASSUME TypeOK, InStep, Return PROVE InStep'
  OBVIOUS
<1> DEFINE n == Len(frames)
           c == CtxOf(top.kind, top.prog, n)
           freed == Free(ctxs, c)
<1>1. /\ frames # << >> /\ frames' = Front(frames) /\ ctxs' = freed.stack
      /\ level' = RaiseIf(freed.unfinished, RaiseIf(top.cond.list # << >>, level, Syntax), Syntax)
      /\ phase' = IF freed.fails THEN "aborted" ELSE "lines"
      /\ defining' = defining
  BY DEF Return, AtEnd
<1>2. /\ n \in Nat /\ n > 0 /\ Len(frames') = n - 1 /\ top = frames[n] /\ top \in FrameType
      /\ \A i \in 1 .. n - 1 : frames'[i] = frames[i]
  BY <1>1, FrontLast DEF TypeOK, top, Last
<1>3. ArgumentsMatch'
  BY ArgumentsReturn DEF InStep, StacksMatch
<1>4. /\ ctxs \in Seq(CtxType) /\ Len(ctxs) \in Nat
      /\ ctxs # << >> => /\ Len(ctxs) > 0 /\ Len(Front(ctxs)) = Len(ctxs) - 1
                         /\ \A i \in 1 .. Len(ctxs) - 1 : Front(ctxs)[i] = ctxs[i]
      /\ ctxs = << >> => Len(ctxs) = 0
  BY FrontLast DEF TypeOK
<1>5. Clean' => Clean /\ ~ freed.unfinished /\ defining.ctx = NoCtx
  BY NoneUnfinished
<1> HIDE DEF n, c
<1>6. ASSUME Clean, defining.ctx = NoCtx, ~ freed.unfinished
      PROVE  /\ Len(ctxs) = n /\ freed.stack = Front(ctxs) /\ ~ freed.fails
             /\ \A i \in 1 .. n : ctxs[i] = CtxOf(frames[i].kind, frames[i].prog, i)
  <2>1. /\ Len(ctxs) = n
        /\ \A i \in 1 .. n : ctxs[i] = CtxOf(frames[i].kind, frames[i].prog, i)
    BY <1>2, <1>6 DEF InStep, StacksMatch, ContextsMatch, n
  <2>2. Last(ctxs) = c /\ ctxs # << >>
    BY <1>2, <1>4, <2>1 DEF Last, c
  <2> QED
    BY <2>1, <2>2 DEF Free
<1> HIDE DEF freed
<1>7. ContextsMatch'
  <2> SUFFICES ASSUME Clean' PROVE
          /\ Len(ctxs') = Len(frames') + (IF defining'.ctx = NoCtx THEN 0 ELSE 1)
          /\ \A i \in 1 .. Len(frames') : ctxs'[i] = CtxOf(frames'[i].kind, frames'[i].prog, i)
          /\ defining'.ctx # NoCtx => Last(ctxs') = defining'.ctx
    BY DEF ContextsMatch
  <2>1. /\ defining.ctx = NoCtx /\ Len(ctxs) = n /\ ctxs' = Front(ctxs)
        /\ \A i \in 1 .. n : ctxs[i] = CtxOf(frames[i].kind, frames[i].prog, i)
    BY <1>1, <1>5, <1>6
  <2>2. Len(ctxs') = n - 1 /\ \A i \in 1 .. n - 1 : ctxs'[i] = ctxs[i]
    BY <1>2, <1>4, <2>1
  <2> QED
    BY <1>1, <1>2, <2>1, <2>2
<1>8. /\ Clean' => defining'.ctx = NoCtx
       /\ phase' \in {"lines", "aborted"} /\ (phase' = "aborted" => ~ Clean')
  BY <1>1, <1>5, <1>6
<1> QED
  BY <1>1, <1>3, <1>7, <1>8 DEF InStep, StacksMatch

\* Lines that only the program counter and the labels notice.
LEMMA InStepQuiet ==
    ASSUME TypeOK, InStep, Blank \/ Excludes \/ Conditional \/ Flag \/ Plain \/ Section
    PROVE  InStep'
<1>1. AtLine
  BY DEF Blank, Excludes, Conditional, Flag, Plain, Section, Assembles, NotDefining
<1>2. frames # << >> /\ top \in FrameType /\ level \in Level /\ phase = "lines"
  BY <1>1, LineTypes
<1>3. UNCHANGED <<ctxs, interp, defining, phase>>
  BY DEF Blank, Excludes, Conditional, Flag, Plain, Section, Assembles
<1>4. SameCalls(frames')
  <2>1. CASE Conditional
    <3> DEFINE step == CondStep(line.op, top.cond, Holds(line.arg))
    <3>1. step \in CondType
      BY <1>2, <2>1, OperandTypes, CondStepType DEF Conditional, FrameType
    <3>2. frames' = Append(Front(frames), [top EXCEPT !.next = @ + 1, !.cond = step])
      BY <2>1 DEF Conditional
    <3> HIDE DEF step
    <3> QED
      BY <1>2, <3>1, <3>2, SameCallsTop
  <2>2. CASE ~ Conditional
    <3>1. frames' = Advanced
      BY <2>2 DEF Blank, Excludes, Flag, Plain, Section
    <3> QED
      BY <1>2, <3>1, SameCallsAdvanced
  <2> QED
    BY <2>1, <2>2
<1>5. Clean' => Clean
  BY CleanBefore DEF Next
<1> QED
  BY <1>2, <1>3, <1>4, <1>5, InStepKept

\* MACRO puts a context on top of those of the calls.
LEMMA InStepStartMacro == TypeOK /\ InStep /\ StartMacro => InStep'
<1> SUFFICES ASSUME TypeOK, InStep, StartMacro PROVE InStep'
  OBVIOUS
<1>1. AtLine /\ frames' = Advanced /\ UNCHANGED <<interp, phase>> /\ defining.level = 0
  BY DEF StartMacro
<1>2. frames # << >> /\ level \in Level /\ phase = "lines"
  BY <1>1, LineTypes
<1>3. SameCalls(frames')
  BY <1>1, <1>2, SameCallsAdvanced
<1>4. CASE UNCHANGED ctxs /\ defining' = [defining EXCEPT !.level = 1]
            /\ (level' = level \/ level' = Raise(level, Syntax))
  <2>1. Clean' => Clean
    BY <1>2, <1>4, RaiseType DEF Clean
  <2>2. defining'.ctx = defining.ctx /\ defining'.level > 0
    BY <1>4 DEF TypeOK
  <2> QED
    BY <1>1, <1>2, <1>3, <1>4, <2>1, <2>2, InStepKept
<1> DEFINE ctx == CtxOf("definition", line.label, Len(frames))
<1>5. CASE /\ ctxs' = Append(ctxs, ctx) /\ defining' = [level |-> 1, ctx |-> ctx]
           /\ line.label \in Macros /\ level' = level
  <2> DEFINE n == Len(frames)
  <2>1. /\ n \in Nat /\ n > 0 /\ Len(frames') = n /\ frames' # << >>
        /\ ctxs \in Seq(CtxType) /\ Len(ctxs) \in Nat
        /\ \A i \in 1 .. n : frames'[i].kind = frames[i].kind /\ frames'[i].prog = frames[i].prog
    BY <1>2, <1>3, FrontLast, EmptySeq DEF TypeOK, SameCalls
  <2>2. ctx \in CtxType /\ ctx.type = "definition" /\ ctx # NoCtx
    BY <1>5, <2>1 DEF CtxOf, CtxType, NoCtx
  <2> HIDE DEF ctx, n
  <2>3. /\ Len(ctxs') = Len(ctxs) + 1 /\ ctxs'[Len(ctxs) + 1] = ctx
        /\ \A i \in 1 .. Len(ctxs) : ctxs'[i] = ctxs[i]
    BY <1>5, <2>1, <2>2, AppendProperties
  <2>4. ArgumentsMatch'
    BY <1>1, <1>3, ArgumentsKept DEF InStep, StacksMatch
  <2>5. ContextsMatch'
    <3> SUFFICES ASSUME Clean' PROVE
            /\ Len(ctxs') = Len(frames') + (IF defining'.ctx = NoCtx THEN 0 ELSE 1)
            /\ \A i \in 1 .. Len(frames') : ctxs'[i] = CtxOf(frames'[i].kind, frames'[i].prog, i)
            /\ defining'.ctx # NoCtx => Last(ctxs') = defining'.ctx
      BY DEF ContextsMatch
    <3>1. defining.ctx = NoCtx
      BY <1>1, <1>5, NoneDefined DEF Clean
    <3>2. /\ Len(ctxs) = n
          /\ \A i \in 1 .. n : ctxs[i] = CtxOf(frames[i].kind, frames[i].prog, i)
      BY <1>5, <3>1 DEF InStep, StacksMatch, ContextsMatch, Clean, n
    <3> QED
      BY <1>5, <2>1, <2>2, <2>3, <3>2 DEF Last
  <2> QED
    BY <1>1, <1>2, <1>5, <2>1, <2>2, <2>4, <2>5 DEF InStep, StacksMatch
<1> QED
  BY <1>4, <1>5 DEF StartMacro, RaiseIf

\* ENDM frees the context on top.
LEMMA InStepEndMacro == TypeOK /\ InStep /\ EndMacro => InStep'
<1> SUFFICES ASSUME TypeOK, InStep, EndMacro PROVE InStep'
  OBVIOUS
<1>1. AtLine /\ frames' = Advanced /\ UNCHANGED interp
  BY DEF EndMacro
<1>2. frames # << >> /\ level \in Level /\ phase = "lines"
  BY <1>1, LineTypes
<1>3. SameCalls(frames')
  BY <1>1, <1>2, SameCallsAdvanced
<1>4. CASE UNCHANGED <<ctxs, defining, phase>> /\ level' = Raise(level, Syntax)
  BY <1>1, <1>2, <1>3, <1>4, RaiseType, InStepKept DEF Clean
<1> DEFINE n == Len(frames)
           freed == Free(ctxs, defining.ctx)
<1>5. /\ n \in Nat /\ n > 0 /\ Len(frames') = n /\ frames' # << >>
      /\ \A i \in 1 .. n : frames'[i].kind = frames[i].kind /\ frames'[i].prog = frames[i].prog
  BY <1>2, <1>3, FrontLast, EmptySeq DEF TypeOK, SameCalls
<1>6. ArgumentsMatch'
  BY <1>1, <1>3, ArgumentsKept DEF InStep, StacksMatch
<1>7. CASE /\ level' = Raise(level, Syntax) /\ defining' = [defining EXCEPT !.level = 0]
           /\ UNCHANGED phase
  <2>1. ~ Clean'
    BY <1>2, <1>7, RaiseType DEF Clean
  <2>2. defining'.ctx = defining.ctx
    BY <1>7 DEF TypeOK
  <2>3. ContextsMatch'
    BY <2>1 DEF ContextsMatch
  <2> QED
    BY <1>2, <1>6, <1>7, <2>1, <2>2, <2>3 DEF InStep, StacksMatch
<1>8. CASE /\ defining.ctx = NoCtx /\ defining' = [defining EXCEPT !.level = 0]
           /\ UNCHANGED <<ctxs, level, phase>>
  <2>1. defining'.ctx = NoCtx
    BY <1>8 DEF TypeOK
  <2>2. ContextsMatch'
    BY <1>5, <1>8, <2>1 DEF ContextsMatch, InStep, StacksMatch, Clean
  <2> QED
    BY <1>2, <1>6, <1>8, <2>1, <2>2 DEF InStep, StacksMatch
<1>9. CASE /\ defining.ctx # NoCtx /\ defining' = [level |-> 0, ctx |-> NoCtx]
           /\ ctxs' = freed.stack /\ level' = RaiseIf(freed.unfinished, level, Syntax)
           /\ phase' = IF freed.fails THEN "aborted" ELSE phase
  <2>1. Clean' => Clean
    <3> HIDE DEF freed
    <3> QED
      BY <1>2, <1>9, RaiseType DEF RaiseIf, Clean
  <2>2. /\ ctxs \in Seq(CtxType) /\ Len(ctxs) \in Nat
        /\ ctxs # << >> => /\ Len(Front(ctxs)) = Len(ctxs) - 1
                           /\ \A i \in 1 .. Len(ctxs) - 1 : Front(ctxs)[i] = ctxs[i]
        /\ ctxs = << >> => Len(ctxs) = 0
    BY FrontLast DEF TypeOK
  <2>3. Clean => Len(ctxs) = n + 1 /\ Last(ctxs) = defining.ctx
    BY <1>9 DEF InStep, StacksMatch, ContextsMatch
  <2>4. ASSUME Clean PROVE freed.stack = Front(ctxs) /\ ~ freed.fails
    <3>1. ctxs # << >> /\ Last(ctxs) = defining.ctx
      BY <1>5, <2>2, <2>3, <2>4
    <3> HIDE DEF n
    <3> QED
      BY <3>1 DEF Free
  <2> HIDE DEF freed
  <2>5. ContextsMatch'
    <3> SUFFICES ASSUME Clean' PROVE
            /\ Len(ctxs') = Len(frames') + (IF defining'.ctx = NoCtx THEN 0 ELSE 1)
            /\ \A i \in 1 .. Len(frames') : ctxs'[i] = CtxOf(frames'[i].kind, frames'[i].prog, i)
            /\ defining'.ctx # NoCtx => Last(ctxs') = defining'.ctx
      BY DEF ContextsMatch
    <3>1. /\ Len(ctxs) = n + 1 /\ ctxs' = Front(ctxs)
          /\ \A i \in 1 .. n : ctxs[i] = CtxOf(frames[i].kind, frames[i].prog, i)
      BY <1>9, <2>1, <2>3, <2>4 DEF InStep, StacksMatch, ContextsMatch
    <3>2. Len(ctxs') = n /\ \A i \in 1 .. n : ctxs'[i] = ctxs[i]
      BY <1>5, <2>2, <3>1
    <3> HIDE DEF n
    <3> QED
      BY <1>5, <1>9, <3>1, <3>2
  <2>6. phase' \in {"lines", "aborted"} /\ (phase' = "aborted" => ~ Clean')
    BY <1>2, <1>9, <2>1, <2>4
  <2> QED
    BY <1>6, <1>9, <2>5, <2>6 DEF InStep, StacksMatch
<1> QED
  BY <1>4, <1>7, <1>8, <1>9 DEF EndMacro

LEMMA InStepBodyLine == TypeOK /\ InStep /\ BodyLine => InStep'
<1> SUFFICES ASSUME TypeOK, InStep, BodyLine PROVE InStep'
  OBVIOUS
<1>1. /\ AtLine /\ frames' = Advanced /\ UNCHANGED <<interp, ctxs, level>>
      /\ defining' = [defining EXCEPT !.level = Nesting] /\ Nesting > 0
      /\ phase' = phase \/ (Dangling /\ phase' = "crash")
  BY DEF BodyLine
<1>2. frames # << >> /\ phase = "lines"
  BY <1>1, LineTypes
<1>3. SameCalls(frames')
  BY <1>1, <1>2, SameCallsAdvanced
<1>4. Dangling => ~ Clean
  <2> SUFFICES ASSUME Clean, defining.ctx # NoCtx
               PROVE  \E i \in 1 .. Len(ctxs) : ctxs[i] = defining.ctx
    BY DEF Dangling
  <2>1. Len(ctxs) = Len(frames) + 1 /\ Last(ctxs) = defining.ctx
    BY DEF InStep, StacksMatch, ContextsMatch
  <2>2. Len(ctxs) \in 1 .. Len(ctxs)
    BY <2>1, FrontLast DEF TypeOK
  <2> QED
    BY <2>1, <2>2 DEF Last
<1>5. defining'.ctx = defining.ctx /\ defining'.level > 0
  BY <1>1 DEF TypeOK
<1> QED
  BY <1>1, <1>2, <1>3, <1>4, <1>5, InStepKept DEF Clean

\* INCLUDE and the expansion of a macro are lines that are assembled.
LEMMA InStepEnters ==
    ASSUME TypeOK, InStep, AtLine, defining.level = 0, NEW p \in Files \cup Macros,
           NEW kind \in {"file", "expansion"}, NEW arg \in Value, Enters(p, kind, arg),
           interp' = IF kind = "expansion" THEN Push(arg) ELSE interp, defining' = defining,
           Clean' => Clean
    PROVE  InStep'
<1>1. frames # << >> /\ phase = "lines" /\ phase' = phase
  BY LineTypes DEF Enters
<1>2. SameCalls(Advanced)
  BY <1>1, SameCallsAdvanced
<1>3. CASE TooDeep
  <2>1. frames' = Advanced /\ UNCHANGED <<ctxs, interp>>
    BY <1>3 DEF Enters, Push
  <2> QED
    BY <1>1, <1>2, <2>1, InStepKept
<1>4. CASE ~ TooDeep
  <2>1. /\ Call(p, kind, arg, Advanced)
        /\ interp' = IF kind = "expansion" THEN Append(interp, arg) ELSE interp
    BY <1>4 DEF Enters, Push
  <2>2. Clean => defining.ctx = NoCtx
    BY NoneDefined
  <2> QED
    BY <1>1, <1>2, <2>1, <2>2, InStepCalled
<1> QED
  BY <1>3, <1>4

LEMMA InStepInclude == TypeOK /\ InStep /\ Include => InStep'
<1> SUFFICES ASSUME TypeOK, InStep, Include PROVE InStep'
  OBVIOUS
<1>1. /\ AtLine /\ line.op = "include" /\ defining.level = 0 /\ defining' = defining
      /\ Enters(line.arg, "file", NoName) /\ interp' = interp
      /\ level' = RaiseIf(TooDeep, RaiseIf(Unstable(counted), level, Inconsistent), Fatal)
  BY DEF Include, Assembles, NotDefining
<1>2. level \in Level /\ line \in Line
  BY <1>1, LineTypes
<1>3. line.arg \in Files \cup Macros /\ NoName \in Value /\ "file" \in {"file", "expansion"}
  BY <1>1, <1>2 DEF Line, Value
<1>4. Clean' => Clean
  BY <1>1, <1>2, RaiseType DEF RaiseIf, Clean
<1>5. interp' = IF "file" = "expansion" THEN Push(NoName) ELSE interp
  BY <1>1
<1> QED
  BY <1>1, <1>3, <1>4, <1>5, InStepEnters

LEMMA InStepExpand == TypeOK /\ InStep /\ Expand => InStep'
<1> SUFFICES ASSUME TypeOK, InStep, Expand PROVE InStep'
  OBVIOUS
<1> DEFINE arg == IF line.par = NoName THEN NoName ELSE ValueOfOperand(line.par)
<1>1. AtLine /\ line.op = "call" /\ defining.level = 0 /\ defining' = defining
  BY DEF Expand, Assembles, NotDefining
<1>2. level \in Level /\ line \in Line /\ frames # << >> /\ phase = "lines"
  BY <1>1, LineTypes
<1>3. line.arg \in Files \cup Macros /\ "expansion" \in {"file", "expansion"}
  BY <1>1, <1>2 DEF Line
<1>4. arg \in Value
  BY OperandTypes DEF Value
<1>5. Clean' => Clean
  BY CleanBefore DEF Next
<1>6. CASE macros[line.arg].pass # -1
  <2>1. Enters(line.arg, "expansion", arg) /\ interp' = Push(arg)
    BY <1>6 DEF Expand
  <2> HIDE DEF arg
  <2>2. interp' = IF "expansion" = "expansion" THEN Push(arg) ELSE interp
    BY <2>1
  <2> QED
    BY <1>1, <1>3, <1>4, <1>5, <2>1, <2>2, InStepEnters
<1>7. CASE macros[line.arg].pass = -1
  <2>1. frames' = Advanced /\ UNCHANGED <<ctxs, interp, phase>>
    BY <1>7 DEF Expand
  <2>2. SameCalls(frames')
    BY <1>2, <2>1, SameCallsAdvanced
  <2> QED
    BY <1>1, <1>2, <1>5, <2>1, <2>2, InStepKept
<1> QED
  BY <1>6, <1>7

LEMMA InStepStep == TypeOK /\ InStep /\ [Next]_vars => InStep'
<1> SUFFICES ASSUME TypeOK, InStep, [Next]_vars PROVE InStep'
  OBVIOUS
<1>1. CASE UNCHANGED vars
  BY <1>1 DEF vars, InStep, StacksMatch, ContextsMatch, ArgumentsMatch, Expansions, Clean
<1> QED
  BY <1>1, InStepBeginPass, InStepEndPass, InStepReturn, InStepQuiet, InStepStartMacro,
     InStepEndMacro, InStepBodyLine, InStepInclude, InStepExpand DEF Next

\* The stack of contexts, on which errors are reported and macros are built,
\* is that of the calls as long as nothing was wrong with the syntax, and a
\* program with nothing wrong is never stopped by the assertion in
\* prog_ctx_free() or by the use of a context that it freed; the arguments
\* that positional variables stand for are those of the active macros always.
THEOREM StacksInStep == Spec => []StacksMatch
<1>1. InStep => StacksMatch
  BY DEF InStep
<1> QED
  BY <1>1, TypeInit, TypeStep, InStepInit, InStepStep, PTL DEF Spec
-----------------------------------------------------------------------------
(* Local labels.  What the table of a section says is compared with what    *)
(* the passes have given, which trace records.                              *)
Entry == [sect : SectNames, line : Nat, use : {"label", "back", "fwd"}, label : Labels,
          val : Nat \cup {Undef}]

\* The places in es where label l of section s was given.
Givings(es, s, l) == {e \in es : e.use = "label" /\ e.sect = s /\ e.label = l}

Now == trace[Len(trace)]

\* The table has one definition for each line on which some pass gave the label.
Tabled ==
    /\ trace \in Seq(SUBSET Entry)
    /\ \A s \in SectNames, l \in Labels :
         /\ \A d, e \in sects[s].labels[l] : d.line = e.line => d = e
         /\ \A d \in sects[s].labels[l] :
              \E p \in 1 .. Len(trace) : \E e \in Givings(trace[p], s, l) : e.line = d.line
         /\ \A p \in 1 .. Len(trace) : \A e \in Givings(trace[p], s, l) :
              \E d \in sects[s].labels[l] : d.line = e.line

\* Nothing was inconsistent in the pass, so far.
Steady == phase \in {"lines", "done"} /\ Len(trace) > 0 /\ level < Inconsistent

\* Then the labels that it has given have the values that it gave them.
Valued ==
    Steady => \A s \in SectNames, l \in Labels :
        \A e \in Givings(Now, s, l), d \in sects[s].labels[l] : d.line = e.line => d.val = e.val

\* The pass has given labels only where a pass before it did.
Covered ==
    \A s \in SectNames, l \in Labels : \A e \in Givings(Now, s, l) :
        \E p \in 1 .. Len(trace) - 1 : \E f \in Givings(trace[p], s, l) : f.line = e.line

\* The definitions that a reference r finds now.
Referred(r) ==
    LET s == [sects[r.sect] EXCEPT !.count = r.line] IN
    IF r.use = "back" THEN Back(s, r.label) ELSE Fwd(s, r.label)

\* Then what a reference found is what it would find now: the table has got no
\* new lines, and none of its values has changed.
Referenced ==
    Steady /\ Covered =>
        \A r \in Now : r.use # "label" => r.val # Undef /\ r.val = ValueOf(Referred(r))

\* The first pass is not the last if it meets a reference, since it emits a
\* byte for it, and a section whose end moves leads to another pass.
Timely ==
    /\ phase = "begin" => Len(trace) = pass
    /\ phase = "lines" => Len(trace) = pass + 1 /\ sects[cur].pass = pass
    /\ phase = "lines" => \A i \in 2 .. Len(frames) : sects[frames[i].back].pass = pass
    /\ phase \in {"begin", "lines"} /\ pass = 0 => \A s \in SectNames : sects[s].last = 0
    /\ phase = "lines" /\ pass = 0 =>
         \A r \in Now : r.use # "label" => sects[r.sect].pc > 0 /\ sects[r.sect].pass = 0
    /\ phase = "done" =>
         /\ level < Inconsistent /\ Len(trace) > 0
         /\ Len(trace) = 1 => \A r \in Now : r.use = "label"

Located == Tabled /\ Valued /\ Referenced /\ Timely

\* A reference depends on the labels of the section and the line number.
LEMMA Finds ==
    ASSUME NEW s, NEW t, s.labels = t.labels, s.count = t.count, NEW l
    PROVE  Back(s, l) = Back(t, l) /\ Fwd(s, l) = Fwd(t, l)
BY DEF Back, Fwd

\* What set_label() does to the table.
LEMMA LabelledIs ==
    ASSUME NEW s \in SectionType
    PROVE  /\ Labelled(s).count = s.count /\ Labelled(s).pc = s.pc
           /\ Labelled(s).pass = s.pass /\ Labelled(s).last = s.last
           /\ \A l \in Labels \ {line.label} : Labelled(s).labels[l] = s.labels[l]
           /\ line.label \in Labels =>
                Labelled(s).labels[line.label] =
                    {d \in s.labels[line.label] : d.line # s.count}
                        \cup {[line |-> s.count, val |-> s.pc]}
<1>1. CASE line.label \notin Labels
  BY <1>1 DEF Labelled
<1>2. CASE line.label \in Labels
  <2> DEFINE l == line.label
             new == (s.labels[l] \ DefinedAt(s, l, s.count)) \cup {[line |-> s.count, val |-> s.pc]}
  <2>1. Labelled(s) = [s EXCEPT !.labels[l] = new]
    BY <1>2 DEF Labelled, SetLocal
  <2>2. new = {d \in s.labels[l] : d.line # s.count} \cup {[line |-> s.count, val |-> s.pc]}
    BY DEF DefinedAt
  <2> HIDE DEF new
  <2>3. s.labels \in [Labels -> SUBSET Local]
    BY DEF SectionType
  <2> QED
    BY <1>2, <2>1, <2>2, <2>3 DEF SectionType
<1> QED
  BY <1>1, <1>2

\* A label that has its line and its value already leaves the table alone.
LEMMA StableIs ==
    ASSUME NEW s \in SectionType, line.label \in Labels, ~ Unstable(s),
           NEW d \in s.labels[line.label], d.line = s.count
    PROVE  Labelled(s).labels = s.labels
<1> DEFINE l == line.label
           t == Labelled(s)
<1>1. s.labels \in [Labels -> SUBSET Local] /\ t.labels \in [Labels -> SUBSET Local]
  BY LabelledType DEF SectionType
<1>2. \A e \in s.labels[l] : e.line = s.count => e.val = s.pc
  BY DEF Unstable, UnstableLocal, DefinedAt
<1>3. \A e \in s.labels[l] : e.line = s.count => e = [line |-> s.count, val |-> s.pc]
  <2> SUFFICES ASSUME NEW e \in s.labels[l], e.line = s.count
               PROVE  e = [line |-> s.count, val |-> s.pc]
    OBVIOUS
  <2>1. e \in Local /\ e.val = s.pc
    BY <1>1, <1>2
  <2> QED
    BY <2>1 DEF Local
<1>4. t.labels[l] = {e \in s.labels[l] : e.line # s.count} \cup {[line |-> s.count, val |-> s.pc]}
  BY LabelledIs
<1>5. t.labels[l] = s.labels[l]
  BY <1>3, <1>4
<1>6. \A k \in Labels \ {l} : t.labels[k] = s.labels[k]
  BY LabelledIs
<1> HIDE DEF t
<1>7. \A k \in Labels : t.labels[k] = s.labels[k]
  BY <1>5, <1>6
<1> QED
  BY <1>1, <1>7 DEF t

(* A line that gives the label to the section called name, which is s when *)
(* it does so, and makes the references U.                                  *)
Gives(s, name, U) ==
    /\ s \in SectionType /\ name \in SectNames /\ s.labels = sects[name].labels
    /\ U \in SUBSET Entry
    /\ \A u \in U : /\ u.use # "label" /\ u.sect = name /\ u.line = s.count
                    /\ u.val = ValueOf(IF u.use = "back" THEN Back(s, u.label) ELSE Fwd(s, u.label))
    /\ Traced(Given(s, name) \cup U)
    /\ \A n \in SectNames :
         sects'[n].labels = IF n = name THEN Labelled(s).labels ELSE sects[n].labels
    /\ level' < Inconsistent => /\ level < Inconsistent /\ ~ Unstable(s)
                                /\ \A u \in U : u.val # Undef

\* What it adds to the record of the pass.
LEMMA GivesTrace ==
    ASSUME Tabled, Len(trace) > 0, NEW s, NEW name, NEW U, Gives(s, name, U)
    PROVE  /\ trace' \in Seq(SUBSET Entry) /\ Len(trace') = Len(trace) /\ Len(trace) \in Nat
           /\ \A p \in 1 .. Len(trace) - 1 : trace'[p] = trace[p]
           /\ Now' = Now \cup Given(s, name) \cup U
           /\ Given(s, name) =
                IF line.label \notin Labels THEN {}
                ELSE {[sect |-> name, line |-> s.count, use |-> "label", label |-> line.label,
                       val |-> s.pc]}
           /\ \A q \in SectNames, l \in Labels :
                Givings(Now', q, l) =
                    Givings(Now, q, l)
                        \cup IF q = name /\ l = line.label THEN Given(s, name) ELSE {}
<1> DEFINE n == Len(trace)
           g == Given(s, name)
<1>1. trace \in Seq(SUBSET Entry) /\ n \in Nat /\ n \in 1 .. n /\ trace[n] \in SUBSET Entry
  BY LenProperties DEF Tabled
<1>2. g = IF line.label \notin Labels THEN {}
          ELSE {[sect |-> name, line |-> s.count, use |-> "label", label |-> line.label,
                 val |-> s.pc]}
  BY DEF Given
<1>3. g \in SUBSET Entry
  BY <1>2 DEF Gives, SectionType, Entry
<1>4. trace' = [trace EXCEPT ![n] = trace[n] \cup (g \cup U)]
  BY DEF Gives, Traced
<1>5. U \in SUBSET Entry
  BY DEF Gives
<1> HIDE DEF n, g
<1>6. trace[n] \cup (g \cup U) \in SUBSET Entry
  BY <1>1, <1>3, <1>5
<1>7. trace' \in Seq(SUBSET Entry) /\ Len(trace') = n
  BY <1>1, <1>4, <1>6, ExceptSeq DEF n
<1>8. trace'[n] = trace[n] \cup g \cup U /\ \A p \in 1 .. n - 1 : trace'[p] = trace[p]
  BY <1>1, <1>4 DEF n
<1>9. Now' = Now \cup g \cup U
  BY <1>7, <1>8 DEF Now, n
<1>10. \A q \in SectNames, l \in Labels :
         Givings(Now', q, l) = Givings(Now, q, l) \cup IF q = name /\ l = line.label THEN g ELSE {}
  <2>1. \A u \in U : u.use # "label"
    BY DEF Gives
  <2> QED
    BY <1>2, <1>9, <2>1 DEF Givings
<1> QED
  BY <1>1, <1>2, <1>7, <1>8, <1>9, <1>10 DEF n, g

\* The definition replaces that of its line, or is a new one.
LEMMA GivesTabled ==
    ASSUME Tabled, Len(trace) > 0, NEW s, NEW name, NEW U, Gives(s, name, U)
    PROVE  Tabled'
<1> DEFINE n == Len(trace)
           g == Given(s, name)
<1>1. /\ trace' \in Seq(SUBSET Entry) /\ Len(trace') = n /\ n \in Nat /\ n > 0
      /\ \A p \in 1 .. n - 1 : trace'[p] = trace[p]
      /\ \A q \in SectNames, l \in Labels :
           Givings(trace'[n], q, l) =
               Givings(trace[n], q, l) \cup IF q = name /\ l = line.label THEN g ELSE {}
  BY GivesTrace DEF Now
<1>2. g = IF line.label \notin Labels THEN {}
          ELSE {[sect |-> name, line |-> s.count, use |-> "label", label |-> line.label,
                 val |-> s.pc]}
  BY GivesTrace
<1>3. s \in SectionType /\ s.labels = sects[name].labels
      /\ \A q \in SectNames :
           sects'[q].labels = IF q = name THEN Labelled(s).labels ELSE sects[q].labels
  BY DEF Gives
<1> HIDE DEF n, g
<1>4. ASSUME NEW q \in SectNames, NEW l \in Labels
      PROVE  /\ \A d, e \in sects'[q].labels[l] : d.line = e.line => d = e
             /\ \A d \in sects'[q].labels[l] :
                  \E p \in 1 .. n : \E e \in Givings(trace'[p], q, l) : e.line = d.line
             /\ \A p \in 1 .. n : \A e \in Givings(trace'[p], q, l) :
                  \E d \in sects'[q].labels[l] : d.line = e.line
  <2>1. /\ \A d, e \in sects[q].labels[l] : d.line = e.line => d = e
        /\ \A d \in sects[q].labels[l] :
             \E p \in 1 .. n : \E e \in Givings(trace[p], q, l) : e.line = d.line
        /\ \A p \in 1 .. n : \A e \in Givings(trace[p], q, l) :
             \E d \in sects[q].labels[l] : d.line = e.line
    BY DEF Tabled, n
  <2>2. \A p \in 1 .. n : Givings(trace'[p], q, l) =
          Givings(trace[p], q, l) \cup IF p = n /\ q = name /\ l = line.label THEN g ELSE {}
    <3> SUFFICES ASSUME NEW p \in 1 .. n
                 PROVE  Givings(trace'[p], q, l) =
          Givings(trace[p], q, l) \cup IF p = n /\ q = name /\ l = line.label THEN g ELSE {}
      OBVIOUS
    <3>1. CASE p = n
      BY <1>1, <3>1
    <3>2. CASE p \in 1 .. n - 1
      <4>1. p # n /\ trace'[p] = trace[p]
        BY <1>1, <3>2
      <4> QED
        BY <4>1
    <3> QED
      BY <1>1, <3>1, <3>2
  <2>3. CASE ~ (q = name /\ l = line.label)
    <3>1. sects'[q].labels[l] = sects[q].labels[l]
      BY <1>3, <2>3, LabelledIs
    <3>2. \A p \in 1 .. n : Givings(trace'[p], q, l) = Givings(trace[p], q, l)
      BY <2>2, <2>3
    <3> QED
      BY <2>1, <3>1, <3>2
  <2>4. CASE q = name /\ l = line.label
    <3> DEFINE new == [line |-> s.count, val |-> s.pc]
               D == sects[q].labels[l]
               E == sects'[q].labels[l]
               given == [sect |-> name, line |-> s.count, use |-> "label", label |-> l,
                         val |-> s.pc]
    <3>1. E = {d \in D : d.line # s.count} \cup {new}
      BY <1>3, <2>4, LabelledIs
    <3>2. g = {given} /\ given.line = s.count /\ new.line = s.count
      BY <1>2, <2>4
    <3>3. \A p \in 1 .. n : Givings(trace'[p], q, l) =
             Givings(trace[p], q, l) \cup IF p = n THEN {given} ELSE {}
      BY <2>2, <2>4, <3>2
    <3>4. /\ \A d, e \in D : d.line = e.line => d = e
          /\ \A d \in D : \E p \in 1 .. n : \E e \in Givings(trace[p], q, l) : e.line = d.line
          /\ \A p \in 1 .. n : \A e \in Givings(trace[p], q, l) : \E d \in D : d.line = e.line
      BY <2>1
    <3> HIDE DEF new, D, E, given
    <3>5. \A d, e \in E : d.line = e.line => d = e
      BY <3>1, <3>2, <3>4
    <3>6. \A d \in E : \E p \in 1 .. n : \E e \in Givings(trace'[p], q, l) : e.line = d.line
      <4> SUFFICES ASSUME NEW d \in E
                   PROVE  \E p \in 1 .. n : \E e \in Givings(trace'[p], q, l) : e.line = d.line
        OBVIOUS
      <4>1. CASE d = new
        <5>1. given \in Givings(trace'[n], q, l) /\ n \in 1 .. n
          BY <1>1, <3>3
        <5> QED
          BY <3>2, <4>1, <5>1
      <4>2. CASE d \in D
        BY <3>3, <3>4, <4>2
      <4> QED
        BY <3>1, <4>1, <4>2
    <3>7. \A p \in 1 .. n : \A e \in Givings(trace'[p], q, l) : \E d \in E : d.line = e.line
      <4> SUFFICES ASSUME NEW p \in 1 .. n, NEW e \in Givings(trace'[p], q, l)
                   PROVE  \E d \in E : d.line = e.line
        OBVIOUS
      <4>1. CASE e.line = s.count
        BY <3>1, <3>2, <4>1
      <4>2. CASE e.line # s.count
        <5>1. e \in Givings(trace[p], q, l)
          BY <3>2, <3>3, <4>2
        <5> QED
          BY <3>1, <3>4, <4>2, <5>1
      <4> QED
        BY <4>1, <4>2
    <3> QED
      BY <3>5, <3>6, <3>7 DEF E
  <2> QED
    BY <2>3, <2>4
<1> QED
  BY <1>1, <1>4 DEF Tabled

\* The label that it replaces had the value that the pass gives it.
LEMMA GivesValued ==
    ASSUME Tabled, Valued, phase = "lines", Len(trace) > 0,
           NEW s, NEW name, NEW U, Gives(s, name, U)
    PROVE  Valued'
<1> SUFFICES ASSUME Steady', NEW q \in SectNames, NEW l \in Labels,
                    NEW e \in Givings(Now', q, l), NEW d \in sects'[q].labels[l], d.line = e.line
             PROVE  d.val = e.val
  BY DEF Valued
<1>1. Steady /\ ~ Unstable(s)
  BY DEF Steady, Gives
<1>2. /\ s \in SectionType /\ s.labels = sects[name].labels
      /\ sects'[q].labels = IF q = name THEN Labelled(s).labels ELSE sects[q].labels
  BY DEF Gives
<1>3. Givings(Now', q, l) =
          Givings(Now, q, l) \cup IF q = name /\ l = line.label THEN Given(s, name) ELSE {}
  BY GivesTrace
<1>4. \A f \in Givings(Now, q, l), c \in sects[q].labels[l] : c.line = f.line => c.val = f.val
  BY <1>1 DEF Valued
<1>5. CASE ~ (q = name /\ l = line.label)
  <2>1. sects'[q].labels[l] = sects[q].labels[l] /\ Givings(Now', q, l) = Givings(Now, q, l)
    BY <1>2, <1>3, <1>5, LabelledIs
  <2> QED
    BY <1>4, <2>1
<1>6. CASE q = name /\ l = line.label
  <2> DEFINE new == [line |-> s.count, val |-> s.pc]
             D == sects[q].labels[l]
             given == [sect |-> name, line |-> s.count, use |-> "label", label |-> l,
                       val |-> s.pc]
  <2>1. d \in {c \in D : c.line # s.count} \cup {new}
    BY <1>2, <1>6, LabelledIs
  <2>2. e \in Givings(Now, q, l) \cup {given}
    BY <1>3, <1>6, GivesTrace
  <2>3. \A c \in D : c.line = s.count => c.val = s.pc
    BY <1>1, <1>2, <1>6 DEF Unstable, UnstableLocal, DefinedAt
  <2>4. given.line = s.count /\ given.val = s.pc /\ new.line = s.count /\ new.val = s.pc
    OBVIOUS
  <2> HIDE DEF new, given, D
  <2>5. CASE d = new /\ e # given
    <3>1. PICK c \in D : c.line = e.line
      <4>1. Len(trace) \in 1 .. Len(trace)
        BY GivesTrace
      <4> QED
        BY <2>2, <2>5, <4>1 DEF Tabled, Now, D
    <3> QED
      BY <1>4, <2>2, <2>3, <2>4, <2>5, <3>1 DEF D
  <2>6. CASE d = new /\ e = given
    BY <2>4, <2>6
  <2>7. CASE d # new
    <3>1. e # given /\ d \in D
      BY <2>1, <2>4, <2>7
    <3> QED
      BY <1>4, <2>2, <3>1 DEF D
  <2> QED
    BY <2>5, <2>6, <2>7
<1> QED
  BY <1>5, <1>6

\* The table is the same if the pass before had given the label here.
LEMMA GivesReferenced ==
    ASSUME TypeOK, Tabled, Referenced, phase = "lines", Len(trace) > 0,
           sects' \in [SectNames -> SectionType],
           NEW s, NEW name, NEW U, Gives(s, name, U)
    PROVE  Referenced'
<1> SUFFICES ASSUME Steady', Covered', NEW r \in Now', r.use # "label"
             PROVE  r.val # Undef /\ r.val = ValueOf(Referred(r)')
  BY DEF Referenced
<1> DEFINE n == Len(trace)
           l == line.label
<1>1. Steady /\ ~ Unstable(s)
  BY DEF Steady, Gives
<1>2. /\ s \in SectionType /\ name \in SectNames /\ s.labels = sects[name].labels
      /\ \A q \in SectNames :
           sects'[q].labels = IF q = name THEN Labelled(s).labels ELSE sects[q].labels
  BY DEF Gives
<1>3. /\ n \in Nat /\ Len(trace') = n /\ \A p \in 1 .. n - 1 : trace'[p] = trace[p]
      /\ Now' = Now \cup Given(s, name) \cup U
      /\ \A q \in SectNames, k \in Labels :
           Givings(Now', q, k) =
               Givings(Now, q, k) \cup IF q = name /\ k = l THEN Given(s, name) ELSE {}
  BY GivesTrace
<1>4. \A q \in SectNames, k \in Labels : \A e \in Givings(Now', q, k) :
        \E p \in 1 .. n - 1 : \E f \in Givings(trace[p], q, k) : f.line = e.line
  <2>1. \A q \in SectNames, k \in Labels : \A e \in Givings(Now', q, k) :
          \E p \in 1 .. n - 1 : \E f \in Givings(trace'[p], q, k) : f.line = e.line
    BY <1>3 DEF Covered
  <2> HIDE DEF n
  <2> SUFFICES ASSUME NEW q \in SectNames, NEW k \in Labels, NEW e \in Givings(Now', q, k)
               PROVE  \E p \in 1 .. n - 1 : \E f \in Givings(trace[p], q, k) : f.line = e.line
    OBVIOUS
  <2>2. PICK p \in 1 .. n - 1 : \E f \in Givings(trace'[p], q, k) : f.line = e.line
    BY <2>1
  <2>3. trace'[p] = trace[p]
    BY <1>3
  <2> QED
    BY <2>2, <2>3
<1> HIDE DEF n
<1>5. Covered
  <2>1. \A q \in SectNames, k \in Labels : Givings(Now, q, k) \subseteq Givings(Now', q, k)
    <3> SUFFICES ASSUME NEW q \in SectNames, NEW k \in Labels
                 PROVE  Givings(Now, q, k) \subseteq Givings(Now', q, k)
      OBVIOUS
    <3>1. \E x : Givings(Now', q, k) = Givings(Now, q, k) \cup x
      BY <1>3
    <3> QED
      BY <3>1
  <2> QED
    BY <1>4, <2>1 DEF Covered, n
<1>6. Labelled(s).labels = s.labels
  <2>1. CASE l \notin Labels
    BY <2>1 DEF Labelled
  <2>2. CASE l \in Labels
    <3> DEFINE given == [sect |-> name, line |-> s.count, use |-> "label", label |-> l,
                         val |-> s.pc]
    <3>1. given \in Givings(Now', name, l) /\ given.line = s.count
      <4>1. Givings(Now', name, l) = Givings(Now, name, l) \cup Given(s, name)
        BY <1>2, <1>3, <2>2
      <4>2. Given(s, name) = {given}
        BY <2>2, GivesTrace
      <4> QED
        BY <4>1, <4>2
    <3> HIDE DEF given
    <3>2. PICK p \in 1 .. n - 1 : \E f \in Givings(trace[p], name, l) : f.line = s.count
      BY <1>2, <1>4, <2>2, <3>1
    <3>3. p \in 1 .. n
      BY <1>3
    <3>4. PICK d \in sects[name].labels[l] : d.line = s.count
      BY <1>2, <2>2, <3>2, <3>3 DEF Tabled, n
    <3> QED
      BY <1>1, <1>2, <2>2, <3>4, StableIs
  <2> QED
    BY <2>1, <2>2
<1>7. \A q \in SectNames : sects'[q].labels = sects[q].labels
  BY <1>2, <1>6
<1>8. r \in Now \/ r \in U
  BY <1>3, GivesTrace
<1>9. r.sect \in SectNames
  <2>1. Len(trace') \in 1 .. Len(trace') /\ trace' \in Seq(SUBSET Entry)
    BY <1>3, GivesTrace DEF n
  <2>2. Now' \in SUBSET Entry
    BY <2>1, ElementOfSeq DEF Now
  <2> QED
    BY <2>2 DEF Entry
<1> DEFINE a == [sects[r.sect] EXCEPT !.count = r.line]
           b == [sects'[r.sect] EXCEPT !.count = r.line]
<1>10. /\ a.labels = sects[r.sect].labels /\ a.count = r.line
       /\ b.labels = a.labels /\ b.count = a.count
  <2>1. sects[r.sect] \in SectionType /\ sects'[r.sect] \in SectionType
    BY <1>9 DEF TypeOK
  <2>2. sects'[r.sect].labels = sects[r.sect].labels
    BY <1>7, <1>9
  <2> QED
    BY <2>1, <2>2 DEF SectionType
<1>11. /\ Referred(r) = IF r.use = "back" THEN Back(a, r.label) ELSE Fwd(a, r.label)
       /\ Referred(r)' = IF r.use = "back" THEN Back(b, r.label) ELSE Fwd(b, r.label)
  BY DEF Referred
<1> HIDE DEF a, b
<1>12. Referred(r)' = Referred(r)
  BY <1>10, <1>11, Finds
<1>13. CASE r \in Now
  BY <1>1, <1>5, <1>12, <1>13 DEF Referenced
<1>14. CASE r \in U
  <2>1. /\ r.sect = name /\ r.line = s.count
        /\ r.val = ValueOf(IF r.use = "back" THEN Back(s, r.label) ELSE Fwd(s, r.label))
        /\ r.val # Undef
    BY <1>14 DEF Gives, Steady
  <2>2. a.labels = s.labels /\ a.count = s.count
    BY <1>2, <1>10, <2>1
  <2>3. Back(a, r.label) = Back(s, r.label) /\ Fwd(a, r.label) = Fwd(s, r.label)
    BY <2>2, Finds
  <2> QED
    BY <1>11, <1>12, <2>1, <2>3
<1> QED
  BY <1>8, <1>13, <1>14

\* Lines that give no label and make no reference.
LEMMA KeptLocals ==
    ASSUME TypeOK, TypeOK', Tabled, Valued, Referenced, trace' = trace,
           \A s \in SectNames : sects'[s].labels = sects[s].labels, Steady' => Steady
    PROVE  Tabled' /\ Valued' /\ Referenced'
<1>1. Now' = Now
  BY DEF Now
<1>2. Tabled'
  BY DEF Tabled
<1>3. Valued'
  BY <1>1 DEF Valued
<1>4. Covered' => Covered
  BY <1>1 DEF Covered
<1>5. ASSUME Steady', NEW r \in Now PROVE Referred(r)' = Referred(r)
  <2> DEFINE a == [sects[r.sect] EXCEPT !.count = r.line]
             b == [sects'[r.sect] EXCEPT !.count = r.line]
  <2>1. r.sect \in SectNames
    <3>1. Len(trace) \in 1 .. Len(trace) /\ trace \in Seq(SUBSET Entry)
      BY <1>5, LenProperties DEF Steady, Tabled
    <3>2. Now \in SUBSET Entry
      BY <3>1, ElementOfSeq DEF Now
    <3> QED
      BY <3>2 DEF Entry
  <2>2. /\ a.labels = sects[r.sect].labels /\ a.count = r.line
        /\ b.labels = a.labels /\ b.count = a.count
    <3>1. sects[r.sect] \in SectionType /\ sects'[r.sect] \in SectionType
      BY <2>1 DEF TypeOK
    <3>2. sects'[r.sect].labels = sects[r.sect].labels
      BY <2>1
    <3> QED
      BY <3>1, <3>2 DEF SectionType
  <2>3. /\ Referred(r) = IF r.use = "back" THEN Back(a, r.label) ELSE Fwd(a, r.label)
        /\ Referred(r)' = IF r.use = "back" THEN Back(b, r.label) ELSE Fwd(b, r.label)
    BY DEF Referred
  <2> HIDE DEF a, b
  <2> QED
    BY <2>2, <2>3, Finds
<1>6. Referenced'
  BY <1>1, <1>4, <1>5 DEF Referenced
<1> QED
  BY <1>2, <1>3, <1>6

\* A pass begins with nothing recorded.
LEMMA LocalsBeginPass == TypeOK /\ Tabled /\ BeginPass => Tabled' /\ Valued' /\ Referenced'
<1> SUFFICES ASSUME TypeOK, Tabled, BeginPass PROVE Tabled' /\ Valued' /\ Referenced'
  OBVIOUS
<1> DEFINE n == Len(trace)
           none == {}
<1>1. trace' = Append(trace, none) /\ trace \in Seq(SUBSET Entry) /\ n \in Nat
  BY LenProperties DEF BeginPass, Tabled
<1>2. none \in SUBSET Entry
  OBVIOUS
<1> HIDE DEF none, n
<1>3. /\ trace' \in Seq(SUBSET Entry) /\ Len(trace') = n + 1 /\ trace'[n + 1] = none
      /\ \A p \in 1 .. n : trace'[p] = trace[p]
  BY <1>1, <1>2, AppendProperties DEF n
<1>4. Now' = {}
  BY <1>3 DEF Now, none
<1>5. \A s \in SectNames : sects'[s].labels = sects[s].labels
  BY DEF BeginPass, Selected, TypeOK, SectionType
<1>6. Tabled'
  <2>1. ASSUME NEW s \in SectNames, NEW l \in Labels
        PROVE  /\ \A d, e \in sects'[s].labels[l] : d.line = e.line => d = e
               /\ \A d \in sects'[s].labels[l] :
                    \E p \in 1 .. n + 1 : \E e \in Givings(trace'[p], s, l) : e.line = d.line
               /\ \A p \in 1 .. n + 1 : \A e \in Givings(trace'[p], s, l) :
                    \E d \in sects'[s].labels[l] : d.line = e.line
    <3> DEFINE D == sects[s].labels[l]
    <3>1. sects'[s].labels[l] = D
      BY <1>5
    <3>2. /\ \A d, e \in D : d.line = e.line => d = e
          /\ \A d \in D : \E p \in 1 .. n : \E e \in Givings(trace[p], s, l) : e.line = d.line
          /\ \A p \in 1 .. n : \A e \in Givings(trace[p], s, l) : \E d \in D : d.line = e.line
      BY DEF Tabled, n
    <3> HIDE DEF D
    <3>3. Givings(trace'[n + 1], s, l) = {}
      BY <1>3 DEF Givings, none
    <3>4. \A p \in 1 .. n : Givings(trace'[p], s, l) = Givings(trace[p], s, l)
      BY <1>3
    <3>5. \A d \in D : \E p \in 1 .. n + 1 : \E e \in Givings(trace'[p], s, l) : e.line = d.line
      <4> SUFFICES ASSUME NEW d \in D
                   PROVE  \E p \in 1 .. n + 1 : \E e \in Givings(trace'[p], s, l) : e.line = d.line
        OBVIOUS
      <4>1. PICK p \in 1 .. n : \E e \in Givings(trace[p], s, l) : e.line = d.line
        BY <3>2
      <4>2. p \in 1 .. n + 1
        BY <1>1
      <4> QED
        BY <3>4, <4>1, <4>2
    <3>6. \A p \in 1 .. n + 1 : \A e \in Givings(trace'[p], s, l) : \E d \in D : d.line = e.line
      <4> SUFFICES ASSUME NEW p \in 1 .. n + 1, NEW e \in Givings(trace'[p], s, l)
                   PROVE  \E d \in D : d.line = e.line
        OBVIOUS
      <4>1. p # n + 1
        BY <3>3
      <4>2. p \in 1 .. n
        BY <1>1, <4>1
      <4> QED
        BY <3>2, <3>4, <4>2
    <3> QED
      BY <3>1, <3>2, <3>5, <3>6
  <2> QED
    BY <1>3, <2>1 DEF Tabled
<1>7. Valued' /\ Referenced'
  BY <1>4 DEF Valued, Referenced, Givings
<1> QED
  BY <1>6, <1>7

(* The passes, and the sections that the calls go back to. *)
\* A step within a pass takes no section back to an earlier one or to a lower
\* address.
Onward ==
    /\ pass' = pass /\ Len(trace') = Len(trace)
    /\ \A s \in SectNames :
         /\ sects'[s].last = sects[s].last
         /\ sects[s].pass = pass => sects'[s].pass = pass /\ sects'[s].pc >= sects[s].pc

\* What an entry of the record is.
LEMMA NowType ==
    ASSUME Tabled, Len(trace) > 0
    PROVE  Now \in SUBSET Entry
<1>1. Len(trace) \in 1 .. Len(trace) /\ trace \in Seq(SUBSET Entry)
  BY LenProperties DEF Tabled
<1> QED
  BY <1>1, ElementOfSeq DEF Now

\* A line, or the end of a file.
LEMMA TimelyWithin ==
    ASSUME TypeOK, TypeOK', Tabled, Timely, phase = "lines",
           phase' \in {"lines", "aborted", "crash"},
           Onward, sects[cur'].pass = pass \/ sects'[cur'].pass = pass,
           \A i \in 2 .. Len(frames') : sects[frames'[i].back].pass = pass,
           \A r \in Now' : r \notin Now /\ r.use # "label" =>
               r.sect \in SectNames /\ sects'[r.sect].pc > 0 /\ sects'[r.sect].pass = pass
    PROVE  Timely'
<1>1. pass \in Nat /\ cur' \in SectNames /\ sects \in [SectNames -> SectionType]
      /\ sects' \in [SectNames -> SectionType] /\ frames' \in Seq(FrameType)
  BY SizesAssumption DEF TypeOK
<1>2. \A s \in SectNames : sects[s].pc \in Nat /\ sects'[s].pc \in Nat
  BY <1>1 DEF SectionType
<1>3. Len(trace') = pass' + 1
  BY DEF Timely, Onward
<1>4. sects'[cur'].pass = pass'
  BY <1>1 DEF Onward
<1>5. \A i \in 2 .. Len(frames') : sects'[frames'[i].back].pass = pass'
  <2> SUFFICES ASSUME NEW i \in 2 .. Len(frames') PROVE sects'[frames'[i].back].pass = pass'
    OBVIOUS
  <2>1. frames'[i] \in FrameType
    BY <1>1, LenProperties, ElementOfSeq
  <2>2. frames'[i].back \in SectNames
    BY <2>1 DEF FrameType
  <2> QED
    BY <2>2 DEF Onward
<1>6. ASSUME pass = 0, NEW r \in Now', r.use # "label"
      PROVE  sects'[r.sect].pc > 0 /\ sects'[r.sect].pass = 0
  <2>1. CASE r \in Now
    <3>1. sects[r.sect].pc > 0 /\ sects[r.sect].pass = 0
      BY <1>6, <2>1 DEF Timely
    <3>2. r.sect \in SectNames
      BY <1>1, <2>1, NowType DEF Entry, Timely
    <3> QED
      BY <1>2, <1>6, <3>1, <3>2 DEF Onward
  <2>2. CASE r \notin Now
    BY <1>6, <2>2
  <2> QED
    BY <2>1, <2>2
<1>7. pass = 0 => \A s \in SectNames : sects'[s].last = 0
  BY DEF Timely, Onward
<1>8. pass' = pass /\ phase' \notin {"begin", "done"}
  BY DEF Onward
<1> QED
  BY <1>3, <1>4, <1>5, <1>6, <1>7, <1>8 DEF Timely

\* The calls go back to the sections that they did.
LEMMA BacksKept ==
    ASSUME TypeOK, Timely, phase = "lines", SameCalls(frames')
    PROVE  \A i \in 2 .. Len(frames') : sects[frames'[i].back].pass = pass
<1>1. Len(frames) \in Nat
  BY FrontLast DEF TypeOK
<1> QED
  BY <1>1 DEF SameCalls, Timely

\* A new call goes back to the section that is current.
LEMMA BacksCalled ==
    ASSUME TypeOK, Timely, phase = "lines", NEW p, NEW kind, NEW arg, Enters(p, kind, arg), AtLine,
           p \in Files \cup Macros, kind \in {"file", "expansion"}, arg \in Value
    PROVE  \A i \in 2 .. Len(frames') : sects[frames'[i].back].pass = pass
<1>1. SameCalls(Advanced)
  BY SameCallsAdvanced DEF AtLine
<1>2. CASE TooDeep
  <2>1. frames' = Advanced
    BY <1>2 DEF Enters
  <2> QED
    BY <1>1, <2>1, BacksKept
<1>3. CASE ~ TooDeep
  <2> DEFINE new == Frame(p, kind, arg)
             n == Len(Advanced)
  <2>1. frames' = Append(Advanced, new)
    BY <1>3 DEF Enters, Call
  <2>2. new \in FrameType /\ new.back = cur
    BY EmptySeq DEF Frame, FrameType, TypeOK, NoCond, CondType
  <2>3. Advanced \in Seq(FrameType) /\ n \in Nat /\ n = Len(frames)
    BY <1>1, LenProperties DEF SameCalls
  <2> HIDE DEF new
  <2>4. Len(frames') = n + 1 /\ frames'[n + 1] = new /\ \A i \in 1 .. n : frames'[i] = Advanced[i]
    BY <2>1, <2>2, <2>3, AppendProperties
  <2> SUFFICES ASSUME NEW i \in 2 .. Len(frames') PROVE sects[frames'[i].back].pass = pass
    OBVIOUS
  <2>5. CASE i = n + 1
    BY <2>2, <2>4, <2>5 DEF Timely
  <2>6. CASE i # n + 1
    <3>1. i \in 1 .. n /\ i \in 2 .. n
      BY <2>3, <2>4, <2>6
    <3>2. frames'[i].back = frames[i].back
      BY <1>1, <2>3, <2>4, <3>1 DEF SameCalls
    <3> QED
      BY <2>3, <3>1, <3>2 DEF Timely
  <2> QED
    BY <2>5, <2>6
<1> QED
  BY <1>2, <1>3

\* Lines that give no local label and make no reference to one.
LEMMA LocatedKept ==
    ASSUME TypeOK, TypeOK', Located, AtLine, trace' = trace, sects' = Counted, SameCalls(frames'),
           cur' = cur, pass' = pass, phase' \in {"lines", "aborted", "crash"},
           level' < Inconsistent => level < Inconsistent
    PROVE  Located'
<1>1. phase = "lines" /\ sects \in [SectNames -> SectionType] /\ cur \in SectNames
  BY DEF AtLine, TypeOK
<1>2. \A s \in SectNames :
        /\ sects'[s].labels = sects[s].labels /\ sects'[s].last = sects[s].last
        /\ sects'[s].pass = sects[s].pass /\ sects'[s].pc = sects[s].pc /\ sects[s].pc \in Nat
  BY <1>1 DEF Counted, SectionType
<1>3. Onward
  BY <1>2 DEF Onward
<1>4. Len(trace) > 0
  <2>1. pass \in Nat
    BY SizesAssumption DEF TypeOK
  <2> QED
    BY <1>1, <2>1 DEF Located, Timely
<1>5. Steady' => Steady
  BY <1>1, <1>4 DEF Steady
<1>6. Tabled' /\ Valued' /\ Referenced'
  BY <1>2, <1>5, KeptLocals DEF Located
<1>7. Timely'
  <2>1. \A i \in 2 .. Len(frames') : sects[frames'[i].back].pass = pass
    BY <1>1, BacksKept DEF Located
  <2>2. Now' = Now /\ sects[cur'].pass = pass
    BY <1>1 DEF Now, Located, Timely
  <2> QED
    BY <1>1, <1>3, <2>1, <2>2, TimelyWithin DEF Located
<1> QED
  BY <1>6, <1>7 DEF Located

\* A line that gives a local label or makes a reference.
LEMMA LocatedGives ==
    ASSUME TypeOK, TypeOK', Located, phase = "lines", phase' = "lines", pass' = pass,
           NEW s, NEW name, NEW U, Gives(s, name, U),
           \A q \in SectNames :
               /\ sects'[q].last = sects[q].last
               /\ sects[q].pass = pass => sects'[q].pass = pass /\ sects'[q].pc >= sects[q].pc,
           sects[cur'].pass = pass \/ sects'[cur'].pass = pass,
           \A i \in 2 .. Len(frames') : sects[frames'[i].back].pass = pass,
           U # {} => sects'[name].pc > 0 /\ sects'[name].pass = pass
    PROVE  Located'
<1>1. Len(trace) > 0
  <2>1. pass \in Nat
    BY SizesAssumption DEF TypeOK
  <2> QED
    BY <2>1 DEF Located, Timely
<1>2. sects' \in [SectNames -> SectionType]
  BY DEF TypeOK
<1>3. Tabled' /\ Valued' /\ Referenced'
  BY <1>1, <1>2, GivesTabled, GivesValued, GivesReferenced DEF Located
<1>4. Len(trace') = Len(trace) /\ Now' = Now \cup Given(s, name) \cup U
      /\ \A g \in Given(s, name) : g.use = "label"
  BY <1>1, GivesTrace DEF Located
<1>5. Onward
  BY <1>4 DEF Onward
<1>6. ASSUME NEW r \in Now', r \notin Now, r.use # "label"
      PROVE  r.sect \in SectNames /\ sects'[r.sect].pc > 0 /\ sects'[r.sect].pass = pass
  <2>1. r \in U
    BY <1>4, <1>6
  <2> QED
    BY <2>1 DEF Gives
<1>7. Timely'
  BY <1>5, <1>6, TimelyWithin DEF Located
<1> QED
  BY <1>3, <1>7 DEF Located

\* Counting a line does nothing else.
LEMMA CountedIs ==
    ASSUME TypeOK, AtLine
    PROVE  /\ Counted \in [SectNames -> SectionType] /\ counted \in SectionType
           /\ counted = [sects[cur] EXCEPT !.count = @ + 1]
           /\ \A q \in SectNames \ {cur} : Counted[q] = sects[q]
           /\ \A q \in SectNames :
                /\ Counted[q].labels = sects[q].labels /\ Counted[q].last = sects[q].last
                /\ Counted[q].pc = sects[q].pc /\ Counted[q].pass = sects[q].pass
                /\ sects[q].pc \in Nat
           /\ cur \in SectNames
BY LineTypes DEF TypeOK, Counted, counted, SectionType

\* What a reference finds is a value, or nothing.
LEMMA UsedType ==
    ASSUME TypeOK, AtLine, line.op \in {"back", "fwd"},
           NEW val, val = ValueOf(IF line.op = "back" THEN Back(counted, line.arg)
                                  ELSE Fwd(counted, line.arg))
    PROVE  Used(val) \in SUBSET Entry
<1>1. counted \in SectionType /\ line.arg \in Labels /\ cur \in SectNames
  BY LineTypes, CountedIs DEF Line
<1>2. counted.labels[line.arg] \in SUBSET Local /\ counted.count \in Nat
  BY <1>1 DEF SectionType
<1> DEFINE ds == IF line.op = "back" THEN Back(counted, line.arg) ELSE Fwd(counted, line.arg)
<1>3. ds \in SUBSET Local
  BY <1>2 DEF Back, Fwd
<1> HIDE DEF ds
<1>4. ValueOf(ds) \in Nat \cup {Undef}
  BY <1>3 DEF ValueOf, Local
<1> QED
  BY <1>1, <1>2, <1>4 DEF Used, Entry, ds

\* A reference emits a byte, so that the section is no longer empty.
LEMMA LocatedPlain == TypeOK /\ TypeOK' /\ Located /\ Plain => Located'
<1> SUFFICES ASSUME TypeOK, TypeOK', Located, Plain PROVE Located'
  OBVIOUS
<1> DEFINE refers == line.op \in {"back", "fwd"}
           val == CASE line.op = "back" -> ValueOf(Back(counted, line.arg))
                    [] line.op = "fwd"  -> ValueOf(Fwd(counted, line.arg))
                    [] line.op = "byte" -> ValueOfOperand(line.arg)
                    [] line.op = "none" -> 0
           size == IF line.op = "none" THEN 0 ELSE 1
           evaluated == IF line.op = "byte" /\ Missing(line.arg) THEN Raise(level, Syntax)
                        ELSE RaiseIf(val = Undef, level, Inconsistent)
           U == IF refers THEN Used(val) ELSE {}
           s == counted
           t == [Labelled(s) EXCEPT !.pc = @ + size]
<1>1. AtLine /\ line.op \in {"none", "byte", "back", "fwd"}
  BY DEF Plain, Assembles, NotDefining
<1>2. /\ level' = RaiseIf(Unstable(s), evaluated, Inconsistent)
      /\ sects' = [sects EXCEPT ![cur] = t]
      /\ Traced(Given(s, cur) \cup U)
      /\ frames' = Advanced /\ cur' = cur /\ phase' = phase /\ pass' = pass
  BY DEF Plain, Assembles
<1>3. phase = "lines" /\ frames # << >> /\ level \in Level /\ size \in {0, 1}
      /\ (refers => size = 1)
  BY <1>1, LineTypes
<1>4. refers => val = ValueOf(IF line.op = "back" THEN Back(s, line.arg) ELSE Fwd(s, line.arg))
  OBVIOUS
<1> HIDE DEF val, size
<1>5. U \in SUBSET Entry
  BY <1>1, <1>4, UsedType
<1>6. \A u \in U : u = [sect |-> cur, line |-> s.count, use |-> line.op, label |-> line.arg,
                        val |-> val]
  BY DEF Used
<1>7. ASSUME level' < Inconsistent
      PROVE  level < Inconsistent /\ ~ Unstable(s) /\ \A u \in U : u.val # Undef
  <2>1. Raise(level, Syntax) \in Level /\ RaiseIf(val = Undef, level, Inconsistent) \in Level
        /\ ~ Raise(level, Syntax) < Inconsistent /\ Unstable(s) \in BOOLEAN
    BY <1>1, <1>3, CountedIs, LabelledType DEF Raise, RaiseIf, Level
  <2>2. evaluated < Inconsistent /\ ~ Unstable(s)
    BY <1>2, <1>7, <2>1 DEF Raise, RaiseIf, Level
  <2>3. level < Inconsistent /\ val # Undef
    BY <1>3, <2>1, <2>2 DEF Raise, RaiseIf, Level
  <2> QED
    BY <1>6, <2>2, <2>3
<1> HIDE DEF U, evaluated
<1>8. /\ Labelled(s) \in SectionType /\ Labelled(s).pc = s.pc /\ Labelled(s).pass = s.pass
      /\ Labelled(s).last = s.last
  BY <1>1, CountedIs, LabelledIs, LabelledType
<1>9. /\ t.labels = Labelled(s).labels /\ t.pc = s.pc + size /\ t.pass = s.pass
      /\ t.last = s.last
  BY <1>8 DEF SectionType
<1>10. /\ s \in SectionType /\ s.labels = sects[cur].labels /\ s.pc = sects[cur].pc /\ s.pc \in Nat
       /\ s.pass = sects[cur].pass /\ s.last = sects[cur].last /\ cur \in SectNames
  BY <1>1, CountedIs DEF counted
<1> HIDE DEF t
<1>11. sects'[cur] = t /\ \A q \in SectNames \ {cur} : sects'[q] = sects[q]
  BY <1>2, <1>10 DEF TypeOK
<1>12. Gives(s, cur, U)
  <2>1. \A u \in U : /\ u.use # "label" /\ u.sect = cur /\ u.line = s.count
                     /\ u.val = ValueOf(IF u.use = "back" THEN Back(s, u.label)
                                        ELSE Fwd(s, u.label))
    BY <1>4, <1>6 DEF U
  <2>2. \A n \in SectNames :
          sects'[n].labels = IF n = cur THEN Labelled(s).labels ELSE sects[n].labels
    BY <1>9, <1>11
  <2> QED
    BY <1>2, <1>5, <1>7, <1>10, <2>1, <2>2 DEF Gives
<1>13. \A q \in SectNames :
         /\ sects'[q].last = sects[q].last
         /\ sects[q].pass = pass => sects'[q].pass = pass /\ sects'[q].pc >= sects[q].pc
  <2> SUFFICES ASSUME NEW q \in SectNames
               PROVE  /\ sects'[q].last = sects[q].last
                      /\ sects[q].pass = pass => /\ sects'[q].pass = pass
                                                 /\ sects'[q].pc >= sects[q].pc
    OBVIOUS
  <2>1. CASE q = cur
    BY <1>3, <1>9, <1>10, <1>11, <2>1
  <2>2. CASE q # cur
    BY <1>1, <1>11, <2>2, CountedIs
  <2> QED
    BY <2>1, <2>2
<1>14. sects[cur'].pass = pass
  BY <1>2, <1>3 DEF Located, Timely
<1>15. \A i \in 2 .. Len(frames') : sects[frames'[i].back].pass = pass
  BY <1>2, <1>3, SameCallsAdvanced, BacksKept DEF Located
<1>16. U # {} => sects'[cur].pc > 0 /\ sects'[cur].pass = pass
  <2>1. sects[cur].pass = pass
    BY <1>2, <1>14
  <2>2. U # {} => size = 1
    BY <1>3 DEF U
  <2> QED
    BY <1>9, <1>10, <1>11, <2>1, <2>2
<1> QED
  BY <1>2, <1>3, <1>12, <1>13, <1>14, <1>15, <1>16, LocatedGives

\* A line that goes on in the section, and gives it a label.
LEMMA GivesHere ==
    ASSUME TypeOK, TypeOK', Located, AtLine, phase' = "lines", cur' = cur, pass' = pass,
           sects' = [sects EXCEPT ![cur] = Labelled(counted)], Traced(Given(counted, cur)),
           \A i \in 2 .. Len(frames') : sects[frames'[i].back].pass = pass,
           level' < Inconsistent => level < Inconsistent /\ ~ Unstable(counted)
    PROVE  Located'
<1> DEFINE s == counted
           t == Labelled(s)
<1>1. phase = "lines"
  BY DEF AtLine
<1>2. /\ s \in SectionType /\ s.labels = sects[cur].labels /\ s.pc = sects[cur].pc
      /\ s.pc \in Nat /\ s.pass = sects[cur].pass /\ s.last = sects[cur].last
      /\ cur \in SectNames /\ \A q \in SectNames : sects[q].pc \in Nat
  BY CountedIs DEF counted
<1>3. t.pc = s.pc /\ t.pass = s.pass /\ t.last = s.last
  BY <1>2, LabelledIs
<1> HIDE DEF s, t
<1>4. sects'[cur] = t /\ \A q \in SectNames \ {cur} : sects'[q] = sects[q]
  BY <1>2 DEF TypeOK, s, t
<1>5. Gives(s, cur, {})
  <2>1. Traced(Given(s, cur) \cup {}) /\ {} \in SUBSET Entry
    BY DEF s
  <2> QED
    BY <1>2, <1>4, <2>1 DEF Gives, s, t
<1>6. \A q \in SectNames :
         /\ sects'[q].last = sects[q].last
         /\ sects[q].pass = pass => sects'[q].pass = pass /\ sects'[q].pc >= sects[q].pc
  BY <1>2, <1>3, <1>4
<1>7. sects[cur'].pass = pass
  BY <1>1 DEF Located, Timely
<1> QED
  BY <1>1, <1>5, <1>6, <1>7, LocatedGives

\* INCLUDE, and the call of a macro, may have a label.
LEMMA LocatedInclude == TypeOK /\ TypeOK' /\ Located /\ Include => Located'
<1> SUFFICES ASSUME TypeOK, TypeOK', Located, Include PROVE Located'
  OBVIOUS
<1>1. AtLine /\ line.op = "include" /\ Enters(line.arg, "file", NoName)
  BY DEF Include, Assembles, NotDefining
<1>2. /\ phase' = "lines" /\ cur' = cur /\ pass' = pass /\ Traced(Given(counted, cur))
      /\ sects' = [sects EXCEPT ![cur] = Labelled(counted)]
  BY <1>1 DEF Include, Assembles, Enters, AtLine
<1>3. \A i \in 2 .. Len(frames') : sects[frames'[i].back].pass = pass
  <2>1. line.arg \in Files \cup Macros /\ NoName \in Value
    BY <1>1, LineTypes DEF Line, Value
  <2> QED
    BY <1>1, <2>1, BacksCalled DEF Located, AtLine
<1>4. level' < Inconsistent => level < Inconsistent /\ ~ Unstable(counted)
  <2>1. level \in Level /\ Unstable(counted) \in BOOLEAN
    BY <1>1, LineTypes, LabelledType
  <2>2. level' = RaiseIf(TooDeep, RaiseIf(Unstable(counted), level, Inconsistent), Fatal)
    BY DEF Include
  <2> QED
    BY <2>1, <2>2 DEF RaiseIf, Raise, Level
<1> QED
  BY <1>1, <1>2, <1>3, <1>4, GivesHere

LEMMA LocatedExpand == TypeOK /\ TypeOK' /\ Located /\ Expand => Located'
<1> SUFFICES ASSUME TypeOK, TypeOK', Located, Expand PROVE Located'
  OBVIOUS
<1> DEFINE arg == IF line.par = NoName THEN NoName ELSE ValueOfOperand(line.par)
           operand == RaiseIf(line.par = "flag" /\ arg = Undef,
                              RaiseIf(Missing(line.par), level, Syntax), Inconsistent)
           before == RaiseIf(Unstable(counted), operand, Inconsistent)
<1>1. AtLine /\ line.op = "call"
  BY DEF Expand, Assembles, NotDefining
<1>2. /\ phase' = "lines" /\ cur' = cur /\ pass' = pass /\ Traced(Given(counted, cur))
      /\ sects' = [sects EXCEPT ![cur] = Labelled(counted)]
  BY <1>1 DEF Expand, Assembles, Enters, AtLine
<1>3. \A i \in 2 .. Len(frames') : sects[frames'[i].back].pass = pass
  <2>1. line.arg \in Files \cup Macros /\ arg \in Value
    BY <1>1, LineTypes, OperandTypes DEF Line, Value
  <2>2. Enters(line.arg, "expansion", arg) \/ frames' = Advanced
    BY DEF Expand
  <2> HIDE DEF arg
  <2>3. CASE Enters(line.arg, "expansion", arg)
    BY <1>1, <2>1, <2>3, BacksCalled DEF Located, AtLine
  <2>4. CASE frames' = Advanced
    BY <1>1, <2>4, SameCallsAdvanced, BacksKept DEF Located, AtLine
  <2> QED
    BY <2>2, <2>3, <2>4
<1>4. level' < Inconsistent => level < Inconsistent /\ ~ Unstable(counted)
  <2>1. level' = RaiseIf(TooDeep, before, Fatal) \/ level' = Raise(before, Syntax)
    BY DEF Expand
  <2>2. level \in Level /\ Unstable(counted) \in BOOLEAN
    BY <1>1, LineTypes, LabelledType
  <2>3. operand \in Level /\ (operand < Inconsistent => level < Inconsistent)
    BY <2>2 DEF RaiseIf, Raise, Level
  <2> HIDE DEF operand
  <2>4. before \in Level /\ (before < Inconsistent => operand < Inconsistent /\ ~ Unstable(counted))
    BY <2>2, <2>3 DEF RaiseIf, Raise, Level
  <2> HIDE DEF before
  <2>5. level' < Inconsistent => before < Inconsistent
    BY <2>1, <2>4 DEF RaiseIf, Raise, Level
  <2> QED
    BY <2>3, <2>4, <2>5
<1> QED
  BY <1>1, <1>2, <1>3, <1>4, GivesHere

\* The label of SECTION is given to the new section.
LEMMA LocatedSection == TypeOK /\ TypeOK' /\ Located /\ Section => Located'
<1> SUFFICES ASSUME TypeOK, TypeOK', Located, Section PROVE Located'
  OBVIOUS
<1> DEFINE name == line.arg
           s == Selected(Counted, name, pass)[name]
           t == Labelled(s)
<1>1. AtLine /\ line.op = "section" /\ phase = "lines"
  BY DEF Section, Assembles, NotDefining, AtLine
<1>2. /\ cur' = name /\ phase' = "lines" /\ pass' = pass /\ frames' = Advanced
      /\ sects' = [Counted EXCEPT ![name] = t] /\ Traced(Given(s, name))
      /\ level' = RaiseIf(Unstable(s), level, Inconsistent)
  BY <1>1 DEF Section, Assembles
<1>3. level \in Level /\ name \in SectNames /\ pass \in Nat /\ cur \in SectNames
  BY <1>1, LineTypes, SizesAssumption DEF Line, TypeOK
<1>4. /\ Counted \in [SectNames -> SectionType]
      /\ \A q \in SectNames :
           /\ Counted[q].labels = sects[q].labels /\ Counted[q].last = sects[q].last
           /\ Counted[q].pc = sects[q].pc /\ Counted[q].pass = sects[q].pass
           /\ sects[q].pc \in Nat
  BY <1>1, CountedIs
<1>5. /\ s \in SectionType /\ s.labels = Counted[name].labels /\ s.last = Counted[name].last
      /\ s.pass = pass /\ (Counted[name].pass = pass => s = Counted[name])
  <2>1. s \in SectionType
    BY <1>3, <1>4, SelectedType
  <2>2. CASE Counted[name].pass = pass
    BY <2>1, <2>2 DEF Selected
  <2>3. CASE Counted[name].pass # pass
    <3> DEFINE pc == IF Counted[cur].pass = pass THEN Counted[cur].last ELSE 0
    <3>1. s = [Counted[name] EXCEPT !.pass = pass, !.count = 0, !.pc = pc]
      BY <1>3, <1>4, <2>3 DEF Selected
    <3> HIDE DEF pc, s
    <3>2. Counted[name] \in SectionType
      BY <1>3, <1>4
    <3>3. s.labels = Counted[name].labels /\ s.last = Counted[name].last /\ s.pass = pass
      BY <3>1, <3>2 DEF SectionType
    <3> QED
      BY <2>1, <2>3, <3>3
  <2> QED
    BY <2>2, <2>3
<1> HIDE DEF s
<1>6. /\ t \in SectionType /\ t.pc = s.pc /\ t.pass = s.pass /\ t.last = s.last
      /\ Unstable(s) \in BOOLEAN
  BY <1>5, LabelledIs, LabelledType
<1>7. level' < Inconsistent => level < Inconsistent /\ ~ Unstable(s)
  BY <1>2, <1>3, <1>6 DEF RaiseIf, Raise, Level
<1> HIDE DEF name
<1>8. sects'[name] = t /\ \A q \in SectNames \ {name} : sects'[q] = Counted[q]
  BY <1>2, <1>3, <1>4
<1>9. Gives(s, name, {})
  <2>1. Traced(Given(s, name) \cup {}) /\ {} \in SUBSET Entry
    BY <1>2
  <2>2. s.labels = sects[name].labels
    BY <1>3, <1>4, <1>5
  <2>3. \A n \in SectNames :
          sects'[n].labels = IF n = name THEN Labelled(s).labels ELSE sects[n].labels
    BY <1>4, <1>8
  <2> QED
    BY <1>3, <1>5, <1>7, <2>1, <2>2, <2>3 DEF Gives
<1> HIDE DEF t
<1>10. \A q \in SectNames :
         /\ sects'[q].last = sects[q].last
         /\ sects[q].pass = pass => sects'[q].pass = pass /\ sects'[q].pc >= sects[q].pc
  <2> SUFFICES ASSUME NEW q \in SectNames
               PROVE  /\ sects'[q].last = sects[q].last
                      /\ sects[q].pass = pass => /\ sects'[q].pass = pass
                                                 /\ sects'[q].pc >= sects[q].pc
    OBVIOUS
  <2>1. CASE q = name
    BY <1>3, <1>4, <1>5, <1>6, <1>8, <2>1
  <2>2. CASE q # name
    BY <1>4, <1>8, <2>2
  <2> QED
    BY <2>1, <2>2
<1>11. sects'[cur'].pass = pass
  BY <1>2, <1>5, <1>6, <1>8
<1>12. \A i \in 2 .. Len(frames') : sects[frames'[i].back].pass = pass
  BY <1>1, <1>2, SameCallsAdvanced, BacksKept DEF Located, AtLine
<1> QED
  BY <1>1, <1>2, <1>9, <1>10, <1>11, <1>12, LocatedGives

\* Lines that are about macros and conditions, and those that are passed over.
LEMMA LocatedQuiet ==
    ASSUME TypeOK, TypeOK', Located,
           Blank \/ Excludes \/ Conditional \/ Flag \/ StartMacro \/ EndMacro \/ BodyLine
    PROVE  Located'
<1>1. /\ AtLine /\ trace' = trace /\ sects' = Counted /\ cur' = cur /\ pass' = pass
      /\ phase' \in {"lines", "aborted", "crash"}
  BY DEF Blank, Excludes, Conditional, Flag, StartMacro, EndMacro, BodyLine, Assembles,
         NotDefining, AtLine
<1>2. SameCalls(frames')
  <2>1. CASE Conditional
    <3>1. CondStep(line.op, top.cond, Holds(line.arg)) \in CondType
      BY <1>1, <2>1, LineTypes, OperandTypes, CondStepType DEF Conditional, FrameType
    <3> QED
      BY <1>1, <2>1, <3>1, SameCallsTop DEF Conditional, AtLine
  <2>2. CASE ~ Conditional
    <3>1. frames' = Advanced
      BY <2>2 DEF Blank, Excludes, Flag, StartMacro, EndMacro, BodyLine
    <3> QED
      BY <1>1, <3>1, SameCallsAdvanced DEF AtLine
  <2> QED
    BY <2>1, <2>2
<1>3. level' < Inconsistent => level < Inconsistent
  <2>1. level' = level \/ level' = Raise(level, Syntax)
    <3>1. CASE Blank \/ Excludes \/ BodyLine
      BY <3>1 DEF Blank, Excludes, BodyLine
    <3>2. CASE Conditional
      BY <3>2 DEF Conditional, RaiseIf
    <3>3. CASE Flag
      BY <3>3 DEF Flag, RaiseIf
    <3>4. CASE StartMacro
      BY <3>4 DEF StartMacro, RaiseIf
    <3>5. CASE EndMacro
      BY <3>5 DEF EndMacro, RaiseIf
    <3> QED
      BY <3>1, <3>2, <3>3, <3>4, <3>5
  <2>2. level \in Level
    BY <1>1, LineTypes
  <2> QED
    BY <2>1, <2>2 DEF Raise, Level
<1> QED
  BY <1>1, <1>2, <1>3, LocatedKept

\* The end of an included file goes back to a section of this pass.
LEMMA LocatedReturn == TypeOK /\ TypeOK' /\ Located /\ Return => Located'
<1> SUFFICES ASSUME TypeOK, TypeOK', Located, Return PROVE Located'
  OBVIOUS
<1> DEFINE n == Len(frames)
<1>1. /\ phase = "lines" /\ phase' \in {"lines", "aborted"} /\ frames # << >>
      /\ frames' = Front(frames) /\ UNCHANGED <<pass, sects, trace>>
      /\ cur' = IF top.kind = "file" /\ n > 1 THEN top.back ELSE cur
  BY DEF Return, AtEnd
<1>2. /\ n \in Nat /\ n > 0 /\ Len(frames') = n - 1 /\ top = frames[n]
      /\ \A i \in 1 .. n - 1 : frames'[i] = frames[i]
  BY <1>1, FrontLast DEF TypeOK, top, Last
<1>3. level' < Inconsistent => level < Inconsistent
  <2>1. \E a, b \in BOOLEAN : level' = RaiseIf(a, RaiseIf(b, level, Syntax), Syntax)
    <3>1. Free(ctxs, CtxOf(top.kind, top.prog, n)).unfinished \in BOOLEAN
          /\ (top.cond.list # << >>) \in BOOLEAN
      BY FreeType
    <3> QED
      BY <3>1 DEF Return
  <2>2. level \in Level
    BY DEF TypeOK, Level
  <2> QED
    BY <2>1, <2>2 DEF RaiseIf, Raise, Level
<1>4. Len(trace) > 0
  <2>1. pass \in Nat
    BY SizesAssumption DEF TypeOK
  <2> QED
    BY <1>1, <2>1 DEF Located, Timely
<1>5. Steady' => Steady
  BY <1>1, <1>3, <1>4 DEF Steady
<1>6. Tabled' /\ Valued' /\ Referenced'
  BY <1>1, <1>5, KeptLocals DEF Located
<1>7. Onward
  <2>1. \A s \in SectNames : sects[s].pc \in Nat
    BY DEF TypeOK, SectionType
  <2> QED
    BY <1>1, <2>1 DEF Onward
<1>8. sects[cur'].pass = pass
  <2>1. CASE top.kind = "file" /\ n > 1
    BY <1>1, <1>2, <2>1 DEF Located, Timely
  <2>2. CASE ~ (top.kind = "file" /\ n > 1)
    BY <1>1, <2>2 DEF Located, Timely
  <2> QED
    BY <2>1, <2>2
<1>9. \A i \in 2 .. Len(frames') : sects[frames'[i].back].pass = pass
  BY <1>1, <1>2 DEF Located, Timely
<1>10. Now' = Now
  BY <1>1 DEF Now
<1>11. Timely'
  BY <1>1, <1>7, <1>8, <1>9, <1>10, TimelyWithin DEF Located
<1> QED
  BY <1>6, <1>11 DEF Located

\* The end of a pass: it is the last only if no section has moved, which in the
\* first pass means that all are empty.
LEMMA LocatedEndPass == TypeOK /\ TypeOK' /\ Located /\ EndPass => Located'
<1> SUFFICES ASSUME TypeOK, TypeOK', Located, EndPass PROVE Located'
  OBVIOUS
<1>1. /\ phase = "lines" /\ trace' = trace /\ frames' = frames /\ frames = << >>
      /\ level' = PassLevel
      /\ sects' = [s \in SectNames |-> [sects[s] EXCEPT !.last = sects[s].pc]]
  BY DEF EndPass
<1>2. \/ phase' = "begin" /\ pass' = pass + 1
      \/ phase' = "done" /\ pass' = pass /\ PassLevel < Inconsistent
      \/ phase' = "failed"
  BY DEF EndPass
<1>3. /\ pass \in Nat /\ level \in Level /\ Len(trace) = pass + 1
      /\ sects \in [SectNames -> SectionType]
  BY <1>1, SizesAssumption DEF TypeOK, Level, Located, Timely
<1>4. PassLevel < Inconsistent => level < Inconsistent /\ Moved = {}
  BY <1>3 DEF PassLevel, RaiseIf, Raise, Level
<1>5. \A s \in SectNames : sects'[s].labels = sects[s].labels
  BY <1>1, <1>3 DEF SectionType
<1>6. Steady' => Steady
  BY <1>1, <1>3, <1>4 DEF Steady
<1>7. Tabled' /\ Valued' /\ Referenced'
  BY <1>1, <1>5, <1>6, KeptLocals DEF Located
<1>8. ASSUME phase' = "done", PassLevel < Inconsistent, pass = 0, NEW r \in Now
      PROVE  r.use = "label"
  <2>1. Len(trace) > 0
    BY <1>3
  <2>2. r.sect \in SectNames
    BY <2>1, NowType DEF Entry, Located
  <2>3. sects[r.sect].last = 0 /\ sects[r.sect].last = sects[r.sect].pc
    BY <1>1, <1>4, <1>8, <2>2 DEF Located, Timely, Moved
  <2> QED
    BY <1>1, <1>8, <2>3 DEF Located, Timely
<1>9. Timely'
  <2>1. CASE phase' = "begin" /\ pass' = pass + 1
    BY <1>1, <1>3, <2>1 DEF Timely
  <2>2. CASE phase' = "done" /\ PassLevel < Inconsistent
    <3>1. Now' = Now /\ level' < Inconsistent /\ Len(trace') > 0
      BY <1>1, <1>3, <2>2 DEF Now
    <3> DEFINE m == Len(trace)
    <3>2. m = pass + 1 /\ pass \in Nat
      BY <1>3
    <3> HIDE DEF m
    <3>3. m = 1 => pass = 0
      BY <3>2
    <3>4. m = 1 => \A r \in Now : r.use = "label"
      BY <1>8, <2>2, <3>3
    <3> QED
      BY <1>1, <2>2, <3>1, <3>4 DEF Timely, m
  <2>3. CASE phase' = "failed"
    BY <2>3 DEF Timely
  <2> QED
    BY <1>2, <2>1, <2>2, <2>3
<1> QED
  BY <1>7, <1>9 DEF Located

\* The lines of a pass begin in the section for code.
LEMMA LocatedBeginPass == TypeOK /\ TypeOK' /\ Located /\ BeginPass => Located'
<1> SUFFICES ASSUME TypeOK, TypeOK', Located, BeginPass PROVE Located'
  OBVIOUS
<1> DEFINE none == {}
           new == Frame(Main, "file", NoName)
           calls == << >>
<1>1. Tabled' /\ Valued' /\ Referenced'
  BY LocalsBeginPass DEF Located
<1>2. /\ phase = "begin" /\ phase' = "lines" /\ pass' = pass /\ trace' = Append(trace, none)
      /\ sects' = Selected(sects, Code, pass) /\ cur' = Code
      /\ frames' = Append(calls, new)
  BY DEF BeginPass, Call
<1>3. /\ pass \in Nat /\ Len(trace) = pass /\ trace \in Seq(SUBSET Entry) /\ Code \in SectNames
      /\ sects \in [SectNames -> SectionType] /\ cur \in SectNames
  BY <1>2, SizesAssumption, NamesAssumption DEF TypeOK, Located, Timely, Tabled
<1>4. new \in FrameType
  BY EmptySeq, NamesAssumption DEF Frame, FrameType, TypeOK, NoCond, CondType, Value
<1>5. calls \in Seq(FrameType) /\ Len(calls) = 0
  BY EmptySeq
<1>6. none \in SUBSET Entry
  OBVIOUS
<1> HIDE DEF none, new, calls
<1>7. Len(trace') = pass + 1 /\ trace'[pass + 1] = none /\ Len(frames') = 1
  BY <1>2, <1>3, <1>4, <1>5, <1>6, AppendProperties
<1>8. Now' = {}
  BY <1>7 DEF Now, none
<1>9. sects'[Code].pass = pass /\ \A s \in SectNames : sects'[s].last = sects[s].last
  BY <1>2, <1>3 DEF Selected, SectionType
<1>10. pass = 0 => \A s \in SectNames : sects'[s].last = 0
  BY <1>2, <1>9 DEF Located, Timely
<1>11. Timely'
  BY <1>2, <1>7, <1>8, <1>9, <1>10 DEF Timely
<1> QED
  BY <1>1, <1>11 DEF Located

LEMMA LocatedInit == Init => Located
<1> SUFFICES ASSUME Init PROVE Located
  OBVIOUS
<1>1. /\ trace = << >> /\ phase = "begin" /\ pass = 0
      /\ sects = [s \in SectNames |-> NewSection]
  BY DEF Init
<1>2. Len(trace) = 0 /\ trace \in Seq(SUBSET Entry)
  BY <1>1, EmptySeq
<1>3. \A s \in SectNames : sects[s].last = 0 /\ \A l \in Labels : sects[s].labels[l] = {}
  BY <1>1 DEF NewSection
<1>4. Tabled
  BY <1>2, <1>3 DEF Tabled
<1>5. Valued /\ Referenced
  BY <1>1 DEF Valued, Referenced, Steady
<1>6. Timely
  BY <1>1, <1>2, <1>3 DEF Timely
<1> QED
  BY <1>4, <1>5, <1>6 DEF Located

LEMMA LocatedStep == TypeOK /\ TypeOK' /\ Located /\ [Next]_vars => Located'
<1> SUFFICES ASSUME TypeOK, TypeOK', Located, [Next]_vars PROVE Located'
  OBVIOUS
<1>1. CASE UNCHANGED vars
  <2>1. Now' = Now /\ phase' = phase /\ level' = level /\ trace' = trace /\ sects' = sects
        /\ UNCHANGED <<pass, cur, frames>>
    BY <1>1 DEF vars, Now
  <2>2. Steady' => Steady
    BY <2>1 DEF Steady
  <2>3. Tabled' /\ Valued' /\ Referenced'
    BY <2>1, <2>2, KeptLocals DEF Located
  <2>4. Timely'
    BY <2>1 DEF Located, Timely
  <2> QED
    BY <2>3, <2>4 DEF Located
<1> QED
  BY <1>1, LocatedQuiet, LocatedReturn, LocatedEndPass, LocatedBeginPass, LocatedPlain,
     LocatedSection, LocatedInclude, LocatedExpand DEF Next

\* The invariant implies the property.
LEMMA LocatedIsNearest == TypeOK /\ Located => SteadyLocals
<1> SUFFICES ASSUME TypeOK, Located, phase = "done",
                    \A p \in 1 .. Len(trace) : Places(p) = Places(Len(trace)),
                    NEW r \in Now, r.use # "label"
             PROVE  Nearest(r) = {r.val}
  BY DEF SteadyLocals, LocalsAreNearest, Now
<1> DEFINE n == Len(trace)
           s == r.sect
           l == r.label
           place(t) == [sect |-> t.sect, line |-> t.line, use |-> t.use, label |-> t.label]
<1>1. /\ level < Inconsistent /\ n \in Nat /\ n > 0 /\ n # 1
  BY LenProperties DEF Located, Timely, Tabled
<1>2. Steady
  BY <1>1 DEF Steady
<1>3. Now \in SUBSET Entry /\ trace[n] = Now /\ \A p \in 1 .. n : trace[p] \in SUBSET Entry
  BY <1>1, NowType, LenProperties, ElementOfSeq DEF Located, Tabled, Now
<1>4. s \in SectNames /\ l \in Labels /\ r.line \in Nat /\ r.use \in {"back", "fwd"}
  BY <1>3 DEF Entry
<1>5. ASSUME NEW p \in 1 .. n, NEW q \in 1 .. n, NEW t \in SectNames, NEW k \in Labels,
             NEW e \in Givings(trace[p], t, k)
      PROVE  \E f \in Givings(trace[q], t, k) : f.line = e.line
  <2>1. Places(p) = Places(q)
    OBVIOUS
  <2>2. place(e) \in Places(p)
    BY DEF Places, Givings
  <2>3. PICK f \in trace[q] : place(e) = place(f)
    BY <2>1, <2>2 DEF Places
  <2>4. f.sect = e.sect /\ f.line = e.line /\ f.use = e.use /\ f.label = e.label
    BY <2>3
  <2> QED
    BY <2>3, <2>4 DEF Givings
<1> HIDE DEF n, place
<1>6. n \in 1 .. n /\ 1 \in 1 .. n - 1 /\ 1 \in 1 .. n
  BY <1>1
<1>7. Covered
  <2> SUFFICES ASSUME NEW t \in SectNames, NEW k \in Labels, NEW e \in Givings(Now, t, k)
               PROVE  \E p \in 1 .. n - 1 : \E f \in Givings(trace[p], t, k) : f.line = e.line
    BY DEF Covered, n
  <2>1. \E f \in Givings(trace[1], t, k) : f.line = e.line
    BY <1>3, <1>5, <1>6
  <2> QED
    BY <1>6, <2>1
<1> DEFINE D == sects[s].labels[l]
           ds == Givings(Now, s, l)
           c == CHOOSE d \in Referred(r) : TRUE
<1>8. r.val # Undef /\ r.val = ValueOf(Referred(r))
  BY <1>2, <1>7 DEF Located, Referenced
<1>9. c \in Referred(r) /\ r.val = c.val
  BY <1>8 DEF ValueOf
<1>10. Referred(r) =
         IF r.use = "back"
         THEN {d \in D : d.line <= r.line /\ \A e \in D : e.line <= r.line => e.line <= d.line}
         ELSE {d \in D : d.line > r.line /\ \A e \in D : e.line > r.line => d.line <= e.line}
  <2> DEFINE a == [sects[s] EXCEPT !.count = r.line]
  <2>1. sects[s] \in SectionType
    BY <1>4 DEF TypeOK
  <2>2. a.labels = sects[s].labels /\ a.count = r.line
    BY <2>1 DEF SectionType
  <2>3. Referred(r) = IF r.use = "back" THEN Back(a, l) ELSE Fwd(a, l)
    BY DEF Referred
  <2> HIDE DEF a
  <2> QED
    BY <2>2, <2>3 DEF Back, Fwd
<1>11. Nearest(r) =
         IF r.use = "back"
         THEN {e.val : e \in {e \in ds : e.line <= r.line /\
                                 \A f \in ds : f.line <= r.line => f.line <= e.line}}
         ELSE {e.val : e \in {e \in ds : e.line > r.line /\
                                 \A f \in ds : f.line > r.line => e.line <= f.line}}
  BY DEF Nearest, Givings, Now
<1>12. \A d \in D : d.line \in Nat
  BY <1>4 DEF TypeOK, SectionType, Local
<1>13. \A d \in D : \E e \in ds : e.line = d.line /\ e.val = d.val
  <2> SUFFICES ASSUME NEW d \in D PROVE \E e \in ds : e.line = d.line /\ e.val = d.val
    OBVIOUS
  <2>1. PICK p \in 1 .. n : \E e \in Givings(trace[p], s, l) : e.line = d.line
    BY <1>4 DEF Located, Tabled, n
  <2>2. PICK e \in ds : e.line = d.line
    BY <1>3, <1>4, <1>5, <1>6, <2>1
  <2> QED
    BY <1>2, <1>4, <2>2 DEF Located, Valued
<1>14. \A e \in ds : \E d \in D : d.line = e.line /\ d.val = e.val
  <2> SUFFICES ASSUME NEW e \in ds PROVE \E d \in D : d.line = e.line /\ d.val = e.val
    OBVIOUS
  <2>1. PICK d \in D : d.line = e.line
    BY <1>3, <1>4, <1>6 DEF Located, Tabled, n
  <2> QED
    BY <1>2, <1>4, <2>1 DEF Located, Valued
<1>15. \A d, e \in D : d.line = e.line => d = e
  BY <1>4 DEF Located, Tabled
<1> HIDE DEF s, l, D, ds, c
<1>16. CASE r.use = "back"
  <2>1. c \in D /\ c.line <= r.line /\ \A d \in D : d.line <= r.line => d.line <= c.line
    BY <1>9, <1>10, <1>16
  <2>2. PICK e \in ds : e.line = c.line /\ e.val = c.val
    BY <1>13, <2>1
  <2>3. \A f \in ds : f.line <= r.line => f.line <= e.line
    BY <1>14, <2>1, <2>2
  <2>4. e.val \in Nearest(r)
    BY <1>11, <1>16, <2>1, <2>2, <2>3
  <2>5. ASSUME NEW f \in ds, f.line <= r.line, \A g \in ds : g.line <= r.line => g.line <= f.line
        PROVE  f.val = r.val
    <3>1. PICK d \in D : d.line = f.line /\ d.val = f.val
      BY <1>14
    <3>2. d.line <= c.line /\ c.line <= d.line
      BY <2>1, <2>2, <2>5, <3>1
    <3> QED
      BY <1>9, <1>12, <1>15, <2>1, <3>1, <3>2
  <2> QED
    BY <1>9, <1>11, <1>16, <2>2, <2>4, <2>5
<1>17. CASE r.use = "fwd"
  <2>1. c \in D /\ c.line > r.line /\ \A d \in D : d.line > r.line => c.line <= d.line
    BY <1>9, <1>10, <1>17
  <2>2. PICK e \in ds : e.line = c.line /\ e.val = c.val
    BY <1>13, <2>1
  <2>3. \A f \in ds : f.line > r.line => e.line <= f.line
    BY <1>14, <2>1, <2>2
  <2>4. e.val \in Nearest(r)
    BY <1>11, <1>17, <2>1, <2>2, <2>3
  <2>5. ASSUME NEW f \in ds, f.line > r.line, \A g \in ds : g.line > r.line => f.line <= g.line
        PROVE  f.val = r.val
    <3>1. PICK d \in D : d.line = f.line /\ d.val = f.val
      BY <1>14
    <3>2. d.line <= c.line /\ c.line <= d.line
      BY <2>1, <2>2, <2>5, <3>1
    <3> QED
      BY <1>9, <1>12, <1>15, <2>1, <3>1, <3>2
  <2> QED
    BY <1>9, <1>11, <1>17, <2>2, <2>4, <2>5
<1> QED
  BY <1>4, <1>16, <1>17

\* For all source files that give and use the local labels on the same lines in
\* every pass: every local reference of a successful assembly is to the nearest
\* definition of the label in its section.
THEOREM LocalsSteady == Spec => []SteadyLocals
<1> QED
  BY TypeInit, TypeStep, LocatedInit, LocatedStep, LocatedIsNearest, PTL DEF Spec
-----------------------------------------------------------------------------
(* Counting lines of a text, one after the other. *)
LEMMA CountNext ==
    ASSUME NEW P, NEW i \in Nat, NEW k \in Nat, i <= k + 1
    PROVE  /\ P \cap (i .. i - 1) = {} /\ Cardinality(P \cap (i .. i - 1)) = 0
           /\ P \cap (i .. k) \in SUBSET (i .. k) /\ Cardinality(P \cap (i .. k)) \in Nat
           /\ P \cap (i .. k + 1) = (P \cap (i .. k)) \cup (IF k + 1 \in P THEN {k + 1} ELSE {})
           /\ Cardinality(P \cap (i .. k + 1)) =
                Cardinality(P \cap (i .. k)) + IF k + 1 \in P THEN 1 ELSE 0
<1> DEFINE C == P \cap (i .. k)
<1>1. P \cap (i .. i - 1) = {} /\ Cardinality({}) = 0
  BY FS_EmptySet
<1>2. IsFiniteSet(C) /\ Cardinality(C) \in Nat /\ C \in SUBSET (i .. k)
  <2>1. IsFiniteSet(i .. k) /\ C \in SUBSET (i .. k)
    BY FS_Interval
  <2> HIDE DEF C
  <2> QED
    BY <2>1, FS_Subset, FS_CardinalityType
<1>3. P \cap (i .. k + 1) = C \cup (IF k + 1 \in P THEN {k + 1} ELSE {})
  <2>1. i .. k + 1 = (i .. k) \cup {k + 1}
    OBVIOUS
  <2> QED
    BY <2>1
<1>4. k + 1 \notin C
  OBVIOUS
<1> HIDE DEF C
<1>5. Cardinality(C \cup {k + 1}) = Cardinality(C) + 1
  BY <1>2, <1>4, FS_AddElement
<1>6. CASE k + 1 \in P
  <2>1. P \cap (i .. k + 1) = C \cup {k + 1}
    BY <1>3, <1>6
  <2> QED
    BY <1>1, <1>2, <1>5, <1>6, <2>1 DEF C
<1>7. CASE k + 1 \notin P
  <2>1. P \cap (i .. k + 1) = C
    BY <1>3, <1>7
  <2> QED
    BY <1>1, <1>2, <1>7, <2>1 DEF C
<1> QED
  BY <1>6, <1>7

\* The definitions that are open after the next line.
LEMMA OpenNext ==
    ASSUME NEW text, NEW i \in Nat \ {0}, NEW k \in Nat, i <= k + 1
    PROVE  /\ Open(text, i, i - 1) = 0 /\ Open(text, i, k) \in Int
           /\ Open(text, i, k + 1) = Open(text, i, k)
                + (IF text[k + 1].op = "macro" THEN 1 ELSE 0)
                - (IF text[k + 1].op = "endm" THEN 1 ELSE 0)
<1> DEFINE P(op) == {n \in Nat : text[n].op = op}
<1>1. ASSUME NEW op, NEW j \in Nat
      PROVE  {n \in i .. j : text[n].op = op} = P(op) \cap (i .. j)
  <2>1. \A n \in i .. j : n \in Nat
    OBVIOUS
  <2> QED
    BY <2>1, Zenon
<1>2. k + 1 \in P("macro") <=> text[k + 1].op = "macro"
  OBVIOUS
<1>3. k + 1 \in P("endm") <=> text[k + 1].op = "endm"
  OBVIOUS
<1>4. i - 1 \in Nat /\ k + 1 \in Nat
  OBVIOUS
<1>5. ASSUME NEW j \in Nat
      PROVE  Open(text, i, j) = Cardinality(P("macro") \cap (i .. j))
                                   - Cardinality(P("endm") \cap (i .. j))
  BY <1>1 DEF Open
<1> HIDE DEF P
<1> DEFINE count(op, j) == Cardinality(P(op) \cap (i .. j))
<1>6. ASSUME NEW op
      PROVE  /\ count(op, i - 1) = 0 /\ count(op, k) \in Nat
             /\ count(op, k + 1) = count(op, k) + IF k + 1 \in P(op) THEN 1 ELSE 0
  BY CountNext
<1>7. /\ Open(text, i, i - 1) = count("macro", i - 1) - count("endm", i - 1)
      /\ Open(text, i, k) = count("macro", k) - count("endm", k)
      /\ Open(text, i, k + 1) = count("macro", k + 1) - count("endm", k + 1)
  BY <1>4, <1>5
<1>8. /\ count("macro", i - 1) = 0 /\ count("macro", k) \in Nat
      /\ count("macro", k + 1) =
           count("macro", k) + IF text[k + 1].op = "macro" THEN 1 ELSE 0
  BY <1>2, <1>6
<1>9. /\ count("endm", i - 1) = 0 /\ count("endm", k) \in Nat
      /\ count("endm", k + 1) = count("endm", k) + IF text[k + 1].op = "endm" THEN 1 ELSE 0
  BY <1>3, <1>6
<1> HIDE DEF count
<1> QED
  BY <1>7, <1>8, <1>9

\* The lines of a text without the blank ones, one after the other.
LEMMA SpellsNext ==
    ASSUME NEW text, NEW i \in Nat \ {0}, NEW k \in Nat, i <= k + 1, NEW lines \in Seq(Line)
    PROVE  /\ Spells(<< >>, text, i, i - 1)
           /\ Spells(lines, text, i, k) /\ text[k + 1].op = "none" /\ text[k + 1].label = NoName
                => Spells(lines, text, i, k + 1)
           /\ Spells(lines, text, i, k) /\ text[k + 1] \in Line
                /\ ~ (text[k + 1].op = "none" /\ text[k + 1].label = NoName)
                => Spells(Append(lines, text[k + 1]), text, i, k + 1)
<1> DEFINE P == {n \in Nat : text[n].op # "none" \/ text[n].label # NoName}
           rank(j) == Cardinality(P \cap (i .. j))
<1>1. ASSUME NEW j \in Nat PROVE Spelt(text, i, j) = P \cap (i .. j)
  BY DEF Spelt
<1>2. k + 1 \in P <=> ~ (text[k + 1].op = "none" /\ text[k + 1].label = NoName)
  OBVIOUS
<1>3. i - 1 \in Nat /\ k + 1 \in Nat
  OBVIOUS
<1> HIDE DEF P
<1>4. ASSUME NEW n \in Nat, i <= n + 1
      PROVE  /\ P \cap (i .. i - 1) = {} /\ rank(i - 1) = 0
             /\ P \cap (i .. n) \in SUBSET (i .. n) /\ rank(n) \in Nat
             /\ P \cap (i .. n + 1) = (P \cap (i .. n)) \cup (IF n + 1 \in P THEN {n + 1} ELSE {})
             /\ rank(n + 1) = rank(n) + IF n + 1 \in P THEN 1 ELSE 0
  BY <1>4, CountNext
<1>5. ASSUME NEW ls, NEW j \in Nat
      PROVE  Spells(ls, text, i, j) <=>
                /\ Len(ls) = rank(j)
                /\ \A n \in P \cap (i .. j) : ls[rank(n)] = text[n]
  <2>1. \A n \in P \cap (i .. j) : n \in Nat
    OBVIOUS
  <2> QED
    BY <1>1, <2>1 DEF Spells
<1>6. Spells(<< >>, text, i, i - 1)
  <2>1. P \cap (i .. i - 1) = {} /\ rank(i - 1) = 0
    BY <1>4
  <2> HIDE DEF rank
  <2>2. Len(<< >>) = 0
    BY EmptySeq
  <2> QED
    BY <1>3, <1>5, <2>1, <2>2
<1>7. Len(lines) \in Nat
  BY LenProperties
<1>8. ASSUME Spells(lines, text, i, k)
      PROVE  /\ Len(lines) = rank(k) /\ rank(k) \in Nat
             /\ \A n \in P \cap (i .. k) : lines[rank(n)] = text[n]
  BY <1>4, <1>5, <1>8
<1>9. ASSUME NEW n \in P \cap (i .. k) PROVE rank(n) \in 1 .. rank(k)
  <2>1. n - 1 \in Nat /\ i <= (n - 1) + 1 /\ (n - 1) + 1 = n /\ n \in Nat /\ i <= n + 1 /\ n \in P
    BY <1>9
  <2>2. rank(n - 1) \in Nat /\ rank(n) = rank(n - 1) + 1
    <3>1. rank(n - 1) \in Nat /\ rank((n - 1) + 1) = rank(n - 1) + IF (n - 1) + 1 \in P THEN 1 ELSE 0
      BY <1>4, <2>1
    <3> HIDE DEF rank
    <3> QED
      BY <2>1, <3>1
  <2>3. rank(n) <= rank(k) /\ rank(k) \in Nat
    <3>1. IsFiniteSet(i .. k) /\ P \cap (i .. k) \in SUBSET (i .. k)
          /\ P \cap (i .. n) \in SUBSET (P \cap (i .. k))
      BY FS_Interval
    <3>2. IsFiniteSet(P \cap (i .. k))
      BY <3>1, FS_Subset
    <3> QED
      BY <3>1, <3>2, FS_Subset, FS_CardinalityType
  <2> HIDE DEF rank
  <2> QED
    BY <2>2, <2>3
<1>10. /\ P \cap (i .. k + 1) = (P \cap (i .. k)) \cup (IF k + 1 \in P THEN {k + 1} ELSE {})
       /\ rank(k + 1) = rank(k) + IF k + 1 \in P THEN 1 ELSE 0
  BY <1>4
<1> HIDE DEF rank
<1>11. ASSUME Spells(lines, text, i, k), k + 1 \notin P
       PROVE  Spells(lines, text, i, k + 1)
  <2>1. rank(k + 1) = rank(k) /\ P \cap (i .. k + 1) = P \cap (i .. k)
    BY <1>8, <1>10, <1>11
  <2> QED
    BY <1>3, <1>5, <1>8, <1>11, <2>1
<1>12. ASSUME Spells(lines, text, i, k), k + 1 \in P, text[k + 1] \in Line
       PROVE  Spells(Append(lines, text[k + 1]), text, i, k + 1)
  <2> DEFINE longer == Append(lines, text[k + 1])
  <2>1. /\ Len(longer) = Len(lines) + 1 /\ longer[Len(lines) + 1] = text[k + 1]
        /\ \A n \in 1 .. Len(lines) : longer[n] = lines[n]
    BY <1>12, AppendProperties
  <2> HIDE DEF longer
  <2>2. rank(k + 1) = Len(longer) /\ rank(k + 1) = Len(lines) + 1
    BY <1>8, <1>10, <1>12, <2>1
  <2>3. ASSUME NEW n \in P \cap (i .. k + 1) PROVE longer[rank(n)] = text[n]
    <3>1. CASE n \in P \cap (i .. k)
      BY <1>8, <1>9, <1>12, <2>1, <3>1
    <3>2. CASE n = k + 1
      BY <2>1, <2>2, <3>2
    <3> QED
      BY <1>10, <1>12, <3>1, <3>2
  <2> QED
    BY <1>3, <1>5, <2>2, <2>3 DEF longer
<1> QED
  BY <1>2, <1>6, <1>11, <1>12
(* Macros are their text, and in between:  the calls and the definitions    *)
(* are of what is known, the macro being defined is none of those, and its  *)
(* lines are those of the innermost call since its MACRO.                   *)
Known(p) == p \in Files \/ (p \in Macros /\ macros[p].pass # -1)

\* The lines are those of a text from its line i, a MACRO, to line n, and the
\* definition has not ended.
Begun(lines, text, i, n) ==
    /\ i \in 1 .. n /\ n <= Len(text)
    /\ \A k \in i .. n : Open(text, i, k) > 0
    /\ Spells(lines, text, i + 1, n)

HalfDefined ==
    LET m == defining.ctx.prog IN
    /\ m \in Macros /\ macros[m].pass # -1 /\ macros[m].from[1] = top.prog
    /\ ~ Excluded(top.cond)
    /\ Begun(macros[m].lines, Lines(top.prog), macros[m].from[2], top.next - 1)
    /\ Open(Lines(top.prog), macros[m].from[2], top.next - 1) = defining.level

CallsKnown ==
    \A n \in 1 .. Len(frames) : Known(frames[n].prog) /\ frames[n].prog # defining.ctx.prog

MacrosDefined ==
    \A m \in Macros : macros[m].pass # -1 =>
        /\ Known(macros[m].from[1]) /\ macros[m].from[1] # defining.ctx.prog
        /\ m # defining.ctx.prog =>
             IsDefinition(macros[m].lines, Lines(macros[m].from[1]), macros[m].from[2])

Texts ==
    /\ phase = "done" => Clean /\ frames = << >>
    /\ Clean => /\ CallsKnown /\ MacrosDefined
                /\ defining.ctx # NoCtx => HalfDefined

LEMMA TextsInit == Init => Texts
<1> SUFFICES ASSUME Init PROVE Texts
  OBVIOUS
<1>1. /\ Len(frames) = 0 /\ phase # "done" /\ defining.ctx = NoCtx
      /\ \A m \in Macros : macros[m].pass = -1
  BY EmptySeq DEF Init
<1> QED
  BY <1>1 DEF Texts, CallsKnown, MacrosDefined

\* No macro and no file is without a name.
LEMMA NoneNamed ==
    ASSUME NEW p, Known(p)
    PROVE  p # NoCtx.prog
BY NamesAssumption DEF Known, NoCtx

\* Steps without a definition.
LEMMA TextsKept ==
    ASSUME TypeOK', Texts, UNCHANGED <<files, macros>>, defining'.ctx = defining.ctx,
           Clean' => Clean /\ defining.ctx = NoCtx,
           Clean' => \A n \in 1 .. Len(frames') : Known(frames'[n].prog),
           phase' = "done" => Clean' /\ frames' = << >>
    PROVE  Texts'
<1> SUFFICES ASSUME Clean' PROVE CallsKnown' /\ MacrosDefined' /\ defining'.ctx = NoCtx
  BY DEF Texts
<1>1. Clean /\ defining.ctx = NoCtx /\ defining'.ctx = NoCtx
  OBVIOUS
<1>2. MacrosDefined /\ \A p : Known(p)' <=> Known(p)
  BY <1>1 DEF Texts, Known
<1>3. CallsKnown'
  BY <1>1, <1>2, NoneNamed DEF CallsKnown, Known
<1>4. MacrosDefined'
  BY <1>1, <1>2 DEF MacrosDefined, Lines, Known
<1> QED
  BY <1>1, <1>3, <1>4

\* The innermost call takes its line.
LEMMA TopAdvances ==
    ASSUME TypeOK, AtLine, frames' = Advanced
    PROVE  /\ top'.prog = top.prog /\ top'.cond = top.cond /\ top'.next = top.next + 1
           /\ top.next \in Nat \ {0} /\ top.prog \in Files \cup Macros
           /\ Lines(top.prog) \in Seq(Line) /\ Len(Lines(top.prog)) \in Nat
           /\ top.next <= Len(Lines(top.prog)) /\ line = Lines(top.prog)[top.next] /\ line \in Line
           /\ Len(frames') = Len(frames) /\ Len(frames) \in Nat /\ Len(frames) > 0
           /\ top = frames[Len(frames)]
           /\ \A n \in 1 .. Len(frames) : frames'[n].prog = frames[n].prog
<1>1. /\ frames # << >> /\ top.next <= Len(Lines(top.prog)) /\ top \in FrameType /\ line \in Line
      /\ SameCalls(frames')
  BY LineTypes, SameCallsAdvanced DEF AtLine
<1>2. Lines(top.prog) \in Seq(Line)
  BY <1>1 DEF TypeOK, Lines, FrameType, MacroType
<1>3. /\ Len(frames) \in Nat /\ Len(frames) > 0 /\ top = frames[Len(frames)]
      /\ Front(frames) \in Seq(FrameType) /\ Len(Front(frames)) = Len(frames) - 1
  BY <1>1, FrontLast DEF TypeOK, top, Last
<1> DEFINE t == [top EXCEPT !.next = @ + 1]
<1>4. /\ t \in FrameType /\ t.prog = top.prog /\ t.cond = top.cond /\ t.next = top.next + 1
      /\ top.next \in Nat \ {0} /\ top.prog \in Files \cup Macros
  BY <1>1 DEF FrameType
<1>5. frames' = Append(Front(frames), t)
  BY DEF Advanced
<1> HIDE DEF t
<1>6. Len(frames') = Len(frames) /\ frames'[Len(frames)] = t
  BY <1>3, <1>4, <1>5, AppendProperties
<1>7. top' = t
  BY <1>6 DEF top, Last
<1> QED
  BY <1>1, <1>2, <1>3, <1>4, <1>6, <1>7, LenProperties DEF SameCalls, line
\* A new call is for a file or for a macro that is known.
LEMMA EntersKnown ==
    ASSUME TypeOK, AtLine, CallsKnown, NEW p, Known(p), NEW kind \in {"file", "expansion"},
           NEW arg \in Value, Enters(p, kind, arg)
    PROVE  \A n \in 1 .. Len(frames') : Known(frames'[n].prog)
<1> DEFINE new == Frame(p, kind, arg)
<1>1. /\ SameCalls(Advanced) /\ frames # << >> /\ Len(frames) \in Nat
      /\ frames' = Advanced \/ frames' = Append(Advanced, new)
  BY LineTypes, SameCallsAdvanced, FrontLast DEF Enters, Call, TypeOK
<1>2. new \in FrameType /\ new.prog = p
  BY EmptySeq DEF Frame, FrameType, TypeOK, NoCond, CondType, Known
<1> HIDE DEF new
<1>3. \A n \in 1 .. Len(Advanced) : Known(Advanced[n].prog)
  BY <1>1 DEF SameCalls, CallsKnown
<1>4. CASE frames' = Append(Advanced, new)
  <2>1. /\ Len(frames') = Len(Advanced) + 1 /\ frames'[Len(Advanced) + 1] = new
        /\ \A n \in 1 .. Len(Advanced) : frames'[n] = Advanced[n]
    BY <1>1, <1>2, <1>4, AppendProperties DEF SameCalls
  <2>2. \A n \in 1 .. Len(frames') : n \in 1 .. Len(Advanced) \/ n = Len(Advanced) + 1
    BY <1>1, <2>1 DEF SameCalls
  <2> QED
    BY <1>2, <1>3, <2>1, <2>2
<1> QED
  BY <1>1, <1>3, <1>4

\* Lines that are assembled, or excluded, when no macro is being defined.
LEMMA TextsAssembles ==
    ASSUME TypeOK, TypeOK', InStep, Texts,
           Excludes \/ Conditional \/ Flag \/ Plain \/ Section \/ Include \/ Expand
    PROVE  Texts'
<1>1. /\ AtLine /\ defining.level = 0 /\ UNCHANGED <<files, macros, defining, phase>>
  BY DEF Excludes, Conditional, Flag, Plain, Section, Include, Expand, Enters, Assembles,
         NotDefining
<1>2. phase = "lines" /\ frames # << >> /\ line \in Line /\ top \in FrameType
  BY <1>1, LineTypes
<1>3. Clean' => Clean /\ defining.ctx = NoCtx /\ CallsKnown
  BY <1>1, CleanBefore, NoneDefined DEF Next, Texts
<1>4. ASSUME CallsKnown, SameCalls(frames')
      PROVE  \A n \in 1 .. Len(frames') : Known(frames'[n].prog)
  BY <1>4 DEF SameCalls, CallsKnown
<1>5. ASSUME CallsKnown PROVE \A n \in 1 .. Len(frames') : Known(frames'[n].prog)
  <2>1. CASE Conditional
    <3>1. CondStep(line.op, top.cond, Holds(line.arg)) \in CondType
      BY <1>2, <2>1, OperandTypes, CondStepType DEF Conditional, FrameType
    <3> QED
      BY <1>2, <1>4, <1>5, <2>1, <3>1, SameCallsTop DEF Conditional
  <2>2. CASE frames' = Advanced
    BY <1>2, <1>4, <1>5, <2>2, SameCallsAdvanced
  <2>3. CASE Include
    <3>1. Known(line.arg) /\ NoName \in Value
      BY <1>2, <2>3 DEF Include, Assembles, Line, Known, Value
    <3> QED
      BY <1>1, <1>5, <2>3, <3>1, EntersKnown DEF Include
  <2>4. CASE Expand /\ frames' # Advanced
    <3> DEFINE arg == IF line.par = NoName THEN NoName ELSE ValueOfOperand(line.par)
    <3>1. macros[line.arg].pass # -1 /\ Enters(line.arg, "expansion", arg)
      BY <2>4 DEF Expand
    <3>2. Known(line.arg)
      BY <1>2, <2>4, <3>1 DEF Expand, Assembles, Line, Known
    <3>3. arg \in Value
      BY OperandTypes DEF Value
    <3> HIDE DEF arg
    <3> QED
      BY <1>1, <1>5, <3>1, <3>2, <3>3, EntersKnown
  <2> QED
    BY <2>1, <2>2, <2>3, <2>4 DEF Excludes, Flag, Plain, Section
<1> QED
  BY <1>1, <1>2, <1>3, <1>5, TextsKept

\* The ends of passes and of calls.
LEMMA TextsBetween ==
    ASSUME TypeOK, TypeOK', InStep, Texts, BeginPass \/ EndPass \/ Return
    PROVE  Texts'
<1>1. UNCHANGED <<files, macros, defining>>
  BY DEF BeginPass, EndPass, Return
<1>2. Clean' => Clean /\ CallsKnown
  BY CleanBefore DEF Next, Texts
<1>3. CASE BeginPass
  <2> DEFINE calls == << >>
             new == Frame(Main, "file", NoName)
  <2>1. frames' = Append(calls, new) /\ phase' = "lines"
    BY <1>3 DEF BeginPass, Call
  <2>2. new \in FrameType /\ new.prog = Main
    BY EmptySeq, NamesAssumption DEF Frame, FrameType, TypeOK, NoCond, CondType, Value
  <2>3. calls \in Seq(FrameType) /\ Len(calls) = 0
    BY EmptySeq
  <2> HIDE DEF calls, new
  <2>4. Len(frames') = 1 /\ frames'[1] = new
    BY <2>1, <2>2, <2>3, AppendProperties
  <2>5. \A n \in 1 .. Len(frames') : Known(frames'[n].prog)
    BY <2>2, <2>4, NamesAssumption DEF Known
  <2>6. defining.ctx = NoCtx
    BY <1>3 DEF BeginPass, InStep
  <2> QED
    BY <1>1, <1>2, <2>1, <2>5, <2>6, TextsKept
<1>4. CASE EndPass
  <2>1. frames' = frames /\ frames = << >> /\ (phase' = "done" => level' < Inconsistent)
    BY <1>4 DEF EndPass
  <2>2. phase' = "done" => Clean'
    BY <2>1 DEF Clean, TypeOK
  <2>3. Clean' => defining.ctx = NoCtx
    BY <1>2, <2>1 DEF InStep
  <2> QED
    BY <1>1, <1>2, <2>1, <2>2, <2>3, TextsKept DEF CallsKnown
<1>5. CASE Return
  <2>1. /\ frames' = Front(frames) /\ phase' \in {"lines", "aborted"} /\ frames # << >>
    BY <1>5 DEF Return, AtEnd
  <2>2. /\ Len(frames) \in Nat /\ Len(frames') = Len(frames) - 1
        /\ \A n \in 1 .. Len(frames) - 1 : frames'[n] = frames[n]
    BY <2>1, FrontLast DEF TypeOK
  <2>3. CallsKnown => \A n \in 1 .. Len(frames') : Known(frames'[n].prog)
    BY <2>2 DEF CallsKnown
  <2>4. Clean' => defining.ctx = NoCtx
    BY <1>5, NoneUnfinished
  <2> QED
    BY <1>1, <1>2, <2>1, <2>3, <2>4, TextsKept
<1> QED
  BY <1>3, <1>4, <1>5

\* The next line of a definition: a blank one, another, or its last.
LEMMA BegunNext ==
    ASSUME NEW text \in Seq(Line), NEW i, NEW n \in Nat, n + 1 <= Len(text),
           NEW lines \in Seq(Line), Begun(lines, text, i, n)
    PROVE  LET l == text[n + 1]
               open == Open(text, i, n + 1) IN
           /\ open = Open(text, i, n) + (IF l.op = "macro" THEN 1 ELSE 0)
                                      - (IF l.op = "endm" THEN 1 ELSE 0)
           /\ open > 0 /\ l.op = "none" /\ l.label = NoName => Begun(lines, text, i, n + 1)
           /\ open > 0 /\ ~ (l.op = "none" /\ l.label = NoName)
                => Begun(Append(lines, l), text, i, n + 1)
           /\ open = 0 => IsDefinition(lines, text, i)
<1> DEFINE l == text[n + 1]
           open == Open(text, i, n + 1)
<1>1. /\ i \in Nat \ {0} /\ i <= n /\ i <= n + 1 /\ i \in 1 .. n + 1 /\ i + 1 \in Nat \ {0}
      /\ i + 1 <= n + 1 /\ n + 1 \in i + 1 .. Len(text) /\ n + 1 \in 1 .. Len(text)
  BY LenProperties DEF Begun
<1>2. l \in Line
  BY <1>1, ElementOfSeq
<1>3. open = Open(text, i, n) + (IF l.op = "macro" THEN 1 ELSE 0)
                              - (IF l.op = "endm" THEN 1 ELSE 0)
  BY <1>1, OpenNext
<1>4. /\ \A k \in i .. n : Open(text, i, k) > 0
      /\ Spells(lines, text, i + 1, n)
  BY DEF Begun
<1>5. /\ l.op = "none" /\ l.label = NoName => Spells(lines, text, i + 1, n + 1)
      /\ ~ (l.op = "none" /\ l.label = NoName) => Spells(Append(lines, l), text, i + 1, n + 1)
  BY <1>1, <1>2, <1>4, SpellsNext
<1>6. open > 0 => \A k \in i .. n + 1 : Open(text, i, k) > 0
  <2>1. \A k \in i .. n + 1 : k \in i .. n \/ k = n + 1
    BY <1>1
  <2> QED
    BY <1>4, <2>1
<1>7. open = 0 => IsDefinition(lines, text, i)
  <2>1. (n + 1) - 1 = n
    OBVIOUS
  <2> QED
    BY <1>1, <1>4, <2>1 DEF IsDefinition
<1> HIDE DEF l
<1> QED
  BY <1>1, <1>3, <1>5, <1>6, <1>7 DEF Begun, l

\* The next line of the macro that is being defined.
LEMMA HalfNext ==
    ASSUME TypeOK, AtLine, HalfDefined, frames' = Advanced
    PROVE  LET m == defining.ctx.prog
               text == Lines(top.prog)
               i == macros[m].from[2]
               open == Open(text, i, top.next) IN
           /\ top'.prog = top.prog /\ top'.next - 1 = top.next /\ ~ Excluded(top'.cond)
           /\ m \in Macros /\ macros[m].pass # -1 /\ macros[m].from[1] = top.prog
           /\ Nesting = open
           /\ open > 0 /\ IsBlank => Begun(macros[m].lines, text, i, top.next)
           /\ open > 0 /\ ~ IsBlank => Begun(Append(macros[m].lines, line), text, i, top.next)
           /\ open = 0 => IsDefinition(macros[m].lines, text, i)
<1> DEFINE m == defining.ctx.prog
           text == Lines(top.prog)
           i == macros[m].from[2]
           lines == macros[m].lines
           n == top.next - 1
           open == Open(text, i, n + 1)
<1>1. /\ top'.prog = top.prog /\ top'.cond = top.cond /\ top'.next = top.next + 1
      /\ text \in Seq(Line) /\ Len(text) \in Nat /\ line = text[top.next]
      /\ top.next \in Nat \ {0} /\ top.next <= Len(text)
  BY TopAdvances
<1>2. /\ m \in Macros /\ macros[m].pass # -1 /\ macros[m].from[1] = top.prog
      /\ ~ Excluded(top.cond) /\ Begun(lines, text, i, n) /\ Open(text, i, n) = defining.level
  BY DEF HalfDefined
<1>3. lines \in Seq(Line)
  BY <1>2 DEF TypeOK, MacroType
<1>4. n \in Nat /\ n + 1 = top.next /\ n + 1 <= Len(text) /\ top'.next - 1 = top.next
  BY <1>1
<1>5. defining.level > 0 /\ defining.level \in Nat
  BY <1>2, <1>4 DEF Begun, TypeOK
<1> HIDE DEF m, text, i, lines, n
<1>6. /\ open = Open(text, i, n) + (IF text[n + 1].op = "macro" THEN 1 ELSE 0)
                                 - (IF text[n + 1].op = "endm" THEN 1 ELSE 0)
      /\ open > 0 /\ text[n + 1].op = "none" /\ text[n + 1].label = NoName
           => Begun(lines, text, i, n + 1)
      /\ open > 0 /\ ~ (text[n + 1].op = "none" /\ text[n + 1].label = NoName)
           => Begun(Append(lines, text[n + 1]), text, i, n + 1)
      /\ open = 0 => IsDefinition(lines, text, i)
  BY <1>1, <1>2, <1>3, <1>4, BegunNext
<1>7. Nesting = open
  BY <1>1, <1>2, <1>4, <1>5, <1>6 DEF Nesting, StartsMacro, EndsMacro
<1> QED
  BY <1>1, <1>2, <1>4, <1>6, <1>7 DEF IsBlank, m, text, i, lines

\* A blank line, in a definition or not.
LEMMA TextsBlank == TypeOK /\ TypeOK' /\ Texts /\ Blank => Texts'
<1> SUFFICES ASSUME TypeOK, TypeOK', Texts, Blank PROVE Texts'
  OBVIOUS
<1>1. /\ AtLine /\ IsBlank /\ frames' = Advanced /\ phase = "lines"
      /\ UNCHANGED <<files, macros, defining, level, phase>>
  BY DEF Blank, AtLine
<1> SUFFICES ASSUME Clean
             PROVE  CallsKnown' /\ MacrosDefined' /\ (defining.ctx # NoCtx => HalfDefined')
  BY <1>1 DEF Texts, Clean
<1>2. CallsKnown /\ MacrosDefined
  BY DEF Texts
<1>3. CallsKnown'
  BY <1>1, <1>2, TopAdvances DEF CallsKnown, Known
<1>4. MacrosDefined'
  BY <1>1, <1>2 DEF MacrosDefined, Known, Lines
<1>5. ASSUME defining.ctx # NoCtx PROVE HalfDefined'
  <2>1. HalfDefined
    BY <1>5 DEF Texts
  <2>2. Nesting = defining.level /\ defining.level > 0
    <3>1. defining.level > 0
      <4> DEFINE text == Lines(top.prog)
                 i == macros[defining.ctx.prog].from[2]
                 n == top.next - 1
      <4>1. /\ i \in 1 .. n /\ \A k \in i .. n : Open(text, i, k) > 0
            /\ Open(text, i, n) = defining.level
        BY <2>1 DEF HalfDefined, Begun
      <4>2. n \in Nat
        BY <1>1, TopAdvances
      <4> HIDE DEF text, i, n
      <4>3. n \in i .. n
        BY <4>1, <4>2
      <4> QED
        BY <4>1, <4>3
    <3> QED
      BY <1>1, <3>1 DEF IsBlank, Nesting, StartsMacro, EndsMacro
  <2>3. Lines(top.prog)' = Lines(top.prog)
    BY <1>1, <2>1, HalfNext DEF Lines
  <2> QED
    BY <1>1, <2>1, <2>2, <2>3, HalfNext DEF HalfDefined
<1> QED
  BY <1>3, <1>4, <1>5

\* The texts of all macros but the one that is being defined are as they were.
LEMMA MacrosKept ==
    ASSUME MacrosDefined, UNCHANGED files, NEW m \in Macros, NEW p, Known(p), p # m,
           defining'.ctx.prog = m, defining.ctx.prog \in {m, NoName}, macros'[m].from[1] = p,
           \A k \in Macros : k # m => macros'[k] = macros[k],
           \A q : Known(q) => Known(q)',
           \A k \in Macros : macros[k].pass # -1 => macros[k].from[1] # m
    PROVE  MacrosDefined'
<1>1. ASSUME NEW k \in Macros, macros'[k].pass # -1
      PROVE  LET from == macros'[k].from[1] IN
             /\ from \in Files \/ (from \in Macros /\ macros'[from].pass # -1)
             /\ from # m
             /\ k # m => IsDefinition(macros'[k].lines,
                              IF from \in Files THEN files'[from] ELSE macros'[from].lines,
                              macros'[k].from[2])
  <2>1. CASE k = m
    BY <2>1 DEF Known
  <2>2. CASE k # m
    <3>1. macros'[k] = macros[k] /\ k # defining.ctx.prog
      BY <2>2, NamesAssumption
    <3>2. /\ Known(macros[k].from[1]) /\ macros[k].from[1] # m
          /\ IsDefinition(macros[k].lines, Lines(macros[k].from[1]), macros[k].from[2])
      BY <1>1, <3>1 DEF MacrosDefined
    <3> QED
      BY <3>1, <3>2 DEF Known, Lines
  <2> QED
    BY <2>1, <2>2
<1> QED
  BY <1>1 DEF MacrosDefined, Known, Lines

\* The first line of a definition.
LEMMA BegunFirst ==
    ASSUME NEW text \in Seq(Line), NEW i \in Nat \ {0}, i <= Len(text), text[i].op = "macro"
    PROVE  Begun(<< >>, text, i, i) /\ Open(text, i, i) = 1
<1> DEFINE h == i - 1
           j == i + 1
<1>1. /\ h \in Nat /\ h + 1 = i /\ i <= h + 1 /\ i \in Nat
      /\ j \in Nat \ {0} /\ j - 1 = i /\ j <= i + 1
  OBVIOUS
<1>2. Open(text, i, h) = 0
  BY <1>1, OpenNext
<1> HIDE DEF h
<1>3. Open(text, i, h + 1) = Open(text, i, h) + (IF text[h + 1].op = "macro" THEN 1 ELSE 0)
                                - (IF text[h + 1].op = "endm" THEN 1 ELSE 0)
  BY <1>1, OpenNext
<1>4. Open(text, i, i) = 1
  BY <1>1, <1>2, <1>3
<1> HIDE DEF j
<1>5. Spells(<< >>, text, j, j - 1)
  BY <1>1, EmptySeq, SpellsNext
<1>6. i .. i = {i} /\ i \in 1 .. i
  OBVIOUS
<1> QED
  BY <1>1, <1>4, <1>5, <1>6 DEF Begun, j

\* MACRO begins a text, unless the macro was known before.
LEMMA TextsStartMacro == TypeOK /\ TypeOK' /\ InStep /\ Texts /\ StartMacro => Texts'
<1> SUFFICES ASSUME TypeOK, TypeOK', InStep, Texts, StartMacro PROVE Texts'
  OBVIOUS
<1>1. /\ AtLine /\ StartsMacro /\ defining.level = 0 /\ frames' = Advanced
      /\ UNCHANGED <<files, phase>> /\ phase = "lines"
  BY DEF StartMacro, AtLine
<1>2. Clean' => Clean /\ defining.ctx = NoCtx /\ CallsKnown /\ MacrosDefined
  BY <1>1, CleanBefore, NoneDefined DEF Next, Texts
<1>3. CASE UNCHANGED macros /\ defining'.ctx = defining.ctx
  <2>1. CallsKnown => \A n \in 1 .. Len(frames') : Known(frames'[n].prog)
    BY <1>1, TopAdvances DEF CallsKnown
  <2> QED
    BY <1>1, <1>2, <1>3, <2>1, TextsKept
<1> DEFINE m == line.label
           i == top.next
           ctx == CtxOf("definition", m, Len(frames))
           new == [pass |-> pass, lines |-> << >>, from |-> <<top.prog, i>>]
<1>4. CASE /\ m \in Macros /\ macros[m].pass = -1
           /\ defining' = [level |-> 1, ctx |-> ctx] /\ macros' = [macros EXCEPT ![m] = new]
  <2> SUFFICES ASSUME Clean' PROVE CallsKnown' /\ MacrosDefined' /\ HalfDefined'
    BY <1>1 DEF Texts
  <2> DEFINE text == Lines(top.prog)
  <2>1. /\ top'.prog = top.prog /\ top'.cond = top.cond /\ top'.next = i + 1
        /\ i \in Nat \ {0} /\ text \in Seq(Line) /\ Len(text) \in Nat /\ i <= Len(text)
        /\ line = text[i] /\ Len(frames') = Len(frames) /\ Len(frames) \in 1 .. Len(frames)
        /\ \A n \in 1 .. Len(frames) : frames'[n].prog = frames[n].prog
        /\ top = frames[Len(frames)]
    BY <1>1, TopAdvances
  <2>2. /\ defining'.ctx.prog = m /\ defining'.level = 1 /\ macros'[m] = new
        /\ \A k \in Macros : k # m => macros'[k] = macros[k]
        /\ new.pass = pass /\ new.lines = << >> /\ new.from[1] = top.prog /\ new.from[2] = i
    BY <1>4 DEF CtxOf, TypeOK
  <2>3. pass # -1
    BY SizesAssumption DEF TypeOK
  <2>4. ~ Known(m) /\ \A p : Known(p) => Known(p)' /\ p # m
    BY <1>1, <1>4, <2>2, NamesAssumption DEF Known
  <2>5. Known(top.prog) /\ CallsKnown'
    BY <1>2, <2>1, <2>2, <2>4 DEF CallsKnown
  <2>6. ASSUME NEW p, Known(p) PROVE Lines(p)' = Lines(p)
    BY <1>1, <2>2, <2>4, <2>6 DEF Lines, Known
  <2>7. MacrosDefined'
    <3>1. \A k \in Macros : macros[k].pass # -1 => macros[k].from[1] # m
      BY <1>2, <2>4 DEF MacrosDefined
    <3>2. defining.ctx.prog = NoName /\ macros'[m].from[1] = top.prog /\ top.prog # m
      BY <1>2, <2>2, <2>4, <2>5 DEF NoCtx
    <3> HIDE DEF m, i, new, text
    <3> QED
      BY <1>1, <1>2, <1>4, <2>2, <2>4, <2>5, <3>1, <3>2, MacrosKept
  <2>8. Begun(<< >>, text, i, i) /\ Open(text, i, i) = 1
    BY <1>1, <2>1, BegunFirst DEF StartsMacro
  <2>9. Lines(top.prog)' = text
    BY <2>1, <2>5, <2>6
  <2>10. top'.next - 1 = i /\ ~ Excluded(top'.cond)
    BY <1>1, <2>1 DEF StartsMacro
  <2> HIDE DEF text, i, new
  <2> QED
    BY <1>4, <2>1, <2>2, <2>3, <2>5, <2>7, <2>8, <2>9, <2>10 DEF HalfDefined
<1> QED
  <2>1. defining' = [defining EXCEPT !.level = 1] => defining'.ctx = defining.ctx
    BY DEF TypeOK
  <2> QED
    BY <1>3, <1>4, <2>1 DEF StartMacro

\* A line of a definition joins the macro.
LEMMA TextsBodyLine == TypeOK /\ TypeOK' /\ InStep /\ InStep' /\ Texts /\ BodyLine => Texts'
<1> SUFFICES ASSUME TypeOK, TypeOK', InStep, InStep', Texts, BodyLine PROVE Texts'
  OBVIOUS
<1> DEFINE m == defining.ctx.prog
<1>1. /\ AtLine /\ ~ IsBlank /\ Nesting > 0 /\ frames' = Advanced
      /\ UNCHANGED <<files, level>> /\ phase' \in {"lines", "crash"}
      /\ defining' = [defining EXCEPT !.level = Nesting]
      /\ \/ /\ phase' # "crash"
            /\ macros' = IF defining.ctx = NoCtx THEN macros
                         ELSE [macros EXCEPT ![m].lines = Append(@, line)]
         \/ phase' = "crash"
  BY DEF BodyLine, AtLine
<1> SUFFICES ASSUME Clean'
             PROVE  CallsKnown' /\ MacrosDefined' /\ (defining'.ctx # NoCtx => HalfDefined')
  BY <1>1 DEF Texts
<1>2. /\ Clean /\ CallsKnown /\ MacrosDefined /\ phase' # "crash"
      /\ defining'.ctx = defining.ctx /\ defining'.level = Nesting
  BY <1>1 DEF Clean, Texts, InStep, StacksMatch, TypeOK
<1>3. CASE defining.ctx = NoCtx
  <2>1. macros' = macros
    BY <1>1, <1>2, <1>3
  <2>2. \A n \in 1 .. Len(frames') : Known(frames'[n].prog)
    BY <1>1, <1>2, TopAdvances DEF CallsKnown
  <2>3. Texts'
    BY <1>1, <1>2, <1>3, <2>1, <2>2, TextsKept
  <2> QED
    BY <2>3 DEF Texts
<1>4. CASE defining.ctx # NoCtx
  <2>1. HalfDefined
    BY <1>2, <1>4 DEF Texts
  <2> DEFINE text == Lines(top.prog)
             i == macros[m].from[2]
             lines == Append(macros[m].lines, line)
  <2>2. /\ top'.prog = top.prog /\ top'.next - 1 = top.next /\ ~ Excluded(top'.cond)
        /\ m \in Macros /\ macros[m].pass # -1 /\ macros[m].from[1] = top.prog
        /\ Nesting = Open(text, i, top.next) /\ Begun(lines, text, i, top.next)
    BY <1>1, <2>1, HalfNext
  <2> HIDE DEF lines
  <2>3. /\ macros' = [macros EXCEPT ![m].lines = lines] /\ macros[m] \in MacroType
    BY <1>1, <1>2, <1>4, <2>2 DEF TypeOK, lines
  <2>4. /\ macros'[m].lines = lines /\ macros'[m].from = macros[m].from
        /\ macros'[m].pass = macros[m].pass
        /\ \A k \in Macros : k # m => macros'[k] = macros[k]
    <3> DEFINE new == [macros[m] EXCEPT !.lines = lines]
    <3>1. new.lines = lines /\ new.from = macros[m].from /\ new.pass = macros[m].pass
      BY <2>3 DEF MacroType
    <3>2. macros' = [macros EXCEPT ![m] = new]
      BY <2>3
    <3> HIDE DEF new, m
    <3>3. macros'[m] = new /\ \A k \in Macros : k # m => macros'[k] = macros[k]
      BY <2>2, <3>2 DEF TypeOK
    <3> QED
      BY <3>1, <3>3
  <2>5. \A p : Known(p) => Known(p)'
    BY <2>4 DEF Known
  <2>6. Known(top.prog) /\ top.prog # m /\ CallsKnown'
    <3>1. /\ Len(frames') = Len(frames) /\ Len(frames) \in 1 .. Len(frames)
          /\ top = frames[Len(frames)]
          /\ \A n \in 1 .. Len(frames) : frames'[n].prog = frames[n].prog
      BY <1>1, TopAdvances
    <3> QED
      BY <1>2, <2>5, <3>1 DEF CallsKnown
  <2>7. MacrosDefined'
    <3>1. \A k \in Macros : macros[k].pass # -1 => macros[k].from[1] # m
      BY <1>2 DEF MacrosDefined
    <3>2. defining'.ctx.prog = m /\ macros'[m].from[1] = top.prog
      BY <1>2, <2>2, <2>4
    <3> HIDE DEF m
    <3> QED
      BY <1>1, <1>2, <2>2, <2>4, <2>5, <2>6, <3>1, <3>2, MacrosKept DEF m
  <2>8. Lines(top.prog)' = text
    BY <1>1, <2>2, <2>4, <2>6 DEF Lines, Known
  <2>9. HalfDefined'
    BY <1>2, <2>2, <2>4, <2>8 DEF HalfDefined
  <2> QED
    BY <2>6, <2>7, <2>9
<1> QED
  BY <1>3, <1>4

\* ENDM ends a text, or something is wrong.
LEMMA TextsEndMacro == TypeOK /\ TypeOK' /\ InStep /\ Texts /\ EndMacro => Texts'
<1> SUFFICES ASSUME TypeOK, TypeOK', InStep, Texts, EndMacro PROVE Texts'
  OBVIOUS
<1> DEFINE m == defining.ctx.prog
<1>1. /\ AtLine /\ EndsMacro /\ defining.level <= 1 /\ frames' = Advanced
      /\ UNCHANGED <<files, macros>> /\ phase' \in {"lines", "aborted"}
  BY DEF EndMacro, AtLine
<1>2. /\ Clean' => Clean /\ CallsKnown /\ MacrosDefined
      /\ CallsKnown => \A n \in 1 .. Len(frames') : Known(frames'[n].prog)
  BY <1>1, CleanBefore, TopAdvances DEF Next, Texts, CallsKnown
<1>3. CASE level' = Raise(level, Syntax)
  <2>1. level \in Level
    BY DEF TypeOK, Level
  <2>2. ~ Clean'
    BY <1>3, <2>1, RaiseType DEF Clean
  <2> QED
    BY <1>1, <2>2 DEF Texts
<1>4. CASE defining.ctx = NoCtx /\ defining' = [defining EXCEPT !.level = 0]
  BY <1>1, <1>2, <1>4, TextsKept DEF TypeOK
<1>5. CASE defining.ctx # NoCtx /\ defining' = [level |-> 0, ctx |-> NoCtx]
  <2> SUFFICES ASSUME Clean' PROVE CallsKnown' /\ MacrosDefined'
    BY <1>1, <1>5 DEF Texts
  <2>1. defining'.ctx = NoCtx /\ CallsKnown'
    BY <1>1, <1>2, <1>5, NoneNamed DEF CallsKnown, Known
  <2>2. HalfDefined
    BY <1>2, <1>5 DEF Texts
  <2>3. Nesting = 0
    <3>1. defining.level > 0 /\ defining.level \in Nat
      BY <1>2, <1>5 DEF InStep, TypeOK
    <3> QED
      BY <1>1, <3>1 DEF Nesting, EndsMacro, StartsMacro
  <2>4. m \in Macros /\ macros[m].from[1] = top.prog
        /\ IsDefinition(macros[m].lines, Lines(macros[m].from[1]), macros[m].from[2])
    BY <1>1, <2>2, <2>3, HalfNext
  <2>5. ASSUME NEW k \in Macros, macros[k].pass # -1
        PROVE  /\ Known(macros[k].from[1]) /\ macros[k].from[1] # NoCtx.prog
               /\ IsDefinition(macros[k].lines, Lines(macros[k].from[1]), macros[k].from[2])
    BY <1>2, <2>4, <2>5, NoneNamed DEF MacrosDefined
  <2> QED
    BY <1>1, <2>1, <2>5 DEF MacrosDefined, Known, Lines
<1> QED
  BY <1>3, <1>4, <1>5 DEF EndMacro

LEMMA TextsStep == TypeOK /\ TypeOK' /\ InStep /\ InStep' /\ Texts /\ [Next]_vars => Texts'
<1> SUFFICES ASSUME TypeOK, TypeOK', InStep, InStep', Texts, [Next]_vars PROVE Texts'
  OBVIOUS
<1>1. CASE UNCHANGED vars
  BY <1>1 DEF vars, Texts, Clean, CallsKnown, MacrosDefined, HalfDefined, Known, Lines, top
<1> QED
  BY <1>1, TextsBlank, TextsStartMacro, TextsBodyLine, TextsEndMacro, TextsAssembles,
     TextsBetween DEF Next

\* For all files: a macro of a successful assembly is the lines between its
\* MACRO and the ENDM that belongs to it, in whatever file or macro it was
\* defined, and in whichever pass.
THEOREM MacrosAreText == Spec => []MacroIsItsText
<1>1. InStep /\ Texts => MacroIsItsText
  <2> SUFFICES ASSUME InStep, Texts, phase = "done", NEW m \in Macros, macros[m].pass # -1
               PROVE  IsDefinition(macros[m].lines, Lines(macros[m].from[1]), macros[m].from[2])
    BY DEF MacroIsItsText
  <2>1. MacrosDefined /\ defining.ctx = NoCtx
    BY DEF Texts, InStep
  <2>2. m # NoCtx.prog
    BY NamesAssumption DEF NoCtx
  <2> QED
    BY <2>1, <2>2 DEF MacrosDefined
<1> QED
  BY <1>1, TypeInit, TypeStep, InStepInit, InStepStep, TextsInit, TextsStep, PTL DEF Spec
=============================================================================
