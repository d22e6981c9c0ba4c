-------------------------- MODULE AsmPasses_proofs --------------------------
(***************************************************************************)
(* Proofs about AsmPasses for every program, every set of symbols and of   *)
(* sections, every limit on the passes and every size of memory.           *)
(***************************************************************************)
EXTENDS AsmPasses, SequenceTheorems, TLAPS

USE DEF None, Inefficient, Illegal, Inconsistent, OutOfRange, Syntax, Data, Fatal

(* The error level and the conditions. *)
Level == None .. Fatal

\* An error never lowers a level that leads to another pass or to failure, nor
\* one that says that something was wrong with the syntax.
LEMMA RaiseKeeps ==
    ASSUME NEW lev \in Level, NEW type \in Level, NEW wrong \in BOOLEAN
    PROVE  /\ Raise(lev, type) \in Level /\ RaiseIf(wrong, lev, type) \in Level
           /\ RaiseIf(wrong, lev, type) < Inconsistent => lev < Inconsistent
           /\ RaiseIf(wrong, lev, type) < Inconsistent /\ type >= Inconsistent => ~ wrong
           /\ RaiseIf(wrong, lev, type) < Syntax => lev < Syntax
           /\ RaiseIf(wrong, lev, type) < Syntax /\ type >= Syntax => ~ wrong
BY DEF Raise, RaiseIf, Level

\* A pseudo-op of the conditional assembly keeps the type of its state.
LEMMA CondStepType ==
    ASSUME NEW c \in CondType, NEW op \in CondOps, NEW holds \in BOOLEAN
    PROVE  CondStep(op, c, holds) \in CondType
<1>1. c.list \in Seq(CondState) /\ c.out \in Nat /\ Len(c.list) \in Nat
  BY DEF CondType
<1>2. CASE Complaint(op, c)
  BY <1>2 DEF CondStep
<1>3. CASE op = "if"
  <2>1. Append(c.list, "if") \in Seq(CondState) /\ Append(c.list, "if_done") \in Seq(CondState)
    BY <1>1 DEF CondState
  <2> QED
    BY <1>3, <2>1, <1>1 DEF CondStep, Complaint, CondIf, CondType
<1>4. CASE op # "if" /\ ~ Complaint(op, c)
  <2>1. c.list # << >> /\ Len(c.list) \in 1 .. Len(c.list)
    BY <1>1, <1>4, EmptySeq DEF Complaint, CondOps
  <2>2. /\ SetInnermost(c, "if_done") \in Seq(CondState)
        /\ SetInnermost(c, "else") \in Seq(CondState)
    BY <1>1, <2>1, ExceptSeq DEF SetInnermost, CondState
  <2>3. Enclosing(c) \in Seq(CondState)
    BY <1>1, <2>1, SubSeqProperties DEF Enclosing
  <2> QED
    BY <1>1, <1>4, <2>2, <2>3
       DEF CondStep, CondElsif, CondElse, CondEndif, CondType, CondOps
<1> QED
  BY <1>2, <1>3, <1>4

-----------------------------------------------------------------------------
LEMMA OperandType ==
    ASSUME NEW l \in Line, table \in Table
    PROVE  Operand(l) \in Value
<1>1. CASE l.sym \notin Names
  BY <1>1 DEF Operand, Line, Value
<1>2. CASE l.sym \in Names /\ Known(l.sym)
  <2>1. table[l.sym].val \in Int
    BY <1>2 DEF Known, Table, Symbol, Value
  <2>2. Operand(l) = table[l.sym].val + l.off
    BY <1>2 DEF Operand
  <2> QED
    BY <2>1, <2>2 DEF Line, Value
<1>3. CASE l.sym \in Names /\ ~ Known(l.sym)
  BY <1>3 DEF Operand, Value
<1> QED
  BY <1>1, <1>2, <1>3

LEMMA SymbolSetType ==
    ASSUME NEW tab \in Table, NEW lev \in Level, NEW n \in Names, NEW v \in Value,
           NEW changeable \in BOOLEAN, NEW p \in Nat
    PROVE  /\ SymbolSet(tab, lev, n, v, changeable, p).table \in Table
           /\ SymbolSet(tab, lev, n, v, changeable, p).level \in Level
<1>1. [pass |-> p, val |-> v] \in Symbol
  BY DEF Symbol
<1>2. [tab EXCEPT ![n] = [pass |-> p, val |-> v]] \in Table
  BY <1>1 DEF Table
<1>3. Unstable(tab, n, v, changeable) \in BOOLEAN
  BY DEF Unstable
<1>4. Raise(lev, Syntax) \in Level /\ RaiseIf(Unstable(tab, n, v, changeable), lev, Inconsistent) \in Level
  BY <1>3, RaiseKeeps DEF Level
<1> QED
  BY <1>2, <1>4 DEF SymbolSet

\* What a symbol_set() that leaves the level below an inconsistency does: it
\* stores the value, and every symbol that was known keeps its value, unless
\* changing it was permitted.
LEMMA SymbolSetKeeps ==
    ASSUME NEW tab \in Table, NEW lev \in Level, NEW n \in Names, NEW v \in Value,
           NEW changeable \in BOOLEAN, NEW p \in Nat,
           SymbolSet(tab, lev, n, v, changeable, p).level < Inconsistent
    PROVE  /\ lev < Inconsistent
           /\ SymbolSet(tab, lev, n, v, changeable, p).table[n].val = v
           /\ \A m \in Names :
                (m # n \/ ~ changeable) /\ tab[m].val # Undef =>
                    SymbolSet(tab, lev, n, v, changeable, p).table[m].val = tab[m].val
<1>1. ~ Redefined(tab, n, changeable, p)
  BY DEF SymbolSet, Raise, Level
<1>2. /\ SymbolSet(tab, lev, n, v, changeable, p).table = [tab EXCEPT ![n] = [pass |-> p, val |-> v]]
      /\ SymbolSet(tab, lev, n, v, changeable, p).level
           = RaiseIf(Unstable(tab, n, v, changeable), lev, Inconsistent)
  BY <1>1 DEF SymbolSet
<1>3. Unstable(tab, n, v, changeable) \in BOOLEAN
  BY DEF Unstable
<1>4. lev < Inconsistent /\ ~ Unstable(tab, n, v, changeable)
  BY <1>2, <1>3, RaiseKeeps DEF Level
<1>5. ASSUME NEW m \in Names, m # n \/ ~ changeable, tab[m].val # Undef
      PROVE  [tab EXCEPT ![n] = [pass |-> p, val |-> v]][m].val = tab[m].val
  BY <1>4, <1>5 DEF Unstable, Table, Symbol
<1> QED
  BY <1>2, <1>4, <1>5 DEF Table

\* What the line actions share, with the types that their parts then have.
LEMMA LineTypes ==
    ASSUME TypeOK, phase = "lines", cur \in SectNames, next <= Len(prog)
    PROVE  /\ line \in Line /\ next \in 1 .. Len(prog) /\ next + 1 \in 1 .. Len(prog) + 1
           /\ val \in Value
           /\ Here \in Int /\ Here \in Value
           /\ Evaluated \in Level
           /\ Evaluated < Inconsistent => level < Inconsistent /\ val # Undef
<1>1. Len(prog) \in Nat /\ next \in 1 .. Len(prog)
  BY DEF TypeOK
<1>2. line \in Line
  BY <1>1, ElementOfSeq DEF TypeOK, line
<1>3. val \in Value
  BY <1>2, OperandType DEF TypeOK, val
<1>4. Here \in Int
  BY DEF TypeOK, SectionType, Place, Here
<1>5. level \in Level /\ Inconsistent \in Level
  BY DEF TypeOK, Level
<1>6. Evaluated \in Level /\ (Evaluated < Inconsistent => level < Inconsistent /\ val # Undef)
  BY <1>5 DEF Evaluated, RaiseIf, Raise, Level
<1> QED
  BY <1>1, <1>2, <1>3, <1>4, <1>6 DEF Value

LEMMA LabelType ==
    ASSUME TypeOK, phase = "lines", cur \in SectNames, next <= Len(prog),
           NEW v \in Value, NEW changeable \in BOOLEAN
    PROVE  Label(v, changeable).table \in Table /\ Label(v, changeable).level \in Level
<1>1. table \in Table /\ pass \in Nat
  BY SizesAssumption DEF TypeOK
<1>2. CASE line.label = NoName
  BY <1>1, <1>2, LineTypes DEF Label
<1>3. CASE line.label # NoName
  <2>1. line.label \in Names
    BY <1>3, LineTypes DEF Line
  <2>2. Label(v, changeable) = SymbolSet(table, Evaluated, line.label, v, changeable, pass)
    BY <1>3 DEF Label
  <2> QED
    BY <1>1, <2>1, <2>2, LineTypes, SymbolSetType
<1> QED
  BY <1>2, <1>3

SectTable == [SectNames -> SectionType]

LEMMA SectionSetType ==
    ASSUME TypeOK, NEW s \in SectNames, NEW p \in Nat
    PROVE  SectionSet(s, p) \in SectTable
<1>1. sect \in SectTable /\ InitDP \in Int /\ cur \in SectNames \cup {NoSect}
  BY SizesAssumption DEF TypeOK, SectTable
<1>2. StartAfter(p) \in Place /\ StartAfter(p).pc \in Int
  <2>1. CASE Follows(p)
    <3>1. cur \in SectNames
      BY <2>1, <1>1 DEF Follows
    <3> QED
      BY <2>1, <3>1, <1>1 DEF StartAfter, EndOf, SectTable, SectionType, Place
  <2>2. CASE ~ Follows(p)
    BY <2>2 DEF StartAfter, Start, Place
  <2> QED
    BY <2>1, <2>2
<1>3. (IF Follows(p) THEN cur ELSE NoSect) \in SectNames \cup {NoSect}
  BY <1>1
<1> QED
  BY <1>1, <1>2, <1>3 DEF SectionSet, SectTable, SectionType

\* The parts of the type invariant that the actions on lines change.
LEMMA Recorded ==
    ASSUME TypeOK, phase = "lines", cur \in SectNames, next <= Len(prog),
           NEW v \in Value, Record(v), prog' = prog
    PROVE  \A t \in trace' : t \in TraceType /\ t.line \in 1 .. Len(prog')
<1>1. [line |-> next, pc |-> Here, val |-> val, label |-> v] \in TraceType
  BY LineTypes DEF TraceType
<1> QED
  BY <1>1, LineTypes DEF Record, TypeOK

LEMMA MoveToType ==
    ASSUME TypeOK, cur \in SectNames, NEW pc \in Int, NEW put \in Int
    PROVE  MoveTo(pc, put) \in SectTable
BY DEF MoveTo, TypeOK, SectTable, SectionType, Place

LEMMA SkipType ==
    ASSUME TypeOK, NEW n \in Int, cur \in SectNames
    PROVE  Skip(n) \in SectTable
<1>1. Here + n \in Int /\ sect[cur].at.put + n \in Int
  BY DEF TypeOK, SectionType, Place, Here
<1> QED
  BY <1>1, MoveToType DEF Skip

LEMMA OtherTypes ==
    ASSUME TypeOK, phase = "lines", cur \in SectNames, NEW op, NEW wrong \in BOOLEAN,
           NEW type \in Level, Other(op, wrong, type)
    PROVE  /\ table' \in Table /\ level' \in Level
           /\ \A t \in trace' : t \in TraceType /\ t.line \in 1 .. Len(prog')
           /\ next <= Len(prog) /\ line.op = op
           /\ next' \in 1 .. Len(prog') + 1
           /\ UNCHANGED <<prog, pass, phase, cond, cur>>
<1>1. /\ next <= Len(prog) /\ line.op = op /\ next' = next + 1
      /\ UNCHANGED <<prog, pass, phase, cond, cur>> /\ Record(Here)
      /\ table' = Label(Here, FALSE).table
      /\ level' = RaiseIf(wrong, Label(Here, FALSE).level, type)
  BY DEF Other, At, NextLine
<1>2. Here \in Value /\ next + 1 \in 1 .. Len(prog) + 1
  BY <1>1, LineTypes
<1>3. Label(Here, FALSE).table \in Table /\ Label(Here, FALSE).level \in Level
  BY <1>1, <1>2, LabelType
<1>4. level' \in Level
  BY <1>1, <1>3, RaiseKeeps
<1> QED
  BY <1>1, <1>2, <1>3, <1>4, Recorded

\* While lines are assembled there is a current section.
Selected == phase = "lines" => cur \in SectNames

LEMMA TypeInit == Init => TypeOK /\ Selected
<1> SUFFICES ASSUME Init PROVE TypeOK /\ Selected
  OBVIOUS
<1>1. prog \in Seq(Line) /\ table \in Table
  BY InputAssumption DEF Init
<1>2. next \in 1 .. Len(prog) + 1
  BY <1>1, LenProperties DEF Init
<1>3. sect \in SectTable
  BY SizesAssumption DEF Init, SectTable, NewSection, SectionType, Start, Place
<1>4. cond \in CondType
  BY EmptySeq DEF Init, NoCond, CondType
<1> QED
  BY <1>1, <1>2, <1>3, <1>4, SizesAssumption DEF Init, TypeOK, SectTable, Selected

LEMMA TypeStep == TypeOK /\ Selected /\ [Next]_vars => TypeOK' /\ Selected'
<1> SUFFICES ASSUME TypeOK, Selected, [Next]_vars PROVE TypeOK' /\ Selected'
  OBVIOUS
<1> DEFINE Traced == \A t \in trace' : t \in TraceType /\ t.line \in 1 .. Len(prog')
<1>a. /\ prog \in Seq(Line) /\ pass \in 0 .. MaxPasses - 1 /\ pass \in Nat /\ MaxPasses \in Nat
      /\ sect \in SectTable /\ level \in Level /\ table \in Table
      /\ next \in 1 .. Len(prog) + 1 /\ Len(prog) \in Nat
  BY SizesAssumption, LenProperties DEF TypeOK, SectTable, Level
<1>b. /\ None \in Level /\ Illegal \in Level /\ Inconsistent \in Level
      /\ OutOfRange \in Level /\ Syntax \in Level /\ Fatal \in Level
  BY DEF Level
\* A line that is assembled: what is left to show is the types of its parts.
<1>c. ASSUME phase = "lines", next' \in 1 .. Len(prog') + 1,
             UNCHANGED <<prog, pass, phase, cond>>, cur' \in SectNames,
             table' \in Table, level' \in Level, Traced, sect' \in SectTable
      PROVE  TypeOK' /\ Selected'
  BY <1>c DEF TypeOK, Selected, SectTable, Level
<1>d. ASSUME NEW op, NEW wrong \in BOOLEAN, NEW type \in Level, Other(op, wrong, type),
             phase = "lines", sect' \in SectTable
      PROVE  TypeOK' /\ Selected'
  <2>1. cur \in SectNames
    BY <1>d DEF Selected
  <2> QED
    BY <1>c, <1>d, <2>1, OtherTypes
<1>e. ASSUME NEW op, NEW n \in Nat, NEW wrong \in BOOLEAN, Emit(op, n, wrong)
      PROVE  TypeOK' /\ Selected'
  <2>1. phase = "lines" /\ cur \in SectNames /\ (wrong \/ Beyond(n)) \in BOOLEAN
    BY <1>e DEF Emit, Other, At, Selected
  <2>2. Skip(n) \in SectTable
    BY <2>1, SkipType
  <2> QED
    BY <1>b, <1>d, <1>e, <2>1, <2>2 DEF Emit
<1>1. CASE BeginPass
  <2>1. SectionSet(Code, pass) \in SectTable
    BY <1>a, SectionSetType, NamesAssumption
  <2>2. NoCond \in CondType
    BY EmptySeq DEF NoCond, CondType
  <2> QED
    BY <1>1, <1>a, <1>b, <2>1, <2>2, NamesAssumption
       DEF BeginPass, TypeOK, Selected, SectTable, Level
<1>2. CASE EndPass
  <2>1. PassLevel \in Level
    <3>1. (Moved # {}) \in BOOLEAN /\ (cond.list # << >>) \in BOOLEAN
      OBVIOUS
    <3> QED
      BY <3>1, <1>a, <1>b, RaiseKeeps DEF PassLevel
  <2>2. [s \in SectNames |-> KeepEnd(s)] \in SectTable
    BY <1>a DEF SectTable, SectionType, KeepEnd
  <2>3. pass' \in 0 .. MaxPasses - 1
    BY <1>2, <1>a DEF EndPass, AnotherPass
  <2>4. phase' \in {"begin", "lines", "done", "failed"} /\ phase' # "lines"
    BY <1>2 DEF EndPass
  <2> QED
    BY <1>2, <1>a, <2>1, <2>2, <2>3, <2>4 DEF EndPass, TypeOK, Selected, SectTable, Level
<1>3. ASSUME NEW op, NEW changeable \in BOOLEAN, Define(op, changeable)
      PROVE  TypeOK' /\ Selected'
  <2>1. phase = "lines" /\ cur \in SectNames /\ next <= Len(prog)
    BY <1>3 DEF Define, At, Selected
  <2> QED
    BY <1>3, <1>a, <1>c, <2>1, LineTypes, LabelType, Recorded DEF Define, At, NextLine
<1>4. CASE Org
  <2>1. phase = "lines" /\ cur \in SectNames /\ next <= Len(prog)
    BY <1>4 DEF Org, At, Selected
  <2> DEFINE pc == Else(val, Here)
  <2>2. pc \in Int /\ pc \in Value
    BY <2>1, LineTypes DEF Else, Value
  <2>3. sect[cur].at.put \in Int
    BY <1>a, <2>1 DEF SectTable, SectionType, Place
  <2>4. MoveTo(pc, IF pc >= 0 THEN pc ELSE sect[cur].at.put) \in SectTable
    BY <2>1, <2>2, <2>3, MoveToType
  <2> QED
    BY <1>4, <1>a, <1>c, <2>1, <2>2, <2>4, LineTypes, LabelType, Recorded DEF Org, At, NextLine
<1>5. CASE Section
  <2>1. phase = "lines" /\ cur \in SectNames /\ next <= Len(prog) /\ line.op = "section"
    BY <1>5 DEF Section, At, Selected
  <2>2. line.sym \in SectNames
    BY <2>1, LineTypes DEF Line
  <2>3. sect' \in SectTable /\ cur' \in SectNames
    BY <1>5, <1>a, <2>2, SectionSetType DEF Section
  <2>4. sect'[cur'].at.pc \in Value
    BY <2>3 DEF SectTable, SectionType, Place, Value
  <2> QED
    BY <1>5, <1>a, <1>c, <2>1, <2>3, <2>4, LineTypes, LabelType, Recorded DEF Section, At, NextLine
<1>6. CASE NoOp
  BY <1>6, <1>a, <1>b, <1>d DEF NoOp, Other, At
<1>7. CASE Fdb
  BY <1>7, <1>e DEF Fdb
<1>8. CASE Bra
  <2>1. (val # Undef /\ TooFar(val)) \in BOOLEAN
    BY DEF TooFar
  <2> QED
    BY <1>8, <1>e, <2>1 DEF Bra
<1>9. CASE Mem1
  <2>1. (IF IsDirect(val) THEN 2 ELSE 3) \in Nat
    OBVIOUS
  <2> QED
    BY <1>9, <1>e, <2>1 DEF Mem1
<1>10. CASE Rmb
  <2>1. phase = "lines" /\ cur \in SectNames /\ next <= Len(prog)
    BY <1>10 DEF Rmb, Other, At, Selected
  <2>2. Else(val, 0) \in Int
    BY <2>1, LineTypes DEF Else, Value
  <2>3. sect' \in SectTable
    BY <1>10, <1>a, <2>1, <2>2, SkipType DEF Rmb
  <2>4. Other("rmb", Else(val, 0) < 0, OutOfRange) /\ (Else(val, 0) < 0) \in BOOLEAN
    BY <1>10, <2>2 DEF Rmb
  <2> QED
    BY <1>b, <1>d, <2>1, <2>3, <2>4
<1>11. CASE Align
  <2>1. phase = "lines" /\ cur \in SectNames /\ next <= Len(prog)
    BY <1>11 DEF Align, Other, At, Selected
  <2>2. Else(val, 0) \in Int /\ Here \in Int
    BY <2>1, LineTypes DEF Else, Value
  <2>3. Other("align", Else(val, 0) < 1, OutOfRange) /\ (Else(val, 0) < 1) \in BOOLEAN
    BY <1>11, <2>2 DEF Align
  <2>4. ASSUME NEW align \in Int, align >= 1
        PROVE  (align - (Here % align)) % align \in Int
    <3>1. Here % align \in Int
      BY <2>2, <2>4
    <3> QED
      BY <2>2, <2>4, <3>1
  <2>5. sect' \in SectTable
    <3>1. CASE Else(val, 0) >= 1
      <4>1. (Else(val, 0) - (Here % Else(val, 0))) % Else(val, 0) \in Int
        BY <2>2, <2>4, <3>1
      <4>2. sect' = Skip((Else(val, 0) - (Here % Else(val, 0))) % Else(val, 0))
        BY <1>11, <2>2, <3>1 DEF Align
      <4> QED
        BY <2>1, <4>1, <4>2, SkipType
    <3>2. CASE ~ (Else(val, 0) >= 1)
      BY <1>11, <1>a, <2>2, <3>2 DEF Align
    <3> QED
      BY <3>1, <3>2
  <2> QED
    BY <1>b, <1>d, <2>1, <2>3, <2>5
<1>12. CASE Put
  <2>1. phase = "lines" /\ cur \in SectNames /\ next <= Len(prog)
    BY <1>12 DEF Put, Other, At, Selected
  <2> DEFINE put == Else(val, sect[cur].at.put)
  <2>2. put \in Int /\ Here \in Int
    BY <1>a, <2>1, LineTypes DEF Else, Value, SectTable, SectionType, Place
  <2>3. sect' \in SectTable
    BY <1>12, <1>a, <2>1, <2>2, MoveToType DEF Put
  <2>4. Other("put", put < 0, OutOfRange) /\ (put < 0) \in BOOLEAN
    BY <1>12, <2>2 DEF Put
  <2> QED
    BY <1>b, <1>d, <2>1, <2>3, <2>4
<1>13. CASE SetDP
  <2>1. phase = "lines" /\ cur \in SectNames /\ next <= Len(prog)
    BY <1>13 DEF SetDP, Other, At, Selected
  <2> DEFINE dp == Else(val, -1)
  <2>2. dp \in Int
    BY <2>1, LineTypes DEF Else, Value
  <2>3. dp % Pages \in Int
    BY <2>2, SizesAssumption
  <2>4. [sect EXCEPT ![cur].dp = IF dp < 0 THEN -1 ELSE dp % Pages] \in SectTable
    BY <1>a, <2>1, <2>3 DEF SectTable, SectionType
  <2> QED
    BY <1>13, <1>b, <1>d, <2>1, <2>4 DEF SetDP
<1>14. CASE Error
  BY <1>14, <1>a, <1>b, <1>d DEF Error, Other, At
<1>15. CASE Warn
  BY <1>15, <1>a, <1>b, <1>d DEF Warn, Other, At
<1>16. CASE End
  <2>1. phase = "lines" /\ cur \in SectNames /\ next <= Len(prog)
    BY <1>16 DEF End, At, Selected
  <2>2. Label(Here, FALSE).table \in Table /\ Label(Here, FALSE).level \in Level
    BY <2>1, LineTypes, LabelType
  <2>3. table' \in Table /\ level' \in Level
    <3>1. (pass # 0) \in BOOLEAN /\ val \in Value /\ Exec \in Names /\ 0 \in Nat
      BY <2>1, LineTypes, NamesAssumption
    <3> QED
      BY <1>16, <2>2, <3>1, SymbolSetType DEF End
  <2> QED
    BY <1>16, <1>a, <1>c, <2>1, <2>3, LineTypes, Recorded DEF End, At, NextLine
<1>17. CASE Conditional
  <2>1. (Condition(line) # 0) \in BOOLEAN /\ Complaint(line.op, cond) \in BOOLEAN
    BY DEF Complaint
  <2>2. cond' \in CondType
    BY <1>17, <2>1, CondStepType DEF Conditional, TypeOK
  <2>3. level' \in Level
    BY <1>17, <1>a, <1>b, <2>1, RaiseKeeps DEF Conditional
  <2> QED
    BY <1>17, <1>a, <2>2, <2>3 DEF Conditional, NextLine, TypeOK, Selected, SectTable, Level
<1>18. CASE Excludes
  BY <1>18, <1>a DEF Excludes, NextLine, TypeOK, Selected
<1>19. CASE UNCHANGED vars
  BY <1>19 DEF vars, TypeOK, Selected
<1> QED
  BY <1>1, <1>2, <1>3, <1>4, <1>5, <1>6, <1>7, <1>8, <1>9, <1>10, <1>11, <1>12, <1>13, <1>14,
     <1>15, <1>16, <1>17, <1>18, <1>19 DEF Next, Equ, Set

\* Every variable keeps its type, in particular every symbol is either without
\* a value or a number, whatever the program and however many passes.
THEOREM TypeCorrect == Spec => []TypeOK
<1>1. TypeOK /\ Selected /\ [Next]_vars => (TypeOK /\ Selected)'
  BY TypeStep
<1> QED
  BY <1>1, TypeInit, PTL DEF Spec
-----------------------------------------------------------------------------
\* The inductive form of OutputIsFinal: as long as no inconsistency has been
\* found in the pass, what its lines used and defined is what the table holds.
Agree ==
    level < Inconsistent /\ phase \in {"lines", "done"} =>
        \A t \in trace : UsesFinal(t) /\ LabelFinal(t)

\* The symbols that no SET or END changes keep the values they have.
Keeps(tab) == \A m \in Names : Fixed(m) /\ Known(m) => tab[m].val = table[m].val

LEMMA LabelKeeps ==
    ASSUME TypeOK, phase = "lines", cur \in SectNames, next <= Len(prog),
           NEW v \in Value, NEW changeable \in BOOLEAN,
           changeable => ~ Fixed(line.label),
           Label(v, changeable).level < Inconsistent
    PROVE  /\ level < Inconsistent /\ val # Undef
           /\ Keeps(Label(v, changeable).table)
           /\ line.label \in Names => Label(v, changeable).table[line.label].val = v
<1>1. CASE line.label = NoName
  BY <1>1, LineTypes, NamesAssumption DEF Label, Keeps
<1>2. CASE line.label # NoName
  <2>1. line.label \in Names /\ pass \in Nat /\ table \in Table
    BY <1>2, LineTypes, SizesAssumption DEF Line, TypeOK
  <2>2. Label(v, changeable) = SymbolSet(table, Evaluated, line.label, v, changeable, pass)
    BY <1>2 DEF Label
  <2> QED
    BY <2>1, <2>2, LineTypes, SymbolSetKeeps DEF Keeps, Known
<1> QED
  BY <1>1, <1>2

LEMMA FixedOperand ==
    ASSUME NEW l \in Line, l.sym \in Names, Operand(l) # Undef,
           prog' = prog, table'[l.sym].val = table[l.sym].val
    PROVE  Operand(l)' = Operand(l) /\ Known(l.sym)
BY DEF Operand, Known

LEMMA LineAgrees ==
    ASSUME TypeOK, Agree, phase = "lines", cur \in SectNames, next <= Len(prog),
           prog' = prog, NEW v \in Value, Record(v),
           level' < Inconsistent =>
             /\ level < Inconsistent /\ val # Undef /\ Keeps(table')
             /\ Fixed(line.label) => v # Undef /\ table'[line.label].val = v
    PROVE  Agree'
<1> SUFFICES ASSUME level' < Inconsistent, NEW t \in trace'
             PROVE  UsesFinal(t)' /\ LabelFinal(t)'
  BY DEF Agree
<1>1. /\ level < Inconsistent /\ val # Undef /\ Keeps(table')
      /\ Fixed(line.label) => v # Undef /\ table'[line.label].val = v
  OBVIOUS
<1>2. \A n : Fixed(n)' <=> Fixed(n)
  BY DEF Fixed, Changeable
<1>3. CASE t \in trace
  <2>1. t.line \in 1 .. Len(prog) /\ UsesFinal(t) /\ LabelFinal(t)
    BY <1>1, <1>3 DEF Agree, TypeOK
  <2>2. prog[t.line] \in Line
    BY <2>1, ElementOfSeq DEF TypeOK
  <2>3. UsesFinal(t)'
    <3> SUFFICES ASSUME Fixed(prog[t.line].sym)
                 PROVE  t.val # Undef /\ t.val = Operand(prog[t.line])'
      BY <1>2 DEF UsesFinal
    <3>1. prog[t.line].sym \in Names /\ t.val # Undef /\ t.val = Operand(prog[t.line])
      BY <2>1 DEF UsesFinal, Fixed
    <3>2. Known(prog[t.line].sym)
      BY <3>1 DEF Operand
    <3>3. table'[prog[t.line].sym].val = table[prog[t.line].sym].val
      BY <1>1, <3>1, <3>2 DEF Keeps
    <3> QED
      BY <2>2, <3>1, <3>3, FixedOperand
  <2>4. LabelFinal(t)'
    <3> SUFFICES ASSUME Fixed(prog[t.line].label)
                 PROVE  t.label # Undef /\ t.label = table'[prog[t.line].label].val
      BY <1>2 DEF LabelFinal
    <3>1. t.label # Undef /\ t.label = table[prog[t.line].label].val
      BY <2>1 DEF LabelFinal
    <3> QED
      BY <1>1, <3>1 DEF Keeps, Known, Fixed
  <2> QED
    BY <2>3, <2>4
<1>4. CASE t = [line |-> next, pc |-> Here, val |-> val, label |-> v]
  <2>1. t.line = next /\ t.val = val /\ t.label = v /\ prog[t.line] = line
    BY <1>4 DEF line
  <2>2. UsesFinal(t)'
    <3> SUFFICES ASSUME Fixed(line.sym) PROVE val # Undef /\ val = Operand(prog[t.line])'
      BY <1>2, <2>1 DEF UsesFinal
    <3>1. line.sym \in Names /\ val # Undef /\ val = Operand(line)
      BY <1>1 DEF Fixed, val
    <3>2. Known(line.sym)
      BY <3>1 DEF Operand
    <3>3. table'[line.sym].val = table[line.sym].val
      BY <1>1, <3>1, <3>2 DEF Keeps
    <3> QED
      BY <2>1, <3>1, <3>3, LineTypes, FixedOperand
  <2>3. LabelFinal(t)'
    BY <1>1, <1>2, <2>1 DEF LabelFinal, line
  <2> QED
    BY <2>2, <2>3
<1> QED
  BY <1>3, <1>4 DEF Record

\* A line that gives its label the value v with set_label(), and then may add
\* errors, keeps the agreement.
LEMMA LabelledAgrees ==
    ASSUME TypeOK, Agree, phase = "lines", cur \in SectNames, next <= Len(prog),
           prog' = prog, NEW v \in Value, NEW changeable \in BOOLEAN, Record(v),
           changeable => ~ Fixed(line.label), v = Undef => v = val,
           table' = Label(v, changeable).table,
           level' < Inconsistent => Label(v, changeable).level < Inconsistent
    PROVE  Agree'
<1>1. Fixed(line.label) => line.label \in Names
  BY DEF Fixed
<1>2. level' < Inconsistent =>
        /\ level < Inconsistent /\ val # Undef /\ Keeps(table')
        /\ Fixed(line.label) => v # Undef /\ table'[line.label].val = v
  BY <1>1, LabelKeeps
<1> QED
  BY <1>2, LineAgrees

LEMMA OtherAgrees ==
    ASSUME TypeOK, Selected, Agree, NEW op, NEW wrong \in BOOLEAN, NEW type \in Level,
           Other(op, wrong, type)
    PROVE  Agree'
<1>1. /\ phase = "lines" /\ cur \in SectNames /\ next <= Len(prog) /\ prog' = prog
      /\ Record(Here) /\ table' = Label(Here, FALSE).table
      /\ level' = RaiseIf(wrong, Label(Here, FALSE).level, type)
  BY DEF Other, At, NextLine, Selected
<1>2. Here \in Value /\ Here # Undef
  BY <1>1, LineTypes, NamesAssumption
<1>3. Label(Here, FALSE).level \in Level
  BY <1>1, <1>2, LabelType
<1>4. level' < Inconsistent => Label(Here, FALSE).level < Inconsistent
  BY <1>1, <1>3, RaiseKeeps
<1> QED
  BY <1>1, <1>2, <1>4, LabelledAgrees

\* Setting one symbol keeps the others and never lowers the error level.
LEMMA SetKeepsOthers ==
    ASSUME NEW tab \in Table, NEW lev \in Level, NEW n \in Names, NEW v \in Value,
           NEW changeable \in BOOLEAN, NEW p \in Nat,
           SymbolSet(tab, lev, n, v, changeable, p).level < Inconsistent
    PROVE  /\ lev < Inconsistent
           /\ \A m \in Names \ {n} :
                SymbolSet(tab, lev, n, v, changeable, p).table[m] = tab[m]
<1>1. Syntax \in Level /\ Inconsistent \in Level
  BY DEF Level
<1>2. CASE Redefined(tab, n, changeable, p)
  <2>1. Raise(lev, Syntax) >= Inconsistent
    BY DEF Raise, Level, None, Inconsistent, OutOfRange, Syntax, Fatal
  <2>2. SymbolSet(tab, lev, n, v, changeable, p).level = Raise(lev, Syntax)
    BY <1>2 DEF SymbolSet
  <2>3. Raise(lev, Syntax) \in Int
    BY DEF Raise, Level, None, Syntax, Fatal, Inconsistent
  <2> QED
    BY <2>1, <2>2, <2>3 DEF Inconsistent
<1>3. CASE ~ Redefined(tab, n, changeable, p)
  <2>1. /\ SymbolSet(tab, lev, n, v, changeable, p).table
              = [tab EXCEPT ![n] = [pass |-> p, val |-> v]]
        /\ SymbolSet(tab, lev, n, v, changeable, p).level
              = RaiseIf(Unstable(tab, n, v, changeable), lev, Inconsistent)
    BY <1>3 DEF SymbolSet
  <2>2. Unstable(tab, n, v, changeable) \in BOOLEAN
    BY DEF Unstable
  <2>3. lev < Inconsistent
    BY <1>1, <2>1, <2>2, RaiseKeeps
  <2> QED
    BY <2>1, <2>3 DEF Table
<1> QED
  BY <1>2, <1>3

LEMMA AgreeStep == TypeOK /\ Selected /\ Agree /\ [Next]_vars => Agree'
<1> SUFFICES ASSUME TypeOK, Selected, Agree, [Next]_vars PROVE Agree'
  OBVIOUS
<1>a. level \in Level /\ MaxPasses \in Nat /\ pass \in Nat
  BY SizesAssumption DEF TypeOK, Level
<1>b. /\ None \in Level /\ Illegal \in Level /\ Inconsistent \in Level
      /\ OutOfRange \in Level /\ Syntax \in Level /\ Fatal \in Level
  BY DEF Level
<1>c. ASSUME UNCHANGED <<prog, table, trace>>, level' < Inconsistent => level < Inconsistent,
             phase' \in {"lines", "done"} => phase \in {"lines", "done"}
      PROVE  Agree'
  BY <1>c DEF Agree, UsesFinal, LabelFinal, Fixed, Changeable, Operand, Known
<1>d. ASSUME NEW op, NEW n \in Nat, NEW wrong \in BOOLEAN, Emit(op, n, wrong)
      PROVE  Agree'
  <2>1. (wrong \/ Beyond(n)) \in BOOLEAN
    BY DEF Beyond
  <2> QED
    BY <1>b, <1>d, <2>1, OtherAgrees DEF Emit
<1>e. ASSUME NEW op, At(op)
      PROVE  /\ phase = "lines" /\ cur \in SectNames /\ next <= Len(prog)
             /\ prog' = prog /\ line.op = op
  BY <1>e DEF At, NextLine, Selected
<1>1. CASE BeginPass
  BY <1>1 DEF BeginPass, Agree
<1>2. CASE EndPass
  <2>1. (Moved # {}) \in BOOLEAN /\ (cond.list # << >>) \in BOOLEAN
    OBVIOUS
  <2>2. RaiseIf(cond.list # << >>, level, Syntax) \in Level
    BY <1>a, <1>b, <2>1, RaiseKeeps
  <2>3. PassLevel < Inconsistent => RaiseIf(cond.list # << >>, level, Syntax) < Inconsistent
    BY <1>b, <2>1, <2>2, RaiseKeeps DEF PassLevel
  <2>4. level' < Inconsistent => level < Inconsistent
    BY <1>2, <1>a, <1>b, <2>1, <2>3, RaiseKeeps DEF EndPass
  <2> QED
    BY <1>2, <1>c, <2>4 DEF EndPass
<1>3. CASE Equ
  <2>1. val \in Value
    BY <1>3, <1>e, LineTypes DEF Equ, Define
  <2> QED
    BY <1>3, <1>e, <2>1, LabelledAgrees DEF Equ, Define
<1>4. CASE Set
  <2>1. val \in Value /\ next \in 1 .. Len(prog)
    BY <1>4, <1>e, LineTypes DEF Set, Define
  <2>2. ~ Fixed(line.label)
    BY <1>4, <1>e, <2>1 DEF Set, Define, Fixed, Changeable, line
  <2> QED
    BY <1>4, <1>e, <2>1, <2>2, LabelledAgrees DEF Set, Define
<1>5. CASE Org
  <2>1. Else(val, Here) \in Value /\ Else(val, Here) # Undef
    BY <1>5, <1>e, LineTypes, NamesAssumption DEF Org, Else, Value
  <2> QED
    BY <1>5, <1>e, <2>1, LabelledAgrees DEF Org
<1>6. CASE Section
  <2>1. sect'[cur'].at.pc \in Value /\ sect'[cur'].at.pc # Undef
    <3>1. TypeOK' /\ Selected' /\ phase' = "lines"
      BY <1>6, TypeStep DEF Next, Section, At, NextLine
    <3>2. sect'[cur'].at.pc \in Int
      BY <3>1 DEF TypeOK, Selected, SectionType, Place
    <3> QED
      BY <3>2, NamesAssumption DEF Value
  <2> QED
    BY <1>6, <1>e, <2>1, LabelledAgrees DEF Section
<1>7. CASE NoOp
  BY <1>7, <1>b, OtherAgrees DEF NoOp
<1>8. CASE Fdb
  BY <1>8, <1>d DEF Fdb
<1>9. CASE Bra
  <2>1. (val # Undef /\ TooFar(val)) \in BOOLEAN
    BY DEF TooFar
  <2> QED
    BY <1>9, <1>d, <2>1 DEF Bra
<1>10. CASE Mem1
  <2>1. (IF IsDirect(val) THEN 2 ELSE 3) \in Nat
    OBVIOUS
  <2> QED
    BY <1>10, <1>d, <2>1 DEF Mem1
<1>11. CASE Rmb
  <2>1. Other("rmb", Else(val, 0) < 0, OutOfRange) /\ (Else(val, 0) < 0) \in BOOLEAN
    BY <1>11 DEF Rmb
  <2> QED
    BY <1>b, <2>1, OtherAgrees
<1>12. CASE Align
  <2>1. Other("align", Else(val, 0) < 1, OutOfRange) /\ (Else(val, 0) < 1) \in BOOLEAN
    BY <1>12 DEF Align
  <2> QED
    BY <1>b, <2>1, OtherAgrees
<1>13. CASE Put
  <2>1. /\ Other("put", Else(val, sect[cur].at.put) < 0, OutOfRange)
        /\ (Else(val, sect[cur].at.put) < 0) \in BOOLEAN
    BY <1>13 DEF Put
  <2> QED
    BY <1>b, <2>1, OtherAgrees
<1>14. CASE SetDP
  BY <1>14, <1>b, OtherAgrees DEF SetDP
<1>15. CASE Error
  BY <1>15, <1>b, OtherAgrees DEF Error
<1>16. CASE Warn
  BY <1>16, <1>b, OtherAgrees DEF Warn
<1>17. CASE End
  <2>1. /\ phase = "lines" /\ cur \in SectNames /\ next <= Len(prog)
        /\ prog' = prog /\ Record(Here)
    BY <1>17, <1>e DEF End
  <2>2. Here \in Value /\ Here # Undef /\ val \in Value
    BY <2>1, LineTypes, NamesAssumption
  <2>3. Label(Here, FALSE).table \in Table /\ Label(Here, FALSE).level \in Level
    BY <2>1, <2>2, LabelType
  <2> DEFINE r == Label(Here, FALSE)
             later == pass # 0
             e == SymbolSet(r.table, r.level, Exec, val, later, 0)
  <2>4. table' = e.table /\ level' = e.level
    BY <1>17 DEF End
  <2>5. Exec \in Names /\ ~ Fixed(Exec) /\ later \in BOOLEAN /\ 0 \in Nat
    BY NamesAssumption DEF Fixed, Changeable
  <2> HIDE DEF later
  <2>6. SUFFICES ASSUME level' < Inconsistent
                 PROVE  /\ level < Inconsistent /\ val # Undef /\ Keeps(table')
                        /\ Fixed(line.label) => Here # Undef /\ table'[line.label].val = Here
    BY <2>1, <2>2, LineAgrees
  <2>7. r.level < Inconsistent /\ \A m \in Names \ {Exec} : e.table[m] = r.table[m]
    <3> HIDE DEF r, e
    <3>1. r.table \in Table /\ r.level \in Level
      BY <2>3 DEF r
    <3>2. SymbolSet(r.table, r.level, Exec, val, later, 0).level < Inconsistent
      BY <2>4, <2>6 DEF e
    <3> QED
      BY <2>2, <2>5, <3>1, <3>2, SetKeepsOthers DEF e
  <2>8. /\ level < Inconsistent /\ val # Undef /\ Keeps(r.table)
        /\ line.label \in Names => r.table[line.label].val = Here
    BY <2>1, <2>2, <2>7, LabelKeeps
  <2>9. Keeps(table')
    BY <2>4, <2>5, <2>7, <2>8 DEF Keeps, Known
  <2>10. Fixed(line.label) => table'[line.label].val = Here
    BY <2>2, <2>4, <2>5, <2>7, <2>8 DEF Fixed
  <2> QED
    BY <2>2, <2>8, <2>9, <2>10
<1>18. CASE Conditional
  <2>1. Complaint(line.op, cond) \in BOOLEAN
    BY DEF Complaint
  <2>2. level' < Inconsistent => level < Inconsistent
    BY <1>18, <1>a, <1>b, <2>1, RaiseKeeps DEF Conditional
  <2> QED
    BY <1>18, <1>c, <2>2 DEF Conditional, NextLine
<1>19. CASE Excludes
  BY <1>19, <1>c DEF Excludes, NextLine
<1>20. CASE UNCHANGED vars
  BY <1>20, <1>c DEF vars
<1> QED
  BY <1>1, <1>2, <1>3, <1>4, <1>5, <1>6, <1>7, <1>8, <1>9, <1>10, <1>11, <1>12, <1>13, <1>14,
     <1>15, <1>16, <1>17, <1>18, <1>19, <1>20 DEF Next

\* "done" is reached only below the level of an inconsistency.
Settled == phase = "done" => level < Inconsistent

LEMMA SettledStep == Settled /\ [Next]_vars => Settled'
BY DEF Settled, Next, vars, BeginPass, EndPass, Equ, Set, Define, Org, Section, NoOp, Fdb, Bra,
       Mem1, Rmb, Align, Put, SetDP, Error, Warn, End, Conditional, Excludes, Emit, Other, At,
       NextLine, AnotherPass

\* When the assembler succeeds, no line of its last pass used or defined a
\* symbol with another value than the one the symbol has in the end, whatever
\* the program: one pass without an inconsistency is enough.
THEOREM OutputFinal == Spec => []OutputIsFinal
<1> DEFINE Inv == TypeOK /\ Selected /\ Agree /\ Settled
<1>1. Init => Inv
  BY TypeInit DEF Init, Agree, Settled
<1>2. Inv /\ [Next]_vars => Inv'
  BY TypeStep, AgreeStep, SettledStep
<1>3. Inv => OutputIsFinal
  BY DEF Agree, Settled, OutputIsFinal
<1> QED
  BY <1>1, <1>2, <1>3, PTL DEF Spec
-----------------------------------------------------------------------------
\* The inductive form of DefinedOnce: as long as no inconsistency, let alone a
\* redefinition, has been found in the pass, a name that a line of the pass
\* defined has this pass in the table, so that the next definition is noticed.
InThisPass(t) ==
    prog[t.line].label \notin {NoName, Exec} => table[prog[t.line].label].pass = pass

Once ==
    level < Inconsistent /\ phase \in {"lines", "done"} =>
        /\ \A t \in trace : InThisPass(t)
        /\ \A t, u \in trace : ~ DefinedTwice(t, u)

LEMMA SetMarksPass ==
    ASSUME NEW tab \in Table, NEW lev \in Level, NEW n \in Names, NEW v \in Value,
           NEW changeable \in BOOLEAN, NEW p \in Nat,
           SymbolSet(tab, lev, n, v, changeable, p).level < Inconsistent
    PROVE  /\ SymbolSet(tab, lev, n, v, changeable, p).table[n].pass = p
           /\ changeable \/ tab[n].pass # p
<1>1. Raise(lev, Syntax) >= Syntax
  BY DEF Raise, Level
<1>2. ~ Redefined(tab, n, changeable, p)
  BY <1>1 DEF SymbolSet, Raise, Level
<1> QED
  BY <1>2 DEF SymbolSet, Redefined, Table

\* What the table says when a line has set its label.
Marked(tab, free) ==
    /\ level < Inconsistent
    /\ \A m \in Names : m # line.label => tab[m] = table[m]
    /\ line.label \in Names => tab[line.label].pass = pass
    /\ line.label \in Names => free \/ table[line.label].pass # pass

LEMMA LabelMarks ==
    ASSUME TypeOK, phase = "lines", cur \in SectNames, next <= Len(prog),
           NEW v \in Value, NEW changeable \in BOOLEAN,
           Label(v, changeable).level < Inconsistent
    PROVE  Marked(Label(v, changeable).table, changeable)
<1>0. Evaluated < Inconsistent => level < Inconsistent
  BY LineTypes, RaiseKeeps DEF Evaluated, TypeOK, Level
<1>1. CASE line.label = NoName
  BY <1>0, <1>1, NamesAssumption DEF Label, Marked
<1>2. CASE line.label # NoName
  <2>1. line.label \in Names /\ pass \in Nat /\ table \in Table
    BY <1>2, LineTypes, SizesAssumption DEF Line, TypeOK
  <2>2. Label(v, changeable) = SymbolSet(table, Evaluated, line.label, v, changeable, pass)
    BY <1>2 DEF Label
  <2> QED
    BY <1>0, <2>1, <2>2, LineTypes, SetKeepsOthers, SetMarksPass DEF Marked
<1> QED
  BY <1>1, <1>2

LEMMA LineOnce ==
    ASSUME TypeOK, Once, phase = "lines", next <= Len(prog), NEW v, Record(v),
           UNCHANGED <<prog, pass, phase>>, NEW tab,
           level' < Inconsistent => Marked(tab, line.op = "set"),
           \A m \in Names : m # Exec => table'[m] = tab[m]
    PROVE  Once'
<1> SUFFICES ASSUME level' < Inconsistent
             PROVE  /\ \A t \in trace' : InThisPass(t)'
                    /\ \A t, u \in trace' : ~ DefinedTwice(t, u)'
  BY DEF Once
<1> DEFINE new == [line |-> next, pc |-> Here, val |-> val, label |-> v]
<1>1. Marked(tab, line.op = "set") /\ level < Inconsistent
  BY DEF Marked
<1>2. trace' = trace \cup {new} /\ new.line = next /\ prog[next] = line
  BY DEF Record, line
<1>3. \A t \in trace : t.line \in 1 .. Len(prog)
  BY DEF TypeOK
<1>4. \A t \in trace' : prog[t.line] \in Line
  BY <1>2, <1>3, ElementOfSeq DEF TypeOK
<1> HIDE DEF new
<1>5. ASSUME NEW t \in trace' PROVE InThisPass(t)'
  <2> SUFFICES ASSUME prog[t.line].label \notin {NoName, Exec}
               PROVE  table'[prog[t.line].label].pass = pass
    BY DEF InThisPass
  <2>1. prog[t.line].label \in Names
    BY <1>4 DEF Line
  <2>2. CASE prog[t.line].label = line.label
    BY <1>1, <2>1, <2>2 DEF Marked
  <2>3. CASE prog[t.line].label # line.label
    <3>1. t \in trace
      BY <1>2, <2>3
    <3> QED
      BY <1>1, <2>1, <2>3, <3>1 DEF Marked, Once, InThisPass
  <2> QED
    BY <2>2, <2>3
<1>6. ASSUME NEW t \in trace, t.line # next,
             prog[t.line].label = line.label, line.label \notin {NoName, Exec}
      PROVE  line.op = "set"
  <2>1. line.label \in Names
    BY <1>4, <1>6, <1>2 DEF Line
  <2>2. table[line.label].pass = pass
    BY <1>1, <1>6 DEF Once, InThisPass
  <2> QED
    BY <1>1, <2>1, <2>2 DEF Marked
<1>7. ASSUME NEW t \in trace', NEW u \in trace', DefinedTwice(t, u)'
      PROVE  FALSE
  <2>1. DefinedTwice(t, u)
    BY <1>7 DEF DefinedTwice
  <2>2. ~ (t \in trace /\ u \in trace)
    BY <1>1, <2>1 DEF Once
  <2> QED
    BY <1>2, <1>6, <2>1, <2>2 DEF DefinedTwice
<1> QED
  BY <1>5, <1>7

LEMMA LabelledOnce ==
    ASSUME TypeOK, Once, phase = "lines", cur \in SectNames, next <= Len(prog),
           NEW v \in Value, NEW changeable \in BOOLEAN, Record(v),
           UNCHANGED <<prog, pass, phase>>, changeable => line.op = "set",
           \A m \in Names : m # Exec => table'[m] = Label(v, changeable).table[m],
           level' < Inconsistent => Label(v, changeable).level < Inconsistent
    PROVE  Once'
<1>1. level' < Inconsistent => Marked(Label(v, changeable).table, line.op = "set")
  BY LabelMarks DEF Marked
<1> QED
  BY <1>1, LineOnce

LEMMA OtherOnce ==
    ASSUME TypeOK, Selected, Once, NEW op, NEW wrong \in BOOLEAN, NEW type \in Level,
           Other(op, wrong, type)
    PROVE  Once'
<1>1. /\ phase = "lines" /\ cur \in SectNames /\ next <= Len(prog)
      /\ UNCHANGED <<prog, pass, phase>>
      /\ Record(Here) /\ table' = Label(Here, FALSE).table
      /\ level' = RaiseIf(wrong, Label(Here, FALSE).level, type)
  BY DEF Other, At, NextLine, Selected
<1>2. Here \in Value
  BY <1>1, LineTypes
<1>3. Label(Here, FALSE).level \in Level
  BY <1>1, <1>2, LabelType
<1>4. level' < Inconsistent => Label(Here, FALSE).level < Inconsistent
  BY <1>1, <1>3, RaiseKeeps
<1> QED
  BY <1>1, <1>2, <1>4, LabelledOnce

LEMMA OnceStep == TypeOK /\ Selected /\ Once /\ [Next]_vars => Once'
<1> SUFFICES ASSUME TypeOK, Selected, Once, [Next]_vars PROVE Once'
  OBVIOUS
<1>a. level \in Level /\ MaxPasses \in Nat /\ pass \in Nat
  BY SizesAssumption DEF TypeOK, Level
<1>b. /\ None \in Level /\ Illegal \in Level /\ Inconsistent \in Level
      /\ OutOfRange \in Level /\ Syntax \in Level /\ Fatal \in Level
  BY DEF Level
<1>c. ASSUME UNCHANGED <<prog, table, trace>>, phase' = "done" \/ phase' = "lines" => pass' = pass, level' < Inconsistent => level < Inconsistent,
             phase' \in {"lines", "done"} => phase \in {"lines", "done"}
      PROVE  Once'
  BY <1>c DEF Once, InThisPass, DefinedTwice
<1>d. ASSUME NEW op, NEW n \in Nat, NEW wrong \in BOOLEAN, Emit(op, n, wrong)
      PROVE  Once'
  <2>1. (wrong \/ Beyond(n)) \in BOOLEAN
    BY DEF Beyond
  <2> QED
    BY <1>b, <1>d, <2>1, OtherOnce DEF Emit
<1>e. ASSUME NEW op, At(op)
      PROVE  /\ phase = "lines" /\ cur \in SectNames /\ next <= Len(prog)
             /\ UNCHANGED <<prog, pass, phase>> /\ line.op = op
  BY <1>e DEF At, NextLine, Selected
<1>1. CASE BeginPass
  BY <1>1 DEF BeginPass, Once
<1>2. CASE EndPass
  <2>1. (Moved # {}) \in BOOLEAN /\ (cond.list # << >>) \in BOOLEAN
    OBVIOUS
  <2>2. RaiseIf(cond.list # << >>, level, Syntax) \in Level
    BY <1>a, <1>b, <2>1, RaiseKeeps
  <2>3. PassLevel < Inconsistent => RaiseIf(cond.list # << >>, level, Syntax) < Inconsistent
    BY <1>b, <2>1, <2>2, RaiseKeeps DEF PassLevel
  <2>4. level' < Inconsistent => level < Inconsistent
    BY <1>2, <1>a, <1>b, <2>1, <2>3, RaiseKeeps DEF EndPass
  <2> QED
    BY <1>2, <1>c, <2>4 DEF EndPass
<1>3. CASE Equ
  <2>1. val \in Value
    BY <1>3, <1>e, LineTypes DEF Equ, Define
  <2> QED
    BY <1>3, <1>e, <2>1, LabelledOnce DEF Equ, Define
<1>4. CASE Set
  <2>1. val \in Value
    BY <1>4, <1>e, LineTypes DEF Set, Define
  <2> QED
    BY <1>4, <1>e, <2>1, LabelledOnce DEF Set, Define
<1>5. CASE Org
  <2>1. Else(val, Here) \in Value
    BY <1>5, <1>e, LineTypes DEF Org, Else, Value
  <2> QED
    BY <1>5, <1>e, <2>1, LabelledOnce DEF Org
<1>6. CASE Section
  <2>1. sect'[cur'].at.pc \in Value
    <3>1. TypeOK' /\ Selected' /\ phase' = "lines"
      BY <1>6, TypeStep DEF Next, Section, At, NextLine
    <3>2. sect'[cur'].at.pc \in Int
      BY <3>1 DEF TypeOK, Selected, SectionType, Place
    <3> QED
      BY <3>2 DEF Value
  <2> QED
    BY <1>6, <1>e, <2>1, LabelledOnce DEF Section
<1>7. CASE NoOp
  BY <1>7, <1>b, OtherOnce DEF NoOp
<1>8. CASE Fdb
  BY <1>8, <1>d DEF Fdb
<1>9. CASE Bra
  <2>1. (val # Undef /\ TooFar(val)) \in BOOLEAN
    BY DEF TooFar
  <2> QED
    BY <1>9, <1>d, <2>1 DEF Bra
<1>10. CASE Mem1
  <2>1. (IF IsDirect(val) THEN 2 ELSE 3) \in Nat
    OBVIOUS
  <2> QED
    BY <1>10, <1>d, <2>1 DEF Mem1
<1>11. CASE Rmb
  <2>1. Other("rmb", Else(val, 0) < 0, OutOfRange) /\ (Else(val, 0) < 0) \in BOOLEAN
    BY <1>11 DEF Rmb
  <2> QED
    BY <1>b, <2>1, OtherOnce
<1>12. CASE Align
  <2>1. Other("align", Else(val, 0) < 1, OutOfRange) /\ (Else(val, 0) < 1) \in BOOLEAN
    BY <1>12 DEF Align
  <2> QED
    BY <1>b, <2>1, OtherOnce
<1>13. CASE Put
  <2>1. /\ Other("put", Else(val, sect[cur].at.put) < 0, OutOfRange)
        /\ (Else(val, sect[cur].at.put) < 0) \in BOOLEAN
    BY <1>13 DEF Put
  <2> QED
    BY <1>b, <2>1, OtherOnce
<1>14. CASE SetDP
  BY <1>14, <1>b, OtherOnce DEF SetDP
<1>15. CASE Error
  BY <1>15, <1>b, OtherOnce DEF Error
<1>16. CASE Warn
  BY <1>16, <1>b, OtherOnce DEF Warn
<1>17. CASE End
  <2>1. /\ phase = "lines" /\ cur \in SectNames /\ next <= Len(prog)
        /\ UNCHANGED <<prog, pass, phase>> /\ Record(Here)
    BY <1>17, <1>e DEF End
  <2>2. Here \in Value /\ val \in Value
    BY <2>1, LineTypes
  <2>3. Label(Here, FALSE).table \in Table /\ Label(Here, FALSE).level \in Level
    BY <2>1, <2>2, LabelType
  <2> DEFINE r == Label(Here, FALSE)
             later == pass # 0
             e == SymbolSet(r.table, r.level, Exec, val, later, 0)
  <2>4. table' = e.table /\ level' = e.level
    BY <1>17 DEF End
  <2>5. Exec \in Names /\ later \in BOOLEAN /\ 0 \in Nat
    BY NamesAssumption
  <2> HIDE DEF later
  <2>6. CASE level' < Inconsistent
    <3>1. r.level < Inconsistent /\ \A m \in Names \ {Exec} : e.table[m] = r.table[m]
      <4> HIDE DEF r, e
      <4>1. r.table \in Table /\ r.level \in Level
        BY <2>3 DEF r
      <4>2. SymbolSet(r.table, r.level, Exec, val, later, 0).level < Inconsistent
        BY <2>4, <2>6 DEF e
      <4> QED
        BY <2>2, <2>5, <4>1, <4>2, SetKeepsOthers DEF e
    <3>2. \A m \in Names : m # Exec => table'[m] = Label(Here, FALSE).table[m]
      BY <2>4, <3>1
    <3> QED
      BY <2>1, <2>2, <3>1, <3>2, LabelledOnce
  <2>7. CASE ~ (level' < Inconsistent)
    BY <2>7 DEF Once
  <2> QED
    BY <2>6, <2>7
<1>18. CASE Conditional
  <2>1. Complaint(line.op, cond) \in BOOLEAN
    BY DEF Complaint
  <2>2. level' < Inconsistent => level < Inconsistent
    BY <1>18, <1>a, <1>b, <2>1, RaiseKeeps DEF Conditional
  <2> QED
    BY <1>18, <1>c, <2>2 DEF Conditional, NextLine
<1>19. CASE Excludes
  BY <1>19, <1>c DEF Excludes, NextLine
<1>20. CASE UNCHANGED vars
  BY <1>20, <1>c DEF vars
<1> QED
  BY <1>1, <1>2, <1>3, <1>4, <1>5, <1>6, <1>7, <1>8, <1>9, <1>10, <1>11, <1>12, <1>13, <1>14,
     <1>15, <1>16, <1>17, <1>18, <1>19, <1>20 DEF Next

\* When the assembler succeeds, no name was defined by two lines of its last
\* pass, unless by SET, whatever the program defined in the passes before.
THEOREM NamesDefinedOnce == Spec => []DefinedOnce
<1> DEFINE Inv == TypeOK /\ Selected /\ Once /\ Settled
<1>1. Init => Inv
  BY TypeInit DEF Init, Once, Settled
<1>2. Inv /\ [Next]_vars => Inv'
  BY TypeStep, OnceStep, SettledStep
<1>3. Inv => DefinedOnce
  BY DEF Once, Settled, DefinedOnce
<1> QED
  BY <1>1, <1>2, <1>3, PTL DEF Spec
-----------------------------------------------------------------------------
\* The section s was placed in the pass, after another one, and begins at the
\* address that one ended at when the pass began.
Placed(s) == sect[s].pass = pass /\ sect[s].after # NoSect

\* The inductive form of SectionsAbut.
Based ==
    /\ \A s \in SectNames : sect[s].pass <= pass /\ (phase = "begin" => sect[s].pass < pass)
    /\ phase = "lines" =>
         \A s \in SectNames : Placed(s) =>
            sect[s].after \in SectNames /\ sect[s].base = sect[sect[s].after].last.pc
    /\ SectionsAbut

\* Only EndPass and the selection of a section change more of a section than
\* its address, put and DP.
Where(f) == \A s \in SectNames : /\ f[s].pass = sect[s].pass /\ f[s].last = sect[s].last
                                /\ f[s].after = sect[s].after /\ f[s].base = sect[s].base

LEMMA MovesOnly ==
    ASSUME TypeOK, Based, phase = "lines", UNCHANGED <<pass, phase>>, Where(sect')
    PROVE  Based'
BY DEF Based, Placed, Where, SectionsAbut

LEMMA MoveToWhere ==
    ASSUME TypeOK, cur \in SectNames
    PROVE  /\ Where(sect) /\ \A pc, put \in Int : Where(MoveTo(pc, put))
           /\ \A n \in Int : Where(Skip(n))
           /\ \A dp \in Int : Where([sect EXCEPT ![cur].dp = dp])
<1>1. sect \in [SectNames -> SectionType]
  BY DEF TypeOK
<1>2. \A pc, put : Where(MoveTo(pc, put))
  BY <1>1 DEF Where, MoveTo, SectionType
<1>3. \A dp : Where([sect EXCEPT ![cur].dp = dp])
  BY <1>1 DEF Where, SectionType
<1> QED
  BY <1>2, <1>3 DEF Where, Skip

LEMMA BasedStep == TypeOK /\ Selected /\ Based /\ [Next]_vars => Based'
<1> SUFFICES ASSUME TypeOK, Selected, Based, [Next]_vars PROVE Based'
  OBVIOUS
<1>a. /\ sect \in [SectNames -> SectionType] /\ pass \in Int
      /\ \A s \in SectNames : sect[s].pass \in Int
  BY DEF TypeOK, SectionType
<1>b. ASSUME NEW s \in SectNames, sect' = SectionSet(s, pass), phase' = "lines", pass' = pass,
             phase = "begin" \/ (phase = "lines" /\ cur \in SectNames)
      PROVE  Based'
  <2>1. CASE sect[s].pass = pass
    <3>1. sect' = sect /\ phase = "lines"
      BY <1>a, <1>b, <2>1 DEF SectionSet, Based
    <3> QED
      BY <1>b, <3>1 DEF Based, Placed, SectionsAbut
  <2>2. CASE sect[s].pass # pass
    <3>1. \A r \in SectNames \ {s} : sect'[r] = sect[r]
      BY <1>a, <1>b, <2>2 DEF SectionSet
    <3>2. /\ sect'[s].pass = pass /\ sect'[s].last = sect[s].last
          /\ sect'[s].after = (IF Follows(pass) THEN cur ELSE NoSect)
          /\ sect'[s].base = StartAfter(pass).pc
      BY <1>a, <1>b, <2>2 DEF SectionSet
    <3>3. \A r \in SectNames : sect'[r].last = sect[r].last
      BY <3>1, <3>2
    <3>4. ASSUME NEW r \in SectNames, sect'[r].pass = pass, sect'[r].after # NoSect
          PROVE  /\ sect'[r].after \in SectNames
                 /\ sect'[r].base = sect[sect'[r].after].last.pc
      <4>1. CASE r = s
        <5>1. Follows(pass) /\ sect'[r].after = cur /\ sect'[r].base = sect[cur].last.pc
          BY <3>2, <3>4, <4>1 DEF StartAfter, EndOf
        <5>2. cur \in SectNames
          BY <5>1 DEF Follows, TypeOK
        <5> QED
          BY <5>1, <5>2
      <4>2. CASE r # s
        <5>1. sect'[r] = sect[r] /\ phase = "lines"
          BY <1>a, <1>b, <3>1, <3>4, <4>2 DEF Based
        <5> QED
          BY <3>4, <5>1 DEF Based, Placed
      <4> QED
        BY <4>1, <4>2
    <3>5. \A r \in SectNames : sect'[r].pass <= pass
      BY <1>a, <3>1, <3>2 DEF Based
    <3> QED
      BY <1>b, <3>3, <3>4, <3>5 DEF Based, Placed, SectionsAbut
  <2> QED
    BY <2>1, <2>2
<1>c. ASSUME NEW op, NEW wrong, NEW type, Other(op, wrong, type), Where(sect')
      PROVE  Based'
  BY <1>c, MovesOnly DEF Other, At, NextLine
<1>d. ASSUME NEW op, NEW n \in Nat, NEW wrong \in BOOLEAN, Emit(op, n, wrong)
      PROVE  Based'
  <2>1. cur \in SectNames
    BY <1>d DEF Emit, Other, At, Selected
  <2> QED
    BY <1>c, <1>d, <2>1, MoveToWhere DEF Emit
<1>e. ASSUME NEW op, At(op)
      PROVE  /\ phase = "lines" /\ phase' = "lines" /\ pass' = pass /\ cur \in SectNames
             /\ Where(sect) /\ next <= Len(prog) /\ line.op = op
  BY <1>e, MoveToWhere DEF At, NextLine, Selected
<1>f. ASSUME phase = "lines", cur \in SectNames, next <= Len(prog)
      PROVE  /\ \A d \in Int : Else(val, d) \in Int
             /\ Here \in Int /\ sect[cur].at.put \in Int
  <2>1. val \in Value /\ Here \in Int
    BY <1>f, LineTypes
  <2>2. sect[cur].at.put \in Int
    BY <1>a, <1>f DEF SectionType, Place
  <2> QED
    BY <2>1, <2>2 DEF Else, Value
<1>1. CASE BeginPass
  BY <1>1, <1>b, NamesAssumption DEF BeginPass
<1>2. CASE EndPass
  <2>1. \A s \in SectNames :
          /\ sect'[s].pass = sect[s].pass /\ sect'[s].at = sect[s].at
          /\ sect'[s].after = sect[s].after /\ sect'[s].base = sect[s].base
    BY <1>2, <1>a DEF EndPass, KeepEnd, SectionType
  <2>2. CASE phase' = "begin"
    <3>1. pass' = pass + 1
      BY <1>2, <2>2 DEF EndPass
    <3> QED
      BY <1>a, <2>1, <2>2, <3>1 DEF Based, SectionsAbut
  <2>3. CASE phase' = "done"
    <3>1. pass' = pass /\ PassLevel < Inconsistent
      BY <1>2, <2>3 DEF EndPass
    <3>2. Moved = {}
      <4> SUFFICES ASSUME Moved # {} PROVE FALSE
        OBVIOUS
      <4> DEFINE before == RaiseIf(cond.list # << >>, level, Syntax)
      <4>1. level \in Level /\ Syntax \in Level /\ Inconsistent \in Level
            /\ (cond.list # << >>) \in BOOLEAN
        BY DEF TypeOK, Level
      <4>2. before \in Level
        BY <4>1, RaiseKeeps
      <4>3. PassLevel = Raise(before, Inconsistent)
        BY DEF PassLevel, RaiseIf
      <4> HIDE DEF before
      <4> QED
        BY <3>1, <4>2, <4>3 DEF Raise, Level
    <3>3. \A s \in SectNames : sect[s].last.pc = sect[s].at.pc
      BY <3>2 DEF Moved
    <3>4. phase = "lines"
      BY <1>2 DEF EndPass
    <3> QED
      BY <2>1, <2>3, <3>1, <3>3, <3>4 DEF Based, Placed, SectionsAbut
  <2>4. CASE phase' = "failed"
    <3>1. pass' = pass
      BY <1>2, <2>4 DEF EndPass
    <3> QED
      BY <2>1, <2>4, <3>1 DEF Based, SectionsAbut
  <2> QED
    BY <1>2, <2>2, <2>3, <2>4 DEF EndPass
<1>3. CASE Equ \/ Set
  BY <1>3, <1>e, MovesOnly DEF Equ, Set, Define
<1>4. CASE Org
  <2>1. Else(val, Here) \in Int /\ cur \in SectNames /\ sect[cur].at.put \in Int
    BY <1>4, <1>e, <1>f DEF Org
  <2>2. Where(sect')
    BY <1>4, <2>1, MoveToWhere DEF Org
  <2> QED
    BY <1>4, <1>e, <2>2, MovesOnly DEF Org
<1>5. CASE Section
  <2>1. line.sym \in SectNames
    BY <1>5, <1>e, LineTypes DEF Section, Line
  <2> QED
    BY <1>5, <1>b, <1>e, <2>1 DEF Section
<1>6. CASE NoOp
  BY <1>6, <1>c, <1>e DEF NoOp, Other
<1>7. CASE Fdb
  BY <1>7, <1>d DEF Fdb
<1>8. CASE Bra
  <2>1. (val # Undef /\ TooFar(val)) \in BOOLEAN
    BY DEF TooFar
  <2> QED
    BY <1>8, <1>d, <2>1 DEF Bra
<1>9. CASE Mem1
  <2>1. (IF IsDirect(val) THEN 2 ELSE 3) \in Nat
    OBVIOUS
  <2> QED
    BY <1>9, <1>d, <2>1 DEF Mem1
<1>10. CASE Rmb
  <2>1. cur \in SectNames /\ Else(val, 0) \in Int /\ Where(sect)
    BY <1>10, <1>e, <1>f DEF Rmb, Other
  <2> QED
    BY <1>10, <1>c, <2>1, MoveToWhere DEF Rmb
<1>11. CASE Align
  <2>1. cur \in SectNames /\ Else(val, 0) \in Int /\ Here \in Int /\ Where(sect)
    BY <1>11, <1>e, <1>f DEF Align, Other
  <2>2. Else(val, 0) >= 1 => (Else(val, 0) - (Here % Else(val, 0))) % Else(val, 0) \in Int
    BY <2>1
  <2>3. Where(sect')
    BY <1>11, <2>1, <2>2, MoveToWhere DEF Align
  <2> QED
    BY <1>11, <1>c, <2>3 DEF Align
<1>12. CASE Put
  <2>1. cur \in SectNames /\ Where(sect) /\ Here \in Int
        /\ Else(val, sect[cur].at.put) \in Int
    BY <1>12, <1>e, <1>f DEF Put, Other
  <2> QED
    BY <1>12, <1>c, <2>1, MoveToWhere DEF Put
<1>13. CASE SetDP
  <2>1. cur \in SectNames /\ Else(val, -1) \in Int /\ Pages \in Nat \ {0}
    BY <1>13, <1>e, <1>f, SizesAssumption DEF SetDP, Other
  <2>2. (IF Else(val, -1) < 0 THEN -1 ELSE Else(val, -1) % Pages) \in Int
    BY <2>1
  <2>3. Where(sect')
    BY <1>13, <2>1, <2>2, MoveToWhere DEF SetDP
  <2> QED
    BY <1>13, <1>c, <2>3 DEF SetDP
<1>14. CASE Error \/ Warn
  BY <1>14, <1>c, <1>e DEF Error, Warn, Other
<1>15. CASE End
  BY <1>15, <1>e, MovesOnly DEF End
<1>16. CASE Conditional \/ Excludes
  <2>1. phase = "lines" /\ UNCHANGED <<pass, phase, sect>>
    BY <1>16 DEF Conditional, Excludes, NextLine
  <2> QED
    BY <2>1, MovesOnly DEF Where
<1>17. CASE UNCHANGED vars
  BY <1>17 DEF vars, Based, Placed, SectionsAbut
<1> QED
  BY <1>1, <1>2, <1>3, <1>4, <1>5, <1>6, <1>7, <1>8, <1>9, <1>10, <1>11, <1>12, <1>13, <1>14,
     <1>15, <1>16, <1>17 DEF Next

\* When the assembler succeeds, every section that was placed after another one
\* begins where that one ends, whatever sizes the passes before gave them.
THEOREM SectionsJoin == Spec => []SectionsAbut
<1>1. Init => Based
  BY DEF Init, Based, Placed, SectionsAbut, NewSection
<1>2. TypeOK /\ Selected /\ Based /\ [Next]_vars => (TypeOK /\ Selected /\ Based)'
  BY TypeStep, BasedStep
<1>3. Based => SectionsAbut
  BY DEF Based
<1> QED
  BY <1>1, <1>2, <1>3, TypeInit, PTL DEF Spec
-----------------------------------------------------------------------------
\* cond_excluded is one of the open IFs, and it alone can still be waiting for
\* a condition that holds.
Pointed ==
    /\ cond.out <= Len(cond.list)
    /\ \A i \in 1 .. Len(cond.list) : cond.list[i] = "if" => i = cond.out

LEMMA LastChanges ==
    ASSUME NEW n \in Nat \ {0}, NEW was, NEW becomes, NEW f, NEW g,
           f = [i \in 1 .. n |-> IF i = n THEN was ELSE "active"],
           g = [i \in 1 .. n |-> IF i = n THEN becomes ELSE "active"]
    PROVE  g = [f EXCEPT ![n] = becomes] /\ f[n] = was
<1>1. n \in 1 .. n
  OBVIOUS
<1>2. [f EXCEPT ![n] = becomes] = [i \in 1 .. n |-> IF i = n THEN becomes ELSE f[i]]
  BY <1>1
<1> QED
  BY <1>1, <1>2

LEMMA NextBranchHere ==
    ASSUME BranchesOf(cond) # << >>, NEW n, n = Len(BranchesOf(cond)),
           BranchesOf(cond)' = [BranchesOf(cond) EXCEPT ![n] =
                                  IF BranchesOf(cond)[n] = "waiting" THEN "active" ELSE "spent"]
    PROVE  Branches!Next
BY DEF Branches!Next, Branches!NextBranch

LEMMA BranchesStep ==
    ASSUME cond \in CondType, Pointed, NEW op \in CondOps, NEW holds \in BOOLEAN,
           cond' = CondStep(op, cond, holds)
    PROVE  Pointed' /\ (Branches!Next \/ BranchesOf(cond)' = BranchesOf(cond))
<1> DEFINE list == cond.list  out == cond.out  n == Len(list)  b == BranchesOf(cond)
<1>1. list \in Seq(CondState) /\ out \in Nat /\ n \in Nat
  BY DEF CondType
<1>2. /\ b \in Seq({"active", "waiting", "spent"}) /\ Len(b) = n /\ DOMAIN b = 1 .. n
      /\ \A i \in 1 .. n : b[i] = IF out = 0 \/ i < out THEN "active"
                                 ELSE IF i = out /\ list[i] = "if" THEN "waiting" ELSE "spent"
  BY <1>1 DEF BranchesOf
<1>3. Branches!Assembling <=> out = 0
  BY <1>1, <1>2 DEF Branches!Assembling, Pointed
<1>4. CASE Complaint(op, cond)
  BY <1>4 DEF CondStep, Pointed
<1>5. CASE op = "if"
  <2> DEFINE new == IF out = 0 /\ ~ holds THEN "if" ELSE "if_done"
             at == IF out = 0 /\ ~ holds THEN n + 1 ELSE out
             added == IF out = 0 THEN (IF holds THEN "active" ELSE "waiting") ELSE "spent"
  <2>1. cond'.list = Append(list, new) /\ cond'.out = at
    BY <1>1, <1>5 DEF CondStep, Complaint, CondIf, Excluded, CondType
  <2>2. /\ Len(cond'.list) = n + 1 /\ cond'.list[n + 1] = new
        /\ \A i \in 1 .. n : cond'.list[i] = list[i]
    BY <1>1, <2>1
  <2>3. Pointed'
    BY <1>1, <2>1, <2>2 DEF Pointed
  <2>4. BranchesOf(cond)' = Append(b, added)
    BY <1>1, <1>2, <2>1, <2>2 DEF BranchesOf, Pointed
  <2>5. Branches!If
    BY <1>3, <2>4 DEF Branches!If
  <2> QED
    BY <2>3, <2>5 DEF Branches!Next
<1>6. CASE op \in {"elsif", "else"} /\ ~ Complaint(op, cond)
  <2>1. n >= 1 /\ list[n] # "else"
    BY <1>1, <1>6, EmptySeq DEF Complaint, Innermost
  <2>2. CASE out = 0
    <3>1. \A i \in 1 .. n : list[i] # "if"
      BY <2>2 DEF Pointed
    <3>2. cond'.out = n /\ (cond'.list = list \/ cond'.list = [list EXCEPT ![n] = "else"])
      BY <1>1, <1>6, <2>2
         DEF CondStep, CondElsif, CondElse, SetInnermost, Excluded, CondType
    <3>3. Len(cond'.list) = n /\ \A i \in 1 .. n : cond'.list[i] # "if"
      BY <1>1, <2>1, <3>1, <3>2
    <3>4. Pointed'
      BY <1>1, <3>2, <3>3 DEF Pointed
    <3>5. b = [i \in 1 .. n |-> IF i = n THEN "active" ELSE "active"]
      BY <1>1, <2>1, <2>2 DEF BranchesOf
    <3>6. BranchesOf(cond)' = [i \in 1 .. n |-> IF i = n THEN "spent" ELSE "active"]
      BY <1>1, <2>1, <3>2, <3>3 DEF BranchesOf
    <3>7. BranchesOf(cond)' = [b EXCEPT ![n] = "spent"] /\ b[n] = "active"
      <4>1. n \in Nat \ {0}
        BY <1>1, <2>1
      <4> DEFINE after == BranchesOf(cond)'
      <4>2. after = [i \in 1 .. n |-> IF i = n THEN "spent" ELSE "active"]
        BY <3>6
      <4> HIDE DEF n, b, after
      <4>3. after = [b EXCEPT ![n] = "spent"] /\ b[n] = "active"
        BY <3>5, <4>1, <4>2, LastChanges
      <4> QED
        BY <4>3 DEF n, b, after
    <3>8. b # << >>
      BY <1>2, <2>1, EmptySeq
    <3> QED
      BY <1>2, <3>4, <3>7, <3>8, NextBranchHere
  <2>3. CASE out = n /\ list[n] = "if" /\ (op = "else" \/ holds)
    <3>1. \A i \in 1 .. n : i # n => list[i] # "if"
      BY <2>3 DEF Pointed
    <3>2. cond'.out = 0 /\ \E s \in {"if_done", "else"} : cond'.list = [list EXCEPT ![n] = s]
      BY <1>1, <1>6, <2>1, <2>3
         DEF CondStep, CondElsif, CondElse, SetInnermost, Excluded, Evaluates,
             InnermostExcludes, Innermost, CondType
    <3>3. Len(cond'.list) = n /\ \A i \in 1 .. n : cond'.list[i] # "if"
      BY <1>1, <2>1, <3>1, <3>2
    <3>4. Pointed'
      BY <1>1, <3>2, <3>3 DEF Pointed
    <3>5. b = [i \in 1 .. n |-> IF i = n THEN "waiting" ELSE "active"]
      BY <1>1, <2>1, <2>3 DEF BranchesOf
    <3>6. BranchesOf(cond)' = [i \in 1 .. n |-> IF i = n THEN "active" ELSE "active"]
      BY <1>1, <2>1, <3>2, <3>3 DEF BranchesOf
    <3>7. BranchesOf(cond)' = [b EXCEPT ![n] = "active"] /\ b[n] = "waiting"
      <4>1. n \in Nat \ {0}
        BY <1>1, <2>1
      <4> DEFINE after == BranchesOf(cond)'
      <4>2. after = [i \in 1 .. n |-> IF i = n THEN "active" ELSE "active"]
        BY <3>6
      <4> HIDE DEF n, b, after
      <4>3. after = [b EXCEPT ![n] = "active"] /\ b[n] = "waiting"
        BY <3>5, <4>1, <4>2, LastChanges
      <4> QED
        BY <4>3 DEF n, b, after
    <3>8. b # << >>
      BY <1>2, <2>1, EmptySeq
    <3> QED
      BY <1>2, <3>4, <3>7, <3>8, NextBranchHere
  <2>4. CASE out # 0 /\ ~ (out = n /\ list[n] = "if" /\ (op = "else" \/ holds))
    <3>1. cond' = cond
      BY <1>1, <1>6, <2>4
         DEF CondStep, CondElsif, CondElse, Excluded, Evaluates, InnermostExcludes, Innermost,
             Complaint
    <3> QED
      BY <3>1 DEF Pointed
  <2> QED
    BY <2>2, <2>3, <2>4
<1>7. CASE op = "endif" /\ ~ Complaint(op, cond)
  <2>1. n >= 1
    BY <1>1, <1>7, EmptySeq DEF Complaint
  <2>2. cond'.list = SubSeq(list, 1, n - 1) /\ cond'.out = IF out = n THEN 0 ELSE out
    BY <1>1, <1>7, <2>1 DEF CondStep, CondEndif, Enclosing, InnermostExcludes
  <2>3. Len(cond'.list) = n - 1 /\ \A i \in 1 .. n - 1 : cond'.list[i] = list[i]
    BY <1>1, <2>1, <2>2
  <2>4. Pointed'
    BY <1>1, <2>1, <2>2, <2>3 DEF Pointed
  <2>5. BranchesOf(cond)' = SubSeq(b, 1, n - 1)
    BY <1>1, <1>2, <2>1, <2>2, <2>3 DEF BranchesOf, Pointed
  <2>6. b # << >>
    BY <1>2, <2>1, EmptySeq
  <2>7. Branches!EndIf
    BY <1>2, <2>5, <2>6 DEF Branches!EndIf
  <2> QED
    BY <2>4, <2>7 DEF Branches!Next
<1> QED
  BY <1>4, <1>5, <1>6, <1>7 DEF CondOps

LEMMA ConditionsStep ==
    TypeOK /\ Pointed /\ [Next]_vars =>
        Pointed' /\ (Branches!Next \/ BranchesOf(cond)' = BranchesOf(cond))
<1> SUFFICES ASSUME TypeOK, Pointed, [Next]_vars
             PROVE  Pointed' /\ (Branches!Next \/ BranchesOf(cond)' = BranchesOf(cond))
  OBVIOUS
<1>1. CASE BeginPass
  <2>1. cond' = NoCond
    BY <1>1 DEF BeginPass
  <2>2. Pointed'
    BY <2>1 DEF Pointed, NoCond
  <2>3. BranchesOf(cond)' = << >>
    BY <2>1 DEF BranchesOf, NoCond
  <2> QED
    BY <2>2, <2>3 DEF Branches!Next, Branches!Restart
<1>2. CASE Conditional
  <2> DEFINE holds == Condition(line) # 0
  <2>1. holds \in BOOLEAN /\ line.op \in CondOps /\ cond \in CondType
    BY <1>2 DEF Conditional, TypeOK
  <2>2. cond' = CondStep(line.op, cond, holds)
    BY <1>2 DEF Conditional
  <2> HIDE DEF holds
  <2> QED
    BY <2>1, <2>2, BranchesStep
<1>3. CASE ~ BeginPass /\ ~ Conditional
  <2>1. cond' = cond
    BY <1>3 DEF Next, vars, EndPass, Equ, Set, Define, Org, Section, NoOp, Fdb, Bra, Mem1, Rmb,
                Align, Put, SetDP, Error, Warn, End, Excludes, Emit, Other, At
  <2> QED
    BY <2>1 DEF Pointed
<1> QED
  BY <1>1, <1>2, <1>3

\* Conditional assembly implements its abstract specification, whatever the
\* number and nesting of the IFs: once a branch of an IF has been assembled no
\* other one is.
THEOREM ConditionsImplement == Spec => OneBranchOfEachIf
<1>1. Init => Pointed /\ Branches!Init
  BY DEF Init, Pointed, NoCond, Branches!Init, BranchesOf
<1>2. TypeOK /\ Pointed /\ [Next]_vars =>
        Pointed' /\ [Branches!Next]_(BranchesOf(cond))
  BY ConditionsStep
<1>3. Spec => []TypeOK
  BY TypeCorrect
<1> QED
  BY <1>1, <1>2, <1>3, PTL DEF Spec, OneBranchOfEachIf, Branches!Spec
=============================================================================
