------------------------------ MODULE AsmCode ------------------------------
(***************************************************************************)
(* From lines to an output file, in the last pass of asm6809: the code of  *)
(* instructions and data is emitted into the spans of the current section, *)
(* the spans of all sections are sorted and coalesced, and a file is       *)
(* written from them (section.c, output.c).                                *)
(*                                                                         *)
(* A line is [kind, val, op, args]: an "instr" has an opcode and arguments  *)
(* as in AsmOperands, "data" the pieces of code of FCB, FDB, FQB or RZB,    *)
(* the others a number or a section.                                       *)
(***************************************************************************)
EXTENDS AsmOperands, M6809

CONSTANTS
    Programs,         \* the programs that may be assembled: sequences of lines
    SectNames, Code,
    Starts,           \* where sections may have ended in the pass before
    Formats           \* output formats

ASSUME CodeAssumption ==
    /\ Code \in SectNames
    /\ Starts \subseteq [pc : Int, put : Nat]
    /\ Formats \subseteq {"binary", "dragondos", "coco", "srec", "hex"}

Byte == 0 .. 255

\* What section_emit_uint8(), 16 and 32 and section_emit_pad() emit in one call.
Piece == {piece \in Seq(Byte) : Len(piece) \in 1 .. 4}

(* The arguments that grammar.y and eval.c give, with the attributes that the *)
(* expansion of a macro may give to a register or a list.                   *)
RegNames == {"cc", "a", "b", "dp", "x", "y", "u", "s", "pc", "d", "pcr", "e", "f", "w", "q", "v"}
Attributes == {"none", "undef", "5bit", "8bit", "16bit", "immediate",
               "postinc", "postinc2", "predec", "predec2", "postdec"}

ArgumentOK(a) ==
    /\ a.type \in {"int", "reg", "array", "empty", "undef"} /\ a.attr \in Attributes
    /\ IsInt(a) => a.val \in Int
    /\ IsReg(a) => a.reg \in RegNames

ArgumentsOK(args) ==
    /\ args \in Seq(Range(args))
    /\ \A i \in 1 .. Len(args) :
         /\ ArgumentOK(args[i])
         /\ args[i].type = "array" =>
              \A j \in 1 .. Len(args[i].args) : ArgumentOK(args[i].args[j])

\* opcode.c: one byte, or two of which the first is $10 or $11.
Form == (0 .. 255 \ {16, 17}) \cup 4096 .. 4607

Has(op, mode) == mode \in op.mem \/ (op.ext = "reg_mem" /\ mode = "direct")

OpcodeOK(op) ==
    /\ op.ext \in {"none", "inherent", "imm8", "imm16", "imm32", "imm8_mem", "rel8", "rel16",
                   "stacks", "stacku", "pair", "tfm", "reg_mem"}
    /\ op.mem \in {{}, {"indexed"}, {"direct", "indexed", "extended"}}
    /\ op.mem = {} => op.ext \notin {"none", "imm8_mem"}
    /\ op.mem # {} => op.ext \in {"none", "imm8", "imm16", "imm32", "imm8_mem"}
    /\ op.imm \in IF op.ext \in {"none", "imm8_mem", "reg_mem"} THEN {-1} ELSE Form
    /\ op.ext = "tfm" => op.imm .. op.imm + 3 \subseteq Form
    /\ op.direct \in IF Has(op, "direct") THEN Form ELSE {-1}
    /\ op.indexed \in IF Has(op, "indexed") THEN Form ELSE {-1}
    /\ op.extended \in IF Has(op, "extended") THEN Form ELSE {-1}
    /\ op.mem # {} => op.indexed \notin {op.direct, op.extended}
    /\ Has(op, "extended") => op.direct # op.extended

LineOK(l) ==
    CASE l.kind = "instr"   -> OpcodeOK(l.op) /\ ArgumentsOK(l.args)
      [] l.kind = "data"    -> l.val \in Seq(Piece)
      [] l.kind = "section" -> l.val \in SectNames
      [] OTHER              -> l.val \in Int

ASSUME ProgramsAssumption ==
    \A p \in Programs : Len(p) \in Nat /\ \A i \in 1 .. Len(p) : LineOK(p[i])

VARIABLES
    program,
    next,     \* the next line
    sects,    \* sections: pc, put, dp and spans; dp is Unset until the section
              \* has been set in this pass
    cur,      \* cur_section
    count,    \* span_sequence
    exec,     \* .exec, -1 for none
    level,    \* error_level
    file,     \* what was written, or NoFile
    memory,   \* history: what was emitted, [at, byte] in order
    trace     \* history: the lines that emitted code, with pc, dp, code, error

vars == <<program, next, sects, cur, count, exec, level, file, memory, trace>>

NoFile == [format |-> "none"]

Unset == -2

\* SETDP's default: no page is assumed.
NoPage == -1
-----------------------------------------------------------------------------
(* Spans. *)
Span(seq, put, org) == [seq |-> seq, put |-> put, org |-> org, room |-> 0, data |-> << >>]

SpanEnd(span) == span.put + Len(span.data)

Zeros(n) == [i \in 1 .. n |-> 0]

\* (mutant) room is made for what is already there
RoomBefore(span, pc, n) == IF pc - n >= span.org + span.room THEN span.room + 128 ELSE span.room

\* The size of the span's buffer before n bytes are put in that end at pc.
Room(span, pc, n) == IF pc >= span.org + span.room THEN span.room + 128 ELSE span.room

\* The last span goes on at the section's put address and pc.
GoesOn(s) ==
    /\ s.spans # << >>
    /\ s.put = SpanEnd(Last(s.spans))
    /\ s.pc = Last(s.spans).org + Len(Last(s.spans).data)

\* section_emit() of a piece of code, in a section with a number for a new
\* span.  No span is empty when it returns, so none is put to another use.
Emitted(t, piece) ==
    LET s == t.sect
        goes == GoesOn(s)
        spans == IF goes THEN s.spans ELSE Append(s.spans, Span(t.count, s.put, s.pc))
        span == Last(spans)
        pc == s.pc + Len(piece)
        grown == [span EXCEPT !.data = @ \o piece, !.room = Room(span, pc, Len(piece))] IN
    [sect   |-> [pc |-> pc, put |-> s.put + Len(piece), dp |-> s.dp,
                 spans |-> Append(Front(spans), grown)],
     count  |-> IF goes THEN t.count ELSE t.count + 1,
     wrong  |-> t.wrong \/ s.pc < 0 \/ pc > 65536,
     memory |-> t.memory
                  \o [i \in 1 .. Len(piece) |-> [at |-> s.put + i - 1, byte |-> piece[i]]]]

EmitAll(s, code) ==
    LET done[n \in 0 .. Len(code)] ==
          IF n = 0 THEN [sect |-> s, count |-> count, wrong |-> FALSE, memory |-> memory]
          ELSE Emitted(done[n - 1], code[n]) IN
    done[Len(code)]

\* section_set(): a section that is new in this pass starts where the current
\* one ended in the pass before, which may be anywhere.
Started(s, start) ==
    IF s.dp # Unset THEN s ELSE [s EXCEPT !.dp = NoPage, !.pc = start.pc, !.put = start.put]
-----------------------------------------------------------------------------
Init ==
    /\ program \in Programs
    /\ next = 1 /\ cur = Code /\ count = 0 /\ exec = -1 /\ level = None
    /\ sects = [s \in SectNames |->
                  [pc |-> 0, put |-> 0, dp |-> IF s = Code THEN NoPage ELSE Unset, spans |-> << >>]]
    /\ file = NoFile /\ memory = << >> /\ trace = << >>

here == sects[cur]

line == program[next]

AtLine(kind) == file = NoFile /\ next <= Len(program) /\ line.kind = kind /\ next' = next + 1

Emits(code, error) ==
    LET t == EmitAll(here, code) IN
    /\ sects' = [sects EXCEPT ![cur] = t.sect]
    /\ count' = t.count
    /\ level' = RaiseIf(t.wrong, Raise(level, error), OutOfRange)
    /\ memory' = t.memory
    /\ trace' = Append(trace, [line |-> next, pc |-> here.pc, dp |-> here.dp,
                               code |-> FlattenSeq(code), error |-> error])
    /\ UNCHANGED <<program, cur, exec, file>>

Instruction ==
    /\ AtLine("instr")
    /\ LET made == Encode(line.op, line.args, here.pc, here.dp) IN
       Emits(made.code, Raise(IF HasUndefined(line.args) THEN Inconsistent ELSE None, made.error))

\* FCB and its like, RZB and FILL, ALIGN with a value.
Constants == AtLine("data") /\ Emits(line.val, None)

Moves(pc, put, dp) ==
    /\ sects' = [sects EXCEPT ![cur] = [pc |-> pc, put |-> put, dp |-> dp, spans |-> here.spans]]
    /\ UNCHANGED <<program, cur, count, exec, file, memory, trace>>

\* A negative address leaves the put address alone.
PutAt(val) == IF val >= 0 THEN val ELSE here.put

Org ==
    /\ AtLine("org")
    /\ Moves(line.val, PutAt(line.val), here.dp)
    /\ UNCHANGED level

Put ==
    /\ AtLine("put")
    /\ Moves(here.pc, PutAt(line.val), here.dp)
    /\ level' = RaiseIf(line.val < 0, level, OutOfRange)

\* RMB, and ALIGN without a value: section_skip().
Rmb ==
    LET n == IF line.val < 0 THEN 0 ELSE line.val IN
    /\ AtLine("rmb")
    /\ Moves(here.pc + n, here.put + n, here.dp)
    /\ level' = RaiseIf(line.val < 0, level, OutOfRange)

Setdp ==
    /\ AtLine("setdp")
    /\ Moves(here.pc, here.put, IF line.val >= 0 THEN line.val % 256 ELSE NoPage)
    /\ UNCHANGED level

Section ==
    /\ AtLine("section")
    /\ \E start \in Starts : sects' = [sects EXCEPT ![line.val] = Started(@, start)]
    /\ cur' = line.val
    /\ UNCHANGED <<program, count, exec, level, file, memory, trace>>

\* END address: the program ends with it, for the parser reads no line after it.
End ==
    /\ AtLine("end")
    /\ exec' = line.val
    /\ UNCHANGED <<program, sects, cur, count, level, file, memory, trace>>
-----------------------------------------------------------------------------
(* section_coalesce_all() *)
AllSpans == UNION {{sects[s].spans[i] : i \in 1 .. Len(sects[s].spans)} : s \in SectNames}

Before(a, b) == a.put < b.put \/ (a.put = b.put /\ a.seq < b.seq)

\* (mutant) an overlap is two spans with one address
SamePut(a, b) == a.put = b.put

Overlap(a, b) == SpanEnd(a) > b.put

\* The first of the spans that are left, in their order.
First(spans) == CHOOSE a \in spans : \A b \in spans \ {a} : Before(a, b)

\* The next span, after the spans that are done: it joins the last of them if
\* they touch or the gap is padded; if they overlap, the last one's end is cut
\* off, and nothing joins it.
Joined(t, pad) ==
    LET span == First(t.left)
        last == Last(t.done)
        gap == span.put - SpanEnd(last)
        cut == [last EXCEPT !.data = SubSeq(@, 1, span.put - last.put)]
        joint == [last EXCEPT !.data = @ \o Zeros(gap) \o span.data]
        Go(done, wrong) == [left |-> t.left \ {span}, done |-> done, wrong |-> wrong] IN
    IF t.done = << >> THEN Go(<<span>>, t.wrong)
    ELSE IF Overlap(last, span) THEN Go(Front(t.done) \o <<cut, span>>, TRUE)
    ELSE IF gap = 0 \/ pad THEN Go(Append(Front(t.done), joint), t.wrong)
    ELSE Go(Append(t.done, span), t.wrong)

Coalesced(pad) ==
    LET joined[n \in 0 .. Cardinality(AllSpans)] ==
          IF n = 0 THEN [left |-> AllSpans, done |-> << >>, wrong |-> FALSE]
          ELSE Joined(joined[n - 1], pad) IN
    joined[Cardinality(AllSpans)]

(* The files. *)
Low(v) == v % 256
High(v) == (v \div 256) % 256
Word(v) == v % 65536
Sum(bytes) ==
    LET sum[n \in 0 .. Len(bytes)] == IF n = 0 THEN 0 ELSE sum[n - 1] + bytes[n] IN
    sum[Len(bytes)]

\* The bytes of a record of SREC and HEX.
RecordBytes == 32

Bytes(span, k) ==
    SubSeq(span.data, k * RecordBytes + 1, Min({(k + 1) * RecordBytes, Len(span.data)}))

\* (mutant) the address of a record is that of the span
ChunkAtSpan(span, k) == [put |-> span.put, data |-> Bytes(span, k)]

Chunk(span, k) == [put |-> span.put + k * RecordBytes, data |-> Bytes(span, k)]

Chunks(span) ==
    [k \in 1 .. (Len(span.data) + RecordBytes - 1) \div RecordBytes |-> Chunk(span, k - 1)]

Segment(size, addr, data, sum) == [size |-> size, addr |-> addr, data |-> data, sum |-> sum]

AddressSum(size, addr, data) == size + Low(addr) + (addr \div 256) + Sum(data)

SrecSum(size, addr, data) == 255 - Low(AddressSum(size, addr, data))

\* The type of the record is one of the bytes.
HexSum(size, addr, data, type) == Low(256 - Low(AddressSum(size, addr, data) + type))

Written(format, spans) ==
    LET first == IF spans = << >> THEN Span(0, 0, 0) ELSE Head(spans)
        start == IF exec >= 0 THEN Word(exec) ELSE -1
        entry == IF start >= 0 \/ (spans = << >> /\ format = "coco") THEN Word(start)
                 ELSE Word(first.put)
        chunks == FlattenSeq([i \in 1 .. Len(spans) |-> Chunks(spans[i])])
        WrittenAs(segments, e, sum) ==
            [format |-> format, segments |-> segments, exec |-> e, sum |-> sum] IN
    CASE format = "binary" -> WrittenAs(<<Segment(-1, -1, first.data, -1)>>, -1, -1)
      [] format = "dragondos" ->
            WrittenAs(<<Segment(Word(Len(first.data)), Word(first.put), first.data, -1)>>,
                      entry, -1)
      [] format = "coco" ->
            WrittenAs([i \in 1 .. Len(spans) |->
                     Segment(Word(Len(spans[i].data)), Word(spans[i].put), spans[i].data, -1)],
                  entry, -1)
      [] format = "srec" ->
            WrittenAs([i \in 1 .. Len(chunks) |->
                     LET c == chunks[i] n == Len(c.data) + 3 IN
                     Segment(n, c.put, c.data, SrecSum(n, c.put, c.data))],
                  IF start >= 0 THEN start ELSE 0,
                  IF start >= 0 THEN SrecSum(3, start, << >>) ELSE 252)
      [] format = "hex" ->
            WrittenAs([i \in 1 .. Len(chunks) |->
                     LET c == chunks[i] n == Len(c.data) IN
                     Segment(n, c.put, c.data, HexSum(n, c.put, c.data, 0))],
                  IF start >= 0 THEN start ELSE -1,
                  IF start >= 0 THEN HexSum(0, start, << >>, 1) ELSE 255)

Output ==
    /\ file = NoFile /\ next > Len(program) /\ level < Inconsistent
    /\ \E format \in Formats :
         LET spans == Coalesced(format \in {"binary", "dragondos"}) IN
         /\ file' = Written(format, spans.done)
         /\ level' = RaiseIf(spans.wrong, level, Data)
    /\ UNCHANGED <<program, next, sects, cur, count, exec, memory, trace>>

Next ==
    \/ Instruction \/ Constants
    \/ Org \/ Put \/ Rmb \/ Setdp \/ Section \/ End
    \/ Output

Spec == Init /\ [][Next]_vars
-----------------------------------------------------------------------------
SpanType == [seq : Nat, put : Nat, org : Int, room : Nat, data : Seq(Byte)]

\* The types of the variables; the bytes of a span are within its buffer.
TypeOK ==
    /\ next \in 1 .. Len(program) + 1 /\ cur \in SectNames /\ count \in Nat
    /\ exec \in Int /\ level \in None .. Fatal
    /\ \A s \in SectNames :
         /\ sects[s].pc \in Int /\ sects[s].put \in Nat /\ sects[s].dp \in Unset .. 255
         /\ sects[s].spans \in Seq(SpanType)
         /\ \A i \in 1 .. Len(sects[s].spans) :
              Len(sects[s].spans[i].data) <= sects[s].spans[i].room
    /\ memory \in Seq([at : Nat, byte : Byte])

\* Two bytes were emitted to one address.
Twice == \E i, j \in 1 .. Len(memory) : i < j /\ memory[i].at = memory[j].at

\* Spans that overlap are reported, and nothing else is.
OverlapsAreReported == file # NoFile => (level = Data <=> Twice)

Emission == {<<m.at, m.byte>> : m \in Range(memory)}

\* What a loader puts into memory, from a format's segments with addresses.
Loaded ==
    UNION {LET seg == file.segments[i]
               n == IF file.format = "srec" THEN seg.size - 3 ELSE seg.size IN
           {<<seg.addr + k - 1, seg.data[k]>> : k \in 1 .. n} : i \in 1 .. Len(file.segments)}

Addresses == {m.at : m \in Range(memory)}

Padded ==
    IF memory = << >> THEN {}
    ELSE Emission \cup {<<a, 0>> : a \in (Min(Addresses) .. Max(Addresses)) \ Addresses}

\* Checksums as the formats have them.
SumsRight ==
    \A i \in 1 .. Len(file.segments) :
        LET seg == file.segments[i]
            all == (seg.size + Low(seg.addr) + High(seg.addr) + Sum(seg.data) + seg.sum) % 256 IN
        /\ file.format = "srec" => all = 255
        /\ file.format = "hex" => all = 0

\* No overlaps, nothing beyond 64K, and not all of the 64K where the length of
\* a segment has 16 bits.
Loadable ==
    /\ ~ Twice
    /\ \A a \in Addresses : a < 65536
    /\ file.format \in {"dragondos", "coco"} => ~ {0, 65535} \subseteq Addresses

\* The file of such a program holds every byte at the address that it was
\* emitted to, and the address of END.
FileLoadsCode ==
    file # NoFile /\ Loadable =>
        /\ SumsRight
        /\ exec >= 0 /\ file.format # "binary" => file.exec = exec % 65536
        /\ CASE file.format = "binary" ->
                  LET data == file.segments[1].data IN
                  {<<Min(Addresses) + k - 1, data[k]>> : k \in 1 .. Len(data)} = Padded
             [] file.format = "dragondos" -> Loaded = Padded
             [] OTHER -> Loaded = Emission

(* What lines of instructions mean, and what the processor makes of their   *)
(* code.                                                                   *)
ByForm(op, code) == IF code[1] \in {16, 17} THEN code[1] * 256 + code[2] ELSE code[1]

Rest(op, code) == SubSeq(code, (IF code[1] \in {16, 17} THEN 3 ELSE 2), Len(code))

OperandBytes(op, code) == IF op.ext = "imm8_mem" THEN Tail(Rest(op, code)) ELSE Rest(op, code)

\* A direct address is one of the page that SETDP gives, or the one that <
\* asserts.
Page(args, dp) == IF args[1].attr = "8bit" THEN High(args[1].val) ELSE dp

\* The operand in memory of code that begins at pc.
InMemory(op, args, code, pc, dp) ==
    LET form == ByForm(op, code)
        operand == OperandBytes(op, code) IN
    CASE form = op.direct -> Operand("none", Page(args, dp) * 256 + operand[1], "none", FALSE)
      [] form = op.extended -> Operand("none", Number(operand), "none", FALSE)
      [] form = op.indexed -> Postbyte(operand[1], Tail(operand), pc + Len(code))

Fits(op, args, code, pc) ==
    LET as == IF args[1].type = "array" THEN args[1].args ELSE args
        n == as[1].val
        distance == IF as[2].reg = "pcr" THEN ToRel16(n - (pc + Len(code))) ELSE n IN
    Len(as) = 2 /\ IsInt(as[1]) =>
        /\ as[1].attr = "5bit" => n \in -16 .. 15
        /\ as[1].attr = "8bit" => distance \in -128 .. 127

ZeroPcr(args) ==
    LET as == IF args[1].type = "array" THEN args[1].args ELSE args IN
    Len(as) = 2 /\ as[2].reg = "pcr" /\ IsInt(as[1]) /\ as[1].val = 0 /\ as[1].attr = "none"

MeantInMemory(args, after) ==
    LET indirect == args[1].type = "array"
        as == IF indirect THEN args[1].args ELSE args
        n == IF IsInt(as[1]) THEN as[1].val ELSE 0 IN
    IF Len(as) = 1 THEN Operand("none", Address16(n), "none", indirect)
    ELSE IF as[2].reg \in {"pc", "pcr"}
    THEN Operand("none", Address16(IF as[2].reg = "pcr" /\ IsInt(as[1]) THEN n ELSE after + n),
                 "none", indirect)
    ELSE Operand(as[2].reg, IF IsReg(as[1]) THEN as[1].reg ELSE Address16(n), as[2].attr, indirect)

IsImmediate(op, args) == op.ext \in {"imm8", "imm16", "imm32"} /\ args[1].attr = "immediate"

Meant(op, args, after) ==
    LET v(i) == args[i].val
        named(a) == IF IsInt(a) THEN IF a.val = 0 THEN "zero" ELSE TfrOrder[a.val + 1] ELSE a.reg
        stacked(r) == IF r = "d" THEN {"a", "b"} ELSE IF r \in {"s", "u"} THEN {"other"} ELSE {r} IN
    CASE IsImmediate(op, args) ->
            IF op.ext = "imm32" THEN <<Address16(v(1) \div 65536), Address16(v(1))>>
            ELSE <<v(1) % 256 ^ Width(op.ext)>>
      [] op.ext \in {"rel8", "rel16"} -> Address16(v(1))
      [] op.ext \in {"stacks", "stacku"} -> UNION {stacked(args[i].reg) : i \in 1 .. Len(args)}
      [] op.ext = "pair" -> <<named(args[1]), named(args[2])>>
      [] op.ext = "tfm" -> <<args[1].reg, args[2].reg, args[1].attr, args[2].attr>>
      [] op.ext = "reg_mem" -> <<args[1].reg, v(2), v(3), v(4) % 256>>
      [] op.ext = "imm8_mem" -> <<v(1) % 256, MeantInMemory(Tail(args), after)>>
      [] op.ext = "inherent" -> "nothing"
      [] OTHER -> MeantInMemory(args, after)

Decoded(op, args, code, pc, dp) ==
    LET rest == Rest(op, code)
        p == rest[1]
        after == pc + Len(code) IN
    CASE IsImmediate(op, args) ->
            IF op.ext = "imm32" THEN <<Number(SubSeq(rest, 1, 2)), Number(SubSeq(rest, 3, 4))>>
            ELSE <<Number(rest)>>
      [] op.ext \in {"rel8", "rel16"} -> Address16(after + Signed(rest))
      [] op.ext \in {"stacks", "stacku"} -> Stacked(p)
      [] op.ext = "pair" -> Transferred(p)
      [] op.ext = "tfm" -> Transferred(p) \o TfmKinds[ByForm(op, code) - op.imm + 1]
      [] op.ext = "reg_mem" ->
            <<<<"cc", "a", "b">>[(p \div 64) + 1], (p \div 8) % 8, p % 8, rest[2]>>
      [] op.ext = "imm8_mem" -> <<p, InMemory(op, Tail(args), code, pc, dp)>>
      [] op.ext = "inherent" -> "nothing"
      [] OTHER -> InMemory(op, args, code, pc, dp)

\* A number stands where one is expected, and TFR has registers that it can
\* move: whatever else is there is taken without a complaint.
Expected(op, args) ==
    LET mem == IF op.ext = "imm8_mem" THEN Tail(args) ELSE args
        as == IF mem[1].type = "array" THEN mem[1].args ELSE mem IN
    CASE IsImmediate(op, args) \/ op.ext \in {"rel8", "rel16"} -> IsInt(args[1])
      [] op.ext = "pair" -> \A i \in 1 .. 2 : IsReg(args[i]) => args[i].reg \notin {"q", "pcr"}
      [] op.ext = "reg_mem" -> \A i \in 2 .. 4 : IsInt(args[i])
      [] op.mem # {} /\ ~ IsImmediate(op, args) ->
            /\ op.ext = "imm8_mem" => IsInt(args[1])
            /\ mem[1].type = "array" => Len(mem) = 1
            /\ Len(as) = 1 => IsInt(as[1])
            /\ as[1].attr # "none" => as[1].type \in {"int", "empty"}
      [] OTHER -> TRUE

\* The lines that ask for something that there is a code for.
Sound(t) ==
    LET op == program[t.line].op
        args == program[t.line].args
        inMemory == IF op.ext = "imm8_mem" THEN Tail(args) ELSE args IN
    /\ program[t.line].kind = "instr" /\ t.error <= Inefficient
    /\ Expected(op, args)
    /\ op.mem # {} /\ ~ IsImmediate(op, args) => Fits(op, inMemory, t.code, t.pc)

NotZeroPcr(t) ==
    LET op == program[t.line].op
        args == program[t.line].args IN
    \/ op.mem = {} \/ IsImmediate(op, args)
    \/ ~ ZeroPcr(IF op.ext = "imm8_mem" THEN Tail(args) ELSE args)

Right(t) ==
    LET l == program[t.line] IN
    Decoded(l.op, l.args, t.code, t.pc, t.dp) = Meant(l.op, l.args, t.pc + Len(t.code))

\* An instruction that is assembled without a complaint works on what its
\* arguments say, wherever it is and whatever form was chosen for it; but for
\* label,pcr where the label is 0.
OperandsAreReached ==
    \A i \in 1 .. Len(trace) : Sound(trace[i]) /\ NotZeroPcr(trace[i]) => Right(trace[i])

=============================================================================
