# beeb6809: TLA+ models of the 6809 MOS and of its assembler

beeb6809 replaces the 6502 of a BBC Microcomputer (and of some home-made
machines) by a 6809 or 6309.  Two programs carry the repository, and both are
modelled here.

The **MOS** (`src/mos/beeb6809-mos`) is a translation of the BBC's operating
system from 6502 to 6809 assembler.  It keeps the structure of the original: a
foreground program calls the MOS through vectors, while a 10 ms tick and the
keyboard interrupt run parts of it between any two instructions that are not
barred by `SEI`.  Hard to test are interrupts between the bytes of a number,
queues shared by foreground and interrupt, and long protocols of flags.  The
modules model the **MACH_BEEB** build.  In what they model the two processors
differ in one place only, CNPV, where `RingBuffers` has both.

**asm6809** (`src/tools/asm6809-2.12-dom-warn-error`) is the cross assembler,
in C, that translates all of it.  It is sequential.  Hard to test are what one
pass leaves for the next, the stacks of files, macros and conditions that must
stay in step through any program, and the limits of 5, 8 and 16 bits in its
output.

## 1. Inventory

Line numbers are of `src/mos/beeb6809-mos/mosrom.asm` unless a file is named;
C files are in the assembler's `src` directory.

| Part | State | Operations | Talks to | Hard behaviour | What makes it right |
|---|---|---|---|---|---|
| **Assembler: passes** `asm6809.c`, `assemble.c`, `symbol.c`, `error.c` | symbol table with the pass of each definition, error level, list of open IFs | a pass over the program, EQU, SET, ORG, IF ..., END | sections, lines, expressions | a pass uses what the one before left; only some errors lead to another pass | what is written was assembled with the symbols' final values |
| **Assembler: lines** `assemble.c`, `program.c`, `interp.c`, `symbol.c` | stacks of calls, contexts and macro arguments; macros; numbered local labels | INCLUDE, MACRO, ENDM, expansion, SECTION, 1B and 1F | passes, conditions | files and macros that include, expand and define each other, finished or not | stacks in step; a macro is its text; a local label is the nearest |
| **Assembler: sections, output** `section.c`, `output.c` | per section pc, put address, DP and spans; the file | placing sections, emitting, coalescing, five formats | passes, instructions | spans that overlap or touch; records; checksums | the file loads the bytes emitted |
| **Assembler: instructions** `instr.c`, `register.c` | none | twelve forms of operands | sections (pc, DP) | an offset that counts from the end of an instruction whose length depends on it | the processor reaches the operand that the line names |
| **Assembler: expressions** `eval.c`, `node.c`, `lex.l`, `grammar.y` | reference counts | operators, pasting of names | all of the above | undefined values | arithmetic |
| **Buffers** 1475-1554, 1952-2087 | `mosbuf_buf_start`, `_end`, the bytes | INSV, REMV (take, examine), CNPV (purge, count) | everything: keyboard, RDCH, sound, printer; events 0 and 1 | 8-bit pointers that wrap in shared pages, borrow arithmetic, full/empty | a bounded first-in first-out queue per buffer |
| **Sound** `sound_main.asm`, 2937-3031 | per channel: occupied, duration, amplitude phase; chord counts | OSWORD 7, VDU 7, flush, `irq_sound` | buffers 4-7, the tick, the sound chip | foreground and tick share buffers and flags; a chord is a rendezvous of channels | no note lost, chords together, silence at rest |
| **Clock, timer, INKEY** `shared_100mstick.asm`, 1042-1084, 3107-3139 | two stores of TIME and a switch; timer; countdown | tick, OSWORD 1-4, OSBYTE 129 | event 5, RDCH | two stores and the switch between them; INKEY's two bytes read by one party and changed by another | one counter; the event at its tick; INKEY returns |
| **Keyboard** 3772-4019, 4211-4290 | two key numbers, repeat countdown, semaphore, VIA enable | keypress interrupt, tick entry, OSBYTE 11 and 12 | VIA, tick, buffer 0 | re-entry at each column scanned; two gates opened in turns; rollover | one activation; never deaf; each press typed as it should |
| **Function keys** 1756-1916, 2269-2293, 3376-3386 | one page of pointers and strings, consistency flag, expansion pointer and length | `*KEY`, OSBYTE 18, expansion in RDCH, BREAK | RDCH, reset | a compacting store edited in place, BREAK at any instruction | every key keeps its string |
| **Character input** 1053-1113, 2092-2260, 2500-2540 | Escape flag, input stream | RDCH, OSBYTE 124-128, 153, 177 | buffers, keyboard, function keys, events | Escape between a flush and its acknowledgement; order of parameters shared with interrupts | no key or Escape lost silently |
| **Line input** OSWORD 0 | control block, position | RDCH, WRCH | character input | bounds | line within its limits |
| **Character output** 1314-1463 | destinations, printer buffer | WRCH | VDU, buffers 2 and 3 | full buffer and Escape | a character to each destination once |
| **Dispatch** 2690-2860 | `zp_mos_OSBW_A/X/Y` | OSBYTE, OSWORD, OSCLI, service calls | sideways ROMs | nested calls, also from interrupts | the caller's parameters reach the callee |
| **IRQ1, events** `irq1_main.asm` | VIA flags, event enables | sources in a fixed order | all interrupt parts | order, masks | each source acknowledged once |
| **VDU driver** `vdu_main.asm` | VDU queue, windows, cursor | VDU 0-31, plotting | screen, CRTC | parameters arrive byte by byte; cursor editing | the queue's length |
| **Utility ROM** `rom-dev/UTILS` | chip RAM heap, CMOS | star commands, OSWORDs | sound samples, flash | blocks split, joined and moved | blocks disjoint |
| **HOSTFS**, **USBFS** `rom-dev` | open files, a byte stream | filing system vectors | a host or a USB chip | requests and answers over a stream | answers matched to requests |
| **BASIC**, **FLEX**, games, tests, tools | - | - | - | programs, vendored or generated code | - |

`PROJECT.json` lists every component with its files and the reason where it is
not modelled, and the hazards of this code with their lines.

## 2. Plan

Order: what every other part stands on first, then what interrupts share, then
the assembler from the loop of passes inwards.

1. `ByteQueues` / `RingBuffers`: abstract queues, the rings that implement
   them, proved. **Done.**
2. `MosSound`: the largest state machine shared by foreground and tick, with
   proofs. **Done** for OSWORD 7, VDU 7, flushes and `irq_sound`.
3. `Clock` / `MosClock`, with proofs. **Done.**
4. `MosKeyboard`, with proofs. **Done.**
5. `SoftKeys`, with proofs. **Done.**
6. `Conditionals` / `AsmConditions`, `AsmErrors`, `AsmPasses`, with proofs.
   **Done.**
7. `AsmLines`: where the lines come from, with proofs. **Done.**
8. `AsmOperands`, `M6809`, `AsmCode`: from lines to the output file, with
   proofs. **Done.**
9. Left: `MosInput` (RDCH, INKEY, Escape, OSBYTE 124-126, 153 and 177, OSWORD 0)
   with `ByteQueues` for the buffers; `OsbyteCalls` (parameters in zero page,
   the interrupt's OSBYTE 153 in between); `VduQueue` and character output;
   `ChipRamHeap`; the HOSTFS protocol; the operators of expressions.

Proofs, in the order of their worth: the rings implement the queues, the
keyboard's gates, the assembler's `OutputIsFinal`, `SectionsAbut` and
conditional assembly, `StacksMatch` of `AsmLines`; `MosClock` implements `Clock`;
`NoStrandedNote` and `WholeNotes` of `MosSound`; `StringsKept` of `SoftKeys`;
`SteadyLocals` and `MacroIsItsText` of `AsmLines`; `OncePerPress` of
`MosKeyboard`; `OverlapsAreReported`, `FileLoadsCode` and `OperandsAreReached`
of `AsmCode`.  All are done.
The modules to be proved about declare no RECURSIVE operator;
parameters are CONSTANTs with named assumptions.

At most a dozen runs are kept, so related questions of one component share a
configuration.

## 3. Modules

One action is a stretch of code that no other party can interleave with: a
whole routine with interrupts barred, or the piece between two points where an
interrupt may come and something read earlier is used later.

**`ByteQueues`** promises, for each buffer, a bounded sequence of bytes; calls
answer with carry, byte, count and the event raised.  `call` notes the call with
its arguments, so that an implementation cannot pass one call off as another
(an INSV that empties a full ring would otherwise be a legal Purge).

**`RingBuffers`** is the code: `bufStart`/`bufEnd` are offsets in a page,
`mem` its bytes.  `Advance` is `incb; bne; ldb offset`, `Between` and
`SpaceLeft` the 8-bit arithmetic of CNPV.  `INSV`, `REMV`, `Examine`, `Purge`,
`Count` are the three vectors with each value of V they look at.  `Count` has
the caller's C and bit 0 of its B as parameters, since it depends on `Cpu`,
the processor the ROM is assembled for, which of them chooses the count
(`Tested`).  The event calls are part of the action.  Refinement:
`queue[b] = Stored(b)`, the bytes from start to end; what CNPV is asked for is
the same flag in `ByteQueues`, and `CountAsAsked` is what its callers are told.

**`MosSound`** keeps a record per channel for the arrays of `sound_main.asm`.
`Tick` is `irq_sound` up to its loop, `Serve` one turn of the loop for one
channel with every subroutine it calls (`CheckGetNext`, `Synchronise`,
`GetFromBuffer`, `Finish`, ...), written as functions on a state record so that
they compose as the code's calls do.  `Sound`/`Insert`/`GiveUp` are OSWORD 7,
split where it may allow interrupts (WORDV bars them, and only a full buffer
lets them in before the note is inserted; the model lets a tick in each time,
which is more than the code does); `Bell` is VDU 7; `Flush` is
`x_Buffer_handling`.  A note is three bytes, its first carrying S, H and the
envelope.  Foreground steps happen only while `loop = Idle`, since `irq_sound`,
an interrupt, ends before the foreground goes on.  Envelope arithmetic is a
choice of when the amplitude phase moves on.

**`Clock`** is one counter modulo its span.  `call` notes the last tick, read or
write with its value, so that an implementation cannot pass a lost or doubled
tick off as a write, nor a lost write as nothing; two ticks in a row have
different numbers for the same reason.  **`MosClock`** has the two stores
and the switch, the timer, and the two bytes of INKEY's countdown in memory
order.  `Tick` is the whole of the tick's time keeping (interrupts are barred
in it).  The INKEY wait is cut at each load and store: `Inkey`, `InkeyStore`,
`Poll`, `ReadLow`, `ReadHigh`.

**`MosKeyboard`** has the two key numbers with the bit that says "down", the
semaphore and the VIA's enable and latch, and `stack`, the activations of the
handler.  An entry (`TimerEnter`, `PressEnter`) and the rest of the handler
(`Timer`, `KeyPress`) are separate steps because the scan between them allows
interrupts.  `CheckLast`, `CheckFirst`, `ScanForNext`, `ScanForPress`,
`RepeatAction`, `Housekeeping` are the labelled parts of the handler in the
order it runs them.  `Down`, `Up`, `Modify` are the user.  `typed` and `off`
are history variables.

**`SoftKeys`** keeps the page byte by byte, since the property is about bytes
overwritten in it.  `*KEY` is cut where BREAK would find a different page:
`StarKey`, `Copy` (the closing up), `Lower` (one pointer each), `Lowered`,
`Read` (one character each), `ReadEnd`, `Share`; `Bad` is a failure of GSREAD
or of the room in the page.  `Break` is a reset.  `want` and `ahead` are what
the user gave and is to read; `spoilt` records the three ways in which the code
loses strings, so that the properties can say "unless".

**`AsmErrors`** is the error level: types in the order of `error.h`, and
`Raise`, with the exception that an inconsistency replaces a value out of range.

**`Conditionals`** promises that of the branches of an IF at most one is
assembled.  **`AsmConditions`** is the code: `cond.list` for `cond_list`,
`cond.out` for the pointer `cond_excluded` into it (0 for none), `CondStep` for
`pseudo_if()` to `pseudo_endif()`, `Complaint` for their errors.  `BranchesOf`
is the refinement mapping; `AsmPasses` and `AsmLines` use the operators.

**`AsmPasses`** is `main()`'s loop.  `BeginPass` and `EndPass` are its head and
its end with `section_finish_pass()`, and between them there is one action per
kind of line: `Equ`, `Set`, `Org`, `Section`, `Fdb`, `Bra`, `Mem1` (an
instruction whose size depends on DP), `Rmb`, `Align`, `Put`, `SetDP`, `Error`,
`Warn`, `End`, `NoOp`, `Conditional`, and `Excludes` for a line passed over.
Each evaluates its operand, sets its label and does its work in the order of the
code, with `SymbolSet` for `symbol_set()`.  An operand is a symbol plus a number.
`trace`, and `after` and `base` of a section, are history.

**`AsmLines`** models what `AsmPasses` takes for granted.  `frames` are the
active calls of `assemble_prog()`, `ctxs` is `prog_ctx_stack`, `interp` the
arguments of macros, `defining` the level of nested definitions and the pointer
to the context of the outermost.  `Include` and `Expand` enter a program,
`Return` is the end of `assemble_prog()` with `prog_ctx_free()`; `StartMacro`,
`BodyLine`, `EndMacro` are a definition.  When the pointer dangles, `BodyLine`
may add the line or crash.  Local labels are numbered as in `symbol.c`.

**`AsmOperands`** holds the functions of `instr.c` as operators from an opcode
and evaluated arguments to pieces of code.  **`M6809`**, external, is what the
processor makes of code: postbytes, register lists, transfers.  It is
translated from no file of the repository and shares no table with
`AsmOperands`.  **`AsmCode`** is the last pass: `Instruction` and `Constants` emit
into the spans of the current section (`Emitted` is `section_emit()`), `Org`,
`Put`, `Rmb`, `Setdp`, `Section` and `End` are the pseudo-ops, `Output` is
`section_coalesce_all()` (`Joined`) and `output.c` (`Written`).  Where a
section begins is any of `Starts`, since `AsmPasses` is about that.

`MC*` modules give the constants; the assumptions on constants are evaluated by
the runs of these modules.

## 4. Runs

| Run | Shows | Bounds |
|---|---|---|
| `ring_buffers` | types, `CountsBalance`, refinement of `ByteQueues` | rings of 4 and 2 bytes, one input and one output buffer, two bytes: both wrap, fill and empty, and every pair of pointers occurs; a 6809, where both flags of `Count` occur in all combinations (if they agree it does what a 6309 does) |
| `sound` | `WholeNotes`, `NoStrandedNote`, `DormantIsSilent` | two channels, room for one note, so every SOUND can find the buffer full; hold, endless, enveloped and chord notes, with and without flush |
| `sound_chords` | `ChordTogether`, `CountHasHolder`, `SoundReturns`, `ChordBegins` | as above with two-note chords and single notes, no note with F set |
| `clock` | `ImplementsClock`, `TicksAreCounted`, `EventOnTime`, `InkeyReturns` | two bytes of two values: all clock values, all limits, any value written to the timer, carries and borrows in every byte |
| `keyboard` | `OneActivation`, `NeverDeaf`, `OncePerPress`, `KeyIsTyped`, `QuietAgain` | two keys, one of them without repeat, modifiers; delay 2 then 0, periods 0, 1, 2 |
| `soft_keys` | `StringsKept`, `ExpansionIsString` | three keys, a page of eight bytes: four characters in all, so that the page fills, three strings exist at once and a string of any key can be below or above another |
| `soft_keys_redefined` | **violated** `RedefinitionKeepsStrings` | the same |
| `asm_passes` | types, `OutputIsFinal`, `SectionsAbut`, `DefinedOnce`, `FixedSizeSettles`, and `OneBranchOfEachIf` (the refinement of `Conditionals`) | some 30 thousand programs of 5 to 7 lines over three symbols and three sections, at most six passes, 32 bytes of memory in pages of 8, branches of -4 .. 3 |
| `asm_range` | **violated** `RangeOnlyIfConsistent` | the same |
| `asm_lines` | types, `StacksMatch`, `MacroIsItsText`, `SteadyLocals`, `Terminates` | two files, two macros, one local label, two sections; three calls deep, four passes |
| `asm_macro` | **violated** `OnlyTheTopIsFreed` | the same |
| `asm_code` | types, `OverlapsAreReported`, `FileLoadsCode`, `OperandsAreReached` | real sizes: layouts of three sections with overlaps, gaps and records, and every form of operand with values around each limit, at addresses on both sides of 0 and 64K |

Why the bounds are enough.  Bytes are counted modulo `Radix` and buffers are
small: the arithmetic is the code's with another modulus, and the interesting
cases, wrap, borrow, full, empty, are reached in a few steps.  Two keys are
what the handler remembers; the rings' properties are proved for all sizes.
`MaxTyped = 2` tells "never", "once" and "more".  In `soft_keys` the
constraint `Unspoilt` stops at a page already known to be damaged: such pages
are arbitrary bytes, of which nothing is claimed.  In `asm_passes` a chain of
definitions through three symbols takes three passes to settle, so six leave
three that only a size that alternates can use; with pages of 8 bytes the size of
a line changes with the place of a symbol.  In `asm_lines` a depth of three is a
file, what it includes or expands, and what that does in turn; the code's limit
is eight, and every operation looks only at the top two.  `asm_code` has no
reduced sizes.

### Fairness

`MosSound`: the tick comes again and again whatever the foreground does
(`WF(Tick)`), its loop ends (`WF(Serve)`), and a foreground waiting for room
tries between any two ticks, thousands of times, so it finds room that appears
again and again (`SF(Insert)`).  `MosClock`: the tick, and a foreground that
is not stopped.  `MosKeyboard`: the handler's interrupts are served and the
handler ends.  The user, programs, Escape and BREAK get no fairness.
`AsmLines`: the assembler is one sequential process that nothing blocks, so it
takes its next step, `WF(Next)`.  The other modules only have safety properties;
that the loop of passes ends is the bound on `pass` in `TypeOK` of `AsmPasses`.

### What the violations say

Each is a disagreement of the code with a comment in it, met while modelling;
`PROJECT.json` quotes the lines.

- **`*KEY`** (`soft_keys_redefined`): the loop that closes up a removed string
  starts one byte too low.  Redefining a key that is not the last in the page
  damages the string below or the end pointer, and loses the last byte of the
  page.
- **Out of range** (`asm_range`): `error.h` says that a value out of range is
  fatal only if no inconsistency was found.  That is so if it comes before the
  inconsistency.  If it comes after, it stays the level and the assembly fails,
  although the next pass would have known the value.
- **Unfinished macros** (`asm_macro`): the end of an included file frees the
  context of a macro that it began and did not end, but the assembler still
  holds a pointer to it.  Lines after the INCLUDE are written through it, and
  ENDM frees it again, which the assertion in `program.c` stops.  An included
  file that begins a macro is enough.

### Known defects that are not runs

They were met with the models, and are left to prose so that the runs go to
properties that hold.

- **CNPV** on a 6809 (`mosrom.asm` 1541-1545) means to "check carry in pushed
  flags" and tests the B it has just pushed: bit 0 of the caller's B, and not C,
  chooses between the bytes used and the space left.  REMV (1966) and the 6309's
  code (1547) look at the right byte.  No call in the MOS itself depends on it,
  OSBYTE 128 being commented out; programs that call the vector do.
  `CountAsAsked` fails at once with `Cpu = "6809"`, and holds with `"6309"`.
- The **interval timer**'s carry loop (`shared_100mstick.asm` 26-31) ends when its
  index is 0 and never reaches the highest byte.
- **INKEY** stores X (1043) where the tick keeps the high byte: a limit of 1
  waits 256 ticks.  And its expiry test (1073) loads two bytes with interrupts
  allowed: a borrow in between ends the wait early.
- The **keyboard**: a branch after an empty scan (3995-3997) tests a flag that the
  6809 routine does not set, so &FF is kept as the last key for two ticks;
  `*FX12,0` (3273-3274) stores 16 bits and switches the repeat off.
- **`label,pcr`** whose label is 0 (`instr.c` 292) is taken for no offset, and
  addresses the end of the instruction.  `OperandsAreReached` excludes this
  operand by `NotZeroPcr`.
- A **forced size** (`instr.c` 189) is not checked: the upper bits of the value
  are lost without an error.  `OperandsAreReached` is about values that fit
  (`Fits`).
- **Operands of the wrong kind** are assembled without a complaint: a register
  or nothing where an address is expected (`LDA X`, `BRA X`, an LDA with its
  operand left out), a register after `#` or where OIM and BAND want a number,
  TFR and EXG with `q` or `pcr`, and a register or a bracketed operand with the
  attribute of a macro's argument before `,x`.  There is no operand for the code
  to reach, so `OperandsAreReached` leaves them out (`Expected`).
- **SET** (`symbol.c` 68): a SET symbol used before its SET has the value that
  the pass before ended with, and no inconsistency is raised.  `OutputIsFinal`
  is about the others.  `pseudo_end()` (`assemble.c` 1099) passes two arguments
  to `symbol_set()` in the wrong order, which makes `.exec` such a symbol from
  the second pass on.
- **PUT**: the end of a section is only looked at again when its pc has changed
  (`section.c` 146), so the put address of a section that follows may be stale.
  `SectionsAbut` is about pc.
- A second **ELSE**, after an ELSIF that was taken, is not reported; no second
  branch is assembled.

**Chords**, of which no line of the repository says otherwise in so many words: a
note with F set (or a flush) between the tick in which a chord becomes complete
and the channel's release leaves `snd_num_chans_sync` counting for a chord no channel waits for.  With a
third channel, a chord note that reaches the head of its buffer in the tick of
a release is counted for the next chord and then, looked at a second time
because its duration is zero, started with the old one.  The runs of chords
therefore use two channels and no flushing notes; `CountHasHolder` and
`ChordTogether` are not claimed beyond that.

## 5. Proofs

Checked by TLAPS, for all values of the constants allowed by their assumptions.

**`RingBuffers_proofs`** (from `OffsAssumption`: every offset leaves at least
one usable byte).  `TypeCorrect`: the pointers stay in their bytes; inductive as
it stands.  `CountsCorrect`: from the type invariant, by the arithmetic of `%`
on both sides of the borrow.  `RingsImplementQueues`: the mapped initial state
is the abstract one, and every action is the abstract action of the same name.
The argument rests on lemmas about `Nth` (the i-th byte after start): moving
`bufEnd` appends, moving `bufStart` drops the head, and a store at `bufEnd` is
at none of the places counted.  Both are for either processor
(`CpuAssumption`).  `CountHeedsCarry`: on a 6309 `CountAsAsked` holds.

**`MosClock_proofs`** (from `BytesAssumption`, `RadixAssumption`,
`LimitsAssumption` and `TimerAssumption`: a number has at least two bytes, a
byte at least two values, and what programs write fits).  A number is a
function from its bytes, and `Value` a recursive function over the first of
them, so the lemmas about it (`PrefixBound`, `Carry`, `DigitsValue`, ...)
go by induction; they use the form of induction that is about a set, the least
element of the counterexamples.

- `TypeCorrect`: carries and borrows leave every byte a byte.
- `ClockImplemented`: the refinement of `Clock`, each event being the event of
  the same label.  A tick that carries through all the bytes adds one in the
  store not in use, and the switch makes that the clock's value; a write of the
  digits of a value does the same (`DigitsValue`); a read finds the value of the
  store in use.
- `TicksCounted`: the action property, from the same lemmas.
- `EventInTime`: the invariant `Due` says that while an event is due in n ticks
  the timer is n below its span and its highest byte, which the code never
  increases, is full already.  So EVENT 5 comes at the n-th tick and at none
  before.

**`MosKeyboard_proofs`** (from `KeysAssumption`, `RatesAssumption` and
`ModifiedAssumption`).  `HandlerNotReentered` and `KeyboardNeverDeaf` follow
from `Gates`: outside the handler exactly one of the two gates is open, and
which one tells whether a key is known; inside, both are shut.  Neither
property is inductive alone: that the handler is not entered needs the gates
shut while it runs, and that they open again needs that housekeeping, on every
way out, opens the one that fits the keys it leaves.  `TypeCorrect` includes
that the countdown of the repeat does not run through zero.  `NeverTypedTwice`
is about keys while the repeat is switched off.  Its invariant `NoRepeat` says
that the two keys remembered differ (`Apart`), that the delay is then 0 and a
countdown that runs has nothing to follow it (`OneToCome`), and that a key that
was typed and is still down is known, as the last key with its countdown over
or as the earlier one, which no scan finds again (`TypedOnce`).

**`MosSound_proofs`** (from `NotesAssumption`, `ForcedAssumption` and the other
assumptions of the module: one to four channels, buffers with room for a note
or more).  The invariant `InOrder` is the types, whole notes in every buffer,
and `Fine` for each channel, which relates its flags to its buffer.
`irq_sound`'s turn of the loop is a composition of functions on a state record,
and for each of them a lemma says that it keeps `Fine`.  From it follow
`TypeCorrect`, `NotesAreWhole`, `NoNoteStranded` and `DormantChannelsSilent`.
`NoStrandedNote` needs more than itself: that the foreground marks a channel
occupied with interrupts barred from the moment it has put a note in, and that
`irq_sound` marks it free only when it has found its buffer empty.

**`SoftKeys_proofs`** (from `PageAssumption`: there is a key, and the page has
room for a byte after the pointers; and `CharAssumption`: characters are
bytes).  The page is a store edited in place, so the invariant says where
everything lies at each place of `*KEY`.  `Whole`: every key either points at
the end and has no string, or alone points where its string begins (`Holds`),
and its string goes up to the nearest pointer above.  Then what
x_get_keydef_length finds is the length of the string (`LengthHeld`).
`Lowering`: the pointers that stood at the end go down one by one.  `Reading`:
the new string lies behind the end. `Sharing`: the key has its string and the
keys without one still point at it. `FilledKept` says what the strings below an
address depend on, and each step is shown to leave that alone.  All this holds
while `spoilt` is empty: `CopyIs` proves that the closing up, whose loop is
wrong, leaves the page as it is exactly then, because the string removed is the
last one or empty.  `TypeCorrect`, `StringsAreKept` and `ExpansionReadsString`
follow.  In the runs the constraint stops at a spoilt page, in the proofs
nothing does.

**`AsmPasses_proofs`** (from `NamesAssumption`, `SizesAssumption` and
`InputAssumption`: names of different kinds differ, sizes are positive,
programs are sequences of lines), for any programs, symbols, sections and
memory.

- `TypeCorrect`: inductive together with `Selected` (a section is current while
  lines are assembled).  There is one step for each kind of line.
- `OutputFinal`: an assembly that succeeds used, in its last pass, only values
  that the symbols have in the end.  `OutputIsFinal` speaks of the end alone;
  the strengthening `Agree` says it of every moment of a pass at which no
  inconsistency has been found.  The core is `SymbolSetKeeps`: a `symbol_set()`
  that leaves the level below an inconsistency has changed no known symbol, so
  what was recorded still holds; `RaiseKeeps` says that no later error lowers
  the level again.  `Settled` adds that "done" is reached only from such a
  level.
- `SectionsJoin`: `Based` says that in a pass every section begins at `last_pc`
  of the one it was placed after, which does not change until the end of the
  pass; there an unchanged pc is what makes the pass the last.
- `NamesDefinedOnce`: `Once` says that, until an inconsistency is found, a name
  that a line of this pass has defined has this pass in the table.  It is what
  makes the second definition noticed, although the table also holds the names
  of the pass before, which may be defined anew.
- `ConditionsImplement`: every step of the conditional assembly is a step of
  `Conditionals` or a stutter under `BranchesOf`.  `Pointed` is needed: the
  pointer is one of the open IFs, and it alone can be waiting for a condition.

**`AsmLines_proofs`** (from the same kinds of assumptions), for any files,
macros and local labels, and any limit of depth.

- `TypeCorrect`: types, and no more calls than `MaxDepth`, whatever a program
  includes or expands; inductive as it stands.
- `StacksInStep`: the strengthening `InStep` adds what holds between the calls.
  A definition has a context only while `defining.level` is positive, so no
  line that calls `assemble_prog()` is met with one on top; a call that ends
  above an unfinished definition raises a syntax error, so a pass ends and
  another begins without any.  `ArgumentsMatch`, which holds even after errors,
  rests on lemmas about `Expansions`, the number of calls that are for macros.
- `LocalsSteady`: if all passes give and use the local labels on the same
  lines, the references of a successful assembly are to the nearest definitions
  of their sections.  The table is never emptied, so what is looked up in a
  pass are the definitions of all passes so far.  `Located` has four parts.
  `Tabled`: the table has a definition for every line on which some pass gave
  the label, and for no other.  `Valued` and `Referenced`: while nothing
  inconsistent has been found, the table agrees with what this pass has given,
  and the references with the table.  `Timely`: a reference in the first pass
  is never in the last one, for the line with it emits a byte, the end of its
  section moves, and that is an inconsistency.
- `MacrosAreText`: the macros of a successful assembly are their text.  The
  property is about the end only; the invariant `Texts` says, while nothing was
  wrong with the syntax, where every macro stands.  One that is complete
  satisfies `IsDefinition`; the one being defined (`HalfDefined`) has the lines
  of the innermost call since its MACRO, with as many definitions open as
  `defining.level` counts.  A text may itself be a macro, so it matters that
  lines are added to one macro only, which is neither called nor the text of
  another (`CallsKnown`, `MacrosDefined`).  That no definition outlives its call
  is from `InStep`.

**`AsmCode_proofs`** rests on `CodeAssumption` (sections start at addresses, the
formats are the five there are) and `ProgramsAssumption` (a line holds what
its kind needs: integers, pieces of one to four bytes, names of sections; the
opcode of an instruction is one such as `opcode.c` has, and its arguments are
those that `grammar.y` and `eval.c` can give).

- `TypeCorrect`: the encodings of all instructions are pieces of bytes, and
  what `Emitted` does keeps a span within the room `realloc()` made for it.
- `OverlapsReported`: the error is there exactly when an address was given two
  bytes.  `World` says where the bytes of all spans are, and `Ledger` that they
  are, with their addresses, those of `memory`: a span only grows at its end,
  and a new one begins where PUT or the end of the last says.  `Coalesced` is
  the recursion that takes the first span from a set and joins it to what there
  is.  `Joining` is its invariant: as long as nothing overlapped, the spans
  joined so far hold the bytes of the spans taken (`Gathered`), in ascending
  order and apart.  That a pair which is not adjacent in the list cannot overlap
  unless an adjacent one does is what the order of `span_cmp()`, with its
  sequence numbers, is for: an empty span must not hide one from the other.
- `FilesLoad`: from the same invariant, every format in turn: blocks of 32
  bytes and their addresses (`ChunkFacts`, `ChunkPairs`), checksums in both
  forms (`ChecksumsRight`), the padding of the formats with one segment
  (`PaddedFirst`, `SpanSize`).  The exception in `Loadable` came out of this
  proof: `output.c` writes a size as 16 bits, so a DragonDOS or CoCo
  segment that fills all of the 64K is written with a size of 0.
- `OperandsReached`: `Traced` says that every entry of `trace` is what `Encode`
  makes of its line at its address; the rest is about functions.  `EncodeRight`
  takes the forms of `instr.c` one by one (`EncodeCases`): for operands in memory
  it is first decided which of the opcode's three codes was chosen
  (`DirectRight`, `ExtendedRight`, `IndexedRight`), and for indexed ones which
  postbyte (`PlainModes`, `NumberModes`, `RelativeModes`, `WModes`,
  `AbsoluteRight`); a number then fits the bytes it was given, so that the
  processor's sign extension gives it back modulo 64K (`OffsetBytes`,
  `ShortIsNear`, `NearDistance`).  An offset from the program counter is the
  hard one: it counts from the end of an instruction whose length depends on it
  (`PcrOffset`).

**Only model-checked**: all liveness (`SoundReturns`, `ChordBegins`,
`InkeyReturns`, `KeyIsTyped`, `QuietAgain`, `Terminates`), which needs fairness
and ENABLED, outside the prover's reach; `ChordTogether` and `CountHasHolder`
of `MosSound`, which do not hold for all constants (see "Chords" above);
`FixedSizeSettles` of `AsmPasses`, which holds only where the limit of passes
leaves room for the program's chains of definitions (with three passes, a EQU b,
b EQU c, c EQU 5 ends in the pass that first gives a its value; the runs allow
six).  The library's induction theorems take an operator as a
parameter, which the installed provers cannot instantiate; where a definition is
a recursive function, as in `MosClock`, the set form of induction does instead.

## 6. Not modelled

See the components with status `not_modelled`: parts planned for later modules
(character and line input, dispatch, VDU queue, character output, chip RAM
heap, HOSTFS); parts that are hardware set-up, arithmetic or drawing; stubs in
this port (printer, serial and speech interrupts are commented out); and
vendored, generated or demonstration code.  In the modelled parts are left out:
chip registers, pitch and envelope shapes (`MosSound`), OSWORD 3 (the loop of
OSWORD 1 on other bytes), the matrix wiring and the ASCII translation
(`MosKeyboard`), GSREAD's escapes (`SoftKeys`).

Of asm6809 are left out: the operators of expressions and the pasting of names
(arithmetic, and memory management of one thread); the listing; EXPORT, the
option `--exec`, INCLUDEBIN's file; more than one source file and more than one
argument of a macro; INCLUDE of a file that does not exist; the table of
opcodes, of which the runs use a few of each form, those of the 6309 included;
the registers left undefined in TFR and TFM. Programs in the runs are chosen by
hand to combine the operations in all orders; they are bounded in length, and
the proofs are not.

`lex.c`, `grammar.c` and `gnulib` are generated or copied from elsewhere.  They
make up some 31000 of the 37500 lines of C in the repository, and no model is
made of them; of the 6150 lines that are the assembler's own, about a third is
modelled.  The MOS, which is 6809 assembler, comes in addition.
