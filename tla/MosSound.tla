---- MODULE MosSound ----
(***************************************************************************)
(* The sound system of the MOS (sound_main.asm, OSWORD 7 and VDU 7 of      *)
(* mosrom.asm).  Foreground calls put notes of three bytes into the sound  *)
(* buffers with interrupts barred; the 10 ms tick runs irq_sound, which    *)
(* visits the channels from the last to the first and takes notes out.     *)
(* One step is a stretch of a foreground call with interrupts barred, the  *)
(* head of irq_sound, or its loop body for one channel.  The chip          *)
(* registers, pitch and the shape of envelopes are left out.               *)
(***************************************************************************)
EXTENDS Integers, Sequences, FiniteSets

CONSTANTS Channels,     \* channels 0..Channels-1, served from the last
          Room,         \* bytes a sound buffer holds (15 in mosrom.inc)
          SubTicks,     \* ticks in one unit of duration (5: 50 ms)
          Radix,        \* the values of a byte (256)
          Notes,        \* the notes programs play: [s, h, env, d]
          BellNote,     \* the note of VDU 7
          Forced        \* the values of SOUND's F (flush) bit programs use

ASSUME ChannelsAssumption == Channels \in 1..4
ASSUME RoomAssumption == Room \in Nat /\ Room % 3 = 0 /\ Room > 0
ASSUME RadixAssumption == Radix \in 3..256 /\ SubTicks \in 1..(Radix - 1)

Channel == 0..(Channels - 1)
Forever == Radix - 1    \* a duration that never runs out

\* What the three bytes of a note say: S, H, whether it has an envelope, and
\* the duration.
AnyNote == [s : 0..3, h : BOOLEAN, env : BOOLEAN, d : 0..Forever]

ASSUME NotesAssumption == Notes \cup {BellNote} \subseteq AnyNote
ASSUME ForcedAssumption == Forced \subseteq BOOLEAN

Off == -1               \* &FF in snd_num_chans_sync: no chord is assembling

VARIABLES q,            \* q[c]: the bytes of sound buffer c, oldest first
          chan,         \* the state of each channel, a record per channel
          parm,         \* snd_sync_hold_parm: channels whose note waits for its chord
          sync,         \* snd_num_chans_sync: channels the chord still needs
          hold,         \* snd_num_chans_hold_sync: this tick releases a chord
          loop,         \* the channel irq_sound serves next, or Idle
          waiting,      \* the note OSWORD 7 is about to insert, or Nobody
          started       \* channels that began a chord note in this tick

Idle == -1
Nobody == [ch |-> Idle]

vars == <<q, chan, parm, sync, hold, loop, waiting, started>>

(* chan[c] holds
     occ    snd_q_occupied: the channel has to be served
     busy   bit 7 of mosbuf_buf_busy: the buffer was flushed
     dur    snd_duration_ctr           mul    snd_duration_mul
     phase  snd_amplitude_phase_count, 0..4, 3 release, 4 silent
     env    an envelope is in use (snd_env_no is not &FF) *)
Quiet == [occ |-> FALSE, busy |-> FALSE, dur |-> 0, mul |-> 0,
          phase |-> 4, env |-> FALSE]

Bytes(n) == <<<<"head", n>>, <<"pitch", n>>, <<"duration", n>>>>

\* The whole state irq_sound works on, as one value, so that the subroutines
\* can be called one after the other within a step.
State == [q |-> q, chan |-> chan, parm |-> parm, sync |-> sync, hold |-> hold,
          started |-> started]

Become(t) ==
    /\ q' = t.q /\ chan' = t.chan /\ parm' = t.parm /\ sync' = t.sync /\ hold' = t.hold
    /\ started' = t.started

-----------------------------------------------------------------------------
\* snd_set_vol to zero: the release phase is over.
Silence(t, c) == [t EXCEPT !.chan[c].phase = 4]

SilenceIfNoEnvelope(t, c) == IF t.chan[c].env THEN t ELSE Silence(t, c)

\* (mutant) the count of the chord survives a flush
ForgetChordNotCount(t) == [t EXCEPT !.parm = [c \in Channel |-> FALSE]]

\* Both halves of a flush, and a flushed buffer met by irq_sound, forget the
\* chord that is being assembled on all channels.
ForgetChord(t) ==
    [t EXCEPT !.parm = [c \in Channel |-> FALSE], !.sync = Off]

\* (mutant) the channel is made dormant before its release phase is over
FinishEarly(t, c) ==
    SilenceIfNoEnvelope(
        IF t.q[c] = <<>> THEN [t EXCEPT !.chan[c].occ = FALSE] ELSE t, c)

\* snd_check_silence_and_finish: the buffer looked empty; a silent channel
\* whose buffer is still empty goes dormant.
Finish(t, c) ==
    SilenceIfNoEnvelope(
        IF t.chan[c].phase = 4 /\ t.q[c] = <<>>
        THEN [t EXCEPT !.chan[c].occ = FALSE] ELSE t, c)

\* (mutant) the redundant pitch of a hold note is left in the buffer
GetFromBufferTwoBytes(t, c) ==
    LET note == t.q[c][1][2]
    IN  [t EXCEPT !.q[c] = SubSeq(@, IF note.h THEN 3 ELSE 4, Len(@)),
                  !.chan[c].dur = note.d, !.chan[c].mul = SubTicks]

\* snd_get_from_buff: take three bytes and start the note.  A hold note (H)
\* keeps the envelope and only sets the duration.
GetFromBuffer(t, c) ==
    LET note  == t.q[c][1][2]
        taken == [t EXCEPT !.q[c] = SubSeq(@, 4, Len(@)),
                           !.chan[c].dur = note.d,
                           !.started = IF note.s = 0 THEN @ ELSE @ \cup {c}]
    IN  IF note.h
        THEN SilenceIfNoEnvelope(taken, c)
        ELSE [taken EXCEPT !.chan[c].env = note.env,
                           !.chan[c].mul = SubTicks,
                           !.chan[c].phase = 0]

\* (mutant) every chord note sets the count anew
SynchroniseSetsAnew(t, c) ==
    IF t.q[c] = <<>> THEN Finish(t, c)
    ELSE IF t.q[c][1][2].s = 0 THEN GetFromBuffer(t, c)
    ELSE [t EXCEPT !.parm[c] = TRUE, !.sync = t.q[c][1][2].s]

\* x_Synchronise_sound_routines: a note with S = 0 starts at once; a chord
\* note is counted, unless the chord is complete and about to be released.
Synchronise(t, c) ==
    LET s == t.q[c][1][2].s
        count == IF t.sync = Off THEN s ELSE t.sync - 1
    IN  IF t.q[c] = <<>> THEN Finish(t, c)
        ELSE IF s = 0 THEN GetFromBuffer(t, c)
        ELSE IF t.sync = 0 THEN SilenceIfNoEnvelope(t, c)
        ELSE SilenceIfNoEnvelope([t EXCEPT !.parm[c] = TRUE, !.sync = count], c)

\* irq_sound_check_get_next
CheckGetNext(t, c) ==
    LET released == IF t.chan[c].phase = 4 THEN t
                    ELSE [t EXCEPT !.chan[c].phase = 3]
        u == IF released.chan[c].busy
             THEN ForgetChord([released EXCEPT !.chan[c].busy = FALSE,
                                               !.chan[c].dur = 0])
             ELSE released
    IN  IF ~u.parm[c] THEN Synchronise(u, c)
        ELSE IF u.hold = 0 THEN SilenceIfNoEnvelope(u, c)
        ELSE GetFromBuffer([u EXCEPT !.parm[c] = FALSE], c)

\* The duration counter is decremented every SubTicks ticks.
CountDown(t, c) ==
    LET mul  == (t.chan[c].mul - 1) % Radix
        next == [t EXCEPT !.chan[c].mul = SubTicks,
                           !.chan[c].dur = (@ - 1) % Radix]
    IN  IF t.chan[c].dur = Forever THEN t
        ELSE IF mul # 0 THEN [t EXCEPT !.chan[c].mul = mul]
        ELSE IF next.chan[c].dur # 0 THEN next
        ELSE CheckGetNext(next, c)

\* (mutant) a duration still zero is counted down
ServeNoteOnce(t, c) ==
    CountDown(IF t.chan[c].busy \/ t.chan[c].dur = 0
              THEN CheckGetNext(t, c) ELSE t, c)

\* The body of irq_sound_loop up to the envelope: with the duration at zero
\* the next note is looked for twice.
ServeNote(t, c) ==
    LET k == t.chan[c]
        u == IF k.busy \/ k.dur = 0 THEN CheckGetNext(t, c) ELSE t
    IN  IF u.chan[c].dur = 0 THEN CheckGetNext(u, c) ELSE CountDown(u, c)

\* An envelope in use may move to its next amplitude phase, up to silence.
EnvelopeStep(t, c) ==
    {t} \cup IF t.chan[c].env /\ t.chan[c].phase < 4
             THEN {[t EXCEPT !.chan[c].phase = @ + 1]} ELSE {}

-----------------------------------------------------------------------------
\* snd_init at reset: every channel dormant; the sub-counters hold what
\* clearing the memory left there.
Init ==
    /\ q = [c \in Channel |-> <<>>]
    /\ chan = [c \in Channel |-> Quiet]
    /\ parm = [c \in Channel |-> FALSE]
    /\ sync = Off /\ hold = 0 /\ loop = Idle
    /\ waiting = Nobody /\ started = {}

\* (mutant) the release of a chord is not cleared at the next tick
TickKeepsHold ==
    /\ loop = Idle
    /\ loop' = Channels - 1
    /\ hold' = IF sync = 0 THEN 1 ELSE hold
    /\ sync' = IF sync = 0 THEN Off ELSE sync
    /\ started' = {}
    /\ UNCHANGED <<q, chan, parm, waiting>>

\* The tick: irq_sound up to its loop, which mosvar_SOUND_SEMAPHORE keeps from
\* being entered again by a tick that interrupts it.  A complete chord is
\* released.
Tick ==
    /\ loop = Idle
    /\ loop' = Channels - 1
    /\ hold' = IF sync = 0 THEN 1 ELSE 0
    /\ sync' = IF sync = 0 THEN Off ELSE sync
    /\ started' = {}
    /\ UNCHANGED <<q, chan, parm, waiting>>

\* One turn of irq_sound_loop.
Serve ==
    /\ loop # Idle
    /\ IF chan[loop].occ
       THEN \E t \in EnvelopeStep(ServeNote(State, loop), loop) : Become(t)
       ELSE Become(State)
    /\ loop' = loop - 1
    /\ UNCHANGED waiting

\* (mutant) the bytes go in whether or not there is room
PutWithoutRoom(t, c, n) ==
    [t EXCEPT !.q[c] = @ \o Bytes(n), !.chan[c].occ = TRUE]

\* (mutant) the channel is marked occupied only when its buffer was empty and
\* its last note is over
PutWithoutOccupying(t, c, n) ==
    [t EXCEPT !.q[c] = @ \o SubSeq(Bytes(n), 1, Room - Len(@)),
              !.chan[c].occ = t.chan[c].phase = 4]

\* The three INSVs of a note and the occupied flag between the first and the
\* second, with interrupts barred.  INSV refuses a byte when there is no room.
Put(t, c, n) ==
    LET room == Room - Len(t.q[c])
    IN  [t EXCEPT !.q[c] = @ \o SubSeq(Bytes(n), 1, IF room < 3 THEN room ELSE 3),
                  !.chan[c].occ = TRUE]

\* OSWORD 7 up to x_INSV_flashiffull: a note with F set flushes the buffer.
\* WORDV bars interrupts, and they are allowed again only when the buffer is
\* full.  A step of its own lets a tick in before every Insert, which is more
\* than the code does.  The channel keeps sounding until irq_sound sees the
\* busy flag.
Sound(c, n, f) ==
    /\ loop = Idle /\ waiting = Nobody
    /\ waiting' = [ch |-> c, note |-> n]
    /\ Become(IF f THEN [State EXCEPT !.q[c] = <<>>, !.chan[c].busy = TRUE]
                   ELSE State)
    /\ UNCHANGED loop

\* x_INSV_flashiffull finds room, now or on a later turn of its loop.
Insert ==
    /\ loop = Idle /\ waiting # Nobody
    /\ Len(q[waiting.ch]) < Room
    /\ Become(Put(State, waiting.ch, waiting.note))
    /\ waiting' = Nobody
    /\ UNCHANGED loop

\* Escape while the buffer is full: the note is dropped.
GiveUp ==
    /\ loop = Idle /\ waiting # Nobody
    /\ Len(q[waiting.ch]) = Room
    /\ waiting' = Nobody
    /\ UNCHANGED <<q, chan, parm, sync, hold, loop, started>>

\* VDU 7 does not look at the answer of its first INSV.
Bell(c) ==
    /\ loop = Idle /\ waiting = Nobody
    /\ Become(Put(State, c, BellNote))
    /\ UNCHANGED <<loop, waiting>>

\* OSBYTE 21, or one buffer of OSBYTE 15 and 126: x_Buffer_handling of a
\* sound buffer.
Flush(c) ==
    /\ loop = Idle /\ waiting = Nobody
    /\ Become([ForgetChord(Silence(State, c))
                  EXCEPT !.q[c] = <<>>, !.chan[c].dur = 0,
                         !.chan[c].occ = FALSE, !.chan[c].busy = TRUE])
    /\ UNCHANGED <<loop, waiting>>

Next ==
    \/ Tick \/ Serve \/ Insert \/ GiveUp
    \/ \E c \in Channel :
          \/ \E n \in Notes, f \in Forced : Sound(c, n, f)
          \/ Bell(c) \/ Flush(c)

\* The tick is an interrupt: it comes whatever the foreground does, and its
\* loop runs to the end.  A foreground that waits for room tries again between
\* any two ticks, so it sees room that stays.
Fairness == WF_vars(Tick) /\ WF_vars(Serve) /\ SF_vars(Insert)

Spec == Init /\ [][Next]_vars /\ Fairness

-----------------------------------------------------------------------------
\* A sound buffer never holds more than its room, the durations are bytes that
\* do not run through zero, and the chord counter stays in the range S allows.
TypeOK ==
    /\ \A c \in Channel : Len(q[c]) \in 0..Room
    /\ chan \in [Channel ->
           [occ : BOOLEAN, busy : BOOLEAN, dur : 0..Forever, mul : 0..Forever,
            phase : 0..4, env : BOOLEAN]]
    /\ parm \in [Channel -> BOOLEAN]
    /\ sync \in {Off} \cup 0..3 /\ hold \in {0, 1}
    /\ loop \in {Idle} \cup Channel
    /\ waiting \in {Nobody} \cup [ch : Channel, note : Notes]
    /\ started \in SUBSET Channel

\* Every buffer is a sequence of whole notes: snd_get_from_buff takes three
\* bytes without looking at the carry, VDU 7 inserts three without looking,
\* and OSWORD 7 looks only at the first, so one stray byte would shift every
\* later note of the channel.
WholeNotes ==
    \A c \in Channel :
        /\ Len(q[c]) % 3 = 0
        /\ \A i \in 1..(Len(q[c]) \div 3) :
              SubSeq(q[c], 3 * i - 2, 3 * i) = Bytes(q[c][3 * i][2])

\* irq_sound passes over a channel that is not occupied, so a note in the
\* buffer of such a channel would never be played.
NoStrandedNote == \A c \in Channel : q[c] # <<>> => chan[c].occ

\* A channel irq_sound no longer serves is silent, with no duration left and
\* no chord waiting for it: nothing would ever stop it.
DormantIsSilent ==
    \A c \in Channel : ~chan[c].occ =>
        chan[c].phase = 4 /\ chan[c].dur = 0 /\ ~parm[c]

\* snd_num_chans_sync, "number of channels required for sync"
\* (sound_main.asm:53), counts for a chord only while some channel holds a
\* note of that chord back.
CountHasHolder ==
    loop = Idle /\ sync # Off => \E c \in Channel : parm[c]

\* The notes of a chord begin in the same tick: no chord note begins alone.
ChordTogether == loop = Idle => Cardinality(started) # 1

\* Every SOUND returns: while programs play notes of finite duration, the
\* buffer it waits for gets room, or its channel waits for a chord.
SoundReturns == waiting # Nobody ~> waiting = Nobody \/ parm[waiting.ch]

\* When every channel's next note belongs to a chord, and the notes agree on
\* how many they are, the chord begins (or one of them is flushed).
AllAtChord == \A c \in Channel : q[c] # <<>> /\ q[c][1][2].s = Channels - 1
ChordBegins == AllAtChord ~> ~AllAtChord
====
