---- MODULE MosKeyboard ----
(***************************************************************************)
(* The keyboard handler behind KEYV (mosrom.asm).  Two interrupts enter    *)
(* it: a key going down, enabled in the VIA only while no key is known to  *)
(* be down, and the 10 ms tick, let in by a semaphore while some key is.   *)
(* The handler allows interrupts at each column it scans, so both can come *)
(* while it runs.  Columns, the key matrix wiring, ASCII codes and lights  *)
(* are left out; keys are numbered in the order the scan meets them.       *)
(***************************************************************************)
EXTENDS Integers, Sequences, FiniteSets

CONSTANTS Keys,         \* keys 1..Keys (those from &10, not SHIFT and CTRL)
          OneShot,      \* CAPS LOCK, SHIFT LOCK and ESCAPE: never repeat
          Delays,       \* what programs give OSBYTE 11
          Periods,      \* and OSBYTE 12, 0 for "the default values"
          DefaultDelay, DefaultPeriod,  \* &32 and 8
          Modified      \* {TRUE, FALSE}: SHIFT and CTRL are used, or {FALSE}

Key == 1..Keys
Step == 0..255                          \* a byte that counts ticks

ASSUME KeysAssumption == Keys \in Nat \ {0}
ASSUME RatesAssumption ==
    Delays \cup Periods \cup {DefaultDelay, DefaultPeriod} \subseteq Step
ASSUME ModifiedAssumption == Modified \subseteq BOOLEAN

MaxTyped == 2                           \* bound of the history variable typed

VARIABLES last,         \* zp_mos_keynumlast: the key pressed most recently
          first,        \* zp_mos_keynumfirst: the one before it, still down
          semaphore,    \* sysvar_KEYB_SEMAPHORE is &FF: the tick may enter
          ier,          \* the VIA lets the keypress interrupt through
          flag,         \* the VIA has latched a key press
          countdown,    \* zp_mos_autorep_countdown
          count,        \* mosvar_KEYB_AUTOREPEAT_COUNT: its next value
          delay, period,\* sysvar_KEYB_AUTOREP_DELAY and _PERIOD
          pressed,      \* the keys held down now
          modifier,     \* SHIFT or CTRL is down
          stack,        \* the handler's activations that have not ended
          typed,        \* how often each key was typed since it went down,
                        \* or since off came to hold
          off           \* the delay was set to 0 while no key was known

keys == <<last, first, countdown, count>>
gates == <<semaphore, ier, stack>>
rates == <<delay, period>>
world == <<pressed, modifier>>
history == <<typed, off>>
vars == <<keys, gates, rates, world, flag, history>>

\* A key number as the handler keeps it: bit 7 says that it was read as down.
NoKey == [key |-> 0, down |-> FALSE]
Fresh(k) == [key |-> k, down |-> FALSE]
Ghost == [key |-> Keys + 1, down |-> TRUE]      \* &FF, no key of the matrix

\* keyb_check_key_code_API: the number with bit 7 set when the key is down.
Checked(k) == [k EXCEPT !.down = k.key \in pressed]

\* The scan from &10 for a key other than k.
Others(k) == pressed \ {k.key}
Found(k) == Fresh(CHOOSE n \in Others(k) : \A m \in Others(k) : n <= m)

AtRest == last = NoKey /\ first = NoKey

State == [last |-> last, first |-> first, countdown |-> countdown,
          count |-> count, typed |-> typed]

SetAutorepeat(t) == [t EXCEPT !.countdown = 1, !.count = delay]

Type(t, k) == [t EXCEPT !.typed[k] = IF @ = MaxTyped THEN @ ELSE @ + 1]

-----------------------------------------------------------------------------
\* (mutant) a countdown that has ended is decremented
RepeatActionUntested(t) ==
    IF t.countdown # 1 THEN [t EXCEPT !.countdown = @ - 1]
    ELSE Type([t EXCEPT !.countdown = t.count, !.count = period], t.last.key)

\* x_REPEAT_ACTION: the key typed when the countdown ends.  With SHIFT or CTRL
\* and an earlier key still down it waits.
RepeatAction(t) ==
    LET k == t.last.key
        u == [t EXCEPT !.countdown = IF k \in OneShot THEN 0 ELSE t.count,
                       !.count = period]
    IN  IF t.countdown = 0 THEN t
        ELSE IF t.countdown > 1 THEN [t EXCEPT !.countdown = @ - 1]
        ELSE IF modifier /\ t.first # NoKey THEN SetAutorepeat(u)
        ELSE Type(u, k)

\* A change of the last key is believed when two ticks have seen it.
CheckLast(t) ==
    LET b == Checked(t.last)
    IN  IF t.last = NoKey THEN t
        ELSE IF b # t.last THEN [t EXCEPT !.last = b]
        ELSE IF b.down THEN RepeatAction(t)
        ELSE SetAutorepeat([t EXCEPT !.last = NoKey])

\* LEFE9: the earlier key is forgotten as soon as it is up.
CheckFirst(t) ==
    IF t.first # NoKey /\ Checked(t.first).down
    THEN [t EXCEPT !.first = Checked(t.first)]
    ELSE [t EXCEPT !.first = NoKey]

\* LF012: with no last key, look for one other than the earlier key.  When
\* there is none the branch on the scan's answer is not taken, because the
\* scan returns with N clear, and &FF is kept as a key.
ScanForPress(t) ==
    IF t.last # NoKey THEN t
    ELSE SetAutorepeat([t EXCEPT !.last = IF Others(t.first) = {} THEN Ghost
                                          ELSE Found(t.first)])

\* (mutant) the scan does not pass over the last key
ScanForNextSame(t) ==
    IF t.first # NoKey THEN ScanForPress(t)
    ELSE IF pressed = {} THEN t
    ELSE SetAutorepeat([t EXCEPT !.first = t.last, !.last = Found(NoKey)])

\* LEFF8: with no earlier key, look for a key other than the last: the last
\* key becomes the earlier one (rollover).
ScanForNext(t) ==
    IF t.first # NoKey THEN ScanForPress(t)
    ELSE IF Others(t.last) = {} THEN t
    ELSE SetAutorepeat([t EXCEPT !.first = t.last, !.last = Found(t.last)])

\* (mutant) the keypress interrupt is not enabled again
HousekeepingWithoutEnable(t) ==
    /\ semaphore' = (t.last # NoKey \/ t.first # NoKey)
    /\ UNCHANGED ier

\* keyb_input_and_housekeeping: the tick goes on while some key is down, else
\* the keypress interrupt takes over.
Housekeeping(t) ==
    /\ semaphore' = (t.last # NoKey \/ t.first # NoKey)
    /\ ier' = (ier \/ ~(t.last # NoKey \/ t.first # NoKey))

Leave(t) ==
    /\ last' = t.last /\ first' = t.first /\ typed' = t.typed
    /\ countdown' = t.countdown /\ count' = t.count
    /\ Housekeeping(t)
    /\ stack' = Tail(stack)

-----------------------------------------------------------------------------
\* Reset: no keypress interrupt, the space key taken for an earlier key that
\* is still down, so that the first ticks look at the keyboard.
Init ==
    /\ last = NoKey /\ first = Fresh(1)
    /\ semaphore = TRUE /\ ier = FALSE /\ flag = FALSE
    /\ countdown = 0 /\ count = 0
    /\ delay = DefaultDelay /\ period = DefaultPeriod
    /\ pressed = {} /\ modifier = FALSE /\ stack = <<>>
    /\ typed = [k \in Key |-> 0] /\ off = FALSE

\* (mutant) the tick does not take the semaphore
TimerEnterFreely ==
    /\ (last # NoKey \/ first # NoKey) /\ semaphore /\ Len(stack) < 2
    /\ ier' = FALSE
    /\ stack' = <<"timer">> \o stack
    /\ UNCHANGED <<keys, rates, world, flag, history, semaphore>>

\* The tick enters the handler, which bars the keypress interrupt and takes
\* the semaphore.
TimerEnter ==
    /\ (last # NoKey \/ first # NoKey) /\ semaphore
    /\ ier' = FALSE /\ semaphore' = FALSE
    /\ stack' = <<"timer">> \o stack
    /\ UNCHANGED <<keys, rates, world, flag, history>>

\* The rest of the timer entry.  A scan cancels the latched key press.
Timer ==
    /\ stack # <<>> /\ Head(stack) = "timer"
    /\ LET t == CheckFirst(CheckLast(State))
       IN  /\ Leave(ScanForNext(t))
           /\ flag' = (flag /\ t.first # NoKey /\ t.last # NoKey)
    /\ UNCHANGED <<rates, world, off>>

\* A key is down, or was when the VIA latched it.
PressEnter ==
    /\ ier /\ (flag \/ pressed # {})
    /\ ier' = FALSE
    /\ stack' = <<"press">> \o stack
    /\ UNCHANGED <<keys, rates, world, flag, history, semaphore>>

\* The rest of KEYV_default_keypress_IRQ and of irq_keyboard.
KeyPress ==
    /\ stack # <<>> /\ Head(stack) = "press"
    /\ Leave(ScanForPress(State))
    /\ flag' = FALSE
    /\ UNCHANGED <<rates, world, off>>

\* OSBYTE 11
SetDelay(x) ==
    /\ delay' = x
    /\ off' = (x = 0 /\ (off \/ (AtRest /\ stack = <<>>)))
    /\ typed' = IF off' /\ ~off THEN [k \in Key |-> 0] ELSE typed
    /\ UNCHANGED <<keys, gates, world, flag, period>>

\* OSBYTE 12.  With X = 0, stx stores 16 bits: the delay gets the high byte of
\* the default, and the period the low byte, until the call sets it.
SetPeriod(x) ==
    /\ IF x = 0 THEN delay' = 0 /\ period' = DefaultPeriod
                ELSE delay' = delay /\ period' = x
    /\ UNCHANGED <<keys, gates, world, flag, history>>

\* Fingers.  A key going down is latched whether or not it interrupts.
Down(k) ==
    /\ k \notin pressed
    /\ pressed' = pressed \cup {k} /\ flag' = TRUE
    /\ typed' = [typed EXCEPT ![k] = 0]
    /\ UNCHANGED <<keys, gates, rates, modifier, off>>

Up(k) ==
    /\ k \in pressed
    /\ pressed' = pressed \ {k}
    /\ UNCHANGED <<keys, gates, rates, modifier, flag, history>>

Modify(m) ==
    /\ modifier' = m
    /\ UNCHANGED <<keys, gates, rates, pressed, flag, history>>

Handler == TimerEnter \/ Timer \/ PressEnter \/ KeyPress

Next ==
    \/ TimerEnter \/ Timer \/ PressEnter \/ KeyPress
    \/ \E x \in Delays : SetDelay(x)
    \/ \E x \in Periods : SetPeriod(x)
    \/ \E k \in Key : Down(k) \/ Up(k)
    \/ \E m \in Modified : Modify(m)

\* Interrupts are served, and a handler that was entered ends.
Fairness == WF_vars(Handler)

Spec == Init /\ [][Next]_vars /\ Fairness

-----------------------------------------------------------------------------
KeyNumber == [key : 0..(Keys + 1), down : BOOLEAN]

\* The two key numbers are keys, none, or the scan's &FF, the countdown never
\* runs through zero, and only keys of the matrix are typed.
TypeOK ==
    /\ last \in KeyNumber /\ first \in KeyNumber
    /\ semaphore \in BOOLEAN /\ ier \in BOOLEAN /\ flag \in BOOLEAN
    /\ countdown \in Step /\ count \in Step /\ delay \in Step /\ period \in Step
    /\ pressed \subseteq Key /\ modifier \in BOOLEAN
    /\ stack \in Seq({"timer", "press"})
    /\ typed \in [Key -> 0..MaxTyped] /\ off \in BOOLEAN

\* The handler lets interrupts in while it scans, but no interrupt enters it
\* again: the semaphore keeps the tick out and the VIA the keypress.
OneActivation == Len(stack) <= 1

\* The keyboard never goes deaf: between interrupts, either a key going down
\* interrupts, or the tick will look at the keyboard.
NeverDeaf ==
    stack = <<>> => ier \/ (semaphore /\ (last # NoKey \/ first # NoKey))

\* With the repeat switched off (*FX11,0) a key is typed at most once while it
\* is down, however presses and releases of other keys roll over it.
OncePerPress == off => \A k \in Key : typed[k] <= 1

\* A key that goes down alone and stays down alone is typed.
KeyIsTyped ==
    \A k \in Key :
        (pressed = {k} /\ AtRest) ~> (typed[k] > 0 \/ pressed # {k})

\* Keys that are up are forgotten: the keypress interrupt comes back.
QuietAgain == pressed = {} ~> (ier \/ pressed # {})
====
