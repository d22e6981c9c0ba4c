---- MODULE MosKeyboard_proofs ----
(***************************************************************************)
(* The keyboard handler for any number of keys and any delays and periods: *)
(* its two gates, the VIA's enable bit and the semaphore, the types of its *)
(* state, and what it types with the repeat switched off.                  *)
(***************************************************************************)
EXTENDS MosKeyboard, WellFoundedInduction, TLAPS

Known == last # NoKey \/ first # NoKey

(***************************************************************************)
(* Outside the handler exactly one gate is open, and which one tells       *)
(* whether a key is known; while an activation runs both are shut.         *)
(* NeverDeaf and OneActivation alone are not inductive: neither says that  *)
(* the gates are shut while the handler runs.                              *)
(***************************************************************************)
Gates ==
    /\ semaphore \in BOOLEAN /\ ier \in BOOLEAN
    /\ \/ /\ stack = <<>>
          /\ semaphore <=> Known
          /\ ier <=> ~Known
       \/ /\ stack \in {<<"timer">>, <<"press">>}
          /\ ~semaphore /\ ~ier

\* After reset the tick's gate is open: the space key is taken for known.
LEMMA GatesInit == Init => Gates
<1> SUFFICES ASSUME Init
             PROVE  Gates
  OBVIOUS
<1>1. Fresh(1) # NoKey
  <2>1. Fresh(1).key = 1 /\ NoKey.key = 0
    BY DEF Fresh, NoKey
  <2> QED
    BY <2>1
<1>2. Known
  BY <1>1 DEF Init, Known
<1> QED
  BY <1>2 DEF Init, Gates

\* What every way out of the handler does, whatever keys it leaves known.
OpensOne ==
    /\ stack' = Tail(stack)
    /\ semaphore' = (last' # NoKey \/ first' # NoKey)
    /\ ier' = (ier \/ ~(last' # NoKey \/ first' # NoKey))

\* The housekeeping opens the gate that belongs to the keys left known.
LEMMA LeaveOpensOne ==
    ASSUME Gates, stack # <<>>, OpensOne
    PROVE  Gates'
<1>1. Tail(stack) = <<>>
  <2>1. Tail(<<"timer">>) = <<>> /\ Tail(<<"press">>) = <<>>
    OBVIOUS
  <2> QED
    BY <2>1 DEF Gates
<1>2. stack' = <<>> /\ ~ier
  BY <1>1 DEF OpensOne, Gates
<1>3. semaphore' \in BOOLEAN /\ ier' \in BOOLEAN
  BY Zenon DEF OpensOne, Gates
<1>4. (semaphore' <=> Known') /\ (ier' <=> ~Known')
  BY <1>2, Zenon DEF OpensOne, Known
<1> QED
  BY <1>2, <1>3, <1>4 DEF Gates

\* Every step keeps the gates in order.
LEMMA GatesNext == Gates /\ [Next]_vars => Gates'
<1> SUFFICES ASSUME Gates, [Next]_vars
             PROVE  Gates'
  OBVIOUS
<1>1. CASE TimerEnter
  <2>1. stack = <<>> /\ ~ier'
    BY <1>1 DEF TimerEnter, Gates
  <2>2. stack' = <<"timer">>
    <3>1. <<"timer">> \o <<>> = <<"timer">>
      OBVIOUS
    <3> QED
      BY <1>1, <2>1, <3>1 DEF TimerEnter
  <2> QED
    BY <1>1, <2>1, <2>2 DEF TimerEnter, Gates
<1>2. CASE Timer
  <2>1. OpensOne /\ stack # <<>>
    BY <1>2, Zenon DEF Timer, Leave, Housekeeping, OpensOne
  <2> QED
    BY <2>1, LeaveOpensOne
<1>3. CASE PressEnter
  <2>1. stack = <<>> /\ ~semaphore
    BY <1>3 DEF PressEnter, Gates
  <2>2. stack' = <<"press">>
    <3>1. <<"press">> \o <<>> = <<"press">>
      OBVIOUS
    <3> QED
      BY <1>3, <2>1, <3>1 DEF PressEnter
  <2> QED
    BY <1>3, <2>1, <2>2 DEF PressEnter, Gates
<1>4. CASE KeyPress
  <2>1. OpensOne /\ stack # <<>>
    BY <1>4, Zenon DEF KeyPress, Leave, Housekeeping, OpensOne
  <2> QED
    BY <2>1, LeaveOpensOne
<1>5. CASE UNCHANGED <<keys, gates>>
  BY <1>5 DEF Gates, Known, keys, gates
<1>6. ASSUME NEW x, SetDelay(x)
      PROVE  UNCHANGED <<keys, gates>>
  BY <1>6 DEF SetDelay
<1>7. ASSUME NEW x, SetPeriod(x)
      PROVE  UNCHANGED <<keys, gates>>
  BY <1>7 DEF SetPeriod
<1>8. ASSUME NEW k, Down(k) \/ Up(k)
      PROVE  UNCHANGED <<keys, gates>>
  BY <1>8 DEF Down, Up
<1>9. ASSUME NEW m, Modify(m)
      PROVE  UNCHANGED <<keys, gates>>
  BY <1>9 DEF Modify
<1>10. CASE UNCHANGED vars
  BY <1>5, <1>10 DEF vars
<1> QED
  BY <1>1, <1>2, <1>3, <1>4, <1>5, <1>6, <1>7, <1>8, <1>9, <1>10 DEF Next

\* The gates are in order in every state.
LEMMA GatesInvariant == Spec => []Gates
BY GatesInit, GatesNext, PTL DEF Spec

\* The handler is never entered while it runs, although it lets interrupts
\* in at every column it scans.
THEOREM HandlerNotReentered == Spec => []OneActivation
<1>1. Gates => OneActivation
  <2>1. stack = <<>> => Len(stack) <= 1
    OBVIOUS
  <2>2. stack = <<"timer">> => Len(stack) <= 1
    OBVIOUS
  <2>3. stack = <<"press">> => Len(stack) <= 1
    OBVIOUS
  <2>4. Gates => stack = <<>> \/ stack = <<"timer">> \/ stack = <<"press">>
    BY Zenon DEF Gates
  <2> QED
    BY <2>1, <2>2, <2>3, <2>4 DEF OneActivation
<1> QED
  BY <1>1, GatesInvariant, PTL

\* Between interrupts one of the two that watch the keys can come.
THEOREM KeyboardNeverDeaf == Spec => []NeverDeaf
<1>1. Gates => NeverDeaf
  BY DEF Gates, NeverDeaf, Known
<1> QED
  BY <1>1, GatesInvariant, PTL

-----------------------------------------------------------------------------
(* The types.  State is the record the handler's subroutines pass on. *)
Record == [last : KeyNumber, first : KeyNumber, countdown : Step, count : Step,
           typed : [Key -> 0..MaxTyped]]

\* What the subroutines read besides: the matrix and the rates.
Surroundings == pressed \subseteq Key /\ delay \in Step /\ period \in Step

\* The scan finds a key: the smallest number of those that are down.
LEMMA FoundIsOther ==
    ASSUME Surroundings, NEW k \in KeyNumber, Others(k) # {}
    PROVE  Found(k) \in KeyNumber /\ Found(k).key \in Others(k)
<1> DEFINE S == Others(k)
<1>1. S \subseteq Key /\ S \subseteq Nat /\ S # {}
  <2>1. Key \subseteq Nat
    BY DEF Key
  <2>2. S \subseteq pressed
    BY DEF Others
  <2> QED
    BY <2>1, <2>2 DEF Surroundings
<1> HIDE DEF S
<1>2. \E n \in S : \A m \in S : n <= m
  <2> DEFINE Less == OpToRel(<, Nat)
  <2>1. IsWellFoundedOn(Less, Nat)
    BY NatLessThanWellFounded
  <2>2. \A x, y \in Nat : <<x, y>> \in Less <=> x < y
    BY DEF OpToRel
  <2> HIDE DEF Less
  <2>3. PICK n \in S : \A m \in S : <<m, n>> \notin Less
    BY <1>1, <2>1, WFMin
  <2>4. ASSUME NEW m \in S
        PROVE  n <= m
    <3>1. n \in Nat /\ m \in Nat /\ ~(m < n)
      BY <1>1, <2>2, <2>3
    <3> QED
      BY <3>1
  <2> QED
    BY <2>4
<1> DEFINE n == CHOOSE i \in S : \A m \in S : i <= m
<1>3. n \in S
  BY <1>2
<1>4. Found(k) = [key |-> n, down |-> FALSE]
  BY DEF Found, Fresh, S
<1> HIDE DEF n
<1>5. n \in 0..(Keys + 1)
  BY <1>1, <1>3, KeysAssumption DEF Key
<1> QED
  BY <1>3, <1>4, <1>5 DEF KeyNumber, S

\* What the handler stores for no key, and what a check leaves, are key numbers.
LEMMA KeyNumbers ==
    /\ NoKey \in KeyNumber /\ Ghost \in KeyNumber
    /\ \A k \in KeyNumber : Checked(k) \in KeyNumber /\ Checked(k).key = k.key
                            /\ (Checked(k).down <=> k.key \in pressed)
<1>1. NoKey \in KeyNumber /\ Ghost \in KeyNumber
  BY KeysAssumption DEF NoKey, Ghost, KeyNumber
<1>2. ASSUME NEW k \in KeyNumber
      PROVE  Checked(k) \in KeyNumber /\ Checked(k).key = k.key
             /\ (Checked(k).down <=> k.key \in pressed)
  <2>1. k = [key |-> k.key, down |-> k.down] /\ k.key \in 0..(Keys + 1)
    BY DEF KeyNumber
  <2>2. Checked(k) = [key |-> k.key, down |-> k.key \in pressed]
    BY <2>1 DEF Checked
  <2>3. \A b \in BOOLEAN : [key |-> k.key, down |-> b] \in KeyNumber
    BY <2>1 DEF KeyNumber
  <2>4. (k.key \in pressed) \in BOOLEAN
    OBVIOUS
  <2>5. Checked(k) \in KeyNumber
    BY <2>2, <2>3, <2>4, Zenon
  <2>6. Checked(k).key = k.key
    BY <2>2
  <2>7. Checked(k).down <=> k.key \in pressed
    <3>1. CASE k.key \in pressed
      <4>1. (k.key \in pressed) = TRUE
        BY <3>1
      <4>2. Checked(k) = [key |-> k.key, down |-> TRUE]
        BY <2>2, <4>1, Zenon
      <4> QED
        BY <3>1, <4>2
    <3>2. CASE k.key \notin pressed
      <4>1. (k.key \in pressed) = FALSE
        BY <3>2
      <4>2. Checked(k) = [key |-> k.key, down |-> FALSE]
        BY <2>2, <4>1, Zenon
      <4> QED
        BY <3>2, <4>2
    <3> QED
      BY <3>1, <3>2
  <2> QED
    BY <2>5, <2>6, <2>7, Zenon
<1> QED
  BY <1>1, <1>2, Zenon

\* Setting the two counters keeps the record's types.
LEMMA WithCountdown ==
    ASSUME NEW t \in Record, NEW x \in Step, NEW y \in Step
    PROVE  [t EXCEPT !.countdown = x, !.count = y] \in Record
BY DEF Record

\* Starting the autorepeat keeps the types.
LEMMA SetAutorepeatTypes ==
    ASSUME Surroundings, NEW t \in Record
    PROVE  SetAutorepeat(t) \in Record
<1>1. 1 \in Step
  BY DEF Step
<1> QED
  BY <1>1, WithCountdown DEF Surroundings, SetAutorepeat

\* Typing a key keeps the types.
LEMMA TypeTypes ==
    ASSUME NEW t \in Record, NEW k
    PROVE  Type(t, k) \in Record
BY DEF Type, Record, MaxTyped

\* The countdown of the autorepeat keeps the types.
LEMMA RepeatActionTypes ==
    ASSUME Surroundings, NEW t \in Record
    PROVE  RepeatAction(t) \in Record
<1> DEFINE u == [t EXCEPT !.countdown = IF t.last.key \in OneShot THEN 0 ELSE t.count,
                          !.count = period]
<1>1. u \in Record
  <2>1. t.count \in Step /\ 0 \in Step
    BY DEF Record, Step
  <2> QED
    BY <2>1, WithCountdown DEF Surroundings
<1>2. t.countdown > 1 => [t EXCEPT !.countdown = @ - 1] \in Record
  BY DEF Record, Step
<1>3. RepeatAction(t) \in {t, [t EXCEPT !.countdown = @ - 1], SetAutorepeat(u), Type(u, t.last.key)}
      /\ (RepeatAction(t) = [t EXCEPT !.countdown = @ - 1] => RepeatAction(t) = t \/ t.countdown > 1
                                 \/ RepeatAction(t) \in {SetAutorepeat(u), Type(u, t.last.key)})
  BY DEF RepeatAction
<1> HIDE DEF u
<1> QED
  BY <1>1, <1>2, <1>3, SetAutorepeatTypes, TypeTypes

\* Looking at the last key keeps the types.
LEMMA CheckLastTypes ==
    ASSUME Surroundings, NEW t \in Record
    PROVE  CheckLast(t) \in Record
<1>1. t.last \in KeyNumber
  BY DEF Record
<1>2. Checked(t.last) \in KeyNumber /\ NoKey \in KeyNumber
  BY <1>1, KeyNumbers
<1>3. \A b \in KeyNumber : [t EXCEPT !.last = b] \in Record
  BY DEF Record
<1>4. SetAutorepeat([t EXCEPT !.last = NoKey]) \in Record
  BY <1>2, <1>3, SetAutorepeatTypes
<1> QED
  BY <1>2, <1>3, <1>4, RepeatActionTypes DEF CheckLast

\* Looking at the first key keeps the types.
LEMMA CheckFirstTypes ==
    ASSUME NEW t \in Record
    PROVE  CheckFirst(t) \in Record
<1>1. t.first \in KeyNumber
  BY DEF Record
<1>2. \A b \in KeyNumber : [t EXCEPT !.first = b] \in Record
  BY DEF Record
<1> QED
  BY <1>1, <1>2, KeyNumbers DEF CheckFirst

\* The scan of the keypress interrupt keeps the types.
LEMMA ScanForPressTypes ==
    ASSUME Surroundings, NEW t \in Record
    PROVE  ScanForPress(t) \in Record
<1>1. t.first \in KeyNumber
  BY DEF Record
<1>2. \A b \in KeyNumber : [t EXCEPT !.last = b] \in Record
  BY DEF Record
<1>3. (IF Others(t.first) = {} THEN Ghost ELSE Found(t.first)) \in KeyNumber
  BY <1>1, KeyNumbers, FoundIsOther
<1> QED
  BY <1>2, <1>3, SetAutorepeatTypes DEF ScanForPress

\* The scan for a second key keeps the types.
LEMMA ScanForNextTypes ==
    ASSUME Surroundings, NEW t \in Record
    PROVE  ScanForNext(t) \in Record
<1>1. t.last \in KeyNumber
  BY DEF Record
<1>2. \A a, b \in KeyNumber : [t EXCEPT !.first = a, !.last = b] \in Record
  BY DEF Record
<1>3. Others(t.last) # {} => SetAutorepeat([t EXCEPT !.first = t.last, !.last = Found(t.last)]) \in Record
  BY <1>1, <1>2, FoundIsOther, SetAutorepeatTypes
<1> QED
  BY <1>3, ScanForPressTypes DEF ScanForNext

\* The variables the handler writes make a record of the right type.
LEMMA StateIsRecord == TypeOK => State \in Record /\ Surroundings
BY DEF TypeOK, State, Record, Surroundings

\* The state after reset has the right types.
LEMMA InitTypes == Init => TypeOK
<1> SUFFICES ASSUME Init PROVE TypeOK
  OBVIOUS
<1>1. DefaultDelay \in Step /\ DefaultPeriod \in Step /\ 0 \in Step
  BY RatesAssumption, SMTT(30) DEF Step
<1>2. NoKey \in KeyNumber /\ Fresh(1) \in KeyNumber
  BY KeysAssumption, KeyNumbers DEF Fresh, KeyNumber
<1>3. stack \in Seq({"timer", "press"})
  BY DEF Init
<1>4. semaphore \in BOOLEAN /\ ier \in BOOLEAN /\ flag \in BOOLEAN /\ modifier \in BOOLEAN
      /\ off \in BOOLEAN
  BY DEF Init
<1>5. typed \in [Key -> 0..MaxTyped] /\ pressed \subseteq Key
  BY DEF Init, MaxTyped
<1> QED
  BY <1>1, <1>2, <1>3, <1>4, <1>5 DEF Init, TypeOK

\* Leaving the handler with a record of the right type.
LEMMA LeaveTypes ==
    ASSUME TypeOK, NEW t \in Record, Leave(t), stack # <<>>,
           UNCHANGED <<rates, world, off>>, flag' \in BOOLEAN
    PROVE  TypeOK'
<1>1. stack' \in Seq({"timer", "press"})
  BY DEF Leave, TypeOK
<1>2. /\ last' \in KeyNumber /\ first' \in KeyNumber /\ countdown' \in Step
      /\ count' \in Step /\ typed' \in [Key -> 0..MaxTyped]
  BY DEF Leave, Record
<1>3. semaphore' \in BOOLEAN /\ ier' \in BOOLEAN
  BY Zenon DEF Leave, Housekeeping, TypeOK
<1> QED
  BY <1>1, <1>2, <1>3 DEF TypeOK, rates, world

\* Every step keeps the types.
LEMMA NextTypes == TypeOK /\ [Next]_vars => TypeOK'
<1> SUFFICES ASSUME TypeOK, [Next]_vars
             PROVE  TypeOK'
  OBVIOUS
<1>1. CASE TimerEnter
  <2>1. stack' \in Seq({"timer", "press"})
    BY <1>1 DEF TimerEnter, TypeOK
  <2> QED
    BY <1>1, <2>1 DEF TimerEnter, TypeOK, keys, rates, world, history
<1>2. CASE Timer
  <2> DEFINE t == CheckFirst(CheckLast(State))
  <2>1. ScanForNext(t) \in Record
    BY StateIsRecord, CheckLastTypes, CheckFirstTypes, ScanForNextTypes
  <2>2. Leave(ScanForNext(t)) /\ stack # <<>> /\ UNCHANGED <<rates, world, off>>
    BY <1>2 DEF Timer
  <2>3. flag' \in BOOLEAN
    BY <1>2, Zenon DEF Timer, TypeOK
  <2> HIDE DEF t
  <2> QED
    BY <2>1, <2>2, <2>3, LeaveTypes
<1>3. CASE PressEnter
  <2>1. stack' \in Seq({"timer", "press"})
    BY <1>3 DEF PressEnter, TypeOK
  <2> QED
    BY <1>3, <2>1 DEF PressEnter, TypeOK, keys, rates, world, history
<1>4. CASE KeyPress
  <2>1. ScanForPress(State) \in Record
    BY StateIsRecord, ScanForPressTypes
  <2>2. Leave(ScanForPress(State)) /\ stack # <<>> /\ UNCHANGED <<rates, world, off>> /\ flag' \in BOOLEAN
    BY <1>4 DEF KeyPress
  <2> QED
    BY <2>1, <2>2, LeaveTypes
<1>5. ASSUME NEW x \in Delays, SetDelay(x)
      PROVE  TypeOK'
  <2>1. delay' \in Step
    BY <1>5, RatesAssumption DEF SetDelay
  <2>2. off' \in BOOLEAN
    BY <1>5, Zenon DEF SetDelay, TypeOK
  <2>3. typed' \in [Key -> 0..MaxTyped]
    BY <1>5 DEF SetDelay, TypeOK, MaxTyped
  <2> QED
    BY <1>5, <2>1, <2>2, <2>3 DEF SetDelay, TypeOK, keys, gates, world
<1>6. ASSUME NEW x \in Periods, SetPeriod(x)
      PROVE  TypeOK'
  <2>1. delay' \in Step /\ period' \in Step
    BY <1>6, RatesAssumption, ZenonT(30) DEF SetPeriod, TypeOK, Step
  <2> QED
    BY <1>6, <2>1 DEF SetPeriod, TypeOK, keys, gates, world, history
<1>7. ASSUME NEW k \in Key, Down(k)
      PROVE  TypeOK'
  <2>1. pressed' \subseteq Key /\ typed' \in [Key -> 0..MaxTyped]
    BY <1>7 DEF Down, TypeOK, MaxTyped
  <2> QED
    BY <1>7, <2>1 DEF Down, TypeOK, keys, gates, rates
<1>8. ASSUME NEW k \in Key, Up(k)
      PROVE  TypeOK'
  BY <1>8 DEF Up, TypeOK, keys, gates, rates, history
<1>9. ASSUME NEW m \in Modified, Modify(m)
      PROVE  TypeOK'
  BY <1>9, ModifiedAssumption DEF Modify, TypeOK, keys, gates, rates, history
<1>10. CASE UNCHANGED vars
  BY <1>10 DEF vars, TypeOK, keys, gates, rates, world, history
<1> QED
  BY <1>1, <1>2, <1>3, <1>4, <1>5, <1>6, <1>7, <1>8, <1>9, <1>10 DEF Next

\* Type correctness: the key numbers are keys, none or the scan's &FF, and the
\* countdown never runs through zero.
THEOREM TypeCorrect == Spec => []TypeOK
BY InitTypes, NextTypes, PTL DEF Spec

-----------------------------------------------------------------------------
(***************************************************************************)
(* With the repeat switched off.  That no key has been typed twice is not  *)
(* inductive: a typed key must not be typed again.  What keeps it from it  *)
(* is that a key that was typed and is still down is known, either as the  *)
(* last key with its countdown over, or as the earlier one, which no scan  *)
(* finds again.                                                            *)
(***************************************************************************)
Spent(t, k) == (t.last.key = k /\ t.countdown = 0) \/ t.first.key = k

\* The two key numbers differ, so the earlier key is not typed as the last.
Apart(t) == t.last.key \in Key => t.last.key # t.first.key

\* The countdown of the last key has ended, or ends with nothing to follow it.
OneToCome(t) == t.last # NoKey => t.countdown = 0 \/ (t.countdown = 1 /\ t.count = 0)

TypedOnce(t) ==
    \A k \in Key : t.typed[k] <= 1 /\ (t.typed[k] # 0 /\ k \in pressed => Spent(t, k))

Kept(t) == OneToCome(t) /\ TypedOnce(t)

NotKeys == NoKey.key = 0 /\ ~NoKey.down /\ NoKey.key \notin Key /\ Ghost.key \notin Key

\* The numbers for no key are those of no real key.
LEMMA NoKeyIsNot == NotKeys
BY KeysAssumption DEF NotKeys, NoKey, Ghost, Key

\* What the handler writes besides the keys.
LEMMA AutorepeatLast ==
    ASSUME NEW t \in Record, NEW l
    PROVE  LET u == SetAutorepeat([t EXCEPT !.last = l])
           IN  /\ u.last = l /\ u.first = t.first /\ u.countdown = 1 /\ u.count = delay
               /\ u.typed = t.typed
BY DEF SetAutorepeat, Record

\* The same with both keys written.
LEMMA AutorepeatBoth ==
    ASSUME NEW t \in Record, NEW l, NEW f
    PROVE  LET u == SetAutorepeat([t EXCEPT !.first = f, !.last = l])
           IN  /\ u.last = l /\ u.first = f /\ u.countdown = 1 /\ u.count = delay
               /\ u.typed = t.typed
BY DEF SetAutorepeat, Record

\* Looking at the last key leaves it apart from the first one.
LEMMA CheckLastApart ==
    ASSUME NEW t \in Record, Apart(t)
    PROVE  Apart(CheckLast(t))
<1>1. t.last \in KeyNumber
  BY DEF Record
<1>2. CASE t.last = NoKey
  BY <1>2 DEF CheckLast
<1>3. CASE t.last # NoKey /\ Checked(t.last) # t.last
  <2> DEFINE u == [t EXCEPT !.last = Checked(t.last)]
  <2>1. CheckLast(t) = u
    BY <1>3 DEF CheckLast
  <2>2. u.last = Checked(t.last) /\ u.first = t.first
    BY DEF Record
  <2> QED
    BY <1>1, <2>1, <2>2, KeyNumbers DEF Apart
<1>4. CASE t.last # NoKey /\ Checked(t.last) = t.last /\ t.last.down
  <2>1. CheckLast(t) = RepeatAction(t)
    BY <1>4, Zenon DEF CheckLast
  <2>2. RepeatAction(t).last = t.last /\ RepeatAction(t).first = t.first
    BY DEF RepeatAction, SetAutorepeat, Type, Record
  <2> QED
    BY <2>1, <2>2 DEF Apart
<1>5. CASE t.last # NoKey /\ Checked(t.last) = t.last /\ ~t.last.down
  <2>1. CheckLast(t) = SetAutorepeat([t EXCEPT !.last = NoKey])
    BY <1>5, Zenon DEF CheckLast
  <2>2. CheckLast(t).last = NoKey
    BY <2>1, AutorepeatLast
  <2> QED
    BY <2>2, NoKeyIsNot DEF Apart, NotKeys
<1> QED
  BY <1>2, <1>3, <1>4, <1>5

\* Looking at the last key types none that has been typed.
LEMMA CheckLastKept ==
    ASSUME Surroundings, NEW t \in Record, Apart(t), Kept(t), delay = 0
    PROVE  Kept(CheckLast(t))
<1>1. t.last \in KeyNumber
  BY DEF Record
<1>2. CASE t.last = NoKey
  BY <1>2 DEF CheckLast
<1>3. CASE t.last # NoKey /\ Checked(t.last) # t.last
  <2> DEFINE u == [t EXCEPT !.last = Checked(t.last)]
  <2>1. CheckLast(t) = u
    BY <1>3 DEF CheckLast
  <2>2. u.last = Checked(t.last) /\ u.first = t.first /\ u.countdown = t.countdown
        /\ u.count = t.count /\ u.typed = t.typed
    BY DEF Record
  <2>3. OneToCome(u)
    BY <1>3, <2>2 DEF Kept, OneToCome
  <2>4. TypedOnce(u)
    BY <1>1, <2>2, KeyNumbers DEF Kept, TypedOnce, Spent
  <2> QED
    BY <2>1, <2>3, <2>4 DEF Kept
<1>4. CASE t.last # NoKey /\ Checked(t.last) = t.last /\ t.last.down
  <2> DEFINE n == t.last.key
             u == [t EXCEPT !.countdown = IF n \in OneShot THEN 0 ELSE t.count,
                            !.count = period]
  <2>1. CheckLast(t) = RepeatAction(t)
    BY <1>4, Zenon DEF CheckLast
  <2>2. n \in pressed /\ n \in Key
    BY <1>1, <1>4, KeyNumbers DEF Surroundings
  <2>3. t.countdown = 0 \/ (t.countdown = 1 /\ t.count = 0)
    BY <1>4 DEF Kept, OneToCome
  <2>4. CASE t.countdown = 0
    BY <2>1, <2>4 DEF RepeatAction
  <2>5. CASE t.countdown = 1 /\ modifier /\ t.first # NoKey
    <3>1. RepeatAction(t) = SetAutorepeat(u)
      BY <2>5 DEF RepeatAction
    <3>2. /\ SetAutorepeat(u).last = t.last /\ SetAutorepeat(u).first = t.first
          /\ SetAutorepeat(u).countdown = 1 /\ SetAutorepeat(u).count = delay
          /\ SetAutorepeat(u).typed = t.typed
      BY DEF SetAutorepeat, Record
    <3>3. OneToCome(SetAutorepeat(u))
      BY <3>2 DEF OneToCome
    <3>4. TypedOnce(SetAutorepeat(u))
      BY <2>5, <3>2 DEF Kept, TypedOnce, Spent
    <3> QED
      BY <2>1, <3>1, <3>3, <3>4 DEF Kept
  <2>6. CASE t.countdown = 1 /\ ~(modifier /\ t.first # NoKey)
    <3> DEFINE w == Type(u, n)
    <3>1. RepeatAction(t) = w
      BY <2>6 DEF RepeatAction
    <3>2. w.last = t.last /\ w.first = t.first /\ w.countdown = 0
      BY <2>3, <2>6 DEF Type, Record
    <3>3. \A k \in Key : k # n => w.typed[k] = t.typed[k]
      BY DEF Type, Record
    <3>4. t.typed[n] = 0
      <4>1. ~Spent(t, n)
        BY <2>2, <2>6 DEF Spent, Apart
      <4> QED
        BY <2>2, <4>1 DEF Kept, TypedOnce
    <3>5. w.typed[n] = 1
      <4>1. u.typed = t.typed
        BY DEF Record
      <4>2. u.typed \in [Key -> 0..MaxTyped]
        BY <4>1 DEF Record
      <4> HIDE DEF u
      <4> QED
        BY <2>2, <3>4, <4>1, <4>2 DEF Type, MaxTyped
    <3> HIDE DEF w
    <3>6. OneToCome(w)
      BY <3>2 DEF OneToCome
    <3>7. TypedOnce(w)
      <4>1. ASSUME NEW k \in Key, k # n
            PROVE  w.typed[k] <= 1 /\ (w.typed[k] # 0 /\ k \in pressed => Spent(w, k))
        BY <3>2, <3>3, <4>1 DEF Kept, TypedOnce, Spent
      <4> QED
        BY <3>2, <3>5, <4>1 DEF TypedOnce, Spent
    <3> QED
      BY <2>1, <3>1, <3>6, <3>7 DEF Kept
  <2> QED
    BY <2>3, <2>4, <2>5, <2>6
<1>5. CASE t.last # NoKey /\ Checked(t.last) = t.last /\ ~t.last.down
  <2> DEFINE u == SetAutorepeat([t EXCEPT !.last = NoKey])
  <2>1. CheckLast(t) = u
    BY <1>5, Zenon DEF CheckLast
  <2>2. u.last = NoKey /\ u.first = t.first /\ u.typed = t.typed
    BY AutorepeatLast
  <2>3. t.last.key \notin pressed
    BY <1>1, <1>5, KeyNumbers, Zenon
  <2> HIDE DEF u
  <2>4. TypedOnce(u)
    BY <2>2, <2>3 DEF Kept, TypedOnce, Spent
  <2> QED
    BY <2>1, <2>2, <2>4 DEF Kept, OneToCome
<1> QED
  BY <1>2, <1>3, <1>4, <1>5

\* CheckFirst forgets the earlier key only when it is up.
LEMMA CheckFirstKeeps ==
    ASSUME NEW t \in Record, Apart(t)
    PROVE  Apart(CheckFirst(t)) /\ (Kept(t) => Kept(CheckFirst(t)))
<1>1. t.first \in KeyNumber
  BY DEF Record
<1> DEFINE w == CheckFirst(t)
<1>2. w.last = t.last /\ w.countdown = t.countdown /\ w.count = t.count /\ w.typed = t.typed
  BY DEF CheckFirst, Record
<1>3. CASE t.first # NoKey /\ Checked(t.first).down
  <2>1. w = [t EXCEPT !.first = Checked(t.first)]
    BY <1>3 DEF CheckFirst
  <2>2. w.first = Checked(t.first)
    BY <2>1 DEF Record
  <2>3. w.first.key = t.first.key
    BY <1>1, <2>2, KeyNumbers
  <2> QED
    BY <1>2, <2>3 DEF Apart, Kept, OneToCome, TypedOnce, Spent
<1>4. CASE ~(t.first # NoKey /\ Checked(t.first).down)
  <2>1. w = [t EXCEPT !.first = NoKey]
    BY <1>4 DEF CheckFirst
  <2>2. w.first = NoKey
    BY <2>1 DEF Record
  <2>3. t.first.key \notin Key \/ t.first.key \notin pressed
    BY <1>1, <1>4, KeyNumbers, NoKeyIsNot DEF NotKeys
  <2> HIDE DEF w
  <2>4. Apart(w)
    BY <2>2, NoKeyIsNot DEF Apart, NotKeys
  <2>5. ASSUME Kept(t)
        PROVE  Kept(w)
    <3>1. OneToCome(w)
      BY <1>2, <2>5 DEF Kept, OneToCome
    <3>2. ASSUME NEW k \in Key
          PROVE  w.typed[k] <= 1 /\ (w.typed[k] # 0 /\ k \in pressed => Spent(w, k))
      BY <1>2, <2>3, <2>5 DEF Kept, TypedOnce, Spent
    <3> QED
      BY <3>1, <3>2 DEF Kept, TypedOnce
  <2> QED
    BY <2>4, <2>5 DEF w
<1> QED
  BY <1>3, <1>4

\* The scan of the keypress interrupt keeps the two facts.
LEMMA ScanForPressKeeps ==
    ASSUME Surroundings, NEW t \in Record, Apart(t)
    PROVE  Apart(ScanForPress(t)) /\ (Kept(t) /\ delay = 0 => Kept(ScanForPress(t)))
<1>1. CASE t.last # NoKey
  BY <1>1 DEF ScanForPress
<1>2. CASE t.last = NoKey
  <2> DEFINE l == IF Others(t.first) = {} THEN Ghost ELSE Found(t.first)
             u == SetAutorepeat([t EXCEPT !.last = l])
  <2>1. ScanForPress(t) = u
    BY <1>2 DEF ScanForPress
  <2>2. u.last = l /\ u.first = t.first /\ u.countdown = 1 /\ u.count = delay /\ u.typed = t.typed
    BY AutorepeatLast
  <2>3. l.key \notin Key \/ l.key # t.first.key
    <3>1. t.first \in KeyNumber
      BY DEF Record
    <3>2. Others(t.first) # {} => Found(t.first).key # t.first.key
      BY <3>1, FoundIsOther DEF Others
    <3> QED
      BY <3>2, NoKeyIsNot DEF NotKeys
  <2>4. t.last.key \notin Key
    BY <1>2, NoKeyIsNot DEF NotKeys
  <2> HIDE DEF u, l
  <2>5. Apart(u)
    BY <2>2, <2>3 DEF Apart
  <2>6. Kept(t) /\ delay = 0 => Kept(u)
    BY <2>2, <2>4 DEF Kept, OneToCome, TypedOnce, Spent
  <2> QED
    BY <2>1, <2>5, <2>6
<1> QED
  BY <1>1, <1>2

\* The scan for a second key keeps the two facts.
LEMMA ScanForNextKeeps ==
    ASSUME Surroundings, NEW t \in Record, Apart(t)
    PROVE  Apart(ScanForNext(t)) /\ (Kept(t) /\ delay = 0 => Kept(ScanForNext(t)))
<1>1. CASE t.first # NoKey
  BY <1>1, ScanForPressKeeps DEF ScanForNext
<1>2. CASE t.first = NoKey /\ Others(t.last) = {}
  BY <1>2 DEF ScanForNext
<1>3. CASE t.first = NoKey /\ Others(t.last) # {}
  <2> DEFINE l == Found(t.last)
             u == SetAutorepeat([t EXCEPT !.first = t.last, !.last = l])
  <2>1. ScanForNext(t) = u
    BY <1>3 DEF ScanForNext
  <2>2. u.last = l /\ u.first = t.last /\ u.countdown = 1 /\ u.count = delay /\ u.typed = t.typed
    BY AutorepeatBoth, ZenonT(30)
  <2>3. l.key # t.last.key
    <3>1. t.last \in KeyNumber
      BY DEF Record
    <3> QED
      BY <1>3, <3>1, FoundIsOther DEF Others
  <2>4. t.first.key \notin Key
    BY <1>3, NoKeyIsNot DEF NotKeys
  <2> HIDE DEF u, l
  <2>5. Apart(u)
    BY <2>2, <2>3 DEF Apart
  <2>6. Kept(t) /\ delay = 0 => Kept(u)
    BY <2>2, <2>4 DEF Kept, OneToCome, TypedOnce, Spent
  <2> QED
    BY <2>1, <2>5, <2>6
<1> QED
  BY <1>1, <1>2, <1>3

\* The invariant: the key numbers are apart, and while off holds the delay is
\* 0 and the typed keys are spent.
NoRepeat == Apart(State) /\ (off => delay = 0 /\ Kept(State))

\* After reset no key has been typed.
LEMMA NoRepeatInit == Init => NoRepeat
<1> SUFFICES ASSUME Init PROVE NoRepeat
  OBVIOUS
<1>1. State.last = NoKey /\ ~off
  BY DEF Init, State
<1> QED
  BY <1>1, NoKeyIsNot DEF NoRepeat, Apart, NotKeys

\* Leaving the handler with a record that has the invariant.
LEMMA LeaveKeeps ==
    ASSUME NEW t \in Record, Apart(t), off => delay = 0 /\ Kept(t), Leave(t),
           UNCHANGED <<rates, world, off>>
    PROVE  NoRepeat'
<1>1. /\ State'.last = t.last /\ State'.first = t.first /\ State'.countdown = t.countdown
      /\ State'.count = t.count /\ State'.typed = t.typed
  BY DEF Leave, State
<1>2. pressed' = pressed /\ delay' = delay /\ off' = off
  BY DEF world, rates
<1>3. Apart(State)'
  BY <1>1 DEF Apart
<1>4. Kept(t) => Kept(State)'
  BY <1>1, <1>2 DEF Kept, OneToCome, TypedOnce, Spent
<1> QED
  BY <1>2, <1>3, <1>4 DEF NoRepeat

\* Every step keeps typed keys from being typed again.
LEMMA NoRepeatNext == TypeOK /\ NoRepeat /\ [Next]_vars => NoRepeat'
<1> SUFFICES ASSUME TypeOK, NoRepeat, [Next]_vars
             PROVE  NoRepeat'
  OBVIOUS
<1>0. Surroundings /\ State \in Record
  BY StateIsRecord
<1>1. CASE Timer
  <2> DEFINE a == CheckLast(State)
             b == CheckFirst(a)
             c == ScanForNext(b)
  <2>1. a \in Record /\ Apart(a) /\ (off => delay = 0 /\ Kept(a))
    BY <1>0, CheckLastTypes, CheckLastApart, CheckLastKept DEF NoRepeat
  <2> HIDE DEF a
  <2>2. b \in Record /\ Apart(b) /\ (off => delay = 0 /\ Kept(b))
    BY <2>1, CheckFirstTypes, CheckFirstKeeps
  <2> HIDE DEF b
  <2>3. c \in Record /\ Apart(c) /\ (off => delay = 0 /\ Kept(c))
    BY <1>0, <2>2, ScanForNextTypes, ScanForNextKeeps
  <2>4. Leave(c) /\ UNCHANGED <<rates, world, off>>
    BY <1>1 DEF Timer, a, b
  <2> HIDE DEF c
  <2> QED
    BY <2>3, <2>4, LeaveKeeps
<1>2. CASE KeyPress
  <2> DEFINE c == ScanForPress(State)
  <2>1. c \in Record /\ Apart(c) /\ (off => delay = 0 /\ Kept(c))
    BY <1>0, ScanForPressTypes, ScanForPressKeeps DEF NoRepeat
  <2>2. Leave(c) /\ UNCHANGED <<rates, world, off>>
    BY <1>2 DEF KeyPress
  <2> HIDE DEF c
  <2> QED
    BY <2>1, <2>2, LeaveKeeps
<1>3. ASSUME UNCHANGED <<last, first, countdown, count>>
      PROVE  /\ State'.last = State.last /\ State'.first = State.first
             /\ State'.countdown = State.countdown /\ State'.count = State.count
             /\ State.typed = typed /\ State'.typed = typed'
             /\ State.last = last /\ State.first = first
  BY <1>3 DEF State
<1>4. ASSUME UNCHANGED <<keys, rates, pressed, history>>
      PROVE  NoRepeat'
  BY <1>3, <1>4 DEF NoRepeat, Apart, Kept, OneToCome, TypedOnce, Spent, keys, rates, history
<1>5. CASE TimerEnter \/ PressEnter
  BY <1>4, <1>5 DEF TimerEnter, PressEnter, world
<1>6. ASSUME NEW x \in Delays, SetDelay(x)
      PROVE  NoRepeat'
  <2>1. Apart(State)' /\ pressed' = pressed
    BY <1>3, <1>6 DEF SetDelay, NoRepeat, Apart, keys, world
  <2>2. CASE ~off'
    BY <2>1, <2>2 DEF NoRepeat
  <2>3. CASE off' /\ off
    <3>1. delay' = 0 /\ typed' = typed
      BY <1>6, <2>3, Zenon DEF SetDelay
    <3>2. Kept(State)'
      BY <1>3, <1>6, <2>1, <2>3, <3>1 DEF SetDelay, NoRepeat, Kept, OneToCome, TypedOnce, Spent, keys
    <3> QED
      BY <2>1, <3>1, <3>2 DEF NoRepeat
  <2>4. CASE off' /\ ~off
    <3>1. delay' = 0 /\ typed' = [k \in Key |-> 0] /\ AtRest
      BY <1>6, <2>4, Zenon DEF SetDelay
    <3>2. Kept(State)'
      BY <1>3, <1>6, <3>1 DEF SetDelay, AtRest, Kept, OneToCome, TypedOnce, keys
    <3> QED
      BY <2>1, <3>1, <3>2 DEF NoRepeat
  <2> QED
    BY <2>2, <2>3, <2>4
<1>7. ASSUME NEW x \in Periods, SetPeriod(x)
      PROVE  NoRepeat'
  <2>1. delay' = 0 \/ delay' = delay
    BY <1>7 DEF SetPeriod
  <2>2. UNCHANGED <<keys, pressed, history>>
    BY <1>7 DEF SetPeriod, world
  <2> QED
    BY <1>3, <2>1, <2>2 DEF NoRepeat, Apart, Kept, OneToCome, TypedOnce, Spent, keys, history
<1>8. ASSUME NEW k \in Key, Down(k)
      PROVE  NoRepeat'
  <2>1. UNCHANGED <<last, first, countdown, count>> /\ off' = off /\ delay' = delay
        /\ pressed' = pressed \cup {k}
    BY <1>8 DEF Down, keys, rates
  <2>2. typed' \in [Key -> 0..MaxTyped] /\ typed'[k] = 0 /\ \A j \in Key : j # k => typed'[j] = typed[j]
    BY <1>8 DEF Down, TypeOK, MaxTyped
  <2>3. Apart(State)'
    BY <1>3, <2>1 DEF NoRepeat, Apart
  <2>4. ASSUME off
        PROVE  Kept(State)'
    <3>1. OneToCome(State)'
      BY <1>3, <2>1, <2>4 DEF NoRepeat, Kept, OneToCome
    <3>2. ASSUME NEW j \in Key
          PROVE  typed'[j] <= 1 /\ (typed'[j] # 0 /\ j \in pressed' => Spent(State, j)')
      BY <1>3, <2>1, <2>2, <2>4 DEF NoRepeat, Kept, TypedOnce, Spent
    <3> QED
      BY <1>3, <2>1, <3>1, <3>2 DEF Kept, TypedOnce
  <2> QED
    BY <2>1, <2>3, <2>4 DEF NoRepeat
<1>9. ASSUME NEW k \in Key, Up(k)
      PROVE  NoRepeat'
  <2>1. UNCHANGED <<keys, rates, history>> /\ pressed' \subseteq pressed
    BY <1>9 DEF Up
  <2> QED
    BY <1>3, <2>1 DEF NoRepeat, Apart, Kept, OneToCome, TypedOnce, Spent, keys, rates, history
<1>10. ASSUME NEW m, Modify(m)
       PROVE  NoRepeat'
  BY <1>4, <1>10 DEF Modify
<1>11. CASE UNCHANGED vars
  BY <1>4, <1>11 DEF vars, world
<1> QED
  BY <1>1, <1>2, <1>5, <1>6, <1>7, <1>8, <1>9, <1>10, <1>11 DEF Next

\* With *FX11,0 no key is typed a second time while it is down, whatever the
\* order in which any number of keys go down and up between two ticks.
THEOREM NeverTypedTwice == Spec => []OncePerPress
<1>1. NoRepeat => OncePerPress
  BY DEF NoRepeat, OncePerPress, Kept, TypedOnce, State
<1>2. Spec => []NoRepeat
  BY NoRepeatInit, NoRepeatNext, TypeCorrect, PTL DEF Spec
<1> QED
  BY <1>1, <1>2, PTL
====
