---------------------------- MODULE FirmwareProofs ----------------------------
(***************************************************************************)
(* Theorems about two firmwares and the drivers they are built on.         *)
(*                                                                         *)
(* The rotary encoder: the debouncer of its button, for every debounce and *)
(* long-press time, every width of the millisecond counter and any spacing *)
(* of the calls; and the loop, for every ratio an i8 can hold and every    *)
(* movement of the shaft.                                                  *)
(*                                                                         *)
(* The speaker: what the parser makes of every file, whatever chunks it    *)
(* has and wherever it was cut off, and what the amplifier hears of it,    *)
(* for every size of the ring, the descriptors, the staging buffer and the *)
(* chunks of samples.                                                      *)
(***************************************************************************)
EXTENDS RotaryFirmware, Playback, FiniteSetTheorems, SequenceTheorems, WellFoundedInduction, TLAPS

-----------------------------------------------------------------------------
(* The debouncer. *)

LEMMA Division ==
  ASSUME NEW M \in Nat \ {0}, NEW x \in Nat
  PROVE  /\ x \div M \in Nat
         /\ x % M \in 0 .. M - 1
         /\ x = M * (x \div M) + (x % M)
  BY SMT

LEMMA SmallRemainder ==
  ASSUME NEW M \in Nat \ {0}, NEW d \in 0 .. M - 1
  PROVE  d % M = d
  BY SMT

LEMMA NegativeRemainder ==
  ASSUME NEW M \in Nat \ {0}, NEW d \in -(M - 1) .. -1
  PROVE  d % M = d + M
  BY SMT

LEMMA ProductGrows ==
  ASSUME NEW M \in Nat \ {0}, NEW a \in Int, NEW b \in Int, a >= b + 1
  PROVE  M * a >= M * b + M
  BY SMT

\* The difference of two truncated times never exceeds the real one: what the
\* code sees as old enough is old enough.
LEMMA TruncatedAgeIsSafe ==
  ASSUME NEW x \in Nat, NEW y \in Nat, y <= x
  PROVE  wrapping_sub(now_ms(x), now_ms(y)) <= x - y
<1> DEFINE M == ClockModulus
           qx == x \div M
           qy == y \div M
           rx == x % M
           ry == y % M
<1>1. M \in Nat \ {0}
  BY ButtonAssumption
<1>2. /\ qx \in Nat /\ rx \in 0 .. M - 1 /\ x = M * qx + rx
      /\ qy \in Nat /\ ry \in 0 .. M - 1 /\ y = M * qy + ry
  BY <1>1, Division
<1>3. M * qx \in Int /\ M * qy \in Int
  BY <1>1, <1>2
<1> HIDE DEF M, qx, qy, rx, ry
<1>4. CASE rx >= ry
  <2>1. (rx - ry) % M = rx - ry
    BY <1>1, <1>2, <1>4, SmallRemainder
  <2>2. qx >= qy
    <3>1. SUFFICES ASSUME qy >= qx + 1 PROVE FALSE
      BY <1>2
    <3>2. M * qy >= M * qx + M
      BY <1>1, <1>2, <3>1, ProductGrows
    <3> QED
      BY <1>1, <1>2, <1>3, <3>2
  <2>3. M * qx >= M * qy
    <3>1. CASE qx = qy
      BY <1>3, <3>1
    <3>2. CASE qx >= qy + 1
      BY <1>1, <1>2, <1>3, <3>2, ProductGrows
    <3> QED
      BY <1>2, <2>2, <3>1, <3>2
  <2> QED
    BY <1>1, <1>2, <1>3, <2>1, <2>3 DEF wrapping_sub, now_ms, M, rx, ry
<1>5. CASE rx < ry
  <2>1. (rx - ry) % M = rx - ry + M
    BY <1>1, <1>2, <1>5, NegativeRemainder
  <2>2. qx >= qy + 1
    <3>1. SUFFICES ASSUME qy >= qx PROVE FALSE
      BY <1>2
    <3>2. M * qy >= M * qx
      <4>1. CASE qy = qx
        BY <1>3, <4>1
      <4>2. CASE qy >= qx + 1
        BY <1>1, <1>2, <1>3, <4>2, ProductGrows
      <4> QED
        BY <1>2, <3>1, <4>1, <4>2
    <3> QED
      BY <1>1, <1>2, <1>3, <1>5, <3>2
  <2>3. M * qx >= M * qy + M
    BY <1>1, <1>2, <2>2, ProductGrows
  <2> QED
    BY <1>1, <1>2, <1>3, <2>1, <2>3 DEF wrapping_sub, now_ms, M, rx, ry
<1> QED
  BY <1>2, <1>4, <1>5

-----------------------------------------------------------------------------
\* The inductive invariant: the times the code keeps are the real ones it
\* stands for, truncated.

ButtonInv ==
  /\ ButtonTypeOK
  /\ candidate = raw
  /\ changed_at = now_ms(run_start)
  /\ stable => pressed_at = now_ms(confirmed)

LEMMA TruncatedInRange ==
  ASSUME NEW x \in Nat
  PROVE  now_ms(x) \in 0 .. ClockModulus - 1
  BY ButtonAssumption, Division DEF now_ms

LEMMA InitButtonInv == ButtonInit => ButtonInv
<1>1. now_ms(0) = 0
  BY ButtonAssumption, SmallRemainder DEF now_ms
<1> SUFFICES ASSUME ButtonInit PROVE ButtonInv
  OBVIOUS
<1>2. ButtonTypeOK
  <2>1. /\ stable \in BOOLEAN /\ candidate \in BOOLEAN
        /\ long_press_sent \in BOOLEAN /\ raw \in BOOLEAN
    BY DEF ButtonInit
  <2>2. event \in Events
    BY DEF ButtonInit, Events
  <2>3. clock = 0 /\ changed_at = 0 /\ pressed_at = 0 /\ run_start = 0 /\ confirmed = 0
    BY DEF ButtonInit
  <2>4. 0 \in 0 .. ClockModulus - 1 /\ 0 \in 0 .. 0
    BY ButtonAssumption
  <2> QED
    BY <2>1, <2>2, <2>3, <2>4 DEF ButtonTypeOK
<1>3. /\ candidate = raw
      /\ changed_at = now_ms(run_start)
      /\ ~stable
  BY <1>1 DEF ButtonInit
<1> QED
  BY <1>2, <1>3 DEF ButtonInv

\* Every call, at any later time, keeps the invariant.
LEMMA UpdateKeepsButtonInv ==
  ASSUME ButtonInv, NEW pressed \in BOOLEAN, NEW t \in Nat, t >= clock, update(pressed, t)
  PROVE  ButtonInv'
<1> DEFINE now == now_ms(t)
<1>1. now \in 0 .. ClockModulus - 1
  BY TruncatedInRange
<1> HIDE DEF now
<1>2. Observe(pressed, t)
  BY DEF update
<1>3. clock' = t /\ raw' = pressed /\ run_start' \in 0 .. t /\ confirmed' \in 0 .. t
  BY <1>2 DEF Observe, ButtonInv, ButtonTypeOK
<1>4. CASE NewLevel(pressed, now)
  <2>1. run_start' = t /\ confirmed' = confirmed
    BY <1>2, <1>4 DEF NewLevel, Observe, ButtonInv, None, Pressed
  <2> QED
    BY <1>1, <1>3, <1>4, <2>1 DEF NewLevel, ButtonInv, ButtonTypeOK, Events, now
<1>5. CASE Settling(pressed, now)
  <2>1. run_start' = run_start /\ confirmed' = confirmed
    BY <1>2, <1>5 DEF Settling, Observe, ButtonInv, None, Pressed
  <2> QED
    BY <1>1, <1>3, <1>5, <2>1 DEF Settling, code, ButtonInv, ButtonTypeOK, Events
<1>6. CASE Confirm(pressed, now)
  <2>1. run_start' = run_start
    BY <1>2, <1>6 DEF Confirm, Observe, ButtonInv
  <2>2. CASE pressed
    <3>1. confirmed' = t
      BY <1>2, <1>6, <2>2 DEF Confirm, Observe
    <3> QED
      BY <1>1, <1>3, <1>6, <2>1, <2>2, <3>1 DEF Confirm, ButtonInv, ButtonTypeOK, Events, now
  <2>3. CASE ~pressed
    BY <1>1, <1>3, <1>6, <2>1, <2>3 DEF Confirm, ButtonInv, ButtonTypeOK, Events
  <2> QED
    BY <2>2, <2>3
<1>7. CASE Hold(pressed, now)
  <2>1. run_start' = run_start /\ confirmed' = confirmed
    BY <1>2, <1>7 DEF Hold, Observe, ButtonInv, None, LongPress, Pressed
  <2> QED
    BY <1>1, <1>3, <1>7, <2>1 DEF Hold, ButtonInv, ButtonTypeOK, Events
<1> QED
  BY <1>4, <1>5, <1>6, <1>7 DEF update, now

\* Every step of ButtonNext is such a call.
LEMMA NextIsUpdate ==
  ASSUME ButtonInv, ButtonNext
  PROVE  \E pressed \in BOOLEAN, t \in Nat : t >= clock /\ update(pressed, t)
  BY ButtonAssumption DEF ButtonNext, ButtonInv, ButtonTypeOK

LEMMA NextKeepsButtonInv == ButtonInv /\ [ButtonNext]_button_vars => ButtonInv'
<1> SUFFICES ASSUME ButtonInv, [ButtonNext]_button_vars PROVE ButtonInv'
  OBVIOUS
<1>1. CASE ButtonNext
  BY <1>1, NextIsUpdate, UpdateKeepsButtonInv
<1>2. CASE UNCHANGED button_vars
  BY <1>2 DEF button_vars, ButtonInv, ButtonTypeOK
<1> QED
  BY <1>1, <1>2

LEMMA ButtonInvAlways == ButtonSpec => []ButtonInv
  BY InitButtonInv, NextKeepsButtonInv, PTL DEF ButtonSpec

\* The debouncer's variables keep their types.
THEOREM ButtonTypeCorrect == ButtonSpec => []ButtonTypeOK
<1>1. ButtonInv => ButtonTypeOK
  BY DEF ButtonInv
<1> QED
  BY ButtonInvAlways, <1>1, PTL

-----------------------------------------------------------------------------
\* What a step may not do.

\* A level is believed only after debounce_ms of real time without a sample of
\* the other level, wherever in its range the counter is.
THEOREM NeverBelievedEarly == ButtonSpec => BelievedOnlyWhenSettled
<1> DEFINE A == stable' # stable =>
                  /\ raw = stable' /\ raw' = stable'
                  /\ clock' - run_start >= debounce_ms
<1>1. ASSUME ButtonInv, [ButtonNext]_button_vars PROVE [A]_button_vars
  <2>1. SUFFICES ASSUME NEW pressed \in BOOLEAN, NEW t \in Nat, t >= clock,
                        update(pressed, t), stable' # stable
                 PROVE  A
    BY <1>1, NextIsUpdate
  <2>2. Confirm(pressed, now_ms(t))
    BY <2>1 DEF update, NewLevel, Settling, Hold, code
  <2>3. raw = pressed /\ stable' = pressed /\ raw' = pressed /\ clock' = t
    BY <1>1, <2>1, <2>2 DEF update, Observe, Confirm, ButtonInv
  <2>4. wrapping_sub(now_ms(t), now_ms(run_start)) >= debounce_ms
    BY <1>1, <2>2 DEF Confirm, Settled, ButtonInv
  <2>5. run_start \in Nat /\ run_start <= t
    BY <1>1, <2>1 DEF ButtonInv, ButtonTypeOK
  <2>6. wrapping_sub(now_ms(t), now_ms(run_start)) <= t - run_start
    BY <2>5, TruncatedAgeIsSafe
  <2>7. wrapping_sub(now_ms(t), now_ms(run_start)) \in Int
    BY ButtonAssumption, <2>1, <2>5, TruncatedInRange DEF wrapping_sub
  <2> QED
    BY <2>3, <2>4, <2>5, <2>6, <2>7, ButtonAssumption
<1> QED
  BY <1>1, ButtonInvAlways, PTL DEF ButtonSpec, BelievedOnlyWhenSettled

\* A long press is reported only for a key that is down, at least long_press_ms
\* of real time after the press was confirmed.
THEOREM NeverLongEarly == ButtonSpec => LongPressOnlyWhenHeld
<1> DEFINE A == event' = LongPress =>
                  raw' /\ stable /\ clock' - confirmed >= long_press_ms
<1>1. ASSUME ButtonInv, [ButtonNext]_button_vars PROVE [A]_button_vars
  <2>1. SUFFICES ASSUME ButtonNext, event' = LongPress PROVE A
    BY <1>1
  <2>2. PICK pressed \in BOOLEAN, t \in Nat : t >= clock /\ update(pressed, t)
    BY <1>1, <2>1, NextIsUpdate
  <2>3. Hold(pressed, now_ms(t)) /\ LongPressDue(now_ms(t))
    BY <2>1, <2>2 DEF update, NewLevel, Settling, Confirm, Hold,
                      None, Pressed, Released, LongPress
  <2>4. stable /\ raw' /\ clock' = t
    BY <2>2, <2>3 DEF update, Observe, Hold, LongPressDue
  <2>5. confirmed \in Nat /\ confirmed <= t
    BY <1>1, <2>2 DEF ButtonInv, ButtonTypeOK
  <2>6. wrapping_sub(now_ms(t), now_ms(confirmed)) >= long_press_ms
    BY <1>1, <2>3 DEF LongPressDue, ButtonInv
  <2>7. wrapping_sub(now_ms(t), now_ms(confirmed)) <= t - confirmed
    BY <2>5, <2>2, TruncatedAgeIsSafe
  <2>8. wrapping_sub(now_ms(t), now_ms(confirmed)) \in Int
    BY ButtonAssumption, <2>2, <2>5, TruncatedInRange DEF wrapping_sub
  <2> QED
    BY <2>4, <2>5, <2>6, <2>7, <2>8, ButtonAssumption
<1> QED
  BY <1>1, ButtonInvAlways, PTL DEF ButtonSpec, LongPressOnlyWhenHeld

-----------------------------------------------------------------------------
\* What must have been reported.

\* A difference shorter than the counter's range is not changed by truncation.
LEMMA TruncatedAgeIsExact ==
  ASSUME NEW x \in Nat, NEW y \in Nat, y <= x, x - y < ClockModulus
  PROVE  wrapping_sub(now_ms(x), now_ms(y)) = x - y
<1> DEFINE M == ClockModulus
           qx == x \div M
           qy == y \div M
           rx == x % M
           ry == y % M
<1>1. M \in Nat \ {0}
  BY ButtonAssumption
<1>2. /\ qx \in Nat /\ rx \in 0 .. M - 1 /\ x = M * qx + rx
      /\ qy \in Nat /\ ry \in 0 .. M - 1 /\ y = M * qy + ry
  BY <1>1, Division
<1>3. M * qx \in Int /\ M * qy \in Int
  BY <1>1, <1>2
<1>4. wrapping_sub(now_ms(x), now_ms(y)) = (rx - ry) % M
  BY DEF wrapping_sub, now_ms
<1>5. y <= x /\ x - y < M
  OBVIOUS
<1> HIDE DEF M, qx, qy, rx, ry
<1>6. CASE qx = qy
  BY <1>1, <1>2, <1>3, <1>4, <1>5, <1>6, SmallRemainder
<1>7. CASE qx = qy + 1
  <2>1. M * qx = M * qy + M
    BY <1>1, <1>2, <1>7
  <2>2. rx - ry \in -(M - 1) .. -1 /\ x - y = rx - ry + M
    BY <1>1, <1>2, <1>3, <1>5, <2>1
  <2> QED
    BY <1>1, <1>4, <2>2, NegativeRemainder
<1>8. CASE qx >= qy + 2
  <2>1. M * qx >= M * (qy + 1) + M
    BY <1>1, <1>2, <1>8, ProductGrows
  <2>2. M * (qy + 1) = M * qy + M
    BY <1>1, <1>2
  <2> QED
    BY <1>1, <1>2, <1>3, <1>5, <2>1, <2>2
<1>9. CASE qx < qy
  <2>1. M * qy >= M * qx + M
    BY <1>1, <1>2, <1>9, ProductGrows
  <2> QED
    BY <1>1, <1>2, <1>3, <1>5, <2>1
<1> QED
  BY <1>2, <1>6, <1>7, <1>8, <1>9

\* A level that has lasted is believed at the next call, if the calls come often
\* enough for the counter not to lap.
LEMMA UpdateBelieves ==
  ASSUME ButtonInv, BelievedWhenSettled, NEW pressed \in BOOLEAN, NEW t \in Nat,
         t >= clock, t - clock <= MaxGap, update(pressed, t)
  PROVE  BelievedWhenSettled'
<1>1. Observe(pressed, t) /\ clock' = t /\ raw' = pressed
  BY DEF update, Observe
<1>2. SUFFICES ASSUME MaxGap + debounce_ms <= ClockModulus, stable' # pressed, t # run_start'
               PROVE  t - run_start' < debounce_ms
  BY <1>1 DEF BelievedWhenSettled
<1>3. pressed = raw /\ run_start' = run_start
  BY <1>1, <1>2 DEF Observe
<1>4. Settling(pressed, now_ms(t)) /\ stable # raw
  BY <1>2, <1>3 DEF update, NewLevel, Confirm, Hold, Settling, ButtonInv
<1>5. clock - run_start < debounce_ms \/ clock = run_start
  BY <1>2, <1>4 DEF BelievedWhenSettled
<1>6. /\ clock \in Nat /\ run_start \in 0 .. clock
      /\ debounce_ms \in 0 .. ClockModulus - 1 /\ ClockModulus \in Nat /\ MaxGap \in Nat
  BY ButtonAssumption DEF ButtonInv, ButtonTypeOK
<1>7. ~(wrapping_sub(now_ms(t), now_ms(run_start)) >= debounce_ms)
  BY <1>4 DEF Settling, Settled, ButtonInv
<1>8. CASE t - run_start < ClockModulus
  BY <1>3, <1>6, <1>7, <1>8, TruncatedAgeIsExact
<1>9. CASE t - run_start >= ClockModulus
  <2>1. debounce_ms = 0
    BY <1>2, <1>5, <1>6, <1>9
  <2>2. wrapping_sub(now_ms(t), now_ms(run_start)) >= 0
    <3>1. now_ms(t) \in Nat /\ now_ms(run_start) \in Nat
      BY <1>6, TruncatedInRange
    <3>2. (now_ms(t) - now_ms(run_start)) % ClockModulus \in 0 .. ClockModulus - 1
      BY <1>6, <3>1
    <3> QED
      BY <1>6, <3>2 DEF wrapping_sub
  <2> QED
    BY <1>7, <2>1, <2>2
<1> QED
  BY <1>6, <1>8, <1>9

\* A hold that has lasted has been reported by its next call.
LEMMA UpdateReportsHold ==
  ASSUME ButtonInv, NEW pressed \in BOOLEAN, NEW t \in Nat, t >= clock, update(pressed, t)
  PROVE  LongPressWhenHeld'
<1>1. Observe(pressed, t) /\ clock' = t /\ raw' = pressed
  BY DEF update, Observe
<1>2. SUFFICES ASSUME stable', pressed, t - confirmed' \in long_press_ms .. ClockModulus - 1,
                      t > confirmed', t > run_start'
               PROVE  long_press_sent'
  BY <1>1 DEF LongPressWhenHeld
<1>3. pressed = raw
  <2>1. CASE pressed # raw
    <3>1. run_start' = t
      BY <1>1, <2>1 DEF Observe
    <3> QED
      BY <1>2, <3>1
  <2> QED
    BY <2>1
<1>4. event' # Pressed /\ confirmed' = confirmed
  <2>1. CASE event' = Pressed
    <3>1. confirmed' = t
      BY <1>1, <2>1 DEF Observe
    <3> QED
      BY <1>2, <3>1
  <2> QED
    BY <1>1, <2>1 DEF Observe
<1>5. Hold(pressed, now_ms(t)) /\ stable
  BY <1>2, <1>3, <1>4 DEF update, NewLevel, Settling, Confirm, Hold, code, ButtonInv
<1>6. CASE LongPressDue(now_ms(t))
  BY <1>5, <1>6 DEF Hold
<1>7. CASE ~LongPressDue(now_ms(t))
  <2>1. confirmed \in Nat /\ confirmed <= t
    BY DEF ButtonInv, ButtonTypeOK
  <2>2. wrapping_sub(now_ms(t), now_ms(confirmed)) = t - confirmed
    BY <1>2, <1>4, <2>1, TruncatedAgeIsExact, ButtonAssumption
  <2>3. wrapping_sub(now_ms(t), pressed_at) >= long_press_ms
    BY <1>2, <1>4, <1>5, <2>1, <2>2, ButtonAssumption DEF ButtonInv
  <2> QED
    BY <1>5, <1>7, <2>3 DEF LongPressDue, Hold
<1> QED
  BY <1>6, <1>7

\* Levels and holds are reported when they are due: for every pair of times and
\* every modulus, wherever the counter wraps.
THEOREM ReportedInTime == ButtonSpec => []ReportedWhenDue
<1>1. ButtonInit => ReportedWhenDue
  BY DEF ButtonInit, ReportedWhenDue, BelievedWhenSettled, LongPressWhenHeld
<1>2. ButtonInv /\ ReportedWhenDue /\ [ButtonNext]_button_vars => ReportedWhenDue'
  <2> SUFFICES ASSUME ButtonInv, ReportedWhenDue, [ButtonNext]_button_vars PROVE ReportedWhenDue'
    OBVIOUS
  <2>1. CASE ButtonNext
    <3>1. PICK pressed \in BOOLEAN, t \in Nat :
              t >= clock /\ t - clock <= MaxGap /\ update(pressed, t)
      BY <2>1, ButtonAssumption DEF ButtonNext, ButtonInv, ButtonTypeOK
    <3> QED
      BY <3>1, UpdateBelieves, UpdateReportsHold DEF ReportedWhenDue
  <2>2. CASE UNCHANGED button_vars
    BY <2>2 DEF button_vars, ReportedWhenDue, BelievedWhenSettled, LongPressWhenHeld
  <2> QED
    BY <2>1, <2>2
<1> QED
  BY <1>1, <1>2, ButtonInvAlways, PTL DEF ButtonSpec

-----------------------------------------------------------------------------
\* Refinement: what the caller sees is a run of the button protocol.
THEOREM KeepsPromise == ButtonSpec => PromiseSpec
<1>1. ButtonInit => Promise!Init
  BY DEF ButtonInit, Promise!Init, phase, None
<1>2. ASSUME ButtonInv, [ButtonNext]_button_vars PROVE [Promise!Next]_<<phase, event>>
  <2>1. CASE UNCHANGED button_vars
    BY <2>1 DEF button_vars, phase
  <2>2. CASE ButtonNext
    <3>1. PICK pressed \in BOOLEAN, t \in Nat : t >= clock /\ update(pressed, t)
      BY <1>2, <2>2, NextIsUpdate
    <3>2. CASE NewLevel(pressed, now_ms(t)) \/ Settling(pressed, now_ms(t))
      BY <3>2 DEF NewLevel, Settling, code, phase, None, Promise!Next, Promise!Quiet
    <3>3. CASE Confirm(pressed, now_ms(t)) /\ pressed
      <4>1. phase = "up" /\ phase' = "down" /\ event' = "Pressed"
        BY <1>2, <3>3 DEF ButtonInv, ButtonTypeOK, Confirm, phase, Pressed
      <4> QED
        BY <4>1 DEF Promise!Next, Promise!Press
    <3>4. CASE Confirm(pressed, now_ms(t)) /\ ~pressed
      <4>1. phase \in {"down", "held"} /\ phase' = "up" /\ event' = "Released"
        BY <1>2, <3>4 DEF ButtonInv, ButtonTypeOK, Confirm, phase, Released
      <4> QED
        BY <4>1 DEF Promise!Next, Promise!Release
    <3>5. CASE Hold(pressed, now_ms(t)) /\ LongPressDue(now_ms(t))
      <4>1. phase = "down" /\ phase' = "held" /\ event' = "LongPress"
        BY <1>2, <3>5 DEF ButtonInv, ButtonTypeOK, Hold, LongPressDue, phase, LongPress
      <4> QED
        BY <4>1 DEF Promise!Next, Promise!Long
    <3>6. CASE Hold(pressed, now_ms(t)) /\ ~LongPressDue(now_ms(t))
      BY <3>6 DEF Hold, phase, None, Promise!Next, Promise!Quiet
    <3> QED
      BY <3>1, <3>2, <3>3, <3>4, <3>5, <3>6 DEF update
  <2> QED
    BY <1>2, <2>1, <2>2
<1>3. QED
  BY <1>1, <1>2, ButtonInvAlways, PTL DEF ButtonSpec, PromiseSpec, Promise!Spec, Promise!vars

-----------------------------------------------------------------------------
(* The loop. *)

per_detent == E!transitions_per_detent

\* The sample the contacts show at a place of the shaft.
Contacts(place) == E!Sample(S1(place), S2(place))

\* The inductive invariant: the counted transitions are in the position or
\* pending; they are how far the samples have moved from the baseline, exactly
\* or, once a transition was missed, modulo two; and until one was, the pending
\* ones are how far the samples have moved from the last step.
Types ==
  /\ state \in 0 .. 3 \cup {-1}
  /\ accumulator \in -(per_detent - 1) .. per_detent - 1
  /\ transitions \in Int
  /\ position \in Int
  /\ shaft \in Int /\ sampled \in Int /\ origin \in Int /\ at_step \in Int
  /\ missed \in BOOLEAN

Tracking ==
  /\ transitions = per_detent * position + accumulator
  /\ state # -1 =>
       /\ state = Contacts(sampled)
       /\ (transitions - (sampled - origin)) % 2 = 0
       /\ ~missed => /\ transitions = sampled - origin
                     /\ accumulator = sampled - at_step
  /\ state = -1 => transitions = 0 /\ accumulator = 0 /\ position = 0

IInv == Types /\ Tracking

LEMMA RatioPositive == per_detent \in 1 .. 127
  BY FirmwareAssumption DEF per_detent, E!transitions_per_detent

LEMMA ContactsRange ==
  ASSUME NEW place \in Int
  PROVE  Contacts(place) \in 0 .. 3 /\ S1(place) \in {0, 1} /\ S2(place) \in {0, 1}
  BY DEF Contacts, E!Sample, S1, S2

\* Between neighbouring places of the shaft the table reads the movement.
LEMMA TableReadsMovement ==
  ASSUME NEW x \in Int, NEW y \in Int, Distance(y, x) <= 1
  PROVE  E!Delta(Contacts(x), Contacts(y)) = y - x
<1>1. y = x \/ y = x + 1 \/ y = x - 1
  BY DEF Distance
<1>2. x % 4 \in 0 .. 3
  OBVIOUS
<1>3. CASE y = x
  BY <1>2, <1>3 DEF E!Delta, Contacts, E!Sample, S1, S2
<1>4. CASE y = x + 1
  BY <1>2, <1>4 DEF E!Delta, Contacts, E!Sample, S1, S2
<1>5. CASE y = x - 1
  BY <1>2, <1>5 DEF E!Delta, Contacts, E!Sample, S1, S2
<1> QED
  BY <1>1, <1>3, <1>4, <1>5

\* However far apart they are, it reads the movement modulo two.
LEMMA TableReadsParity ==
  ASSUME NEW x \in Int, NEW y \in Int
  PROVE  /\ E!Delta(Contacts(x), Contacts(y)) \in {-1, 0, 1}
         /\ (E!Delta(Contacts(x), Contacts(y)) - (y - x)) % 2 = 0
<1>1. x % 4 \in 0 .. 3 /\ y % 4 \in 0 .. 3
  OBVIOUS
<1>2. (y - x) % 2 = ((y % 4) - (x % 4)) % 2
  OBVIOUS
<1>3. E!Delta(Contacts(x), Contacts(y)) \in {-1, 0, 1}
  BY DEF E!Delta
<1>4. (E!Delta(Contacts(x), Contacts(y)) - ((y % 4) - (x % 4))) % 2 = 0
  BY <1>1 DEF E!Delta, Contacts, E!Sample, S1, S2
<1> QED
  BY <1>1, <1>2, <1>3, <1>4

\* What a movement reports and what it leaves pending add up to the sum.
LEMMA OutcomeSplits ==
  ASSUME NEW sum \in -per_detent .. per_detent
  PROVE  LET out  == E!Outcome(sum)
             left == IF out = E!None THEN sum ELSE 0
         IN  /\ left \in -(per_detent - 1) .. per_detent - 1
             /\ E!Direction(out) \in {-1, 0, 1}
             /\ sum = per_detent * E!Direction(out) + left
             /\ out = E!None <=> E!Direction(out) = 0
             /\ out # E!None => sum \in {-per_detent, per_detent}
<1> USE RatioPositive DEF E!Outcome, E!Direction, E!None, E!Clockwise, E!CounterClockwise, per_detent
<1>1. CASE sum >= per_detent
  BY <1>1
<1>2. CASE sum <= -per_detent
  BY <1>2
<1>3. CASE ~(sum >= per_detent) /\ ~(sum <= -per_detent)
  BY <1>3
<1> QED
  BY <1>1, <1>2, <1>3

-----------------------------------------------------------------------------
LEMMA InitIInv == Init => IInv
<1> SUFFICES ASSUME Init PROVE IInv
  OBVIOUS
<1>1. per_detent * 0 = 0
  BY RatioPositive
<1>2. missed \in BOOLEAN
  BY DEF Init
<1>3. Types
  BY <1>2, RatioPositive DEF Init, E!Init, Types, E!NoSample
<1>4. Tracking
  BY <1>1 DEF Init, E!Init, Tracking, E!NoSample
<1> QED
  BY <1>3, <1>4 DEF IInv

LEMMA TurnKeepsIInv == IInv /\ Turn => IInv'
  BY DEF IInv, Types, Tracking, Turn, encoder_vars, shaft_history

\* The first sample after a reset is the new baseline.
LEMMA BaselineKeepsIInv ==
  ASSUME IInv, PollEncoder, state = -1
  PROVE  IInv' /\ position' = position
<1>1. Contacts(shaft) \in 0 .. 3
  BY ContactsRange DEF IInv, Types
<1>2. E!Ignore(Contacts(shaft))
  BY DEF PollEncoder, E!update, E!Move, E!NoSample, Contacts
<1>3. /\ state' = Contacts(shaft)
      /\ UNCHANGED <<accumulator, transitions, shaft>>
      /\ position' = position + 0
      /\ sampled' = shaft /\ origin' = shaft /\ at_step' = shaft
      /\ missed' = FALSE
  BY <1>2 DEF E!Ignore, PollEncoder, E!NoSample, E!None, E!Direction, E!Clockwise, E!CounterClockwise
<1>4. sampled' - origin' = 0 /\ sampled' - at_step' = 0
  BY <1>3 DEF IInv, Types
<1>5. transitions' = 0 /\ accumulator' = 0 /\ position' = 0 /\ position' = position
  BY <1>3 DEF IInv, Tracking
<1>6. per_detent * 0 = 0
  BY RatioPositive
<1>7. Types'
  BY <1>1, <1>3, <1>5, RatioPositive DEF IInv, Types
<1>8. Tracking'
  BY <1>1, <1>3, <1>4, <1>5, <1>6 DEF Tracking
<1> QED
  BY <1>5, <1>7, <1>8 DEF IInv

\* A later sample is counted modulo two, and as exactly the distance the shaft
\* has moved unless that is two or more; a report is worth a detent.
LEMMA SampleKeepsIInv ==
  ASSUME IInv, PollEncoder, state # -1
  PROVE  /\ IInv'
         /\ ~missed' /\ position' # position =>
              /\ Distance(position', position) = 1
              /\ Distance(sampled', at_step) = per_detent
<1> DEFINE moved == shaft - sampled
           delta == E!Delta(state, Contacts(shaft))
           dir   == E!Direction(step')
<1>1. Types /\ Tracking /\ Contacts(shaft) \in 0 .. 3
  BY ContactsRange DEF IInv, Types
<1>2. delta \in {-1, 0, 1} /\ (delta - moved) % 2 = 0
  BY <1>1, TableReadsParity DEF Types, Tracking
<1>3. /\ sampled' = shaft /\ shaft' = shaft /\ origin' = origin
      /\ at_step' = IF step' # E!None THEN shaft ELSE at_step
      /\ position' = position + dir
      /\ missed' = (missed \/ Distance(shaft, sampled) > 1)
  BY DEF PollEncoder, E!NoSample
<1>4. ~missed' => ~missed /\ delta = moved
  <2>1. SUFFICES ASSUME ~missed' PROVE ~missed /\ delta = moved
    OBVIOUS
  <2>2. ~missed /\ ~(Distance(shaft, sampled) > 1)
    BY <1>3, <2>1
  <2>3. Distance(shaft, sampled) <= 1
    BY <1>1, <2>2 DEF Types, Distance
  <2> QED
    BY <1>1, <2>2, <2>3, TableReadsMovement DEF Types, Tracking
\* Ignore counts and reports nothing, which is what Move does with delta 0.
<1>5. /\ state' = Contacts(shaft)
      /\ transitions' = transitions + delta
      /\ accumulator' \in -(per_detent - 1) .. per_detent - 1
      /\ dir \in {-1, 0, 1}
      /\ accumulator + delta = per_detent * dir + accumulator'
      /\ step' = E!None <=> dir = 0
      /\ step' # E!None => accumulator' = 0 /\ accumulator + delta \in {-per_detent, per_detent}
  <2>1. CASE E!Ignore(Contacts(shaft))
    <3>1. /\ delta = 0 /\ state' = Contacts(shaft) /\ step' = E!None
          /\ UNCHANGED <<accumulator, transitions>>
      BY <2>1 DEF E!Ignore, E!NoSample
    <3>2. dir = 0
      BY <3>1 DEF E!Direction, E!None, E!Clockwise, E!CounterClockwise
    <3> HIDE DEF delta, dir
    <3>3. per_detent * dir = 0
      BY <3>2, RatioPositive
    <3> QED
      BY <1>1, <3>1, <3>2, <3>3 DEF Types
  <2>2. CASE E!Move(Contacts(shaft))
    <3>1. /\ state' = Contacts(shaft)
          /\ transitions' = transitions + delta
          /\ step' = E!Outcome(accumulator + delta)
          /\ accumulator' = IF step' = E!None THEN accumulator + delta ELSE 0
      BY <2>2 DEF E!Move
    <3> HIDE DEF delta
    <3>2. accumulator + delta \in -per_detent .. per_detent
      BY <1>1, <1>2, RatioPositive DEF Types
    <3> QED
      BY <3>1, <3>2, OutcomeSplits
  <2> QED
    BY <2>1, <2>2 DEF PollEncoder, E!update, Contacts
<1> HIDE DEF delta, dir
<1>6. /\ per_detent * (position + dir) = per_detent * position + per_detent * dir
      /\ per_detent * position \in Int /\ per_detent * dir \in Int
  BY <1>1, <1>5, RatioPositive DEF Types
<1>7. transitions' = per_detent * position' + accumulator'
  <2>1. transitions + delta = per_detent * position + (accumulator + delta)
    BY <1>1, <1>2, <1>6 DEF Types, Tracking
  <2>2. transitions + delta = per_detent * position + per_detent * dir + accumulator'
    BY <1>5, <1>6, <2>1
  <2> QED
    BY <1>3, <1>5, <1>6, <2>2
<1>8. (transitions' - (sampled' - origin')) % 2 = 0
  BY <1>1, <1>2, <1>3, <1>5 DEF Types, Tracking
<1>9. ~missed' => /\ transitions' = sampled' - origin'
                  /\ accumulator' = sampled' - at_step'
                  /\ accumulator + delta = sampled' - at_step
  <2>1. SUFFICES ASSUME ~missed'
                 PROVE  /\ transitions' = sampled' - origin'
                        /\ accumulator' = sampled' - at_step'
                        /\ accumulator + delta = sampled' - at_step
    OBVIOUS
  <2>2. /\ transitions = sampled - origin
        /\ accumulator = sampled - at_step
        /\ delta = shaft - sampled
    BY <1>1, <1>4, <2>1 DEF Tracking
  <2>3. CASE step' = E!None
    <3>1. dir = 0 /\ per_detent * dir = 0
      BY <1>5, <2>3, RatioPositive
    <3> QED
      BY <1>1, <1>3, <1>5, <2>2, <2>3, <3>1 DEF Types
  <2>4. CASE step' # E!None
    BY <1>1, <1>3, <1>5, <2>2, <2>4 DEF Types
  <2> QED
    BY <2>3, <2>4
<1>10. Types'
  BY <1>1, <1>2, <1>3, <1>5 DEF Types
<1>11. Tracking'
  BY <1>1, <1>3, <1>5, <1>7, <1>8, <1>9 DEF Tracking
<1>12. ~missed' /\ position' # position =>
          /\ Distance(position', position) = 1
          /\ Distance(sampled', at_step) = per_detent
  <2>1. SUFFICES ASSUME ~missed', position' # position
                 PROVE  /\ Distance(position', position) = 1
                        /\ Distance(sampled', at_step) = per_detent
    OBVIOUS
  <2>2. dir \in {-1, 1}
    BY <1>1, <1>3, <1>5, <2>1 DEF Types
  <2>3. sampled' - at_step \in {-per_detent, per_detent}
    BY <1>5, <1>9, <2>1, <2>2
  <2> QED
    BY <1>1, <1>3, <2>2, <2>3, RatioPositive DEF Types, Distance
<1> QED
  BY <1>10, <1>11, <1>12 DEF IInv

LEMMA PollButtonKeepsIInv == IInv /\ PollButton => IInv'
<1> SUFFICES ASSUME IInv, PollButton PROVE IInv'
  OBVIOUS
<1>1. UNCHANGED <<shaft, sampled, origin, at_step, missed>>
  BY DEF PollButton, shaft_history
<1>2. CASE event' = Pressed
  <2>1. position' = 0 /\ E!reset
    BY <1>2 DEF PollButton
  <2>2. state' = -1 /\ accumulator' = 0 /\ transitions' = 0 /\ position' = 0
    BY <2>1 DEF E!reset, E!NoSample
  <2>3. per_detent * 0 = 0
    BY RatioPositive
  <2> QED
    BY <1>1, <2>2, <2>3, RatioPositive DEF IInv, Types, Tracking
<1>3. CASE event' # Pressed
  <2>1. UNCHANGED <<position, state, accumulator, transitions>>
    BY <1>3 DEF PollButton, encoder_vars
  <2> QED
    BY <1>1, <2>1 DEF IInv, Types, Tracking
<1> QED
  BY <1>2, <1>3

LEMMA NextKeepsIInv == IInv /\ [Next]_vars => IInv'
<1> SUFFICES ASSUME IInv, [Next]_vars PROVE IInv'
  OBVIOUS
<1>1. CASE Turn
  BY <1>1, TurnKeepsIInv
<1>2. CASE PollEncoder
  BY <1>2, BaselineKeepsIInv, SampleKeepsIInv
<1>3. CASE PollButton
  BY <1>3, PollButtonKeepsIInv
<1>4. CASE UNCHANGED vars
  BY <1>4 DEF vars, encoder_vars, shaft_history, IInv, Types, Tracking
<1> QED
  BY <1>1, <1>2, <1>3, <1>4 DEF Next

LEMMA IInvAlways == Spec => []IInv
  BY InitIInv, NextKeepsIInv, PTL DEF Spec

-----------------------------------------------------------------------------
\* The position shown and the shaft never differ by a detent or more, for every
\* detent ratio, until a transition is missed.
THEOREM PositionIsRight == Spec => []PositionTracksShaft
<1>1. IInv => PositionTracksShaft
  <2> SUFFICES ASSUME Types, Tracking, state # -1, ~missed
               PROVE  Distance(per_detent * position, sampled - origin) < per_detent
    BY DEF IInv, PositionTracksShaft, per_detent, E!NoSample
  <2>1. per_detent * position \in Int
    BY RatioPositive DEF Types
  <2>2. sampled - origin = per_detent * position + accumulator
    BY DEF Tracking
  <2> QED
    BY <2>1, <2>2, RatioPositive DEF Types, Distance
<1> QED
  BY IInvAlways, <1>1, PTL

\* Missed transitions are lost in pairs: the decoder always has the last
\* sample and the parity of the shaft's movement.
THEOREM LossesAreEven == Spec => []MissedSamplesAreEven
<1>1. IInv => MissedSamplesAreEven
  BY DEF IInv, Tracking, MissedSamplesAreEven, Contacts, E!NoSample
<1> QED
  BY IInvAlways, <1>1, PTL

\* No counted transition is lost between the decoder and the position, presses
\* and missed transitions included.
THEOREM NothingIsUnaccounted == Spec => []PositionAccountsForCount
<1>1. IInv => PositionAccountsForCount
  BY DEF IInv, Tracking, PositionAccountsForCount, per_detent
<1> QED
  BY IInvAlways, <1>1, PTL

\* The accumulator stays below a detent, for every ratio.
THEOREM AccumulatorNeverOverflows == Spec => []PendingBelowDetent
<1>1. IInv => PendingBelowDetent
  BY DEF IInv, Types, PendingBelowDetent, E!PendingBelowDetent, per_detent
<1> QED
  BY IInvAlways, <1>1, PTL

\* A step is shown only when the shaft has turned a whole detent away from
\* where it last showed one.
THEOREM NoPhantomStep == Spec => StepNeedsFullDetent
<1>1. ASSUME IInv, [Next]_vars
      PROVE  [polls = "encoder" /\ ~missed' /\ position' # position =>
                /\ Distance(position', position) = 1
                /\ Distance(sampled', at_step) = E!transitions_per_detent]_vars
  <2> SUFFICES ASSUME Next, polls = "encoder", ~missed', position' # position
               PROVE  /\ Distance(position', position) = 1
                      /\ Distance(sampled', at_step) = per_detent
    BY <1>1 DEF per_detent
  <2>1. PollEncoder
    BY DEF Next, Turn, PollButton
  <2>2. state # -1
    BY <1>1, <2>1, BaselineKeepsIInv
  <2> QED
    BY <1>1, <2>1, <2>2, SampleKeepsIInv
<1> QED
  BY <1>1, IInvAlways, PTL DEF Spec, StepNeedsFullDetent

\* main.rs calls the debouncer as its specification says, with levels and times of
\* any kind: what is proved of the debouncer holds in the loop.
THEOREM LoopRunsTheButton == Spec => ButtonSpec
<1>1. Init => ButtonInit
  BY DEF Init
<1>2. [Next]_vars => [ButtonNext]_button_vars
  <2> SUFFICES ASSUME [Next]_vars PROVE [ButtonNext]_button_vars
    OBVIOUS
  <2>1. CASE Turn
    BY <2>1 DEF Turn
  <2>2. CASE PollEncoder
    BY <2>2 DEF PollEncoder
  <2>3. CASE PollButton
    <3>1. PICK pressed \in BOOLEAN, gap \in 1 .. MaxGap :
            clock + gap <= MaxClock /\ update(pressed, clock + gap)
      BY <2>3 DEF PollButton
    <3>2. gap \in 0 .. MaxGap
      BY ButtonAssumption
    <3> QED
      BY <3>1, <3>2 DEF ButtonNext
  <2>4. CASE UNCHANGED vars
    BY <2>4 DEF vars
  <2> QED
    BY <2>1, <2>2, <2>3, <2>4 DEF Next
<1> QED
  BY <1>1, <1>2, PTL DEF Spec, ButtonSpec

-----------------------------------------------------------------------------
(* Places in a ring. *)

LEMMA IntegerDivision ==
  ASSUME NEW F \in Nat \ {0}, NEW x \in Int
  PROVE  /\ x \div F \in Int
         /\ x % F \in 0 .. F - 1
         /\ x = F * (x \div F) + (x % F)
BY SMT

LEMMA Remainder ==
  ASSUME NEW F \in Nat \ {0}, NEW q \in Int, NEW r \in 0 .. F - 1
  PROVE  (F * q + r) % F = r
BY SMT

LEMMA SumOfMultiples ==
  ASSUME NEW F \in Int, NEW a \in Int, NEW b \in Int
  PROVE  F * a + F * b = F * (a + b) /\ F * a - F * b = F * (a - b) /\ F * a \in Int
BY SMT

\* A multiple of the ring's size away is the same place.
LEMMA SamePlace ==
  ASSUME NEW F \in Nat \ {0}, NEW x \in Int, NEW k \in Int
  PROVE  (x + F * k) % F = x % F
<1> DEFINE q == x \div F
           r == x % F
<1>1. q \in Int /\ r \in 0 .. F - 1 /\ x = F * q + r
    BY IntegerDivision
<1> HIDE DEF q
<1>2. F * q + F * k = F * (q + k) /\ F * q \in Int /\ F * k \in Int
    BY <1>1, SumOfMultiples
<1> HIDE DEF r
<1>3. x + F * k = F * (q + k) + r /\ q + k \in Int
    BY <1>1, <1>2
<1>4. (F * (q + k) + r) % F = r
    BY <1>1, <1>3, Remainder
<1> QED
    BY <1>3, <1>4 DEF r

\* Places are added and subtracted as numbers are.
LEMMA PlaceInRing ==
  ASSUME NEW F \in Nat \ {0}, NEW x \in Int, NEW y \in Int
  PROVE  /\ ((x % F) - (y % F)) % F = (x - y) % F
         /\ ((x % F) + y) % F = (x + y) % F
<1> DEFINE q == x \div F
           p == y \div F
           r == x % F
           s == y % F
<1>1. q \in Int /\ r \in 0 .. F - 1 /\ x = F * q + r
    BY IntegerDivision
<1>2. p \in Int /\ s \in 0 .. F - 1 /\ y = F * p + s
    BY IntegerDivision
<1> HIDE DEF q, p, r, s
<1>3. F * q - F * p = F * (q - p) /\ F * q \in Int /\ F * p \in Int /\ q - p \in Int
    BY <1>1, <1>2, SumOfMultiples
<1>4. x - y = (r - s) + F * (q - p) /\ r - s \in Int
    BY <1>1, <1>2, <1>3
<1>5. x + y = (r + y) + F * q /\ r + y \in Int
    BY <1>1, <1>3
<1>6. ((r - s) + F * (q - p)) % F = (r - s) % F
    BY <1>3, <1>4, SamePlace
<1>7. ((r + y) + F * q) % F = (r + y) % F
    BY <1>1, <1>5, SamePlace
<1> QED
    BY <1>4, <1>5, <1>6, <1>7 DEF r, s

\* The place after a place.
LEMMA NextPlace ==
  ASSUME NEW F \in Nat \ {0}, NEW x \in Int
  PROVE  ((x % F) + 1) % F = (x + 1) % F
<1>1. \A y \in Int : ((x % F) + y) % F = (x + y) % F
    BY PlaceInRing
<1> QED
    BY <1>1, 1 \in Int, Zenon

\* Once around the ring, either way.
LEMMA NearPlace ==
  ASSUME NEW F \in Nat \ {0}, NEW x \in Int
  PROVE  /\ x \in 0 .. F - 1 => x % F = x
         /\ x \in -F .. -1 => x % F = x + F
<1>1. ASSUME x \in 0 .. F - 1 PROVE x % F = x
  <2>1. F * 0 + x = x /\ 0 \in Int
      OBVIOUS
  <2> QED
      BY <1>1, <2>1, Remainder
<1>2. ASSUME x \in -F .. -1 PROVE x % F = x + F
  <2>1. x + F \in 0 .. F - 1 /\ F * (-1) + (x + F) = x /\ -1 \in Int
      BY <1>2
  <2> QED
      BY <2>1, Remainder
<1> QED
    BY <1>1, <1>2

\* Every place is one of the last F.
LEMMA EveryPlace ==
  ASSUME NEW F \in Nat \ {0}, NEW a \in Int, NEW s \in 0 .. F - 1
  PROVE  \E i \in a - F .. a - 1 : i % F = s
<1> DEFINE j == (s - (a - F)) % F
           q == (s - (a - F)) \div F
<1>1. q \in Int /\ j \in 0 .. F - 1 /\ s - (a - F) = F * q + j
    BY IntegerDivision, s - (a - F) \in Int
<1> HIDE DEF q, j
<1>2. F * q \in Int /\ F * (-q) = -(F * q)
    BY <1>1
<1>3. (a - F) + j = s + F * (-q) /\ -q \in Int
    BY <1>1, <1>2
<1>4. (s + F * (-q)) % F = s % F
    BY <1>3, SamePlace, s \in Int
<1>5. s % F = s
    BY NearPlace, s \in Int
<1>6. ((a - F) + j) % F = s
    BY <1>3, <1>4, <1>5
<1>7. (a - F) + j \in a - F .. a - 1
    BY <1>1
<1> QED
    BY <1>6, <1>7


-----------------------------------------------------------------------------
(* Bytes. *)

LEMMA Halves ==
  ASSUME NEW F \in Nat \ {0}, NEW x \in Nat
  PROVE  x % F \in 0 .. F - 1 /\ x \div F \in Nat /\ F * (x \div F) = x - (x % F)
<1>1. x \div F \in Int /\ x % F \in 0 .. F - 1 /\ x = F * (x \div F) + (x % F)
    BY IntegerDivision
<1>2. x \div F >= 0
    BY SMT
<1> QED
    BY <1>1, <1>2

\* A number below F * G divides into a high and a low part.
LEMMA Parts ==
  ASSUME NEW F \in Nat \ {0}, NEW G \in Nat \ {0}, NEW x \in Nat, x < F * G
  PROVE  /\ x % F \in Nat /\ x % F < F /\ x \div F \in Nat /\ x \div F < G
         /\ F * (x \div F) = x - (x % F)
         /\ (x \div F) % G = x \div F
<1> DEFINE q == x \div F
           r == x % F
<1>1. r \in 0 .. F - 1 /\ q \in Nat /\ F * q = x - r
    BY Halves
<1> HIDE DEF q, r
<1>2. q < G
  <2> SUFFICES ASSUME G <= q PROVE FALSE
      BY <1>1
  <2>1. F * G <= F * q
      BY <1>1, SMT
  <2> QED
      BY <1>1, <2>1
<1>3. q \in 0 .. G - 1
    BY <1>1, <1>2
<1>4. q % G = q
    BY <1>3, SmallRemainder
<1>5. r \in Nat /\ r < F
    BY <1>1
<1> QED
    BY <1>1, <1>2, <1>4, <1>5 DEF q, r

\* The two bytes of a u16.
LEMMA HalfWords ==
  ASSUME NEW n \in Nat, n < 65536
  PROVE  /\ Len(le16(n)) = 2 /\ le16(n)[1] = n % 256 /\ le16(n)[2] = n \div 256
         /\ 256 * (n \div 256) = n - (n % 256)
<1> DEFINE r == n % 256
           q == n \div 256
           h == q % 256
<1>1. 256 \in Nat \ {0} /\ n < 256 * 256
    BY SMT
<1>2. 256 * q = n - r /\ h = q
    BY <1>1, Parts
<1>3. le16(n) = <<r, h>>
    BY DEF le16
<1> HIDE DEF r, q, h
<1>4. Len(le16(n)) = 2 /\ le16(n)[1] = r /\ le16(n)[2] = q
    BY <1>2, <1>3
<1>5. Len(le16(n)) = 2 /\ le16(n)[1] = r /\ le16(n)[2] = q /\ 256 * q = n - r
    BY <1>2, <1>4
<1> QED
    BY <1>5 DEF r, q

\* The two halves of a u32.
LEMMA Words ==
  ASSUME NEW n, u32_range(n)
  PROVE  /\ n \in Nat /\ n % 65536 \in Nat /\ n % 65536 < 65536
         /\ n \div 65536 \in Nat /\ n \div 65536 < 65536
         /\ 65536 * (n \div 65536) = n - (n % 65536)
<1>1. n \in Nat /\ n \div 65536 < 65536
    BY SMT DEF u32_range
<1>2. n % 65536 \in Nat
    BY <1>1, SMT
<1>3. n % 65536 < 65536
    BY <1>1, SMT
<1>4. n \div 65536 \in Nat
    BY <1>1, SMT
<1>5. 65536 * (n \div 65536) = n - (n % 65536)
    BY <1>1, SMT
<1> QED
    BY <1>1, <1>2, <1>3, <1>4, <1>5, SMT

LEMMA le16Is ==
  ASSUME NEW n \in Nat
  PROVE  le16(n) \in Seq(byte) /\ Len(le16(n)) = 2
<1> DEFINE q == n \div 256
<1>1. q \in Nat /\ n % 256 \in 0 .. 256 - 1
    BY 256 \in Nat \ {0}, Halves
<1> HIDE DEF q
<1>2. q % 256 \in 0 .. 256 - 1
    BY <1>1, 256 \in Nat \ {0}, Halves
<1>3. n % 256 \in byte /\ q % 256 \in byte
    BY <1>1, <1>2 DEF byte
<1>4. le16(n) = <<n % 256, q % 256>>
    BY DEF le16, q
<1> QED
    BY <1>3, <1>4

\* bytes holds s from an offset on.
Holds(b, off, s) == off + Len(s) <= Len(b) /\ \A k \in 1 .. Len(s) : b[off + k] = s[k]

\* Two sequences one after the other are held where each of them is.
LEMMA HoldsBoth ==
  ASSUME NEW b \in Seq(byte), NEW off \in Nat, NEW s \in Seq(byte), NEW t \in Seq(byte)
  PROVE  Holds(b, off, s \o t) <=> Holds(b, off, s) /\ Holds(b, off + Len(s), t)
<1> DEFINE u == s \o t
<1>1. /\ Len(s) \in Nat /\ Len(t) \in Nat /\ Len(b) \in Nat
      /\ Len(u) = Len(s) + Len(t)
      /\ \A k \in 1 .. Len(s) : u[k] = s[k]
      /\ \A k \in 1 .. Len(t) : u[Len(s) + k] = t[k]
    OBVIOUS
<1> HIDE DEF u
<1>2. ASSUME Holds(b, off, u) PROVE Holds(b, off, s) /\ Holds(b, off + Len(s), t)
  <2>1. off + Len(s) <= Len(b) /\ (off + Len(s)) + Len(t) <= Len(b)
      BY <1>1, <1>2 DEF Holds
  <2>2. ASSUME NEW k \in 1 .. Len(s) PROVE b[off + k] = s[k]
    <3>1. k \in 1 .. Len(u)
        BY <1>1
    <3> QED
        BY <1>1, <1>2, <3>1 DEF Holds
  <2>3. ASSUME NEW k \in 1 .. Len(t) PROVE b[(off + Len(s)) + k] = t[k]
    <3>1. Len(s) + k \in 1 .. Len(u) /\ off + (Len(s) + k) = (off + Len(s)) + k
        BY <1>1
    <3>2. b[off + (Len(s) + k)] = u[Len(s) + k]
        BY <1>2, <3>1 DEF Holds
    <3> QED
        BY <1>1, <3>1, <3>2
  <2> QED
      BY <2>1, <2>2, <2>3 DEF Holds
<1>3. ASSUME Holds(b, off, s), Holds(b, off + Len(s), t) PROVE Holds(b, off, u)
  <2>1. off + Len(u) <= Len(b)
    <3>1. (off + Len(s)) + Len(t) <= Len(b)
        BY <1>3 DEF Holds
    <3> QED
        BY <1>1, <3>1
  <2>2. ASSUME NEW k \in 1 .. Len(u) PROVE b[off + k] = u[k]
    <3>1. CASE k \in 1 .. Len(s)
        BY <1>1, <1>3, <3>1 DEF Holds
    <3>2. CASE k \notin 1 .. Len(s)
      <4>1. k - Len(s) \in 1 .. Len(t) /\ Len(s) + (k - Len(s)) = k /\ (off + Len(s)) + (k - Len(s)) = off + k
          BY <1>1, <3>2
      <4>2. b[(off + Len(s)) + (k - Len(s))] = t[k - Len(s)]
          BY <1>3, <4>1 DEF Holds
      <4>3. u[Len(s) + (k - Len(s))] = t[k - Len(s)]
          BY <1>1, <4>1
      <4> QED
          BY <4>1, <4>2, <4>3
    <3> QED
        BY <3>1, <3>2
  <2> QED
      BY <2>1, <2>2 DEF Holds
<1> QED
    BY <1>2, <1>3 DEF u

\* A slice reads what is held, ...
LEMMA SliceHeld ==
  ASSUME NEW b \in Seq(byte), NEW off \in Nat, NEW s \in Seq(byte), Holds(b, off, s)
  PROVE  Slice(b, off, off + Len(s)) = s
<1>1. Len(s) \in Nat /\ Len(b) \in Nat /\ off + Len(s) <= Len(b)
    BY DEF Holds
<1> DEFINE t == SubSeq(b, off + 1, off + Len(s))
<1>2. t \in Seq(byte) /\ Len(t) = Len(s)
    BY <1>1
<1>3. \A k \in 1 .. Len(s) : t[k] = b[off + k]
    BY <1>1
<1>4. \A k \in 1 .. Len(s) : t[k] = s[k]
    BY <1>3 DEF Holds
<1> HIDE DEF t
<1>5. t = s
    BY <1>2, <1>4, SeqEqual
<1> QED
    BY <1>5 DEF t, Slice

\* ... and numbers are read as they were written.
LEMMA ReadHalfWord ==
  ASSUME NEW b \in Seq(byte), NEW off \in Nat, NEW n \in Nat, n < 65536, Holds(b, off, le16(n))
  PROVE  u16(b, off) = n
<1> DEFINE low == n % 256
           high == n \div 256
<1>1. Len(le16(n)) = 2 /\ le16(n)[1] = low /\ le16(n)[2] = high /\ 256 * high = n - low
    BY HalfWords
<1>2. low \in Int
  <2>1. low \in 0 .. 256 - 1
      BY 256 \in Nat \ {0}, Halves
  <2> QED
      BY <2>1
<1> HIDE DEF low, high
<1>3. 1 \in 1 .. 2 /\ 2 \in 1 .. 2
    OBVIOUS
<1>4. b[off + 1] = low /\ b[off + 2] = high
    BY <1>1, <1>3 DEF Holds
<1>5. u16(b, off) = low + 256 * high
    BY <1>4 DEF u16
<1> QED
    BY <1>1, <1>2, <1>5, SMT

LEMMA le32Is ==
  ASSUME NEW n \in Nat
  PROVE  le32(n) \in Seq(byte) /\ Len(le32(n)) = 4
<1> DEFINE s == le16(n % 65536)
           t == le16(n \div 65536)
<1>1. n % 65536 \in Nat
    BY SMT
<1>2. n \div 65536 \in Nat
    BY SMT
<1>3. s \in Seq(byte) /\ Len(s) = 2
    BY <1>1, le16Is
<1>4. t \in Seq(byte) /\ Len(t) = 2
    BY <1>2, le16Is
<1>5. le32(n) = s \o t
    BY SMT DEF le32
<1> HIDE DEF s, t
<1>6. s \o t \in Seq(byte)
    BY <1>3, <1>4, ConcatProperties
<1>7. Len(s \o t) = Len(s) + Len(t)
    BY <1>3, <1>4, ConcatProperties
<1> QED
    BY <1>3, <1>4, <1>5, <1>6, <1>7

LEMMA ReadWord ==
  ASSUME NEW b \in Seq(byte), NEW off \in Nat, NEW n, u32_range(n), Holds(b, off, le32(n))
  PROVE  u32(b, off) = n
<1> DEFINE low == n % 65536
           high == n \div 65536
           s == le16(low)
           t == le16(high)
<1>1. n \in Nat /\ low \in Nat /\ low < 65536 /\ high \in Nat /\ high < 65536 /\ 65536 * high = n - low
    BY Words
<1>2. le32(n) = s \o t
    BY DEF le32
<1> HIDE DEF low, high
<1>3. s \in Seq(byte) /\ Len(s) = 2 /\ t \in Seq(byte)
    BY <1>1, le16Is
<1> HIDE DEF s, t
<1>4. Holds(b, off, s) /\ Holds(b, off + Len(s), t)
  <2>1. Holds(b, off, s \o t)
      BY <1>2
  <2> QED
      BY <1>3, <2>1, HoldsBoth
<1>5. off + 2 \in Nat
    OBVIOUS
<1>6. u16(b, off) = low
    BY <1>1, <1>4, ReadHalfWord DEF s
<1>7. u16(b, off + 2) = high
    BY <1>1, <1>3, <1>4, <1>5, ReadHalfWord DEF t
<1>8. u32(b, off) = low + 65536 * high
    BY <1>6, <1>7 DEF u32
<1> QED
    BY <1>1, <1>8, SMT

-----------------------------------------------------------------------------
(* What a sequence of bytes holds. *)

\* What holds at the start, and after each number in turn, holds throughout.
LEMMA UpTo ==
  ASSUME NEW N \in Nat, NEW S, 0 \in S, \A n \in 1 .. N : n - 1 \in S => n \in S
  PROVE  \A n \in 0 .. N : n \in S
<1> DEFINE Missing == {n \in Nat : n <= N /\ n \notin S}
<1>1. CASE Missing # {}
  <2>0. Missing \subseteq Nat
      OBVIOUS
  <2> HIDE DEF Missing
  <2>1. PICK m \in Missing : \A x \in Missing : ~(<<x, m>> \in OpToRel(<, Nat))
      BY <1>1, <2>0, NatLessThanWellFounded, WFMin
  <2> USE DEF Missing
  <2>2. m \in Nat /\ m <= N /\ m \notin S /\ m # 0
      OBVIOUS
  <2>3. m - 1 \in Nat /\ m - 1 <= N /\ m - 1 < m
      BY <2>2
  <2>4. m - 1 \in S
    <3> SUFFICES ASSUME m - 1 \notin S PROVE FALSE
        OBVIOUS
    <3>1. m - 1 \in Missing
        BY <2>3
    <3>2. <<m - 1, m>> \in OpToRel(<, Nat)
        BY <2>2, <2>3 DEF OpToRel
    <3> HIDE DEF Missing
    <3> QED
        BY <2>1, <3>1, <3>2
  <2>5. m \in 1 .. N
      BY <2>2
  <2> QED
      BY <2>2, <2>4, <2>5
<1>2. CASE Missing = {}
  <2> SUFFICES ASSUME NEW n \in 0 .. N, n \notin S PROVE FALSE
      OBVIOUS
  <2>1. n \in Nat /\ n <= N
      OBVIOUS
  <2>2. n \in Missing
      BY <2>1
  <2> QED
      BY <1>2, <2>2
<1> QED
    BY <1>1, <1>2

\* What a part holds, the whole holds.
LEMMA HoldsWithin ==
  ASSUME NEW b \in Seq(byte), NEW t \in Seq(byte), NEW s \in Seq(byte), NEW off \in Nat, NEW x \in Nat,
         Holds(b, off, t), Holds(t, x, s)
  PROVE  Holds(b, off + x, s)
<1>1. Len(s) \in Nat /\ Len(t) \in Nat /\ Len(b) \in Nat
    OBVIOUS
<1>2. off + Len(t) <= Len(b) /\ x + Len(s) <= Len(t)
    BY DEF Holds
<1>3. (off + x) + Len(s) <= Len(b)
    BY <1>1, <1>2
<1>4. ASSUME NEW k \in 1 .. Len(s) PROVE b[(off + x) + k] = s[k]
  <2>1. x + k \in 1 .. Len(t) /\ (off + x) + k = off + (x + k)
      BY <1>1, <1>2
  <2>2. b[off + (x + k)] = t[x + k] /\ t[x + k] = s[k]
      BY <2>1 DEF Holds
  <2> QED
      BY <2>1, <2>2
<1> QED
    BY <1>3, <1>4 DEF Holds

\* A file that was cut off holds what is left whole.
LEMMA HoldsCut ==
  ASSUME NEW f \in Seq(byte), NEW b \in Seq(byte), NEW s \in Seq(byte), NEW off \in Nat,
         Holds(f, 0, b), Holds(f, off, s), off + Len(s) <= Len(b)
  PROVE  Holds(b, off, s)
<1>1. Len(s) \in Nat /\ Len(f) \in Nat /\ Len(b) \in Nat
    OBVIOUS
<1>2. ASSUME NEW k \in 1 .. Len(s) PROVE b[off + k] = s[k]
  <2>1. off + k \in 1 .. Len(b) /\ 0 + (off + k) = off + k
      BY <1>1
  <2>2. f[0 + (off + k)] = b[off + k] /\ f[off + k] = s[k]
      BY <2>1 DEF Holds
  <2> QED
      BY <2>1, <2>2
<1> QED
    BY <1>2 DEF Holds

LEMMA HoldsItself ==
  ASSUME NEW b \in Seq(byte)
  PROVE  Holds(b, 0, b)
BY DEF Holds

LEMMA HoldsFirst ==
  ASSUME NEW s \in Seq(byte), NEW t \in Seq(byte)
  PROVE  s \o t \in Seq(byte) /\ Holds(s \o t, 0, s) /\ Holds(s \o t, Len(s), t)
<1>1. s \o t \in Seq(byte)
    BY ConcatProperties
<1>2. Holds(s \o t, 0, s) /\ Holds(s \o t, 0 + Len(s), t)
    BY <1>1, HoldsItself, HoldsBoth
<1> QED
    BY <1>1, <1>2, 0 + Len(s) = Len(s)

LEMMA ZerosAre ==
  ASSUME NEW n \in Nat
  PROVE  Zeros(n) \in Seq(byte) /\ Len(Zeros(n)) = n
<1>1. 0 \in byte
    BY DEF byte
<1> HIDE DEF byte
<1> QED
    BY <1>1 DEF Zeros

-----------------------------------------------------------------------------
(* Chunks. *)

\* The values of an i16, as inequalities.
LEMMA SampleRange ==
  ASSUME NEW x \in i16_range
  PROVE  x \in Int /\ x >= -32768 /\ x < 32768
<1>1. i16_min \in Int /\ i16_max \in Int
    BY DEF i16_min, i16_max
<1>2. x \in Int /\ i16_min <= x /\ x <= i16_max
    BY <1>1, SMT DEF i16_range
<1> QED
    BY <1>2, SMT DEF i16_min, i16_max

\* Every sample is two bytes, in its place.
LEMMA PcmIs ==
  ASSUME NEW s \in Seq(i16_range)
  PROVE  /\ Pcm(s) \in Seq(byte) /\ Len(Pcm(s)) = 2 * Len(s)
         /\ \A k \in 1 .. Len(s) : Holds(Pcm(s), 2 * (k - 1), le16(s[k] % 65536))
<1> DEFINE w(k) == le16(s[k] % 65536)
           L == Len(s)
           pick(i) == IF i % 2 = 1 THEN 1 ELSE 2
<1>1. L \in Nat /\ \A k \in 1 .. L : s[k] \in i16_range
    OBVIOUS
<1>2. \A x \in i16_range : x % 65536 \in Nat
  <2> SUFFICES ASSUME NEW x \in i16_range PROVE x % 65536 \in Nat
      OBVIOUS
  <2>1. x \in Int
      BY SampleRange
  <2> QED
      BY <2>1, SMT
<1>3. \A k \in 1 .. L : w(k) \in Seq(byte) /\ Len(w(k)) = 2
  <2> SUFFICES ASSUME NEW k \in 1 .. L PROVE w(k) \in Seq(byte) /\ Len(w(k)) = 2
      OBVIOUS
  <2>1. s[k] % 65536 \in Nat
      BY <1>1, <1>2
  <2> QED
      BY <2>1, le16Is
<1>4. Pcm(s) = [i \in 1 .. 2 * L |-> w((i + 1) \div 2)[pick(i)]]
    BY DEF Pcm
<1> HIDE DEF w, L
<1>5. \A i \in 1 .. 2 * L : (i + 1) \div 2 \in 1 .. L
    BY <1>1
<1>6. \A i \in 1 .. 2 * L : pick(i) \in 1 .. 2
    OBVIOUS
<1> HIDE DEF pick
<1>7. \A i \in 1 .. 2 * L : w((i + 1) \div 2)[pick(i)] \in byte
  <2> SUFFICES ASSUME NEW i \in 1 .. 2 * L PROVE w((i + 1) \div 2)[pick(i)] \in byte
      OBVIOUS
  <2>1. w((i + 1) \div 2) \in Seq(byte) /\ Len(w((i + 1) \div 2)) = 2
      BY <1>3, <1>5
  <2> QED
      BY <1>6, <2>1
<1>8. 2 * L \in Nat
    BY <1>1
<1>9. Pcm(s) \in Seq(byte) /\ Len(Pcm(s)) = 2 * L
    BY <1>4, <1>7, <1>8
<1>10. ASSUME NEW k \in 1 .. L PROVE Holds(Pcm(s), 2 * (k - 1), w(k))
  <2>1. k \in Nat /\ 2 * (k - 1) + 2 <= 2 * L
      BY <1>1
  <2>2. 2 * (k - 1) + 1 \in 1 .. 2 * L /\ ((2 * (k - 1) + 1) + 1) \div 2 = k /\ pick(2 * (k - 1) + 1) = 1
      BY <1>1 DEF pick
  <2>3. 2 * (k - 1) + 2 \in 1 .. 2 * L /\ ((2 * (k - 1) + 2) + 1) \div 2 = k /\ pick(2 * (k - 1) + 2) = 2
      BY <1>1 DEF pick
  <2>4. Pcm(s)[2 * (k - 1) + 1] = w(k)[1]
      BY <1>4, <2>2
  <2>5. Pcm(s)[2 * (k - 1) + 2] = w(k)[2]
      BY <1>4, <2>3
  <2>6. \A x \in 1 .. 2 : x = 1 \/ x = 2
      OBVIOUS
  <2> QED
      BY <1>3, <1>9, <2>1, <2>4, <2>5, <2>6 DEF Holds
<1> QED
    BY <1>9, <1>10 DEF w, L

\* u is s and then t.  Kept folded: the provers are lost in longer concatenations.
Joined(u, s, t) == u = s \o t

LEMMA JoinedIs ==
  ASSUME NEW s \in Seq(byte), NEW t \in Seq(byte), NEW u, Joined(u, s, t)
  PROVE  u \in Seq(byte) /\ Len(u) = Len(s) + Len(t)
BY ConcatProperties, Zenon DEF Joined

LEMMA JoinedHolds ==
  ASSUME NEW s \in Seq(byte), NEW t \in Seq(byte), NEW u, Joined(u, s, t)
  PROVE  Holds(u, 0, s) /\ Holds(u, Len(s), t)
BY HoldsFirst, Zenon DEF Joined

LEMMA HoldsJoined ==
  ASSUME NEW s \in Seq(byte), NEW t \in Seq(byte), NEW u, Joined(u, s, t),
         NEW b \in Seq(byte), NEW off \in Nat, Holds(b, off, u)
  PROVE  Holds(b, off, s) /\ Holds(b, off + Len(s), t)
BY HoldsBoth, Zenon DEF Joined

LEMMA WordJoined ==
  ASSUME NEW s \in Seq(byte), NEW t \in Seq(byte), NEW u, Joined(u, s, t), Len(s) = 2, Len(t) = 2
  PROVE  u \in Seq(byte) /\ Len(u) = 4
<1>1. u \in Seq(byte) /\ Len(u) = Len(s) + Len(t)
    BY JoinedIs, Zenon
<1> QED
    BY <1>1

\* A format chunk, its fields and its padding, one after the other.
Fields(w, p1, p2, p3, p4, p5, p6, z) == w = p1 \o p2 \o p3 \o p4 \o p5 \o p6 \o z

\* The fields that the parser reads are where it reads them.
LEMMA FieldsAreThere ==
  ASSUME NEW p1 \in Seq(byte), NEW p2 \in Seq(byte), NEW p3 \in Seq(byte), NEW p4 \in Seq(byte),
         NEW p5 \in Seq(byte), NEW p6 \in Seq(byte), NEW z \in Seq(byte),
         Len(p1) = 2, Len(p2) = 2, Len(p3) = 4, Len(p4) = 4, Len(p5) = 2, Len(p6) = 2,
         NEW w, Fields(w, p1, p2, p3, p4, p5, p6, z)
  PROVE  /\ w \in Seq(byte) /\ Len(w) = 16 + Len(z)
         /\ Holds(w, 0, p1) /\ Holds(w, 2, p2) /\ Holds(w, 4, p3) /\ Holds(w, 14, p6)
<1> DEFINE w2 == p1 \o p2
           w3 == w2 \o p3
           w4 == w3 \o p4
           w5 == w4 \o p5
           w6 == w5 \o p6
<1>a. Joined(w2, p1, p2)
    BY DEF Joined
<1>b. Joined(w3, w2, p3)
    BY DEF Joined
<1>c. Joined(w4, w3, p4)
    BY DEF Joined
<1>d. Joined(w5, w4, p5)
    BY DEF Joined
<1>e. Joined(w6, w5, p6)
    BY DEF Joined
<1>f. Joined(w, w6, z)
    BY DEF Joined, Fields
<1> HIDE DEF w2, w3, w4, w5, w6
<1>2. w2 \in Seq(byte) /\ Len(w2) = 4
    BY <1>a, WordJoined, Zenon
<1>3. w3 \in Seq(byte) /\ Len(w3) = 8
  <2>1. w3 \in Seq(byte) /\ Len(w3) = Len(w2) + Len(p3)
      BY <1>b, <1>2, JoinedIs, Zenon
  <2> QED
      BY <2>1, <1>2
<1>4. w4 \in Seq(byte) /\ Len(w4) = 12
  <2>1. w4 \in Seq(byte) /\ Len(w4) = Len(w3) + Len(p4)
      BY <1>c, <1>3, JoinedIs, Zenon
  <2> QED
      BY <2>1, <1>3
<1>5. w5 \in Seq(byte) /\ Len(w5) = 14
  <2>1. w5 \in Seq(byte) /\ Len(w5) = Len(w4) + Len(p5)
      BY <1>d, <1>4, JoinedIs, Zenon
  <2> QED
      BY <2>1, <1>4
<1>6. w6 \in Seq(byte) /\ Len(w6) = 16
  <2>1. w6 \in Seq(byte) /\ Len(w6) = Len(w5) + Len(p6)
      BY <1>e, <1>5, JoinedIs, Zenon
  <2> QED
      BY <2>1, <1>5
<1>7. w \in Seq(byte) /\ Len(w) = 16 + Len(z) /\ Holds(w, 0, w6)
  <2>1. w \in Seq(byte) /\ Len(w) = Len(w6) + Len(z)
      BY <1>f, <1>6, JoinedIs, Zenon
  <2>2. Holds(w, 0, w6)
      BY <1>f, <1>6, JoinedHolds, Zenon
  <2> QED
      BY <1>6, <2>1, <2>2
<1> USE 0 \in Nat
<1>8. Holds(w, 0, w5) /\ Holds(w, 0 + Len(w5), p6)
    BY <1>e, <1>5, <1>7, HoldsJoined, Zenon
<1>9. Holds(w, 0, w4)
    BY <1>d, <1>4, <1>7, <1>8, HoldsJoined, Zenon
<1>10. Holds(w, 0, w3)
    BY <1>c, <1>3, <1>7, <1>9, HoldsJoined, Zenon
<1>11. Holds(w, 0, w2) /\ Holds(w, 0 + Len(w2), p3)
    BY <1>b, <1>2, <1>3, <1>7, <1>10, HoldsJoined, Zenon
<1>12. Holds(w, 0, p1) /\ Holds(w, 0 + Len(p1), p2)
    BY <1>a, <1>7, <1>11, HoldsJoined, Zenon
<1>13. /\ w \in Seq(byte) /\ Len(w) = 16 + Len(z)
       /\ Holds(w, 0, p1) /\ Holds(w, 2, p2) /\ Holds(w, 4, p3) /\ Holds(w, 14, p6)
  <2>1. 0 + Len(w5) = 14 /\ 0 + Len(w2) = 4 /\ 0 + Len(p1) = 2
      BY <1>2, <1>5
  <2> QED
      BY <1>7, <1>8, <1>11, <1>12, <2>1
<1> QED
    BY <1>13

\* A chunk is of one kind only.
LEMMA IdsDiffer ==
  /\ FMT # DATA
  /\ FMT \in Seq(byte) /\ Len(FMT) = 4
  /\ DATA \in Seq(byte) /\ Len(DATA) = 4
<1>1. FMT[1] # DATA[1]
    BY DEF FMT, DATA
<1>2. \A x \in {102, 109, 116, 32, 100, 97} : x \in byte
    BY DEF byte
<1>3. FMT \in Seq(byte) /\ Len(FMT) = 4
    BY <1>2 DEF FMT
<1>4. DATA \in Seq(byte) /\ Len(DATA) = 4
    BY <1>2 DEF DATA
<1> QED
    BY <1>1, <1>3, <1>4

LEMMA HalfWordRange ==
  ASSUME NEW x \in u16_range
  PROVE  x \in Nat /\ x < 65536
<1>1. u16_max \in Int
    BY DEF u16_max
<1>2. x \in Nat /\ x <= u16_max
    BY <1>1, SMT DEF u16_range
<1> QED
    BY <1>2, SMT DEF u16_max

LEMMA FmtChunkIs ==
  ASSUME NEW c, IsChunk(c), c.id = FMT
  PROVE  /\ c.size \in Nat /\ c.size <= 18
         /\ c.format \in u16_range /\ c.channels \in u16_range /\ c.bits \in u16_range
         /\ u32_range(c.rate)
<1>1. /\ c.size \in 0 .. 18 /\ u32_range(c.rate)
      /\ {c.format, c.channels, c.bits} \subseteq u16_range
    BY Zenon DEF IsChunk
<1>2. c.size \in Nat /\ c.size <= 18
    BY <1>1
<1>3. c.format \in u16_range /\ c.channels \in u16_range /\ c.bits \in u16_range
    BY <1>1, Zenon
<1> QED
    BY <1>1, <1>2, <1>3

LEMMA DataChunkIs ==
  ASSUME NEW c, IsChunk(c), c.id = DATA
  PROVE  c.samples \in Seq(i16_range) /\ c.extra \in 0 .. 1
BY IdsDiffer DEF IsChunk

LEMMA OtherChunkIs ==
  ASSUME NEW c, IsChunk(c), c.id # FMT, c.id # DATA
  PROVE  c.id \in Seq(byte) /\ Len(c.id) = 4 /\ c.size \in Nat
<1>1. c.id \in [1 .. 4 -> byte] /\ c.size \in Nat
    BY DEF IsChunk
<1>2. c.id \in Seq(byte)
    BY <1>1, SeqDef, 4 \in Nat
<1>3. DOMAIN c.id = 1 .. 4
    BY <1>1
<1> QED
    BY <1>1, <1>2, <1>3, LenProperties

\* What is in an fmt chunk, if it is not cut short.
LEMMA FmtPayload ==
  ASSUME NEW c, IsChunk(c), c.id = FMT
  PROVE  LET p == Payload(c) IN
         /\ p \in Seq(byte) /\ Len(p) = c.size
         /\ c.size >= 16 => /\ u16(p, 0) = c.format /\ u16(p, 2) = c.channels
                            /\ u16(p, 14) = c.bits /\ u32(p, 4) = c.rate
<1> DEFINE p1 == le16(c.format)
           p2 == le16(c.channels)
           p3 == le32(c.rate)
           p4 == le32(c.rate * c.channels * (c.bits \div 8))
           p5 == le16(c.channels * (c.bits \div 8))
           p6 == le16(c.bits)
           z == Zeros(2)
           w == p1 \o p2 \o p3 \o p4 \o p5 \o p6 \o z
           p == SubSeq(w, 1, c.size)
<1>1. c.size \in Nat /\ c.size <= 18
    BY FmtChunkIs
<1>2. c.format \in u16_range /\ c.channels \in u16_range /\ c.bits \in u16_range /\ u32_range(c.rate)
    BY FmtChunkIs
<1>3. c.format \in Nat /\ c.channels \in Nat /\ c.bits \in Nat
    BY <1>2, HalfWordRange, SMT
<1>4. c.rate \in Nat
    BY <1>2, SMT DEF u32_range
<1>5. c.bits \div 8 \in Nat
    BY <1>3
<1>6. c.channels * (c.bits \div 8) \in Nat
    BY <1>3, <1>5
<1>7. c.rate * c.channels * (c.bits \div 8) \in Nat
    BY <1>3, <1>4, <1>5
<1>8. p1 \in Seq(byte) /\ Len(p1) = 2 /\ p2 \in Seq(byte) /\ Len(p2) = 2
    BY <1>3, le16Is
<1>9. p3 \in Seq(byte) /\ Len(p3) = 4 /\ p4 \in Seq(byte) /\ Len(p4) = 4
    BY <1>4, <1>7, le32Is
<1>10. p5 \in Seq(byte) /\ Len(p5) = 2 /\ p6 \in Seq(byte) /\ Len(p6) = 2
    BY <1>3, <1>6, le16Is
<1>11. z \in Seq(byte) /\ Len(z) = 2
    BY ZerosAre
<1>12. Payload(c) = p
  <2>1. Payload(c) = SubSeq(fmt_chunk(c) \o Zeros(2), 1, c.size)
      BY IdsDiffer DEF Payload
  <2>2. fmt_chunk(c) \o z = w
      BY Zenon DEF fmt_chunk
  <2> QED
      BY <2>1, <2>2, Zenon
<1> HIDE DEF p1, p2, p3, p4, p5, p6, z
<1> HIDE DEF w
<1>13. /\ w \in Seq(byte) /\ Len(w) = 16 + Len(z)
       /\ Holds(w, 0, p1) /\ Holds(w, 2, p2) /\ Holds(w, 4, p3) /\ Holds(w, 14, p6)
  <2>1. Fields(w, p1, p2, p3, p4, p5, p6, z)
      BY DEF w, Fields
  <2> QED
      BY <1>8, <1>9, <1>10, <1>11, <2>1, FieldsAreThere, Zenon
<1>14. p \in Seq(byte) /\ Len(p) = c.size /\ \A k \in 1 .. c.size : p[k] = w[k]
  <2>1. w \in Seq(byte) /\ c.size <= Len(w)
      BY <1>1, <1>11, <1>13
  <2>2. p \in Seq(byte)
      BY <1>1, <2>1
  <2>3. Len(p) = c.size
      BY <1>1, <2>1
  <2>4. \A k \in 1 .. c.size : p[k] = w[k]
      BY <1>1, <2>1
  <2> QED
      BY <2>2, <2>3, <2>4
<1> HIDE DEF p
<1>15. Holds(w, 0, p)
    BY <1>1, <1>11, <1>13, <1>14 DEF Holds
<1>16. ASSUME c.size >= 16
       PROVE  /\ u16(p, 0) = c.format /\ u16(p, 2) = c.channels
              /\ u16(p, 14) = c.bits /\ u32(p, 4) = c.rate
  <2>1. 0 + 2 <= Len(p) /\ 2 + 2 <= Len(p) /\ 4 + 4 <= Len(p) /\ 14 + 2 <= Len(p)
      BY <1>1, <1>14, <1>16
  <2>2. Holds(p, 0, p1)
      BY <1>8, <1>13, <1>14, <1>15, <2>1, HoldsCut, 0 \in Nat
  <2>3. Holds(p, 2, p2)
      BY <1>8, <1>13, <1>14, <1>15, <2>1, HoldsCut, 2 \in Nat
  <2>4. Holds(p, 14, p6)
      BY <1>10, <1>13, <1>14, <1>15, <2>1, HoldsCut, 14 \in Nat
  <2>5. Holds(p, 4, p3)
      BY <1>9, <1>13, <1>14, <1>15, <2>1, HoldsCut, 4 \in Nat
  <2>6. u16(p, 0) = c.format
      BY <1>2, <1>14, <2>2, HalfWordRange, ReadHalfWord, 0 \in Nat, SMT DEF p1
  <2>7. u16(p, 2) = c.channels
      BY <1>2, <1>14, <2>3, HalfWordRange, ReadHalfWord, 2 \in Nat, SMT DEF p2
  <2>8. u16(p, 14) = c.bits
      BY <1>2, <1>14, <2>4, HalfWordRange, ReadHalfWord, 14 \in Nat, SMT DEF p6
  <2>9. u32(p, 4) = c.rate
      BY <1>2, <1>14, <2>5, ReadWord, 4 \in Nat, SMT DEF p3
  <2> QED
      BY <2>6, <2>7, <2>8, <2>9
<1> QED
    BY <1>12, <1>14, <1>16

\* A data chunk holds its samples from its start on.
LEMMA DataPayload ==
  ASSUME NEW c, IsChunk(c), c.id = DATA
  PROVE  LET p == Payload(c) IN
         /\ p \in Seq(byte) /\ Len(p) = 2 * Len(c.samples) + c.extra
         /\ Holds(p, 0, Pcm(c.samples))
<1>1. c.samples \in Seq(i16_range) /\ c.extra \in Nat
  <2>1. c.extra \in 0 .. 1
      BY DataChunkIs
  <2> QED
      BY <2>1, DataChunkIs
<1>2. Pcm(c.samples) \in Seq(byte) /\ Len(Pcm(c.samples)) = 2 * Len(c.samples)
    BY <1>1, PcmIs
<1>3. Zeros(c.extra) \in Seq(byte) /\ Len(Zeros(c.extra)) = c.extra
    BY <1>1, ZerosAre
<1>4. Payload(c) = Pcm(c.samples) \o Zeros(c.extra)
    BY IdsDiffer DEF Payload
<1>5. Joined(Payload(c), Pcm(c.samples), Zeros(c.extra))
    BY <1>4 DEF Joined
<1> QED
    BY <1>2, <1>3, <1>5, JoinedIs, JoinedHolds

LEMMA PayloadIs ==
  ASSUME NEW c, IsChunk(c)
  PROVE  /\ c.id \in Seq(byte) /\ Len(c.id) = 4
         /\ Payload(c) \in Seq(byte) /\ Len(Payload(c)) \in Nat
<1>1. CASE c.id = FMT
    BY <1>1, FmtPayload, IdsDiffer, FmtChunkIs
<1>2. CASE c.id = DATA
  <2>1. Payload(c) \in Seq(byte)
      BY <1>2, DataPayload
  <2> QED
      BY <1>2, <2>1, IdsDiffer
<1>3. CASE c.id # FMT /\ c.id # DATA
  <2>1. c.id \in Seq(byte) /\ Len(c.id) = 4 /\ c.size \in Nat
      BY <1>3, OtherChunkIs
  <2>2. Payload(c) = Zeros(c.size)
      BY <1>3 DEF Payload
  <2> QED
      BY <2>1, <2>2, ZerosAre
<1> QED
    BY <1>1, <1>2, <1>3

-----------------------------------------------------------------------------
(* The layout of a file. *)

\* One more of the pieces c, after the first n - 1.
Longer(c, f, n) == IF n = 0 THEN <<>> ELSE f[n - 1] \o c[n]

\* The recursion that defines Encoded has a solution, for any number of pieces.
LEMMA JoinsExist ==
  ASSUME NEW c, NEW N \in Nat
  PROVE  \E f : f = [n \in 0 .. N |-> Longer(c, f, n)]
<1> DEFINE Good(m) == \E f : f = [n \in 0 .. m |-> Longer(c, f, n)]
           S == {m \in Nat : Good(m)}
<1>1. \A f, g, n : n = 0 \/ f[n - 1] = g[n - 1] => Longer(c, f, n) = Longer(c, g, n)
    BY Zenon DEF Longer
<1>2. Good(0)
  <2> DEFINE g == [n \in 0 .. 0 |-> <<>>]
  <2>1. \A n \in 0 .. 0 : Longer(c, g, n) = <<>>
      BY DEF Longer
  <2>2. g = [n \in 0 .. 0 |-> Longer(c, g, n)]
      BY <2>1
  <2> QED
      BY <2>2
<1>3. ASSUME NEW m \in Nat, m # 0, Good(m - 1) PROVE Good(m)
  <2>1. PICK f : f = [n \in 0 .. m - 1 |-> Longer(c, f, n)]
      BY <1>3
  <2> DEFINE g == [n \in 0 .. m |-> IF n = m THEN Longer(c, f, m) ELSE f[n]]
  <2>2. \A n \in 0 .. m : n # 0 => g[n - 1] = f[n - 1]
      OBVIOUS
  <2>3. \A n \in 0 .. m : Longer(c, g, n) = Longer(c, f, n)
      BY <1>1, <2>2
  <2>4. \A n \in 0 .. m : g[n] = Longer(c, f, n)
    <3> SUFFICES ASSUME NEW n \in 0 .. m PROVE g[n] = Longer(c, f, n)
        OBVIOUS
    <3>1. CASE n = m
        BY <3>1
    <3>2. CASE n # m
      <4>1. n \in 0 .. m - 1
          BY <3>2
      <4>2. g[n] = f[n]
          BY <3>2
      <4> QED
          BY <2>1, <4>1, <4>2
    <3> QED
        BY <3>1, <3>2
  <2>5. g = [n \in 0 .. m |-> g[n]]
      OBVIOUS
  <2> HIDE DEF g
  <2>6. g = [n \in 0 .. m |-> Longer(c, g, n)]
      BY <2>3, <2>4, <2>5
  <2> QED
      BY <2>6
<1>4. 0 \in S
    BY <1>2
<1>5. \A n \in 1 .. N : n - 1 \in S => n \in S
  <2> SUFFICES ASSUME NEW n \in 1 .. N, Good(n - 1) PROVE n \in S
      OBVIOUS
  <2>1. n \in Nat /\ n # 0
      OBVIOUS
  <2> HIDE DEF Good
  <2>2. Good(n)
      BY <1>3, <2>1
  <2> QED
      BY <2>1, <2>2
<1> HIDE DEF S
<1>6. N \in S
    BY <1>4, <1>5, UpTo
<1> QED
    BY <1>6 DEF S

\* The chunks of a description, encoded.
Pieces(d) == [n \in 1 .. Len(d.chunks) |-> ChunkBytes(d.chunks[n], Claim(d, n))]

\* The encoding is the concatenation of the pieces.
LEMMA EncodedIs ==
  ASSUME NEW d, Len(d.chunks) \in Nat
  PROVE  /\ Encoded(d)[0] = <<>>
         /\ \A n \in 1 .. Len(d.chunks) : Joined(Encoded(d)[n], Encoded(d)[n - 1], Pieces(d)[n])
<1> DEFINE N == Len(d.chunks)
           c == Pieces(d)
           Solves(f) == f = [n \in 0 .. N |-> Longer(c, f, n)]
<1>1. \A f, n : n \in 0 .. N =>
         Longer(c, f, n) = IF n = 0 THEN <<>> ELSE f[n - 1] \o ChunkBytes(d.chunks[n], Claim(d, n))
  <2> SUFFICES ASSUME NEW f, NEW n \in 0 .. N, n # 0
               PROVE  c[n] = ChunkBytes(d.chunks[n], Claim(d, n))
      BY Zenon DEF Longer
  <2>1. n \in 1 .. N
      OBVIOUS
  <2> QED
      BY <2>1 DEF Pieces
<1> HIDE DEF c
<1>2. \A f : [n \in 0 .. N |-> Longer(c, f, n)]
             = [n \in 0 .. N |-> IF n = 0 THEN <<>> ELSE f[n - 1] \o ChunkBytes(d.chunks[n], Claim(d, n))]
    BY <1>1, Zenon
<1>3. Encoded(d) = CHOOSE f : Solves(f)
    BY <1>2, Zenon DEF Encoded
<1>4. \E f : Solves(f)
    BY JoinsExist
<1>5. Solves(Encoded(d))
    BY <1>3, <1>4, Zenon
<1>6. \A n \in 0 .. N : Encoded(d)[n] = Longer(c, Encoded(d), n)
    BY <1>5, Zenon
<1>7. Encoded(d)[0] = <<>>
  <2>1. 0 \in 0 .. N
      OBVIOUS
  <2> QED
      BY <1>6, <2>1, Zenon DEF Longer
<1>8. ASSUME NEW n \in 1 .. N PROVE Joined(Encoded(d)[n], Encoded(d)[n - 1], c[n])
  <2>1. n \in 0 .. N /\ n # 0
      OBVIOUS
  <2> QED
      BY <1>6, <2>1, Zenon DEF Longer, Joined
<1> QED
    BY <1>7, <1>8 DEF c

LEMMA FourBytes ==
  ASSUME NEW s \in [1 .. 4 -> byte]
  PROVE  s \in Seq(byte) /\ Len(s) = 4
<1>1. s \in Seq(byte)
    BY SeqDef, 4 \in Nat
<1>2. DOMAIN s = 1 .. 4
    OBVIOUS
<1> QED
    BY <1>1, <1>2, LenProperties

LEMMA SmallerWord ==
  ASSUME NEW n, u32_range(n), NEW m \in Nat, m <= n
  PROVE  u32_range(m)
<1>1. n \in Nat /\ n \div 65536 < 65536
    BY SMT DEF u32_range
<1>2. m \div 65536 <= n \div 65536
    BY <1>1, SMT
<1>3. m \div 65536 \in Nat /\ n \div 65536 \in Nat
    BY <1>1, SMT
<1>4. m \div 65536 < 65536
    BY <1>1, <1>2, <1>3, SMT
<1> QED
    BY <1>4, SMT DEF u32_range

\* What the assumption says of a description, unfolded.
LEMMA DescriptionIs ==
  ASSUME NEW d \in Descriptions
  PROVE  /\ Len(d.chunks) \in Nat /\ DOMAIN d.chunks = 1 .. Len(d.chunks)
         /\ d.riff \in Seq(byte) /\ Len(d.riff) = 4
         /\ d.wave \in Seq(byte) /\ Len(d.wave) = 4
         /\ d.claim \in Nat \ {1} /\ d.cut \in Nat
         /\ \A i \in 1 .. Len(d.chunks) :
              /\ IsChunk(d.chunks[i])
              /\ Claim(d, i) \in Nat
              /\ u32_range(Len(Payload(d.chunks[i])) + Claim(d, i))
<1>1. /\ {d.riff, d.wave} \subseteq [1..4 -> byte]
      /\ Len(d.chunks) \in Nat /\ DOMAIN d.chunks = 1..Len(d.chunks)
      /\ d.claim \in Nat \ {1} /\ d.cut \in Nat
      /\ \A i \in DOMAIN d.chunks :
            IsChunk(d.chunks[i]) /\ u32_range(Len(Payload(d.chunks[i])) + d.claim)
    BY DescriptionsAssumption
<1>2. d.riff \in Seq(byte) /\ Len(d.riff) = 4 /\ d.wave \in Seq(byte) /\ Len(d.wave) = 4
    BY <1>1, FourBytes
<1>3. ASSUME NEW i \in 1 .. Len(d.chunks)
      PROVE  /\ IsChunk(d.chunks[i]) /\ Claim(d, i) \in Nat
             /\ u32_range(Len(Payload(d.chunks[i])) + Claim(d, i))
  <2> DEFINE L == Len(Payload(d.chunks[i]))
  <2>1. IsChunk(d.chunks[i]) /\ u32_range(L + d.claim)
      BY <1>1
  <2>2. L \in Nat
      BY <2>1, PayloadIs
  <2>3. Claim(d, i) \in Nat /\ Claim(d, i) <= d.claim
      BY <1>1 DEF Claim
  <2> HIDE DEF L
  <2>4. L + Claim(d, i) \in Nat /\ L + Claim(d, i) <= L + d.claim
      BY <1>1, <2>2, <2>3
  <2>5. u32_range(L + Claim(d, i))
      BY <2>1, <2>4, SmallerWord
  <2> QED
      BY <2>1, <2>3, <2>5 DEF L
<1> QED
    BY <1>1, <1>2, <1>3

\* A chunk has its id, its size and its payload at 0, 4 and 8, and an even length.
LEMMA ChunkBytesAre ==
  ASSUME NEW c, IsChunk(c), NEW claim \in Nat
  PROVE  LET p == ChunkBytes(c, claim)
             L == Len(Payload(c))
         IN  /\ p \in Seq(byte) /\ L \in Nat /\ Len(p) = 8 + L + (L % 2)
             /\ Holds(p, 0, c.id) /\ Holds(p, 4, le32(L + claim)) /\ Holds(p, 8, Payload(c))
<1> DEFINE payload == Payload(c)
           L == Len(payload)
           size == le32(L + claim)
           pad == Zeros(L % 2)
           h == c.id \o size
           r == h \o payload
           p == r \o pad
<1>1. c.id \in Seq(byte) /\ Len(c.id) = 4 /\ payload \in Seq(byte) /\ L \in Nat
    BY PayloadIs
<1>2. p = ChunkBytes(c, claim)
    BY DEF ChunkBytes
<1>3. L + claim \in Nat /\ L % 2 \in Nat
    BY <1>1
<1>4. size \in Seq(byte) /\ Len(size) = 4
    BY <1>3, le32Is
<1>5. pad \in Seq(byte) /\ Len(pad) = L % 2
    BY <1>3, ZerosAre
<1>a. Joined(h, c.id, size)
    BY DEF Joined
<1>b. Joined(r, h, payload)
    BY DEF Joined
<1>c. Joined(p, r, pad)
    BY DEF Joined
<1> HIDE DEF payload, size, pad, h, r, p
<1>6. h \in Seq(byte) /\ Len(h) = 8
  <2>1. h \in Seq(byte) /\ Len(h) = Len(c.id) + Len(size)
      BY <1>1, <1>4, <1>a, JoinedIs, Zenon
  <2>2. \A x, y, z : x = 4 /\ y = 4 /\ z = x + y => z = 8
      OBVIOUS
  <2> QED
      BY <1>1, <1>4, <2>1, <2>2, Zenon
<1>7. r \in Seq(byte) /\ Len(r) = 8 + L
  <2>1. r \in Seq(byte) /\ Len(r) = Len(h) + L
      BY <1>1, <1>6, <1>b, JoinedIs, Zenon
  <2> QED
      BY <1>6, <2>1
<1>8. p \in Seq(byte) /\ Len(p) = 8 + L + (L % 2)
  <2>1. p \in Seq(byte) /\ Len(p) = Len(r) + Len(pad)
      BY <1>5, <1>7, <1>c, JoinedIs, Zenon
  <2> QED
      BY <1>5, <1>7, <2>1
<1>9. Holds(p, 0, r)
    BY <1>5, <1>7, <1>c, JoinedHolds, Zenon
<1> USE 0 \in Nat
<1>10. Holds(p, 0, h) /\ Holds(p, 0 + Len(h), payload)
    BY <1>1, <1>6, <1>8, <1>9, <1>b, HoldsJoined, Zenon
<1>11. Holds(p, 0, c.id) /\ Holds(p, 0 + Len(c.id), size)
    BY <1>1, <1>4, <1>8, <1>10, <1>a, HoldsJoined, Zenon
<1>12. 0 + Len(h) = 8 /\ 0 + Len(c.id) = 4
    BY <1>1, <1>6
<1>13. /\ p \in Seq(byte) /\ L \in Nat /\ Len(p) = 8 + L + (L % 2)
       /\ Holds(p, 0, c.id) /\ Holds(p, 4, size) /\ Holds(p, 8, payload)
    BY <1>1, <1>8, <1>10, <1>11, <1>12
<1> QED
    BY <1>2, <1>13, Zenon DEF payload, size

-----------------------------------------------------------------------------

LEMMA PiecesAre ==
  ASSUME NEW d \in Descriptions, NEW i \in 1 .. Len(d.chunks)
  PROVE  LET p == Pieces(d)[i]
             L == Len(Payload(d.chunks[i]))
         IN  /\ p \in Seq(byte) /\ L \in Nat /\ Len(p) = 8 + L + (L % 2)
             /\ Holds(p, 0, d.chunks[i].id) /\ Holds(p, 4, le32(L + Claim(d, i)))
             /\ Holds(p, 8, Payload(d.chunks[i]))
<1>1. Pieces(d)[i] = ChunkBytes(d.chunks[i], Claim(d, i))
    BY DEF Pieces
<1>2. IsChunk(d.chunks[i]) /\ Claim(d, i) \in Nat
    BY DescriptionIs
<1> QED
    BY <1>1, <1>2, ChunkBytesAre, Zenon

\* Each piece follows the ones before it.
LEMMA EncodedAre ==
  ASSUME NEW d \in Descriptions
  PROVE  \A n \in 0 .. Len(d.chunks) :
           /\ Encoded(d)[n] \in Seq(byte)
           /\ n # 0 => /\ Encoded(d)[n - 1] \in Seq(byte)
                       /\ Len(Encoded(d)[n]) = Len(Encoded(d)[n - 1]) + Len(Pieces(d)[n])
                       /\ Holds(Encoded(d)[n], 0, Encoded(d)[n - 1])
                       /\ Holds(Encoded(d)[n], Len(Encoded(d)[n - 1]), Pieces(d)[n])
<1> DEFINE K == Len(d.chunks)
           S == {n \in Nat : Encoded(d)[n] \in Seq(byte)}
<1>1. K \in Nat
    BY DescriptionIs
<1>2. /\ Encoded(d)[0] = <<>>
      /\ \A n \in 1 .. K : Joined(Encoded(d)[n], Encoded(d)[n - 1], Pieces(d)[n])
    BY <1>1, EncodedIs
<1>3. \A n \in 1 .. K : Pieces(d)[n] \in Seq(byte)
    BY PiecesAre
<1> HIDE DEF K
<1>4. 0 \in S
  <2>1. <<>> \in Seq(byte)
      OBVIOUS
  <2> QED
      BY <1>2, <2>1
<1>5. \A n \in 1 .. K : n - 1 \in S => n \in S
    BY <1>1, <1>2, <1>3, JoinedIs
<1>6. \A n \in 0 .. K : n \in S
    BY <1>1, <1>4, <1>5, UpTo
<1>7. ASSUME NEW n \in 1 .. K
      PROVE  /\ Encoded(d)[n - 1] \in Seq(byte)
             /\ Len(Encoded(d)[n]) = Len(Encoded(d)[n - 1]) + Len(Pieces(d)[n])
             /\ Holds(Encoded(d)[n], 0, Encoded(d)[n - 1])
             /\ Holds(Encoded(d)[n], Len(Encoded(d)[n - 1]), Pieces(d)[n])
  <2>1. n - 1 \in 0 .. K
      BY <1>1
  <2>2. Encoded(d)[n - 1] \in Seq(byte) /\ Pieces(d)[n] \in Seq(byte)
      BY <1>3, <1>6, <2>1
  <2>3. Joined(Encoded(d)[n], Encoded(d)[n - 1], Pieces(d)[n])
      BY <1>2
  <2> QED
      BY <2>2, <2>3, JoinedIs, JoinedHolds, Zenon
<1>8. \A n \in 0 .. K : n # 0 => n \in 1 .. K
    BY <1>1
<1> QED
    BY <1>6, <1>7, <1>8 DEF K

\* Each chunk is in the body where the ones before it end.
LEMMA BodyHolds ==
  ASSUME NEW d \in Descriptions
  PROVE  /\ Body(d) \in Seq(byte)
         /\ \A i \in 1 .. Len(d.chunks) : Holds(Body(d), Len(Encoded(d)[i - 1]), Pieces(d)[i])
<1> DEFINE K == Len(d.chunks)
           e == Encoded(d)
           S == {n \in Nat : \A i \in 0 .. n : n <= K => Holds(e[n], 0, e[i])}
<1>1. K \in Nat
    BY DescriptionIs
<1>2. \A n \in 0 .. K : e[n] \in Seq(byte)
    BY EncodedAre
<1>3. \A n \in 1 .. K : /\ Holds(e[n], 0, e[n - 1]) /\ Holds(e[n], Len(e[n - 1]), Pieces(d)[n])
  <2> SUFFICES ASSUME NEW n \in 1 .. K
               PROVE  Holds(e[n], 0, e[n - 1]) /\ Holds(e[n], Len(e[n - 1]), Pieces(d)[n])
      OBVIOUS
  <2>1. n \in 0 .. K /\ n # 0
      BY <1>1
  <2> QED
      BY <2>1, EncodedAre
<1> HIDE DEF K, e
<1>4. 0 \in S
  <2>1. Holds(e[0], 0, e[0])
      BY <1>1, <1>2, HoldsItself
  <2>2. \A i \in 0 .. 0 : i = 0
      OBVIOUS
  <2> QED
      BY <2>1, <2>2
<1>5. ASSUME NEW n \in 1 .. K, n - 1 \in S PROVE n \in S
  <2>1. n \in Nat /\ n - 1 \in Nat /\ n - 1 <= K /\ n \in 0 .. K /\ n - 1 \in 0 .. K
      BY <1>1
  <2>2. ASSUME NEW i \in 0 .. n PROVE Holds(e[n], 0, e[i])
    <3>1. CASE i = n
        BY <1>2, <2>1, <3>1, HoldsItself
    <3>2. CASE i # n
      <4>1. i \in 0 .. n - 1 /\ i \in 0 .. K
          BY <1>1, <2>1, <3>2
      <4>2. Holds(e[n - 1], 0, e[i])
          BY <1>5, <2>1, <4>1
      <4>3. Holds(e[n], 0, e[n - 1])
          BY <1>3
      <4>4. e[n] \in Seq(byte) /\ e[n - 1] \in Seq(byte) /\ e[i] \in Seq(byte)
          BY <1>2, <2>1, <4>1
      <4>5. Holds(e[n], 0 + 0, e[i])
          BY <4>2, <4>3, <4>4, HoldsWithin, 0 \in Nat
      <4> QED
          BY <4>5, 0 + 0 = 0
    <3> QED
        BY <3>1, <3>2
  <2> QED
      BY <2>1, <2>2
<1>6. K \in S
  <2>1. \A n \in 1 .. K : n - 1 \in S => n \in S
      BY <1>5
  <2> HIDE DEF S
  <2> QED
      BY <1>1, <1>4, <2>1, UpTo
<1>7. ASSUME NEW i \in 1 .. K PROVE Holds(e[K], Len(e[i - 1]), Pieces(d)[i])
  <2>1. K \in 0 .. K /\ i \in 0 .. K /\ i - 1 \in 0 .. K
      BY <1>1
  <2>2. Holds(e[K], 0, e[i])
      BY <1>1, <1>6, <2>1
  <2>3. Holds(e[i], Len(e[i - 1]), Pieces(d)[i])
      BY <1>3
  <2>4. e[K] \in Seq(byte) /\ e[i] \in Seq(byte) /\ Len(e[i - 1]) \in Nat
      BY <1>2, <2>1
  <2>5. Pieces(d)[i] \in Seq(byte)
      BY PiecesAre DEF K
  <2>6. Holds(e[K], 0 + Len(e[i - 1]), Pieces(d)[i])
      BY <2>2, <2>3, <2>4, <2>5, HoldsWithin, 0 \in Nat
  <2> QED
      BY <2>4, <2>6, 0 + Len(e[i - 1]) = Len(e[i - 1])
<1>8. K \in 0 .. K
    BY <1>1
<1> QED
    BY <1>2, <1>7, <1>8 DEF K, e, Body

\* The file before it was cut off.
Whole(d) == d.riff \o le32(4 + Len(Body(d))) \o d.wave \o Body(d)

\* The header of the file and what follows it.
LEMMA WholeIs ==
  ASSUME NEW d \in Descriptions
  PROVE  /\ Body(d) \in Seq(byte) /\ Whole(d) \in Seq(byte) /\ Len(Whole(d)) = 12 + Len(Body(d))
         /\ Holds(Whole(d), 0, d.riff) /\ Holds(Whole(d), 8, d.wave) /\ Holds(Whole(d), 12, Body(d))
<1> DEFINE body == Body(d)
           size == le32(4 + Len(body))
           h == d.riff \o size
           r == h \o d.wave
           w == r \o body
<1>1. /\ d.riff \in Seq(byte) /\ Len(d.riff) = 4
      /\ d.wave \in Seq(byte) /\ Len(d.wave) = 4
    BY DescriptionIs
<1>2. body \in Seq(byte)
    BY BodyHolds
<1>3. size \in Seq(byte) /\ Len(size) = 4
  <2>1. 4 + Len(body) \in Nat
      BY <1>2
  <2> QED
      BY <2>1, le32Is
<1>4. w = Whole(d)
    BY DEF Whole
<1>a. Joined(h, d.riff, size)
    BY DEF Joined
<1>b. Joined(r, h, d.wave)
    BY DEF Joined
<1>c. Joined(w, r, body)
    BY DEF Joined
<1> HIDE DEF body, size, h, r, w
<1>5. h \in Seq(byte) /\ Len(h) = 8
  <2>1. h \in Seq(byte) /\ Len(h) = Len(d.riff) + Len(size)
      BY <1>1, <1>3, <1>a, JoinedIs, Zenon
  <2>2. \A x, y, z : x = 4 /\ y = 4 /\ z = x + y => z = 8
      OBVIOUS
  <2> QED
      BY <1>1, <1>3, <2>1, <2>2, Zenon
<1>6. r \in Seq(byte) /\ Len(r) = 12
  <2>1. r \in Seq(byte) /\ Len(r) = Len(h) + Len(d.wave)
      BY <1>1, <1>5, <1>b, JoinedIs, Zenon
  <2> QED
      BY <1>1, <1>5, <2>1
<1>7. w \in Seq(byte) /\ Len(w) = 12 + Len(body)
  <2>1. w \in Seq(byte) /\ Len(w) = Len(r) + Len(body)
      BY <1>2, <1>6, <1>c, JoinedIs, Zenon
  <2> QED
      BY <1>6, <2>1
<1>8. Holds(w, 0, r) /\ Holds(w, Len(r), body)
    BY <1>2, <1>6, <1>c, JoinedHolds, Zenon
<1> USE 0 \in Nat
<1>9. Holds(w, 0, h) /\ Holds(w, 0 + Len(h), d.wave)
    BY <1>1, <1>5, <1>7, <1>8, <1>b, HoldsJoined, Zenon
<1>10. Holds(w, 0, d.riff)
    BY <1>1, <1>3, <1>7, <1>9, <1>a, HoldsJoined, Zenon
<1>11. 0 + Len(h) = 8 /\ Len(r) = 12
    BY <1>5, <1>6
<1>12. /\ body \in Seq(byte) /\ w \in Seq(byte) /\ Len(w) = 12 + Len(body)
       /\ Holds(w, 0, d.riff) /\ Holds(w, 8, d.wave) /\ Holds(w, 12, body)
    BY <1>2, <1>7, <1>8, <1>9, <1>10, <1>11
<1> QED
    BY <1>4, <1>12, Zenon DEF body

\* What is left of the file is its beginning.
LEMMA FileIs ==
  ASSUME NEW d \in Descriptions, bytes = build_file(d)
  PROVE  /\ bytes \in Seq(byte) /\ Len(bytes) \in Nat /\ Len(bytes) <= Len(Whole(d))
         /\ Holds(Whole(d), 0, bytes)
<1> DEFINE w == Whole(d)
<1>1. w \in Seq(byte) /\ d.cut \in Nat
    BY WholeIs, DescriptionIs
<1>2. bytes = IF d.cut < Len(w) THEN SubSeq(w, 1, d.cut) ELSE w
    BY Zenon DEF build_file, Whole
<1> HIDE DEF w
<1>3. CASE d.cut < Len(w)
  <2>1. bytes = SubSeq(w, 1, d.cut) /\ Len(w) \in Nat
      BY <1>1, <1>2, <1>3
  <2>2. bytes \in Seq(byte)
      BY <1>1, <1>3, <2>1
  <2>3. Len(bytes) = d.cut
      BY <1>1, <1>3, <2>1
  <2>4. \A k \in 1 .. d.cut : w[0 + k] = bytes[k]
      BY <1>1, <1>3, <2>1
  <2>5. Holds(w, 0, bytes)
      BY <1>1, <1>3, <2>1, <2>3, <2>4 DEF Holds
  <2> QED
      BY <1>1, <1>3, <2>1, <2>2, <2>3, <2>5 DEF w
<1>4. CASE ~(d.cut < Len(w))
  <2>1. bytes = w
      BY <1>2, <1>4
  <2>2. Len(w) \in Nat
      BY <1>1
  <2> QED
      BY <1>1, <2>1, <2>2, HoldsItself DEF w
<1> QED
    BY <1>3, <1>4

\* How long a chunk is in the file, its header and its padding with it.
Extent(d, i) == 8 + Len(Payload(d.chunks[i])) + (Len(Payload(d.chunks[i])) % 2)

\* Every chunk starts where the one before it ends.
LEMMA StartsAre ==
  ASSUME NEW d \in Descriptions
  PROVE  /\ Start(d, 1) = 12
         /\ \A i \in 1 .. Len(d.chunks) + 1 : Start(d, i) \in Nat /\ Start(d, i) >= 12
         /\ \A i \in 1 .. Len(d.chunks) :
              /\ Start(d, i + 1) = Start(d, i) + Extent(d, i)
              /\ Holds(Whole(d), Start(d, i), Pieces(d)[i])
         /\ Start(d, Len(d.chunks) + 1) = Len(Whole(d))
<1> DEFINE K == Len(d.chunks)
           e == Encoded(d)
<1>1. K \in Nat
    BY DescriptionIs
<1>2. \A n \in 0 .. K : e[n] \in Seq(byte) /\ Len(e[n]) \in Nat
  <2>1. \A n \in 0 .. K : e[n] \in Seq(byte)
      BY EncodedAre
  <2> QED
      BY <2>1, LenProperties
<1>3. \A n \in 1 .. K : Len(e[n]) = Len(e[n - 1]) + Len(Pieces(d)[n])
  <2>1. \A n \in 1 .. K : n \in 0 .. K /\ n # 0
      BY <1>1
  <2> QED
      BY <2>1, EncodedAre
<1>4. \A i \in 1 .. K : Pieces(d)[i] \in Seq(byte) /\ Len(Pieces(d)[i]) = Extent(d, i)
    BY PiecesAre DEF Extent
<1>5. \A i \in 1 .. K : Holds(Body(d), Len(e[i - 1]), Pieces(d)[i])
    BY BodyHolds
<1>6. \A i : Start(d, i) = 12 + Len(e[i - 1])
    BY DEF Start
<1>7. e[0] = <<>>
    BY <1>1, EncodedIs
<1>8. Len(e[K]) = Len(Body(d))
    BY DEF Body
<1> HIDE DEF K, e
<1>9. Start(d, 1) = 12
  <2>1. Len(<<>>) = 0 /\ 1 - 1 = 0
      OBVIOUS
  <2>2. Start(d, 1) = 12 + 0
      BY <1>6, <1>7, <2>1
  <2> QED
      BY <2>2
<1>10. ASSUME NEW i \in 1 .. K + 1 PROVE Start(d, i) \in Nat /\ Start(d, i) >= 12
  <2>1. i - 1 \in 0 .. K
      BY <1>1
  <2> QED
      BY <1>2, <1>6, <2>1
<1>11. ASSUME NEW i \in 1 .. K
       PROVE  /\ Start(d, i + 1) = Start(d, i) + Extent(d, i)
              /\ Holds(Whole(d), Start(d, i), Pieces(d)[i])
  <2>1. i - 1 \in 0 .. K /\ i \in 0 .. K /\ (i + 1) - 1 = i
      BY <1>1
  <2>2. Len(e[i - 1]) \in Nat /\ Len(e[i]) = Len(e[i - 1]) + Extent(d, i) /\ Len(e[i]) \in Nat
      BY <1>2, <1>3, <1>4, <2>1
  <2>3. Start(d, i + 1) = 12 + Len(e[i])
      BY <1>6, <2>1
  <2>4. Extent(d, i) \in Nat
    <3>1. Len(Pieces(d)[i]) \in Nat
        BY <1>4, LenProperties
    <3> QED
        BY <1>4, <3>1
  <2>5. Start(d, i + 1) = Start(d, i) + Extent(d, i)
    <3>1. Start(d, i) = 12 + Len(e[i - 1])
        BY <1>6
    <3> QED
        BY <2>2, <2>3, <2>4, <3>1
  <2>6. Holds(Whole(d), 12 + Len(e[i - 1]), Pieces(d)[i])
    <3>1. 12 \in Nat
        OBVIOUS
    <3> QED
        BY <1>4, <1>5, <2>2, <3>1, WholeIs, HoldsWithin, Zenon
  <2> QED
      BY <1>6, <2>5, <2>6
<1>12. Start(d, K + 1) = Len(Whole(d))
  <2>1. (K + 1) - 1 = K
      BY <1>1
  <2>2. Start(d, K + 1) = 12 + Len(Body(d))
      BY <1>6, <1>8, <2>1
  <2> QED
      BY <2>2, WholeIs, Zenon
<1> QED
    BY <1>9, <1>10, <1>11, <1>12 DEF K

\* A later chunk starts after an earlier one has ended.
LEMMA StartsRise ==
  ASSUME NEW d \in Descriptions, NEW i \in 1 .. Len(d.chunks), NEW j \in i + 1 .. Len(d.chunks) + 1
  PROVE  Start(d, i) + Extent(d, i) <= Start(d, j)
<1> DEFINE K == Len(d.chunks)
           S == {n \in Nat : i + 1 + n <= K + 1 => Start(d, i + 1) <= Start(d, i + 1 + n)}
<1>1. K \in Nat /\ i \in Nat
    BY DescriptionIs
<1>2. /\ \A k \in 1 .. K + 1 : Start(d, k) \in Nat
      /\ \A k \in 1 .. K : Start(d, k + 1) = Start(d, k) + Extent(d, k)
    BY StartsAre
<1>3. \A k \in 1 .. K : Extent(d, k) \in Nat
  <2> SUFFICES ASSUME NEW k \in 1 .. K PROVE Extent(d, k) \in Nat
      OBVIOUS
  <2>1. Len(Payload(d.chunks[k])) \in Nat
      BY DescriptionIs, PayloadIs
  <2> QED
      BY <2>1 DEF Extent
<1> HIDE DEF K
<1>4. 0 \in S
  <2>1. (i + 1) + 0 = i + 1 /\ i + 1 \in 1 .. K + 1
      BY <1>1 DEF K
  <2>2. Start(d, i + 1) \in Nat
      BY <1>2, <2>1
  <2> QED
      BY <2>1, <2>2
<1>5. ASSUME NEW n \in 1 .. K, n - 1 \in S PROVE n \in S
  <2> SUFFICES ASSUME (i + 1) + n <= K + 1 PROVE Start(d, i + 1) <= Start(d, (i + 1) + n)
      BY <1>1
  <2> DEFINE p == (i + 1) + (n - 1)
  <2>1. p \in 1 .. K /\ p \in 1 .. K + 1 /\ p + 1 = (i + 1) + n /\ p <= K + 1 /\ p + 1 \in 1 .. K + 1
      BY <1>1
  <2>2. Start(d, i + 1) <= Start(d, p)
      BY <1>5, <2>1
  <2>3. i + 1 \in 1 .. K + 1
      BY <1>1 DEF K
  <2> HIDE DEF p
  <2>4. Start(d, p + 1) = Start(d, p) + Extent(d, p)
      BY <1>2, <2>1
  <2>5. Start(d, i + 1) \in Nat /\ Start(d, p) \in Nat /\ Extent(d, p) \in Nat
      BY <1>2, <1>3, <2>1, <2>3
  <2>6. Start(d, i + 1) <= Start(d, p + 1)
      BY <2>2, <2>4, <2>5
  <2> QED
      BY <2>1, <2>6
<1>6. \A n \in 0 .. K : n \in S
  <2>1. \A n \in 1 .. K : n - 1 \in S => n \in S
      BY <1>5
  <2> HIDE DEF S
  <2> QED
      BY <1>1, <1>4, <2>1, UpTo
<1>7. j - (i + 1) \in 0 .. K /\ (i + 1) + (j - (i + 1)) = j /\ j <= K + 1
    BY <1>1 DEF K
<1>8. Start(d, i + 1) <= Start(d, j)
    BY <1>6, <1>7
<1>9. i \in 1 .. K
    BY DEF K
<1> QED
    BY <1>2, <1>8, <1>9

\* The parser reads the header of a chunk that is there, ...
LEMMA HeaderRead ==
  ASSUME NEW d \in Descriptions, bytes = build_file(d), NEW i \in 1 .. Len(d.chunks),
         HeaderIsThere(d, i)
  PROVE  /\ Slice(bytes, Start(d, i), Start(d, i) + 4) = d.chunks[i].id
         /\ u32(bytes, Start(d, i) + 4) = Len(Payload(d.chunks[i])) + Claim(d, i)
<1> DEFINE s == Start(d, i)
           p == Pieces(d)[i]
           id == d.chunks[i].id
           n == Len(Payload(d.chunks[i])) + Claim(d, i)
           w == Whole(d)
<1>1. s \in Nat /\ Holds(w, s, p)
  <2>1. i \in 1 .. Len(d.chunks) + 1
      BY DescriptionIs
  <2> QED
      BY <2>1, StartsAre
<1>2. p \in Seq(byte) /\ Holds(p, 0, id) /\ Holds(p, 4, le32(n))
    BY PiecesAre
<1>3. u32_range(n) /\ n \in Nat /\ id \in Seq(byte) /\ Len(id) = 4
  <2>1. IsChunk(d.chunks[i]) /\ u32_range(n)
      BY DescriptionIs
  <2>2. n \in Nat
      BY <2>1 DEF u32_range
  <2> QED
      BY <2>1, <2>2, PayloadIs
<1>4. bytes \in Seq(byte) /\ Len(bytes) \in Nat /\ Holds(w, 0, bytes) /\ w \in Seq(byte)
    BY FileIs, WholeIs
<1>5. s + 8 <= Len(bytes)
    BY DEF HeaderIsThere, CHUNK_HEADER
<1> HIDE DEF s, p, id, n, w
<1>6. le32(n) \in Seq(byte) /\ Len(le32(n)) = 4
    BY <1>3, le32Is
<1>7. Holds(w, s + 0, id) /\ Holds(w, s + 4, le32(n))
  <2>1. 0 \in Nat /\ 4 \in Nat
      OBVIOUS
  <2> QED
      BY <1>1, <1>2, <1>3, <1>4, <1>6, <2>1, HoldsWithin, Zenon
<1>8. s + 0 = s /\ s + 4 \in Nat /\ s + Len(id) <= Len(bytes) /\ (s + 4) + Len(le32(n)) <= Len(bytes)
    BY <1>1, <1>3, <1>4, <1>5, <1>6
<1>9. Holds(bytes, s, id)
    BY <1>1, <1>3, <1>4, <1>7, <1>8, HoldsCut
<1>10. Holds(bytes, s + 4, le32(n))
    BY <1>4, <1>6, <1>7, <1>8, HoldsCut
<1>11. Slice(bytes, s, s + 4) = id
  <2>1. Slice(bytes, s, s + Len(id)) = id
      BY <1>1, <1>3, <1>4, <1>9, SliceHeld
  <2> QED
      BY <1>3, <2>1
<1>12. u32(bytes, s + 4) = n
    BY <1>3, <1>4, <1>8, <1>10, ReadWord
<1> QED
    BY <1>11, <1>12 DEF s, id, n

\* ... and the body of one that is there whole.
LEMMA BodyRead ==
  ASSUME NEW d \in Descriptions, bytes = build_file(d), NEW i \in 1 .. Len(d.chunks),
         BodyIsThere(d, i)
  PROVE  LET s == Start(d, i)
             L == Len(Payload(d.chunks[i]))
         IN  /\ Claim(d, i) = 0 /\ HeaderIsThere(d, i) /\ s + 8 + L <= Len(bytes)
             /\ Slice(bytes, s + 8, s + 8 + L) = Payload(d.chunks[i])
<1> DEFINE s == Start(d, i)
           p == Pieces(d)[i]
           body == Payload(d.chunks[i])
           L == Len(body)
           w == Whole(d)
<1>1. s \in Nat /\ Holds(w, s, p)
  <2>1. i \in 1 .. Len(d.chunks) + 1
      BY DescriptionIs
  <2> QED
      BY <2>1, StartsAre
<1>2. p \in Seq(byte) /\ Holds(p, 8, body)
    BY PiecesAre
<1>3. body \in Seq(byte) /\ L \in Nat
    BY DescriptionIs, PayloadIs
<1>4. /\ bytes \in Seq(byte) /\ Len(bytes) \in Nat /\ Len(bytes) <= Len(w)
      /\ Holds(w, 0, bytes) /\ w \in Seq(byte)
    BY FileIs, WholeIs
<1>5. Claim(d, i) \in Nat /\ s + 8 + L + Claim(d, i) <= Len(bytes)
    BY DescriptionIs DEF BodyIsThere, CHUNK_HEADER
<1>6. Claim(d, i) = 0
  <2> SUFFICES ASSUME Claim(d, i) # 0 PROVE FALSE
      OBVIOUS
  <2>1. i = Len(d.chunks) /\ Claim(d, i) = d.claim
      BY DEF Claim
  <2>2. Claim(d, i) >= 2
      BY <2>1, DescriptionIs
  <2>3. Len(w) = s + Extent(d, i)
      BY <2>1, StartsAre
  <2>4. Extent(d, i) = 8 + L + (L % 2)
      BY DEF Extent
  <2> HIDE DEF s, L, w
  <2> QED
      BY <1>1, <1>3, <1>4, <1>5, <2>2, <2>3, <2>4
<1>7. HeaderIsThere(d, i)
    BY <1>1, <1>3, <1>4, <1>5 DEF HeaderIsThere, CHUNK_HEADER
<1> HIDE DEF s, p, body, w
<1>8. Holds(w, s + 8, body)
  <2>1. 8 \in Nat
      OBVIOUS
  <2> QED
      BY <1>1, <1>2, <1>3, <1>4, <2>1, HoldsWithin, Zenon
<1>9. s + 8 \in Nat /\ (s + 8) + L <= Len(bytes)
    BY <1>1, <1>3, <1>4, <1>5, <1>6
<1>10. Holds(bytes, s + 8, body)
    BY <1>3, <1>4, <1>8, <1>9, HoldsCut
<1>11. Slice(bytes, s + 8, (s + 8) + L) = body
    BY <1>3, <1>4, <1>9, <1>10, SliceHeld
<1> QED
    BY <1>6, <1>7, <1>9, <1>11 DEF s, body

-----------------------------------------------------------------------------
(* The walk over the chunks. *)

\* What the walk finds from pos on, given what it finds from later positions on.
FoundFrom(b, walk, pos) ==
  IF pos + CHUNK_HEADER > Len(b) THEN <<>>
  ELSE LET size == u32(b, pos + 4)
           body == pos + CHUNK_HEADER
           end == body + size
       IN  IF end > Len(b) THEN <<[id |-> "Truncated"]>>
           ELSE <<[id |-> Slice(b, pos, pos + 4), body |-> Slice(b, body, end)]>>
                  \o walk[NextChunk(end, size)]

LEMMA WordIsNumber ==
  ASSUME NEW b \in Seq(byte), NEW off \in Nat, off + 4 <= Len(b)
  PROVE  u32(b, off) \in Nat
<1>1. \A x \in byte : x \in Nat
    BY DEF byte
<1>2. Len(b) \in Nat /\ \A k \in 1 .. Len(b) : b[k] \in Nat
    BY <1>1
<1>3. off + 1 \in 1 .. Len(b) /\ off + 2 \in 1 .. Len(b) /\ (off + 2) + 1 \in 1 .. Len(b) /\ (off + 2) + 2 \in 1 .. Len(b)
    BY <1>2
<1>4. u16(b, off) \in Nat /\ u16(b, off + 2) \in Nat
    BY <1>2, <1>3 DEF u16
<1> QED
    BY <1>4, SMT DEF u32

\* It only asks for later ones.
LEMMA WalkGoesOn ==
  ASSUME NEW b \in Seq(byte), NEW pos \in 12 .. Len(b) + 1, NEW f, NEW g,
         \A p \in pos + 1 .. Len(b) + 1 : f[p] = g[p]
  PROVE  FoundFrom(b, f, pos) = FoundFrom(b, g, pos)
<1> DEFINE size == u32(b, pos + 4)
           end == pos + CHUNK_HEADER + size
<1>1. Len(b) \in Nat /\ pos \in Nat
    OBVIOUS
<1>2. ASSUME pos + CHUNK_HEADER <= Len(b), end <= Len(b)
      PROVE  f[NextChunk(end, size)] = g[NextChunk(end, size)]
  <2>1. size \in Nat
    <3>1. pos + 4 \in Nat /\ (pos + 4) + 4 <= Len(b)
        BY <1>1, <1>2 DEF CHUNK_HEADER
    <3> QED
        BY <3>1, WordIsNumber
  <2> HIDE DEF size
  <2>2. end \in Nat /\ end >= pos + 8
      BY <1>1, <2>1 DEF CHUNK_HEADER
  <2>3. NextChunk(end, size) \in pos + 1 .. Len(b) + 1
    <3>1. size % 2 \in 0 .. 1
        BY <2>1
    <3> HIDE DEF end
    <3> QED
        BY <1>1, <1>2, <2>1, <2>2, <3>1 DEF NextChunk
  <2> QED
      BY <2>3
<1>3. ASSUME ~(pos + CHUNK_HEADER > Len(b)), ~(end > Len(b))
      PROVE  f[NextChunk(end, size)] = g[NextChunk(end, size)]
  <2>1. pos + CHUNK_HEADER <= Len(b)
      BY <1>1, <1>3 DEF CHUNK_HEADER
  <2>2. size \in Nat
    <3>1. pos + 4 \in Nat /\ (pos + 4) + 4 <= Len(b)
        BY <1>1, <2>1 DEF CHUNK_HEADER
    <3> QED
        BY <3>1, WordIsNumber
  <2> HIDE DEF size
  <2>3. end <= Len(b)
      BY <1>1, <1>3, <2>2 DEF CHUNK_HEADER
  <2> QED
      BY <1>2, <2>1, <2>3 DEF size
<1>4. CASE pos + CHUNK_HEADER > Len(b)
    BY <1>4, Zenon DEF FoundFrom
<1>5. CASE ~(pos + CHUNK_HEADER > Len(b)) /\ end > Len(b)
    BY <1>5, Zenon DEF FoundFrom
<1>6. CASE ~(pos + CHUNK_HEADER > Len(b)) /\ ~(end > Len(b))
  <2>1. f[NextChunk(end, size)] = g[NextChunk(end, size)]
      BY <1>3, <1>6
  <2> QED
      BY <1>6, <2>1, Zenon DEF FoundFrom
<1> QED
    BY <1>4, <1>5, <1>6

\* There is a walk: it is built from the end of the file backwards.
LEMMA WalksExist ==
  ASSUME NEW b \in Seq(byte), Len(b) >= 12
  PROVE  \E f : f = [pos \in 12 .. Len(b) + 1 |-> FoundFrom(b, f, pos)]
<1> DEFINE N == Len(b) + 1
           Good(m) == \E f : f = [pos \in N - m .. N |-> FoundFrom(b, f, pos)]
           S == {m \in Nat : N - m >= 12 => Good(m)}
<1>1. N \in Nat /\ N >= 13
    OBVIOUS
<1>2. \A pos \in 12 .. N : \A f, g :
         (\A p \in pos + 1 .. N : f[p] = g[p]) => FoundFrom(b, f, pos) = FoundFrom(b, g, pos)
    BY WalkGoesOn
<1> HIDE DEF N
<1>3. Good(0)
  <2> DEFINE f == [pos \in N - 0 .. N |-> FoundFrom(b, [p \in {} |-> 0], N)]
  <2>1. N - 0 = N /\ N \in 12 .. N /\ \A pos \in N - 0 .. N : pos = N
      BY <1>1
  <2>2. \A p \in N + 1 .. N : f[p] = [q \in {} |-> 0][p]
      BY <1>1
  <2>3. FoundFrom(b, f, N) = FoundFrom(b, [q \in {} |-> 0], N)
    <3> HIDE DEF f
    <3> QED
        BY <1>2, <2>1, <2>2
  <2>4. f = [pos \in N - 0 .. N |-> FoundFrom(b, f, pos)]
    <3>1. \A pos \in N - 0 .. N : FoundFrom(b, f, pos) = FoundFrom(b, [q \in {} |-> 0], N)
        BY <2>1, <2>3
    <3> QED
        BY <3>1, Zenon
  <2> QED
      BY <2>4
<1>4. ASSUME NEW m \in Nat, m # 0, N - m >= 12, Good(m - 1) PROVE Good(m)
  <2> DEFINE here == N - m
  <2>1. N - (m - 1) = here + 1 /\ here \in 12 .. N /\ here \in Nat
      BY <1>1, <1>4
  <2>2. PICK f : f = [pos \in here + 1 .. N |-> FoundFrom(b, f, pos)]
      BY <1>4, <2>1
  <2> HIDE DEF here
  <2> DEFINE g == [pos \in here .. N |-> IF pos = here THEN FoundFrom(b, f, here) ELSE f[pos]]
  <2>3. \A pos \in here + 1 .. N : g[pos] = f[pos]
      BY <2>1
  <2>4. \A pos \in here .. N : FoundFrom(b, g, pos) = FoundFrom(b, f, pos)
    <3> SUFFICES ASSUME NEW pos \in here .. N PROVE FoundFrom(b, g, pos) = FoundFrom(b, f, pos)
        OBVIOUS
    <3>1. pos \in 12 .. N /\ \A p \in pos + 1 .. N : p \in here + 1 .. N
        BY <1>1, <2>1
    <3>2. \A p \in pos + 1 .. N : g[p] = f[p]
        BY <2>3, <3>1
    <3> HIDE DEF g
    <3> QED
        BY <1>2, <3>1, <3>2
  <2>5. \A pos \in here .. N : g[pos] = FoundFrom(b, f, pos)
    <3> SUFFICES ASSUME NEW pos \in here .. N PROVE g[pos] = FoundFrom(b, f, pos)
        OBVIOUS
    <3>1. CASE pos = here
        BY <3>1
    <3>2. CASE pos # here
      <4>1. pos \in here + 1 .. N
          BY <1>1, <2>1, <3>2
      <4>2. f[pos] = FoundFrom(b, f, pos)
          BY <2>2, <4>1, Zenon
      <4> QED
          BY <2>3, <4>1, <4>2
    <3> QED
        BY <3>1, <3>2
  <2>6. g = [pos \in here .. N |-> g[pos]]
      OBVIOUS
  <2> HIDE DEF g
  <2>7. g = [pos \in here .. N |-> FoundFrom(b, g, pos)]
      BY <2>4, <2>5, <2>6
  <2> QED
      BY <2>7 DEF here
<1>5. 0 \in S
    BY <1>3
<1>6. \A n \in 1 .. N : n - 1 \in S => n \in S
  <2> SUFFICES ASSUME NEW n \in 1 .. N, n - 1 \in S, N - n >= 12 PROVE Good(n)
      OBVIOUS
  <2>1. n \in Nat /\ n # 0 /\ N - (n - 1) >= 12
      BY <1>1
  <2> HIDE DEF Good
  <2>2. Good(n - 1)
      BY <2>1
  <2> QED
      BY <1>4, <2>1, <2>2
<1> HIDE DEF S
<1>7. N - 12 \in S
  <2>1. N - 12 \in 0 .. N
      BY <1>1
  <2> QED
      BY <1>1, <1>5, <1>6, <2>1, UpTo
<1>8. Good(N - 12)
  <2>1. N - (N - 12) >= 12
      BY <1>1
  <2> HIDE DEF Good
  <2> QED
      BY <1>7, <2>1 DEF S
<1>9. N - (N - 12) = 12
    BY <1>1
<1> QED
    BY <1>8, <1>9 DEF N

\* The walk of the parser is one.
LEMMA WalkIs ==
  ASSUME NEW b \in Seq(byte), Len(b) >= 12
  PROVE  \E walk : /\ Chunks(b) = walk[12]
                   /\ \A pos \in 12 .. Len(b) + 1 : walk[pos] = FoundFrom(b, walk, pos)
<1> DEFINE Solves(f) == f = [pos \in 12 .. Len(b) + 1 |-> FoundFrom(b, f, pos)]
           walk == CHOOSE f : Solves(f)
<1>1. \E f : Solves(f)
    BY WalksExist
<1>2. Solves(walk)
    BY <1>1, Zenon
<1>3. Chunks(b) = walk[12]
    BY Zenon DEF Chunks, FoundFrom
<1> HIDE DEF walk
<1>4. \A pos \in 12 .. Len(b) + 1 : walk[pos] = FoundFrom(b, walk, pos)
    BY <1>2, Zenon
<1> QED
    BY <1>3, <1>4

\* A set of positions that is not empty has a last one.
LEMMA GreatestExists ==
  ASSUME NEW n \in Nat, NEW S, S \subseteq 1 .. n, S # {}
  PROVE  \E i \in S : \A j \in S : j <= i
<1> DEFINE Above == {k \in Nat : \A j \in S : j <= k}
<1>1. n \in Above
    OBVIOUS
<1>2. PICK m \in Above : \A x \in Above : ~(<<x, m>> \in OpToRel(<, Nat))
    BY <1>1, Above \subseteq Nat, NatLessThanWellFounded, WFMin
<1>3. m \in Nat /\ \A j \in S : j <= m
    BY <1>2
<1>4. CASE m \in S
    BY <1>3, <1>4
<1>5. CASE m \notin S
  <2>1. \A j \in S : j \in 1 .. n /\ j < m
      BY <1>3, <1>5
  <2>2. m - 1 \in Nat /\ \A j \in S : j <= m - 1
    <3>1. PICK j \in S : TRUE
        OBVIOUS
    <3>2. j \in Nat /\ j < m
        BY <2>1, <3>1
    <3>3. m - 1 \in Nat
        BY <1>3, <3>2
    <3>4. ASSUME NEW i \in S PROVE i <= m - 1
      <4>1. i \in Nat /\ i < m
          BY <2>1
      <4> QED
          BY <1>3, <4>1
    <3> QED
        BY <3>3, <3>4
  <2>3. m - 1 \in Above /\ m - 1 < m
      BY <1>3, <2>2
  <2>4. <<m - 1, m>> \in OpToRel(<, Nat)
      BY <1>3, <2>2, <2>3 DEF OpToRel
  <2> QED
      BY <1>2, <2>3, <2>4
<1> QED
    BY <1>4, <1>5

\* A header is not there unless all the chunks before it are.
LEMMA HeadersFollow ==
  ASSUME NEW d \in Descriptions, bytes = build_file(d), NEW i \in 1 .. Len(d.chunks),
         HeaderIsThere(d, i), NEW j \in 1 .. i - 1
  PROVE  BodyIsThere(d, j)
<1> DEFINE L == Len(Payload(d.chunks[j]))
           s == Start(d, j)
           u == Start(d, i)
<1>1. Len(d.chunks) \in Nat /\ j \in 1 .. Len(d.chunks) /\ j # Len(d.chunks) /\ j \in 1 .. Len(d.chunks) + 1
      /\ i \in j + 1 .. Len(d.chunks) + 1 /\ i \in 1 .. Len(d.chunks) + 1
  <2>1. Len(d.chunks) \in Nat
      BY DescriptionIs
  <2> QED
      BY <2>1
<1>2. L \in Nat
    BY <1>1, DescriptionIs, PayloadIs
<1>3. Claim(d, j) = 0
    BY <1>1 DEF Claim
<1>4. s + Extent(d, j) <= u /\ s \in Nat /\ u \in Nat
    BY <1>1, StartsRise, StartsAre
<1>5. u + 8 <= Len(bytes) /\ Len(bytes) \in Nat
    BY FileIs DEF HeaderIsThere, CHUNK_HEADER
<1>6. Extent(d, j) = 8 + L + (L % 2)
    BY DEF Extent
<1> HIDE DEF L, s, u
<1>7. s + 8 + L + 0 <= Len(bytes)
    BY <1>2, <1>4, <1>5, <1>6
<1> QED
    BY <1>3, <1>7 DEF BodyIsThere, CHUNK_HEADER, L, s

\* The chunks whose bodies are in the file come first.
LEMMA ThereComesFirst ==
  ASSUME NEW d \in Descriptions, bytes = build_file(d)
  PROVE  \E m \in 0 .. Len(d.chunks) : \A i \in 1 .. Len(d.chunks) : BodyIsThere(d, i) <=> i <= m
<1> DEFINE K == Len(d.chunks)
           S == {i \in 1 .. K : BodyIsThere(d, i)}
<1>1. K \in Nat
    BY DescriptionIs
<1>2. \A i \in S : \A j \in 1 .. i - 1 : j \in S
  <2> SUFFICES ASSUME NEW i \in S, NEW j \in 1 .. i - 1 PROVE j \in S
      OBVIOUS
  <2>1. i \in 1 .. K /\ j \in 1 .. K
      BY <1>1
  <2>2. HeaderIsThere(d, i)
      BY <2>1, BodyRead
  <2> QED
      BY <2>1, <2>2, HeadersFollow
<1>3. CASE S = {}
  <2>1. 0 \in 0 .. K /\ \A i \in 1 .. K : ~(i <= 0)
      BY <1>1
  <2> QED
      BY <1>3, <2>1
<1>4. CASE S # {}
  <2>1. S \subseteq 1 .. K
      OBVIOUS
  <2>2. PICK m \in S : \A j \in S : j <= m
    <3> HIDE DEF S, K
    <3> QED
        BY <1>1, <1>4, <2>1, GreatestExists
  <2>3. m \in 0 .. K /\ m \in 1 .. K
      BY <1>1, <2>1
  <2>4. ASSUME NEW i \in 1 .. K, i <= m PROVE i \in S
      BY <1>1, <1>2, <2>3, <2>4
  <2> QED
      BY <2>2, <2>3, <2>4
<1> QED
    BY <1>3, <1>4

\* What the walk finds where the i-th chunk starts, m of them being wholly there.
Entry(d, m, i) ==
  IF i <= m THEN [id |-> d.chunks[i].id, body |-> Payload(d.chunks[i])] ELSE [id |-> "Truncated"]

\* The walk takes a chunk that is there, and goes on at the next, ...
LEMMA WalkAtChunk ==
  ASSUME NEW d \in Descriptions, bytes = build_file(d), NEW i \in 1 .. Len(d.chunks),
         BodyIsThere(d, i), NEW walk
  PROVE  /\ Start(d, i) \in 12 .. Len(bytes) + 1 /\ Start(d, i + 1) \in 12 .. Len(bytes) + 1
         /\ FoundFrom(bytes, walk, Start(d, i))
            = <<[id |-> d.chunks[i].id, body |-> Payload(d.chunks[i])]>> \o walk[Start(d, i + 1)]
<1> DEFINE s == Start(d, i)
           L == Len(Payload(d.chunks[i]))
           size == u32(bytes, s + 4)
           n == Len(bytes)
<1>1. /\ Claim(d, i) = 0 /\ HeaderIsThere(d, i) /\ s + 8 + L <= n
      /\ Slice(bytes, s + 8, s + 8 + L) = Payload(d.chunks[i])
    BY BodyRead
<1>2. Slice(bytes, s, s + 4) = d.chunks[i].id /\ size = L + Claim(d, i)
    BY <1>1, HeaderRead
<1>3. L \in Nat /\ n \in Nat
    BY DescriptionIs, PayloadIs, FileIs
<1>4. s \in Nat /\ s >= 12 /\ Start(d, i + 1) = s + Extent(d, i)
  <2>1. i \in 1 .. Len(d.chunks) + 1
      BY DescriptionIs
  <2> QED
      BY <2>1, StartsAre
<1>5. Extent(d, i) = 8 + L + (L % 2)
    BY DEF Extent
<1>6. size = L
    BY <1>1, <1>2, <1>3
<1> HIDE DEF s, L, size, n
<1>7. s + 8 <= n /\ ~(s + 8 > n) /\ ~(s + 8 + L > n)
    BY <1>1, <1>3, <1>4
<1>8. Start(d, i + 1) = s + 8 + L + (L % 2) /\ L % 2 \in 0 .. 1
    BY <1>3, <1>4, <1>5
<1>9. s \in 12 .. n + 1 /\ Start(d, i + 1) \in 12 .. n + 1
    BY <1>1, <1>3, <1>4, <1>8
<1>10. NextChunk(s + 8 + L, L) = Start(d, i + 1)
    BY <1>3, <1>4, <1>8 DEF NextChunk
<1>11. FoundFrom(bytes, walk, s)
       = <<[id |-> Slice(bytes, s, s + 4), body |-> Slice(bytes, s + 8, s + 8 + size)]>>
            \o walk[NextChunk(s + 8 + size, size)]
    BY <1>6, <1>7, Zenon DEF FoundFrom, CHUNK_HEADER, size, n
<1>12. FoundFrom(bytes, walk, s)
       = <<[id |-> d.chunks[i].id, body |-> Payload(d.chunks[i])]>> \o walk[Start(d, i + 1)]
    BY <1>1, <1>2, <1>6, <1>10, <1>11, Zenon
<1> QED
    BY <1>9, <1>12 DEF s, n

\* ... until there is none, or its header only.
LEMMA WalkAtEnd ==
  ASSUME NEW d \in Descriptions, bytes = build_file(d), Len(bytes) >= 12,
         NEW m \in 0 .. Len(d.chunks), NEW walk,
         \A i \in 1 .. Len(d.chunks) : BodyIsThere(d, i) <=> i <= m
  PROVE  /\ Start(d, m + 1) \in 12 .. Len(bytes) + 1
         /\ FoundFrom(bytes, walk, Start(d, m + 1))
            = IF m < Len(d.chunks) /\ HeaderIsThere(d, m + 1) THEN <<[id |-> "Truncated"]>> ELSE <<>>
<1> DEFINE K == Len(d.chunks)
           s == Start(d, m + 1)
           n == Len(bytes)
           size == u32(bytes, s + 4)
<1>1. K \in Nat /\ n \in Nat /\ m \in Nat /\ n <= Len(Whole(d)) /\ m <= K
  <2>1. K \in Nat
      BY DescriptionIs
  <2> QED
      BY <2>1, FileIs
<1>2. s \in Nat /\ s >= 12
  <2>1. m + 1 \in 1 .. K + 1
      BY <1>1
  <2> QED
      BY <2>1, StartsAre
<1>3. s \in 12 .. n + 1
  <2>1. CASE m = 0
    <3>1. s = 12
        BY <2>1, StartsAre
    <3> QED
        BY <1>1, <3>1
  <2>2. CASE m # 0
    <3>1. m \in 1 .. K /\ m <= m
        BY <1>1, <2>2
    <3>2. BodyIsThere(d, m)
        BY <3>1
    <3> QED
        BY <3>1, <3>2, WalkAtChunk
  <2> QED
      BY <2>1, <2>2
<1>4. CASE m < K /\ HeaderIsThere(d, m + 1)
  <2> DEFINE i == m + 1
             L == Len(Payload(d.chunks[i]))
  <2>1. i \in 1 .. K /\ ~(i <= m)
      BY <1>1, <1>4
  <2>2. ~BodyIsThere(d, i)
      BY <2>1
  <2>3. size = L + Claim(d, i)
      BY <1>4, <2>1, HeaderRead
  <2>4. ~(s + 8 + L + Claim(d, i) <= n)
      BY <2>2 DEF BodyIsThere, CHUNK_HEADER
  <2>5. L \in Nat /\ Claim(d, i) \in Nat
      BY <2>1, DescriptionIs, PayloadIs
  <2>6. s + 8 <= n
      BY <1>4 DEF HeaderIsThere, CHUNK_HEADER
  <2> HIDE DEF i, L, s, n, size
  <2>7. ~(s + 8 > n) /\ s + 8 + size > n
      BY <1>1, <1>2, <2>3, <2>4, <2>5, <2>6
  <2>8. FoundFrom(bytes, walk, s) = <<[id |-> "Truncated"]>>
      BY <2>7, Zenon DEF FoundFrom, CHUNK_HEADER, n, size
  <2> QED
      BY <1>3, <1>4, <2>8 DEF s, n
<1>5. CASE ~(m < K /\ HeaderIsThere(d, m + 1))
  <2>1. s + 8 > n
    <3>1. CASE m = K
      <4>1. s = Len(Whole(d))
          BY <3>1, StartsAre
      <4> HIDE DEF s, n
      <4> QED
          BY <1>1, <1>2, <4>1
    <3>2. CASE m # K
      <4>1. ~HeaderIsThere(d, m + 1)
          BY <1>1, <1>5, <3>2
      <4>2. ~(s + 8 <= n)
          BY <4>1 DEF HeaderIsThere, CHUNK_HEADER
      <4> HIDE DEF s, n
      <4> QED
          BY <1>1, <1>2, <4>2
    <3> QED
        BY <3>1, <3>2
  <2>2. FoundFrom(bytes, walk, s) = <<>>
      BY <2>1, Zenon DEF FoundFrom, CHUNK_HEADER
  <2> QED
      BY <1>3, <1>5, <2>2
<1> QED
    BY <1>4, <1>5

LEMMA Prepended ==
  ASSUME NEW S, NEW x \in S, NEW g \in Seq(S), NEW h \in Seq(S), Len(h) = Len(g) + 1,
         h[1] = x, \A k \in 1 .. Len(g) : h[k + 1] = g[k]
  PROVE  <<x>> \o g = h
<1> DEFINE s == <<x>>
           u == s \o g
<1>1. s \in Seq(S) /\ Len(s) = 1 /\ s[1] = x
    OBVIOUS
<1>2. Len(g) \in Nat
    OBVIOUS
<1> HIDE DEF s
<1>3. /\ u \in Seq(S) /\ Len(u) = Len(s) + Len(g)
      /\ \A k \in 1 .. Len(s) + Len(g) : u[k] = IF k <= Len(s) THEN s[k] ELSE g[k - Len(s)]
    BY <1>1, ConcatProperties, Zenon
<1> HIDE DEF u
<1>4. ASSUME NEW k \in 1 .. Len(u) PROVE u[k] = h[k]
  <2>1. CASE k = 1
    <3>1. 1 \in 1 .. Len(s) + Len(g) /\ 1 <= Len(s)
        BY <1>1, <1>2
    <3> QED
        BY <1>1, <1>3, <2>1, <3>1
  <2>2. CASE k # 1
    <3>1. k \in 1 .. Len(s) + Len(g) /\ ~(k <= Len(s)) /\ k - Len(s) = k - 1 /\ k - 1 \in 1 .. Len(g) /\ (k - 1) + 1 = k
        BY <1>1, <1>2, <1>3, <2>2
    <3>2. u[k] = g[k - 1]
        BY <1>3, <3>1
    <3> QED
        BY <3>1, <3>2
  <2> QED
      BY <2>1, <2>2
<1>5. Len(u) = Len(h)
    BY <1>1, <1>2, <1>3
<1>6. u = h
    BY <1>3, <1>4, <1>5, SeqEqual, Zenon
<1> QED
    BY <1>6 DEF u, s

\* What the parser's walk makes of a file that was cut off, or of one whose last chunk
\* claims more than there is: the chunks whose bodies are there, and Truncated when a
\* header follows them.
LEMMA ChunksAre ==
  ASSUME NEW d \in Descriptions, bytes = build_file(d), Len(bytes) >= 12,
         NEW m \in 0 .. Len(d.chunks),
         \A i \in 1 .. Len(d.chunks) : BodyIsThere(d, i) <=> i <= m,
         NEW t, t = IF m < Len(d.chunks) /\ HeaderIsThere(d, m + 1) THEN 1 ELSE 0
  PROVE  Chunks(bytes) = [k \in 1 .. m + t |-> Entry(d, m, k)]
<1> DEFINE K == Len(d.chunks)
           n == Len(bytes)
           All == {Entry(d, m, k) : k \in Nat}
           Listed(q) == [k \in 1 .. q + t |-> Entry(d, m, m - q + k)]
<1>1. K \in Nat /\ m \in Nat /\ m <= K /\ t \in Nat /\ (t = 0 \/ t = 1)
  <2>1. K \in Nat
      BY DescriptionIs
  <2> QED
      BY <2>1
<1>2. PICK walk : /\ Chunks(bytes) = walk[12]
                  /\ \A pos \in 12 .. n + 1 : walk[pos] = FoundFrom(bytes, walk, pos)
    BY FileIs, WalkIs
<1> DEFINE S == {q \in Nat : q <= m => walk[Start(d, m + 1 - q)] = Listed(q)}
<1>3. \A q \in 0 .. m : Listed(q) \in Seq(All) /\ Len(Listed(q)) = q + t
  <2> SUFFICES ASSUME NEW q \in 0 .. m PROVE Listed(q) \in Seq(All) /\ Len(Listed(q)) = q + t
      OBVIOUS
  <2>1. q + t \in Nat /\ \A k \in 1 .. q + t : m - q + k \in Nat
      BY <1>1
  <2>2. \A k \in 1 .. q + t : Entry(d, m, m - q + k) \in All
      BY <2>1
  <2> HIDE DEF All
  <2> QED
      BY <2>1, <2>2
<1>4. 0 \in S
  <2>1. (m + 1) - 0 = m + 1 /\ 0 + t = t
      BY <1>1
  <2>2. walk[Start(d, m + 1)] = IF m < K /\ HeaderIsThere(d, m + 1) THEN <<[id |-> "Truncated"]>> ELSE <<>>
      BY <1>2, WalkAtEnd
  <2>3. Listed(0) = IF m < K /\ HeaderIsThere(d, m + 1) THEN <<[id |-> "Truncated"]>> ELSE <<>>
    <3>1. CASE m < K /\ HeaderIsThere(d, m + 1)
      <4>1. t = 1
          BY <3>1
      <4>2. Listed(0) = [k \in 1 .. 1 |-> Entry(d, m, m - 0 + k)]
          BY <2>1, <4>1
      <4>3. \A k \in 1 .. 1 : Entry(d, m, m - 0 + k) = [id |-> "Truncated"]
        <5>1. \A k \in 1 .. 1 : ~(m - 0 + k <= m)
            BY <1>1
        <5> QED
            BY <5>1 DEF Entry
      <4>4. Listed(0) = <<[id |-> "Truncated"]>>
          BY <4>2, <4>3
      <4> QED
          BY <3>1, <4>4
    <3>2. CASE ~(m < K /\ HeaderIsThere(d, m + 1))
      <4>1. t = 0
          BY <3>2
      <4>2. Listed(0) = [k \in 1 .. 0 |-> Entry(d, m, m - 0 + k)]
          BY <2>1, <4>1
      <4>3. Listed(0) = <<>>
          BY <4>2
      <4> QED
          BY <3>2, <4>3
    <3> QED
        BY <3>1, <3>2
  <2> HIDE DEF Listed
  <2> QED
      BY <2>1, <2>2, <2>3
<1>5. ASSUME NEW q \in 1 .. m, q - 1 \in S PROVE q \in S
  <2> DEFINE i == m + 1 - q
             x == [id |-> d.chunks[i].id, body |-> Payload(d.chunks[i])]
  <2>1. /\ i \in 1 .. K /\ i <= m /\ (m + 1) - (q - 1) = i + 1 /\ q - 1 <= m /\ q \in 0 .. m /\ q - 1 \in 0 .. m
        /\ q \in Nat /\ m - q + 1 = i /\ i \in Nat
      BY <1>1
  <2>2. BodyIsThere(d, i)
      BY <2>1
  <2>3. walk[Start(d, i)] = <<x>> \o walk[Start(d, i + 1)]
      BY <1>2, <2>1, <2>2, WalkAtChunk
  <2>4. walk[Start(d, i + 1)] = Listed(q - 1)
    <3> HIDE DEF Listed, i
    <3>1. walk[Start(d, (m + 1) - (q - 1))] = Listed(q - 1)
        BY <1>5, <2>1
    <3> QED
        BY <2>1, <3>1, Zenon
  <2>5. x = Entry(d, m, i)
      BY <2>1 DEF Entry
  <2>6. Listed(q)[1] = x
    <3>1. 1 \in 1 .. q + t
        BY <1>1
    <3>2. Listed(q)[1] = Entry(d, m, m - q + 1)
        BY <3>1
    <3> QED
        BY <2>1, <2>5, <3>2
  <2>7. \A k \in 1 .. (q - 1) + t : Listed(q)[k + 1] = Listed(q - 1)[k]
    <3> SUFFICES ASSUME NEW k \in 1 .. (q - 1) + t PROVE Listed(q)[k + 1] = Listed(q - 1)[k]
        OBVIOUS
    <3>1. k + 1 \in 1 .. q + t /\ m - q + (k + 1) = m - (q - 1) + k
        BY <1>1, <2>1
    <3> QED
        BY <3>1
  <2>8. x \in All
      BY <2>1, <2>5
  <2>9. /\ Listed(q) \in Seq(All) /\ Len(Listed(q)) = q + t
        /\ Listed(q - 1) \in Seq(All) /\ Len(Listed(q - 1)) = (q - 1) + t
        /\ q + t = ((q - 1) + t) + 1
      BY <1>1, <1>3, <2>1
  <2> HIDE DEF Listed, All, x, i
  <2>10. <<x>> \o Listed(q - 1) = Listed(q)
      BY <2>6, <2>7, <2>8, <2>9, Prepended, Zenon
  <2>11. walk[Start(d, i)] = Listed(q)
      BY <2>3, <2>4, <2>10
  <2> QED
      BY <2>1, <2>11 DEF i
<1>6. m \in S
  <2>1. \A q \in 1 .. m : q - 1 \in S => q \in S
      BY <1>5
  <2>2. m \in 0 .. m
      BY <1>1
  <2> HIDE DEF S
  <2> QED
      BY <1>1, <1>4, <2>1, <2>2, UpTo
<1>7. walk[Start(d, 1)] = Listed(m)
  <2>1. (m + 1) - m = 1 /\ m <= m
      BY <1>1
  <2> QED
      BY <1>6, <2>1
<1>8. Listed(m) = [k \in 1 .. m + t |-> Entry(d, m, k)]
  <2>1. \A k \in 1 .. m + t : m - m + k = k
      BY <1>1
  <2> QED
      BY <2>1
<1> HIDE DEF Listed
<1> QED
    BY <1>2, <1>7, <1>8, StartsAre

\* The parser reads the two words that the file begins with.
LEMMA HeadRead ==
  ASSUME NEW d \in Descriptions, bytes = build_file(d), Len(bytes) >= 12
  PROVE  Slice(bytes, 0, 4) = d.riff /\ Slice(bytes, 8, 12) = d.wave
<1>1. /\ d.riff \in Seq(byte) /\ Len(d.riff) = 4
      /\ d.wave \in Seq(byte) /\ Len(d.wave) = 4
    BY DescriptionIs
<1>2. /\ Whole(d) \in Seq(byte) /\ Holds(Whole(d), 0, d.riff) /\ Holds(Whole(d), 8, d.wave)
      /\ bytes \in Seq(byte) /\ Len(bytes) \in Nat /\ Holds(Whole(d), 0, bytes)
    BY WholeIs, FileIs
<1>3. 0 \in Nat /\ 8 \in Nat /\ 0 + Len(d.riff) <= Len(bytes) /\ 8 + Len(d.wave) <= Len(bytes)
      /\ 0 + Len(d.riff) = 4 /\ 8 + Len(d.wave) = 12
    BY <1>1, <1>2
<1>4. Holds(bytes, 0, d.riff) /\ Holds(bytes, 8, d.wave)
    BY <1>1, <1>2, <1>3, HoldsCut, Zenon
<1>5. Slice(bytes, 0, 0 + Len(d.riff)) = d.riff /\ Slice(bytes, 8, 8 + Len(d.wave)) = d.wave
    BY <1>1, <1>2, <1>3, <1>4, SliceHeld, Zenon
<1> QED
    BY <1>3, <1>5

\* The walk says Truncated when a header has no body after it, ...
LEMMA TruncationSeen ==
  ASSUME NEW d \in Descriptions, bytes = build_file(d), Len(bytes) >= 12
  PROVE  (Chunks(bytes) # <<>> /\ Last(Chunks(bytes)) = [id |-> "Truncated"])
         <=> \E i \in DOMAIN d.chunks : HeaderIsThere(d, i) /\ ~BodyIsThere(d, i)
<1> DEFINE K == Len(d.chunks)
           C == Chunks(bytes)
<1>1. K \in Nat /\ DOMAIN d.chunks = 1 .. K
    BY DescriptionIs
<1>2. PICK m \in 0 .. K : \A i \in 1 .. K : BodyIsThere(d, i) <=> i <= m
    BY ThereComesFirst
<1> DEFINE t == IF m < K /\ HeaderIsThere(d, m + 1) THEN 1 ELSE 0
<1>3. C = [k \in 1 .. m + t |-> Entry(d, m, k)]
    BY <1>2, ChunksAre
<1>4. m \in Nat /\ m <= K
    BY <1>1
<1>5. CASE m < K /\ HeaderIsThere(d, m + 1)
  <2>1. m + 1 \in 1 .. K /\ ~(m + 1 <= m)
      BY <1>1, <1>4, <1>5
  <2>2. \E i \in DOMAIN d.chunks : HeaderIsThere(d, i) /\ ~BodyIsThere(d, i)
      BY <1>1, <1>2, <1>5, <2>1
  <2>3. t = 1
      BY <1>5
  <2> HIDE DEF t, C
  <2>4. C = [k \in 1 .. m + 1 |-> Entry(d, m, k)] /\ m + 1 \in Nat /\ m + 1 \in 1 .. m + 1
      BY <1>3, <1>4, <2>3
  <2>5. Len(C) = m + 1 /\ C[m + 1] = Entry(d, m, m + 1)
      BY <2>4
  <2>6. Entry(d, m, m + 1) = [id |-> "Truncated"]
      BY <2>1 DEF Entry
  <2>7. C # <<>>
      BY <1>4, <2>5
  <2>8. Last(C) = [id |-> "Truncated"]
      BY <2>5, <2>6 DEF Last
  <2> QED
      BY <2>2, <2>7, <2>8 DEF C
<1>6. CASE ~(m < K /\ HeaderIsThere(d, m + 1))
  <2>1. t = 0
      BY <1>6
  <2>2. ASSUME NEW i \in 1 .. K, HeaderIsThere(d, i), ~BodyIsThere(d, i) PROVE FALSE
    <3>1. i > m /\ m < K
        BY <1>1, <1>2, <1>4, <2>2
    <3>2. i # m + 1
        BY <1>6, <2>2, <3>1
    <3>3. m + 1 \in 1 .. i - 1 /\ m + 1 \in 1 .. K /\ ~(m + 1 <= m)
        BY <1>1, <1>4, <3>1, <3>2
    <3>4. BodyIsThere(d, m + 1)
        BY <2>2, <3>3, HeadersFollow
    <3> QED
        BY <1>2, <3>3, <3>4
  <2> HIDE DEF t, C
  <2>3. C = [k \in 1 .. m |-> Entry(d, m, k)]
    <3>1. m + t = m
        BY <1>4, <2>1
    <3> QED
        BY <1>3, <3>1
  <2>4. Len(C) = m
      BY <1>4, <2>3
  <2>5. ASSUME C # <<>>, Last(C) = [id |-> "Truncated"] PROVE FALSE
    <3>1. m # 0
        BY <1>4, <2>3, <2>5
    <3>2. m \in 1 .. m /\ m <= m
        BY <1>4, <3>1
    <3>3. C[m] = [id |-> d.chunks[m].id, body |-> Payload(d.chunks[m])]
        BY <2>3, <3>2 DEF Entry
    <3>4. Last(C) = C[m]
        BY <2>4 DEF Last
    <3>5. "body" \in DOMAIN C[m]
        BY <3>3
    <3>6. "body" \notin DOMAIN [id |-> "Truncated"]
        OBVIOUS
    <3> QED
        BY <2>5, <3>4, <3>5, <3>6
  <2> QED
      BY <1>1, <2>2, <2>5 DEF C
<1> QED
    BY <1>5, <1>6

\* The chunks of an id that are wholly there.
There(d, id) == {i \in DOMAIN d.chunks : d.chunks[i].id = id /\ BodyIsThere(d, i)}

\* ... and else finds the chunks that are there.
LEMMA ChunksSeen ==
  ASSUME NEW d \in Descriptions, bytes = build_file(d), Len(bytes) >= 12,
         ~ \E i \in DOMAIN d.chunks : HeaderIsThere(d, i) /\ ~BodyIsThere(d, i), NEW id
  PROVE  /\ Found(Chunks(bytes), id) = There(d, id)
         /\ \A i \in There(d, id) : Chunks(bytes)[i].body = Payload(d.chunks[i])
<1> DEFINE K == Len(d.chunks)
           C == Chunks(bytes)
<1>1. K \in Nat /\ DOMAIN d.chunks = 1 .. K
    BY DescriptionIs
<1>2. PICK m \in 0 .. K : \A i \in 1 .. K : BodyIsThere(d, i) <=> i <= m
    BY ThereComesFirst
<1>3. m \in Nat /\ m <= K
    BY <1>1
<1>4. ~(m < K /\ HeaderIsThere(d, m + 1))
  <2> SUFFICES ASSUME m < K, HeaderIsThere(d, m + 1) PROVE FALSE
      OBVIOUS
  <2>1. m + 1 \in 1 .. K /\ ~(m + 1 <= m)
      BY <1>1, <1>3
  <2> QED
      BY <1>1, <1>2, <2>1
<1>5. C = [k \in 1 .. m |-> Entry(d, m, k)]
  <2>1. C = [k \in 1 .. m + 0 |-> Entry(d, m, k)]
      BY <1>2, <1>4, ChunksAre
  <2> QED
      BY <1>3, <2>1
<1> HIDE DEF C
<1>6. DOMAIN C = 1 .. m
    BY <1>5
<1>7. ASSUME NEW k \in 1 .. m PROVE C[k].id = d.chunks[k].id /\ C[k].body = Payload(d.chunks[k])
  <2>1. C[k] = Entry(d, m, k) /\ k <= m
      BY <1>3, <1>5
  <2>2. C[k] = [id |-> d.chunks[k].id, body |-> Payload(d.chunks[k])]
      BY <2>1 DEF Entry
  <2> QED
      BY <2>2
<1>8. \A k \in 1 .. K : k \in 1 .. m <=> BodyIsThere(d, k)
    BY <1>1, <1>2, <1>3
<1>9. 1 .. m \subseteq 1 .. K
    BY <1>1, <1>3
<1>10. ASSUME NEW i PROVE i \in Found(C, id) <=> i \in There(d, id)
    BY <1>1, <1>6, <1>7, <1>8, <1>9 DEF Found, There
<1>11. ASSUME NEW i \in There(d, id) PROVE C[i].body = Payload(d.chunks[i])
    BY <1>1, <1>7, <1>8 DEF There
<1> QED
    BY <1>10, <1>11 DEF C

\* The one that wins.
LEMMA ChosenSeen ==
  ASSUME NEW d \in Descriptions, bytes = build_file(d), Len(bytes) >= 12,
         ~ \E i \in DOMAIN d.chunks : HeaderIsThere(d, i) /\ ~BodyIsThere(d, i), NEW id
  PROVE  /\ Found(Chunks(bytes), id) = {} <=> Chosen(d, id) = 0
         /\ Chosen(d, id) # 0 =>
              /\ Chosen(d, id) \in DOMAIN d.chunks /\ d.chunks[Chosen(d, id)].id = id
              /\ LastBody(Chunks(bytes), id) = Payload(d.chunks[Chosen(d, id)])
<1> DEFINE found == There(d, id)
           best == CHOOSE i \in found : \A j \in found : j <= i
<1>1. /\ Found(Chunks(bytes), id) = found
      /\ \A i \in found : Chunks(bytes)[i].body = Payload(d.chunks[i])
    BY ChunksSeen
<1>2. Chosen(d, id) = IF found = {} THEN 0 ELSE best
    BY Zenon DEF Chosen, There
<1>3. Len(d.chunks) \in Nat /\ DOMAIN d.chunks = 1 .. Len(d.chunks)
    BY DescriptionIs
<1>4. found \subseteq 1 .. Len(d.chunks) /\ \A i \in found : i \in DOMAIN d.chunks /\ d.chunks[i].id = id
    BY <1>3 DEF There
<1>5. LastBody(Chunks(bytes), id) = Chunks(bytes)[best].body
    BY <1>1, Zenon DEF LastBody
<1> HIDE DEF found
<1>6. ASSUME found # {} PROVE best \in found
  <2>1. \E i \in found : \A j \in found : j <= i
      BY <1>3, <1>4, <1>6, GreatestExists
  <2> QED
      BY <2>1
<1> HIDE DEF best
<1>7. ASSUME found # {} PROVE best # 0
  <2>1. best \in 1 .. Len(d.chunks)
      BY <1>4, <1>6, <1>7
  <2> QED
      BY <2>1
<1> QED
    BY <1>1, <1>2, <1>4, <1>5, <1>6, <1>7

\* The clip that the chosen chunks of a description make.
Clip(d) ==
  [error |-> "none", sample_rate |-> d.chunks[Chosen(d, FMT)].rate,
   channels |-> d.chunks[Chosen(d, FMT)].channels, data |-> Payload(d.chunks[Chosen(d, DATA)])]

\* The parser reads the format that was written.
LEMMA FormatRead ==
  ASSUME NEW c, IsChunk(c), c.id = FMT, c.size >= 16, NEW data
  PROVE  ReadFormat(Payload(c), data)
         = IF c.format = 1 /\ c.bits = 16 /\ c.channels \in {1, 2}
           THEN [error |-> "none", sample_rate |-> c.rate, channels |-> c.channels, data |-> data]
           ELSE Failed("Unsupported")
<1> DEFINE p == Payload(c)
<1>1. /\ u16(p, 0) = c.format /\ u16(p, 2) = c.channels
      /\ u16(p, 14) = c.bits /\ u32(p, 4) = c.rate
    BY FmtPayload, Zenon
<1>2. ReadFormat(p, data)
      = IF c.format # 1 \/ c.bits # 16 \/ c.channels \notin {1, 2} THEN Failed("Unsupported")
        ELSE [error |-> "none", sample_rate |-> c.rate, channels |-> c.channels, data |-> data]
    BY <1>1, Zenon DEF ReadFormat
<1> QED
    BY <1>2

\* The parser makes of the bytes what the description says.
LEMMA ParserIsRight ==
  ASSUME NEW d \in Descriptions, bytes = build_file(d)
  PROVE  /\ parse(bytes).error = Expected(d)
         /\ Expected(d) = "none" =>
              /\ Chosen(d, FMT) # 0 /\ Chosen(d, DATA) # 0 /\ parse(bytes) = Clip(d)
              /\ d.chunks[Chosen(d, FMT)].channels \in {1, 2}
<1> DEFINE n == Len(bytes)
           f == Chosen(d, FMT)
           a == Chosen(d, DATA)
           fmt == d.chunks[f]
           data == d.chunks[a]
           C == Chunks(bytes)
           Cut == \E i \in DOMAIN d.chunks : HeaderIsThere(d, i) /\ ~BodyIsThere(d, i)
           Rest == IF Cut THEN "Truncated"
                   ELSE IF f = 0 THEN "MissingFmt"
                   ELSE IF a = 0 THEN "MissingData"
                   ELSE IF fmt.size < 16 THEN "Truncated"
                   ELSE IF fmt.format = 1 /\ fmt.bits = 16 /\ fmt.channels \in {1, 2} THEN "none"
                   ELSE "Unsupported"
           Result(w) == /\ w.error = Rest
                        /\ Rest = "none" => /\ f # 0 /\ a # 0 /\ w = Clip(d)
                                            /\ fmt.channels \in {1, 2}
<1>1. n \in Nat
    BY FileIs
<1>2. \A e : Failed(e).error = e
    BY DEF Failed
<1>3. CASE n < 12
  <2>1. parse(bytes) = Failed("Truncated")
      BY <1>3, Zenon DEF parse
  <2>2. Expected(d) = "Truncated"
      BY <1>1, <1>3 DEF Expected
  <2> QED
      BY <1>2, <2>1, <2>2
<1>4. CASE n >= 12
  <2>1. ~(n < 12) /\ Slice(bytes, 0, 4) = d.riff /\ Slice(bytes, 8, 12) = d.wave
      BY <1>1, <1>4, HeadRead
  <2>2. CASE d.riff # RIFF
    <3>1. parse(bytes) = Failed("NotRiff")
        BY <2>1, <2>2, Zenon DEF parse
    <3>2. Expected(d) = "NotRiff"
        BY <1>4, <2>1, <2>2 DEF Expected
    <3> QED
        BY <1>2, <3>1, <3>2
  <2>3. CASE d.riff = RIFF /\ d.wave # WAVE
    <3>1. parse(bytes) = Failed("NotWave")
        BY <2>1, <2>3, Zenon DEF parse
    <3>2. Expected(d) = "NotWave"
        BY <1>4, <2>1, <2>3 DEF Expected
    <3> QED
        BY <1>2, <3>1, <3>2
  <2>4. CASE d.riff = RIFF /\ d.wave = WAVE
    <3>1. Expected(d) = Rest
        BY <1>4, <2>1, <2>4 DEF Expected
    <3>2. parse(bytes) = IF C # <<>> /\ Last(C) = [id |-> "Truncated"] THEN Failed("Truncated")
                         ELSE IF Found(C, FMT) = {} THEN Failed("MissingFmt")
                         ELSE IF Found(C, DATA) = {} THEN Failed("MissingData")
                         ELSE IF Len(LastBody(C, FMT)) < 16 THEN Failed("Truncated")
                         ELSE ReadFormat(LastBody(C, FMT), LastBody(C, DATA))
        BY <2>1, <2>4, Zenon DEF parse
    <3>3. (C # <<>> /\ Last(C) = [id |-> "Truncated"]) <=> Cut
        BY <1>4, TruncationSeen
    <3> HIDE DEF Cut, C
    <3>4. CASE Cut
      <4>1. parse(bytes) = Failed("Truncated") /\ Rest = "Truncated"
          BY <3>2, <3>3, <3>4
      <4> QED
          BY <1>2, <3>1, <4>1
    <3>5. CASE ~Cut
      <4>1. /\ Found(C, FMT) = {} <=> f = 0
            /\ f # 0 => f \in DOMAIN d.chunks /\ fmt.id = FMT /\ LastBody(C, FMT) = Payload(fmt)
          BY <1>4, <3>5, ChosenSeen DEF Cut, C
      <4>2. /\ Found(C, DATA) = {} <=> a = 0
            /\ a # 0 => a \in DOMAIN d.chunks /\ data.id = DATA /\ LastBody(C, DATA) = Payload(data)
          BY <1>4, <3>5, ChosenSeen DEF Cut, C
      <4> HIDE DEF f, a
      <4>3. CASE f = 0
        <5>1. parse(bytes) = Failed("MissingFmt") /\ Rest = "MissingFmt"
            BY <3>2, <3>3, <3>5, <4>1, <4>3
        <5> QED
            BY <1>2, <3>1, <5>1
      <4>4. CASE f # 0 /\ a = 0
        <5>1. parse(bytes) = Failed("MissingData") /\ Rest = "MissingData"
            BY <3>2, <3>3, <3>5, <4>1, <4>2, <4>4
        <5> QED
            BY <1>2, <3>1, <5>1
      <4>5. CASE f # 0 /\ a # 0
        <5>1. IsChunk(fmt)
            BY <4>1, <4>5, DescriptionIs
        <5>2. Len(Payload(fmt)) = fmt.size /\ fmt.size \in Nat
            BY <4>1, <4>5, <5>1, FmtPayload, FmtChunkIs
        <5>3. parse(bytes) = IF fmt.size < 16 THEN Failed("Truncated")
                             ELSE ReadFormat(Payload(fmt), Payload(data))
            BY <3>2, <3>3, <3>5, <4>1, <4>2, <4>5, <5>2
        <5>4. CASE fmt.size < 16
          <6>1. parse(bytes) = Failed("Truncated") /\ Rest = "Truncated"
              BY <3>5, <4>5, <5>3, <5>4
          <6> QED
              BY <1>2, <3>1, <6>1
        <5>5. CASE ~(fmt.size < 16)
          <6>1. fmt.size >= 16
              BY <5>2, <5>5
          <6>2. parse(bytes) = IF fmt.format = 1 /\ fmt.bits = 16 /\ fmt.channels \in {1, 2}
                               THEN [error |-> "none", sample_rate |-> fmt.rate,
                                     channels |-> fmt.channels, data |-> Payload(data)]
                               ELSE Failed("Unsupported")
              BY <4>1, <4>5, <5>1, <5>3, <5>5, <6>1, FormatRead
          <6>3. Rest = IF fmt.format = 1 /\ fmt.bits = 16 /\ fmt.channels \in {1, 2} THEN "none"
                       ELSE "Unsupported"
              BY <3>5, <4>5, <5>5
          <6>4. CASE fmt.format = 1 /\ fmt.bits = 16 /\ fmt.channels \in {1, 2}
            <7>1. parse(bytes) = [error |-> "none", sample_rate |-> fmt.rate,
                                  channels |-> fmt.channels, data |-> Payload(data)]
                BY <6>2, <6>4
            <7>2. parse(bytes) = Clip(d)
                BY <7>1, Zenon DEF Clip, f, a
            <7>3. parse(bytes).error = "none"
                BY <7>1
            <7>4. Rest = "none"
                BY <6>3, <6>4
            <7> HIDE DEF Rest, fmt
            <7> QED
                BY <3>1, <4>5, <6>4, <7>2, <7>3, <7>4 DEF f, a, fmt
          <6>5. CASE ~(fmt.format = 1 /\ fmt.bits = 16 /\ fmt.channels \in {1, 2})
            <7>1. parse(bytes) = Failed("Unsupported")
                BY <6>2, <6>5
            <7>2. Rest = "Unsupported"
                BY <6>3, <6>5
            <7> QED
                BY <1>2, <3>1, <7>1, <7>2
          <6> QED
              BY <6>4, <6>5
        <5> QED
            BY <5>4, <5>5
      <4> QED
          BY <4>3, <4>4, <4>5
    <3> QED
        BY <3>4, <3>5
  <2> QED
      BY <2>2, <2>3, <2>4
<1> QED
    BY <1>1, <1>3, <1>4

LEMMA WordsAreNumbers ==
  ASSUME NEW s \in Seq(i16_range)
  PROVE  s \in Seq(Int)
<1>1. i16_range \subseteq Int
    BY SampleRange
<1>2. Len(s) \in Nat /\ \A k \in 1 .. Len(s) : s[k] \in i16_range
    OBVIOUS
<1>3. s = [k \in 1 .. Len(s) |-> s[k]]
    OBVIOUS
<1> QED
    BY <1>1, <1>2, <1>3

LEMMA MeansAreNumbers ==
  ASSUME NEW s \in Seq(Int)
  PROVE  [k \in 1 .. (Len(s) \div 2) |->
            LET sum == s[2 * k - 1] + s[2 * k]
            IN  IF sum >= 0 THEN sum \div 2 ELSE (sum + 1) \div 2] \in Seq(Int)
<1> DEFINE Mean(sum) == IF sum >= 0 THEN sum \div 2 ELSE (sum + 1) \div 2
           h == Len(s) \div 2
<1>1. Len(s) \in Nat /\ \A k \in 1 .. Len(s) : s[k] \in Int
    OBVIOUS
<1>2. h \in Nat /\ 2 * h <= Len(s)
    BY <1>1
<1>3. \A n \in Int : Mean(n) \in Int
    OBVIOUS
<1> HIDE DEF Mean, h
<1>4. \A k \in 1 .. h : Mean(s[2 * k - 1] + s[2 * k]) \in Int
  <2> SUFFICES ASSUME NEW k \in 1 .. h PROVE Mean(s[2 * k - 1] + s[2 * k]) \in Int
      OBVIOUS
  <2>1. 2 * k - 1 \in 1 .. Len(s) /\ 2 * k \in 1 .. Len(s)
      BY <1>1, <1>2
  <2>2. s[2 * k - 1] + s[2 * k] \in Int
      BY <1>1, <2>1
  <2> QED
      BY <1>3, <2>2
<1>5. [k \in 1 .. h |-> Mean(s[2 * k - 1] + s[2 * k])] \in Seq(Int)
    BY <1>2, <1>4
<1> QED
    BY <1>5 DEF Mean, h

-----------------------------------------------------------------------------
(* Samples. *)

\* A sample is read as it was written.
LEMMA SampleRead ==
  ASSUME NEW c, IsChunk(c), c.id = DATA, NEW k \in 1 .. Len(c.samples)
  PROVE  i16(Payload(c), 2 * (k - 1)) = c.samples[k]
<1> DEFINE p == Payload(c)
           s == c.samples
           q == 2 * (k - 1)
           x == s[k]
           n == x % 65536
<1>1. s \in Seq(i16_range) /\ x \in i16_range /\ q \in Nat
    BY DataChunkIs
<1>2. x \in Int /\ x >= -32768 /\ x < 32768
    BY <1>1, SampleRange
<1>3. p \in Seq(byte) /\ Holds(p, 0, Pcm(s))
    BY DataPayload
<1>4. Pcm(s) \in Seq(byte) /\ Holds(Pcm(s), q, le16(n))
    BY <1>1, PcmIs
<1> HIDE DEF p, s, q, x
<1>5. n \in Nat
    BY <1>2, SMT
<1>6. n < 65536
    BY <1>2, SMT
<1>7. le16(n) \in Seq(byte)
    BY <1>5, le16Is
<1>8. n = IF x >= 0 THEN x ELSE x + 65536
    BY <1>2, SMT
<1> HIDE DEF n
<1>9. Holds(p, 0 + q, le16(n))
  <2>1. 0 \in Nat
      OBVIOUS
  <2> QED
      BY <1>1, <1>3, <1>4, <1>7, <2>1, HoldsWithin, Zenon
<1>10. Holds(p, q, le16(n))
  <2>1. 0 + q = q
      BY <1>1
  <2> QED
      BY <1>9, <2>1, Zenon
<1>11. u16(p, q) = n
    BY <1>1, <1>3, <1>5, <1>6, <1>10, ReadHalfWord, SMT
<1>12. i16(p, q) = IF n < 32768 THEN n ELSE n - 65536
    BY <1>11, SMT DEF i16
<1>13. i16(p, q) = x
    BY <1>2, <1>5, <1>8, <1>12, SMT
<1> QED
    BY <1>13 DEF p, s, q, x

\* Rust's division rounds a mean towards zero.
LEMMA QuotientIsMean ==
  ASSUME NEW sum \in Int
  PROVE  Quotient(sum, 2) = IF sum >= 0 THEN sum \div 2 ELSE (sum + 1) \div 2
BY SMT DEF Quotient

\* How many frames there are, and which one is not there whole: with one channel, ...
LEMMA OneChannel ==
  ASSUME NEW L \in Nat, NEW e \in 0 .. 1, NEW k \in Nat
  PROVE  /\ (2 * L + e) \div (2 * 1) = L
         /\ (k + 1) * 2 * 1 > 2 * L + e <=> k >= L
BY SMT

\* ... and with two.
LEMMA TwoChannels ==
  ASSUME NEW L \in Nat, NEW e \in 0 .. 1, NEW k \in Nat
  PROVE  /\ (2 * L + e) \div (2 * 2) = L \div 2
         /\ (k + 1) * 2 * 2 > 2 * L + e <=> k >= L \div 2
BY SMT

\* What the iterator makes of a clip is what the chunks describe.
LEMMA ClipIs ==
  ASSUME NEW d \in Descriptions, Chosen(d, FMT) # 0, Chosen(d, DATA) # 0,
         Chosen(d, FMT) \in DOMAIN d.chunks, Chosen(d, DATA) \in DOMAIN d.chunks,
         d.chunks[Chosen(d, FMT)].id = FMT, d.chunks[Chosen(d, DATA)].id = DATA,
         d.chunks[Chosen(d, FMT)].channels \in {1, 2}
  PROVE  /\ Frames(d) \in Seq(Int) /\ Clip(d).sample_rate \in Nat
         /\ frames(Clip(d)) = Len(Frames(d))
         /\ \A k \in Nat : Exhausted(Clip(d), k) <=> k >= Len(Frames(d))
         /\ \A k \in 0 .. Len(Frames(d)) - 1 : sample(Clip(d), k) = Frames(d)[k + 1]
<1> DEFINE f == d.chunks[Chosen(d, FMT)]
           c == d.chunks[Chosen(d, DATA)]
           s == c.samples
           e == c.extra
           p == Payload(c)
           w == Clip(d)
           F == Frames(d)
           L == Len(s)
           Mean(sum) == IF sum >= 0 THEN sum \div 2 ELSE (sum + 1) \div 2
<1>1. IsChunk(f) /\ IsChunk(c) /\ f.id = FMT /\ c.id = DATA
    BY DescriptionIs
<1>2. s \in Seq(i16_range) /\ e \in 0 .. 1
    BY <1>1, DataChunkIs
<1>3. p \in Seq(byte) /\ Len(p) = 2 * L + e
    BY <1>1, DataPayload
<1>4. \A k \in 1 .. L : i16(p, 2 * (k - 1)) = s[k]
    BY <1>1, SampleRead
<1>5. s \in Seq(Int) /\ L \in Nat
    BY <1>2, WordsAreNumbers
<1>6. w.channels = f.channels /\ w.data = p /\ w.sample_rate = f.rate
    BY DEF Clip
<1>7. w.sample_rate \in Nat
    BY <1>1, <1>6, FmtChunkIs DEF u32_range
<1>8. f.channels = 1 \/ f.channels = 2
    OBVIOUS
<1>9. F = IF f.channels = 1 THEN s
          ELSE [k \in 1 .. (L \div 2) |-> Mean(s[2 * k - 1] + s[2 * k])]
    BY Zenon DEF Frames
<1> HIDE DEF f, c, s, e, p, w, F, L
<1>10. CASE f.channels = 1
  <2>1. F = s /\ Len(F) = L
      BY <1>9, <1>10 DEF L
  <2>2. frames(w) = (2 * L + e) \div (2 * 1)
      BY <1>3, <1>6, <1>10, Zenon DEF frames
  <2>3. ASSUME NEW k \in Nat PROVE Exhausted(w, k) <=> k >= L
    <3>1. Exhausted(w, k) <=> (k + 1) * 2 * 1 > 2 * L + e
        BY <1>3, <1>6, <1>10, Zenon DEF Exhausted
    <3> QED
        BY <1>2, <1>5, <3>1, OneChannel
  <2>4. ASSUME NEW k \in 0 .. L - 1 PROVE sample(w, k) = s[k + 1]
    <3>1. k + 1 \in 1 .. L /\ k * 2 * 1 = 2 * ((k + 1) - 1)
        BY <1>5
    <3>2. i16(p, 2 * ((k + 1) - 1)) = s[k + 1]
        BY <1>4, <3>1
    <3>3. sample(w, k) = i16(p, k * 2 * 1)
        BY <1>6, <1>10, Zenon DEF sample
    <3> QED
        BY <3>1, <3>2, <3>3, Zenon
  <2>5. frames(w) = L
      BY <1>2, <1>5, <2>2, OneChannel
  <2>6. /\ F \in Seq(Int) /\ frames(w) = Len(F)
        /\ \A k \in Nat : Exhausted(w, k) <=> k >= Len(F)
        /\ \A k \in 0 .. Len(F) - 1 : sample(w, k) = F[k + 1]
      BY <1>5, <2>1, <2>3, <2>4, <2>5
  <2> QED
      BY <1>7, <2>6 DEF F, w
<1>11. CASE f.channels = 2
  <2> DEFINE h == L \div 2
             fun == [k \in 1 .. h |-> Mean(s[2 * k - 1] + s[2 * k])]
  <2>1. F = fun
      BY <1>9, <1>11, 1 # 2
  <2>2. fun \in Seq(Int)
      BY <1>5, MeansAreNumbers DEF L
  <2>3. h \in Nat /\ 2 * h <= L
      BY <1>5
  <2> HIDE DEF Mean, h
  <2>4. Len(fun) = h
      BY <2>3
  <2>5. frames(w) = (2 * L + e) \div (2 * 2)
      BY <1>3, <1>6, <1>11, Zenon DEF frames
  <2>6. ASSUME NEW k \in Nat PROVE Exhausted(w, k) <=> k >= h
    <3>1. Exhausted(w, k) <=> (k + 1) * 2 * 2 > 2 * L + e
        BY <1>3, <1>6, <1>11, Zenon DEF Exhausted
    <3> QED
        BY <1>2, <1>5, <3>1, TwoChannels DEF h
  <2>7. frames(w) = h
      BY <1>2, <1>5, <2>5, TwoChannels DEF h
  <2>8. ASSUME NEW k \in 0 .. h - 1 PROVE sample(w, k) = fun[k + 1]
    <3>1. /\ 2 * k + 1 \in 1 .. L /\ 2 * k + 2 \in 1 .. L /\ k + 1 \in 1 .. h
          /\ k * 2 * 2 = 2 * ((2 * k + 1) - 1) /\ k * 2 * 2 + 2 = 2 * ((2 * k + 2) - 1)
          /\ 2 * (k + 1) - 1 = 2 * k + 1 /\ 2 * (k + 1) = 2 * k + 2
      <4>1. k \in Nat /\ k + 1 <= h /\ h \in Nat
          BY <2>3
      <4>2. 2 * k + 1 \in 1 .. L /\ 2 * k + 2 \in 1 .. L /\ k + 1 \in 1 .. h
          BY <1>5, <2>3, <4>1
      <4>3. /\ k * 2 * 2 = 2 * ((2 * k + 1) - 1) /\ k * 2 * 2 + 2 = 2 * ((2 * k + 2) - 1)
            /\ 2 * (k + 1) - 1 = 2 * k + 1 /\ 2 * (k + 1) = 2 * k + 2
          BY <4>1
      <4> QED
          BY <4>2, <4>3
    <3>2. i16(p, k * 2 * 2) = s[2 * k + 1] /\ i16(p, k * 2 * 2 + 2) = s[2 * k + 2]
        BY <1>4, <3>1
    <3>3. s[2 * k + 1] + s[2 * k + 2] \in Int
      <4>1. \A i \in 1 .. L : s[i] \in Int
          BY <1>5 DEF L
      <4> QED
          BY <3>1, <4>1
    <3>4. sample(w, k) = Quotient(i16(p, k * 2 * 2) + i16(p, k * 2 * 2 + 2), 2)
      <4>1. 2 # 1
          OBVIOUS
      <4>2. w.channels # 1 /\ k * 2 * w.channels = k * 2 * 2
          BY <1>6, <1>11, <4>1, Zenon
      <4> QED
          BY <1>6, <4>2, Zenon DEF sample
    <3>5. sample(w, k) = Mean(s[2 * k + 1] + s[2 * k + 2])
        BY <3>2, <3>3, <3>4, QuotientIsMean DEF Mean
    <3>6. fun[k + 1] = Mean(s[2 * (k + 1) - 1] + s[2 * (k + 1)])
        BY <3>1
    <3> QED
        BY <3>1, <3>5, <3>6
  <2> HIDE DEF fun
  <2>9. /\ F \in Seq(Int) /\ frames(w) = Len(F)
        /\ \A k \in Nat : Exhausted(w, k) <=> k >= Len(F)
        /\ \A k \in 0 .. Len(F) - 1 : sample(w, k) = F[k + 1]
      BY <2>1, <2>2, <2>4, <2>6, <2>7, <2>8
  <2> QED
      BY <1>7, <2>9 DEF F, w
<1> QED
    BY <1>8, <1>10, <1>11

\* The whole milliseconds that n frames last, r of them a second.
Milliseconds(n, r) == (n * 1000) \div r
Lasts(n, r, ms) == ms * r <= 1000 * n /\ 1000 * n < ms * r + r

LEMMA DurationIs ==
  ASSUME NEW n \in Nat, NEW r \in Nat, r > 0
  PROVE  Lasts(n, r, Milliseconds(n, r))
<1> DEFINE x == n * 1000
           q == x \div r
           m == x % r
<1>1. x \in Int /\ x = 1000 * n
    OBVIOUS
<1>2. q \in Int /\ m \in 0 .. r - 1 /\ x = r * q + m
    BY <1>1, IntegerDivision
<1> HIDE DEF x, q, m
<1>3. q * r = r * q /\ q * r \in Int
    BY <1>2
<1>4. q * r <= x /\ x < q * r + r
    BY <1>1, <1>2, <1>3
<1> QED
    BY <1>1, <1>4 DEF q, x, Lasts, Milliseconds

\* The chunk that is chosen is one of the description, of the id asked for.
LEMMA ChosenIsThere ==
  ASSUME NEW d \in Descriptions, NEW id, Chosen(d, id) # 0
  PROVE  /\ Chosen(d, id) \in DOMAIN d.chunks
         /\ d.chunks[Chosen(d, id)].id = id
<1> DEFINE found == {i \in DOMAIN d.chunks : d.chunks[i].id = id /\ BodyIsThere(d, i)}
<1>1. found # {} /\ Chosen(d, id) = CHOOSE i \in found : \A j \in found : j <= i
    BY DEF Chosen
<1>2. Len(d.chunks) \in Nat /\ found \subseteq 1 .. Len(d.chunks)
    BY DescriptionIs
<1>3. \E i \in found : \A j \in found : j <= i
    BY <1>1, <1>2, GreatestExists
<1>4. Chosen(d, id) \in found
    BY <1>1, <1>3
<1> QED
    BY <1>4

\* The clip stays while the file does.
LEMMA SameClip ==
  ASSUME UNCHANGED <<description, bytes>>
  PROVE  /\ Frames(description)' = Frames(description)
         /\ ClipLength' = ClipLength
         /\ \A k \in Int : ClipSlot(k)' = ClipSlot(k)
<1>1. Chosen(description, DATA)' = Chosen(description, DATA) /\ Chosen(description, FMT)' = Chosen(description, FMT)
    BY DEF Chosen, BodyIsThere
<1>2. Frames(description)' = Frames(description)
    BY <1>1 DEF Frames
<1>3. ClipLength' = ClipLength
    BY <1>2 DEF ClipLength
<1> QED
    BY <1>2, <1>3 DEF ClipSlot

\* What the parser makes of the file, and what has been iterated.
ReaderInv ==
  /\ description \in Descriptions
  /\ bytes = build_file(description)
  /\ frame \in Nat
  /\ IF pc = "boot" THEN wav = Unparsed /\ frame = 0 /\ yielded = <<>> ELSE wav = parse(bytes)
  /\ pc \notin {"boot", "panicked"} => wav.error = "none"
  /\ wav.error = "none" =>
       frame <= Len(Frames(description)) /\ yielded = SubSeq(Frames(description), 1, frame)

\* A file that is read without an error holds the clip that its chunks describe.
LEMMA ParsedClip ==
  ASSUME description \in Descriptions, bytes = build_file(description),
         parse(bytes).error = "none"
  PROVE  LET F == Frames(description)
             w == parse(bytes)
         IN  /\ F \in Seq(Int) /\ w.sample_rate \in Nat
             /\ w.sample_rate = description.chunks[Chosen(description, FMT)].rate
             /\ frames(w) = Len(F)
             /\ \A k \in Nat : Exhausted(w, k) <=> k >= Len(F)
             /\ \A k \in 0 .. Len(F) - 1 : sample(w, k) = F[k + 1]
<1> DEFINE d == description
           f == Chosen(d, FMT)
           a == Chosen(d, DATA)
<1>1. Expected(d) = "none"
    BY ParserIsRight
<1>2. f # 0 /\ a # 0 /\ parse(bytes) = Clip(d) /\ d.chunks[f].channels \in {1, 2}
    BY <1>1, ParserIsRight
<1>3. f \in DOMAIN d.chunks /\ a \in DOMAIN d.chunks /\ d.chunks[f].id = FMT /\ d.chunks[a].id = DATA
    BY <1>2, ChosenIsThere
<1>4. /\ Frames(d) \in Seq(Int) /\ Clip(d).sample_rate \in Nat
      /\ frames(Clip(d)) = Len(Frames(d))
      /\ \A k \in Nat : Exhausted(Clip(d), k) <=> k >= Len(Frames(d))
      /\ \A k \in 0 .. Len(Frames(d)) - 1 : sample(Clip(d), k) = Frames(d)[k + 1]
    BY <1>2, <1>3, ClipIs
<1>5. Clip(d).sample_rate = d.chunks[f].rate
    BY DEF Clip
<1> QED
    BY <1>2, <1>4, <1>5, Zenon

\* It is enough.
LEMMA ReaderInvImplies == ReaderInv => ReadsWhatIsThere
<1> SUFFICES ASSUME ReaderInv, wav # Unparsed
             PROVE  /\ wav.error = Expected(description)
                    /\ wav.error = "none" =>
                        /\ wav.sample_rate = description.chunks[Chosen(description, FMT)].rate
                        /\ frames(wav) = Len(Frames(description))
                        /\ LET played == duration_ms(wav) * wav.sample_rate
                               wanted == 1000 * Len(Frames(description))
                           IN  wav.sample_rate > 0 => played <= wanted /\ wanted < played + wav.sample_rate
                        /\ yielded = SubSeq(Frames(description), 1, frame)
                        /\ Left(wav, frame) = Len(Frames(description)) - frame
                        /\ Exhausted(wav, frame) <=> frame = Len(Frames(description))
    BY DEF ReadsWhatIsThere
<1> DEFINE d == description
           F == Frames(d)
           n == Len(F)
           fs == frames(wav)
           r == wav.sample_rate
<1>1. d \in Descriptions /\ bytes = build_file(d) /\ wav = parse(bytes) /\ frame \in Nat
    BY DEF ReaderInv
<1>2. wav.error = Expected(d)
    BY <1>1, ParserIsRight
<1>3. ASSUME wav.error = "none"
      PROVE  /\ r = d.chunks[Chosen(d, FMT)].rate
             /\ fs = n
             /\ LET played == duration_ms(wav) * r
                    wanted == 1000 * n
                IN  r > 0 => played <= wanted /\ wanted < played + r
             /\ yielded = SubSeq(F, 1, frame)
             /\ Left(wav, frame) = n - frame
             /\ Exhausted(wav, frame) <=> frame = n
  <2>1. /\ F \in Seq(Int) /\ r \in Nat /\ r = d.chunks[Chosen(d, FMT)].rate
        /\ fs = n
        /\ \A k \in Nat : Exhausted(wav, k) <=> k >= n
      BY <1>1, <1>3, ParsedClip
  <2>2. n \in Nat
      BY <2>1
  <2>3. frame <= n /\ yielded = SubSeq(F, 1, frame)
      BY <1>3 DEF ReaderInv
  <2>4. Exhausted(wav, frame) <=> frame >= n
      BY <1>1, <2>1
  <2>5. Left(wav, frame) = IF fs >= frame THEN fs - frame ELSE 0
      BY DEF Left
  <2>6. duration_ms(wav) = IF r = 0 THEN 0 ELSE (fs * 1000) \div r
      BY DEF duration_ms
  <2> HIDE DEF n, fs, r
  <2>7. Left(wav, frame) = n - frame
      BY <1>1, <2>1, <2>2, <2>3, <2>5
  <2>8. Exhausted(wav, frame) <=> frame = n
      BY <1>1, <2>2, <2>3, <2>4
  <2>9. ASSUME r > 0
        PROVE  duration_ms(wav) * r <= 1000 * n /\ 1000 * n < duration_ms(wav) * r + r
    <3>1. duration_ms(wav) = Milliseconds(n, r)
        BY <2>1, <2>6, <2>9 DEF Milliseconds
    <3>2. n \in Nat /\ r \in Nat /\ r > 0
        BY <2>1, <2>2, <2>9
    <3>3. Lasts(n, r, Milliseconds(n, r))
        BY <3>2, DurationIs, Zenon
    <3>4. Lasts(n, r, duration_ms(wav))
        BY <3>1, <3>3, Zenon
    <3> QED
        BY <3>4 DEF Lasts
  <2> QED
      BY <2>1, <2>3, <2>7, <2>8, <2>9
<1> QED
    BY <1>2, <1>3

\* It holds at first; ...
LEMMA InitReads == PlaybackInit => ReaderInv
<1> SUFFICES ASSUME PlaybackInit PROVE ReaderInv
    OBVIOUS
<1>1. /\ description \in Descriptions /\ bytes = build_file(description)
      /\ wav = Unparsed /\ frame = 0 /\ yielded = <<>> /\ pc = "boot"
    BY DEF PlaybackInit, ReaderInit
<1>2. wav.error # "none"
    BY <1>1 DEF Unparsed
<1> QED
    BY <1>1, <1>2 DEF ReaderInv

\* The first n frames, for n = 0.
LEMMA NothingIterated ==
  ASSUME NEW F \in Seq(Int)
  PROVE  SubSeq(F, 1, 0) = <<>>
OBVIOUS

\* ... the parser establishes what it says of the clip, ...
LEMMA BootReads ==
  ASSUME ReaderInv, Boot
  PROVE  ReaderInv'
<1>1. /\ description \in Descriptions /\ bytes = build_file(description)
      /\ frame = 0 /\ yielded = <<>>
    BY DEF ReaderInv, Boot
<1>2. /\ wav' = parse(bytes) /\ UNCHANGED <<description, bytes, frame, yielded>>
      /\ pc' = IF wav'.error = "none" THEN "configure" ELSE "panicked"
    BY DEF Boot, Parse
<1>3. Frames(description)' = Frames(description) /\ build_file(description)' = build_file(description)
      /\ parse(bytes)' = parse(bytes)
    BY <1>2, SameClip
<1>4. ASSUME wav'.error = "none"
      PROVE  0 <= Len(Frames(description)) /\ <<>> = SubSeq(Frames(description), 1, 0)
  <2>1. Frames(description) \in Seq(Int)
      BY <1>1, <1>2, <1>4, ParsedClip
  <2> QED
      BY <2>1, NothingIterated
<1> QED
    BY <1>1, <1>2, <1>3, <1>4 DEF ReaderInv

\* An action of the firmware that does not touch the iterator.
LEMMA OthersRead ==
  ASSUME ReaderInv, UNCHANGED <<description, bytes, wav, frame, yielded>>,
         pc # "boot" => pc' # "boot", pc = "boot" => pc' = "boot",
         pc' \notin {"boot", "panicked"} => wav.error = "none"
  PROVE  ReaderInv'
<1>1. Frames(description)' = Frames(description) /\ build_file(description)' = build_file(description)
      /\ parse(bytes)' = parse(bytes)
    BY SameClip
<1> QED
    BY <1>1 DEF ReaderInv

\* ... every playback begins with no frame, ...
LEMMA StartReads ==
  ASSUME ReaderInv, start
  PROVE  ReaderInv'
<1>1. /\ description \in Descriptions /\ bytes = build_file(description)
      /\ wav = parse(bytes) /\ wav.error = "none"
    BY DEF ReaderInv, start
<1>2. UNCHANGED <<description, bytes, wav>> /\ frame' = 0 /\ yielded' = <<>> /\ pc' = "refill"
    BY DEF start, clip
<1>3. Frames(description)' = Frames(description) /\ build_file(description)' = build_file(description)
      /\ parse(bytes)' = parse(bytes)
    BY <1>2, SameClip
<1>4. Frames(description) \in Seq(Int)
    BY <1>1, ParsedClip
<1>5. 0 <= Len(Frames(description)) /\ <<>> = SubSeq(Frames(description), 1, 0)
    BY <1>4, NothingIterated
<1> QED
    BY <1>1, <1>2, <1>3, <1>5 DEF ReaderInv

\* The next frames after the first ones.
LEMMA FramesGoOn ==
  ASSUME NEW F \in Seq(Int), NEW from \in Nat, NEW n \in Nat, from + n <= Len(F),
         NEW s, s = [k \in 1 .. n |-> F[from + k]]
  PROVE  SubSeq(F, 1, from) \o s = SubSeq(F, 1, from + n)
<1>1. /\ SubSeq(F, 1, from) \in Seq(Int) /\ Len(SubSeq(F, 1, from)) = from
      /\ \A k \in 1 .. from : SubSeq(F, 1, from)[k] = F[k]
    BY SMT
<1>2. s \in Seq(Int) /\ Len(s) = n /\ \A k \in 1 .. n : s[k] = F[from + k]
    BY SMT
<1>3. /\ SubSeq(F, 1, from + n) \in Seq(Int) /\ Len(SubSeq(F, 1, from + n)) = from + n
      /\ \A k \in 1 .. from + n : SubSeq(F, 1, from + n)[k] = F[k]
    BY SMT
<1> DEFINE t == SubSeq(F, 1, from)
           u == SubSeq(F, 1, from + n)
<1> HIDE DEF t, u
<1>4. /\ t \o s \in Seq(Int) /\ Len(t \o s) = from + n
      /\ \A k \in 1 .. from + n : (t \o s)[k] = u[k]
  <2>1. /\ t \o s \in Seq(Int) /\ Len(t \o s) = Len(t) + Len(s)
        /\ \A k \in 1 .. Len(t) + Len(s) :
             (t \o s)[k] = IF k <= Len(t) THEN t[k] ELSE s[k - Len(t)]
    <3>1. t \in Seq(Int) /\ s \in Seq(Int)
        BY <1>1, <1>2 DEF t
    <3> QED
        BY <3>1, ConcatProperties, Zenon
  <2>2. ASSUME NEW k \in 1 .. from + n PROVE (t \o s)[k] = u[k]
    <3>1. (t \o s)[k] = IF k <= from THEN t[k] ELSE s[k - from]
        BY <1>1, <1>2, <2>1 DEF t
    <3>2. u[k] = F[k]
        BY <1>3 DEF u
    <3>3. CASE k <= from
      <4>1. k \in 1 .. from
          BY <3>3
      <4> QED
          BY <1>1, <3>1, <3>2, <3>3, <4>1 DEF t
    <3>4. CASE ~(k <= from)
      <4>1. k - from \in 1 .. n /\ from + (k - from) = k
          BY <3>4
      <4> QED
          BY <1>2, <3>1, <3>2, <3>4, <4>1
    <3> QED
        BY <3>3, <3>4
  <2> QED
      BY <1>1, <1>2, <2>1, <2>2 DEF t
<1>5. u \in Seq(Int) /\ Len(u) = from + n
    BY <1>3 DEF u
<1>6. t \o s = u
    BY <1>4, <1>5, SeqEqual, Zenon
<1> QED
    BY <1>6 DEF t, u

\* ... and a chunk of samples is the next frames, as many as there are.
LEMMA RefillReads ==
  ASSUME ReaderInv, Refill
  PROVE  ReaderInv'
<1> DEFINE F == Frames(description)
           L == Len(F)
           n == IF L - frame < CHUNK_SAMPLES THEN L - frame ELSE CHUNK_SAMPLES
           s == [k \in 1 .. Cardinality(Available) |-> sample(wav, frame + k - 1)]
<1>1. /\ description \in Descriptions /\ bytes = build_file(description)
      /\ wav = parse(bytes) /\ wav.error = "none"
      /\ frame \in Nat /\ frame <= L /\ yielded = SubSeq(F, 1, frame)
    BY DEF ReaderInv, Refill
<1>2. /\ UNCHANGED <<description, bytes, wav>>
      /\ frame' = frame + Cardinality(Available) /\ yielded' = yielded \o s
      /\ pc' \notin {"boot", "panicked"}
    BY DEF Refill, clip, TakeChunk
<1>3. F' = F /\ build_file(description)' = build_file(description) /\ parse(bytes)' = parse(bytes)
    BY <1>2, SameClip
<1>4. /\ F \in Seq(Int) /\ L \in Nat
      /\ \A k \in Nat : Exhausted(wav, k) <=> k >= L
      /\ \A k \in 0 .. L - 1 : sample(wav, k) = F[k + 1]
    BY <1>1, ParsedClip
<1>5. CHUNK_SAMPLES \in Nat \ {0}
    BY PlaybackAssumption
<1> HIDE DEF L
<1>6. n \in Nat /\ frame + n <= L /\ n - 1 \in Int
    BY <1>1, <1>4, <1>5
<1>7. Available = 0 .. n - 1
  <2>1. ASSUME NEW k \in 0 .. CHUNK_SAMPLES - 1 PROVE ~Exhausted(wav, frame + k) <=> k \in 0 .. n - 1
    <3>1. frame + k \in Nat /\ k \in Nat
        BY <1>1, <1>5
    <3>2. Exhausted(wav, frame + k) <=> frame + k >= L
        BY <1>4, <3>1
    <3> QED
        BY <1>1, <1>4, <1>5, <3>1, <3>2
  <2>2. 0 .. n - 1 \subseteq 0 .. CHUNK_SAMPLES - 1
      BY <1>1, <1>4, <1>5
  <2> HIDE DEF n
  <2> QED
      BY <2>1, <2>2 DEF Available
<1> HIDE DEF n
<1>8. Cardinality(Available) = n
  <2>1. Cardinality(0 .. n - 1) = IF 0 > n - 1 THEN 0 ELSE (n - 1) - 0 + 1
      BY <1>6, FS_Interval, 0 \in Int
  <2> QED
      BY <1>6, <1>7, <2>1
<1>9. s = [k \in 1 .. n |-> F[frame + k]]
  <2>1. s = [k \in 1 .. n |-> sample(wav, frame + k - 1)]
      BY <1>8
  <2>2. ASSUME NEW k \in 1 .. n PROVE sample(wav, frame + k - 1) = F[frame + k]
    <3>1. frame + k - 1 \in 0 .. L - 1 /\ (frame + k - 1) + 1 = frame + k
        BY <1>1, <1>4, <1>6
    <3> QED
        BY <1>4, <3>1
  <2> QED
      BY <2>1, <2>2
<1> HIDE DEF s, F
<1>10. yielded' = SubSeq(F, 1, frame + n)
    BY <1>1, <1>2, <1>4, <1>6, <1>9, FramesGoOn DEF L
<1>11. frame' = frame + n /\ frame' \in Nat /\ frame' <= L
    BY <1>1, <1>2, <1>6, <1>8
<1> QED
    BY <1>1, <1>2, <1>3, <1>10, <1>11 DEF ReaderInv, F, L

LEMMA ReaderInvAlways == PlaybackSpec => []ReaderInv
<1>1. ReaderInv /\ [PlaybackNext]_playback_vars => ReaderInv'
  <2> SUFFICES ASSUME ReaderInv, [PlaybackNext]_playback_vars PROVE ReaderInv'
      OBVIOUS
  <2>1. pc \notin {"boot", "panicked"} => wav.error = "none"
      BY DEF ReaderInv
  <2>2. CASE Boot
      BY <2>2, BootReads
  <2>3. CASE start
      BY <2>3, StartReads
  <2>4. CASE Refill
      BY <2>4, RefillReads
  <2>5. CASE Play \/ UNCHANGED playback_vars
    <3>1. UNCHANGED <<description, bytes, wav, frame, yielded, pc>>
        BY <2>5 DEF Play, playback_vars, clip, iterator
    <3> QED
        BY <2>1, <3>1, OthersRead
  <2>6. CASE Configure
    <3>1. /\ UNCHANGED <<description, bytes, wav, frame, yielded>>
          /\ pc = "configure" /\ pc' \in {"gap", "panicked"}
        BY <2>6 DEF Configure, clip, iterator
    <3> QED
        BY <2>1, <3>1, OthersRead
  <2>7. CASE Write
    <3>1. /\ UNCHANGED <<description, bytes, wav, frame, yielded>>
          /\ pc = "write" /\ pc' \in {"push", "check"}
        BY <2>7 DEF Write, BeginWrite, clip, iterator
    <3> QED
        BY <2>1, <3>1, OthersRead
  <2>8. CASE PushAudio
    <3>1. /\ UNCHANGED <<description, bytes, wav, frame, yielded>>
          /\ pc = "push" /\ pc' \in {"push", "check"}
        BY <2>8 DEF PushAudio, PushSome, clip, iterator
    <3> QED
        BY <2>1, <3>1, OthersRead
  <2>9. CASE Check
    <3>1. /\ UNCHANGED <<description, bytes, wav, frame, yielded>>
          /\ pc = "check" /\ pc' \in {"write", "refill"}
        BY <2>9 DEF Check, clip, iterator
    <3> QED
        BY <2>1, <3>1, OthersRead
  <2>10. CASE Flush
    <3>1. /\ UNCHANGED <<description, bytes, wav, frame, yielded>>
          /\ pc = "flush" /\ pc' \in {"flushpush", "flush"}
        BY <2>10 DEF Flush, BeginWrite, clip, iterator
    <3> QED
        BY <2>1, <3>1, OthersRead
  <2>11. CASE PushSilence
    <3>1. /\ UNCHANGED <<description, bytes, wav, frame, yielded>>
          /\ pc = "flushpush" /\ pc' \in {"flush", "flushpush"}
        BY <2>11 DEF PushSilence, PushSome, clip, iterator
    <3> QED
        BY <2>1, <3>1, OthersRead
  <2>12. CASE Stop
    <3>1. /\ UNCHANGED <<description, bytes, wav, frame, yielded>>
          /\ pc = "flush" /\ pc' = "gap"
        BY <2>12 DEF Stop, clip, iterator
    <3> QED
        BY <2>1, <3>1, OthersRead
  <2>13. CASE Panic
    <3>1. /\ UNCHANGED <<description, bytes, wav, frame, yielded>>
          /\ pc # "boot" /\ pc' = "panicked"
        BY <2>13 DEF Panic, clip, iterator
    <3> QED
        BY <3>1, OthersRead
  <2> QED
      BY <2>2, <2>3, <2>4, <2>5, <2>6, <2>7, <2>8, <2>9, <2>10, <2>11, <2>12, <2>13
         DEF PlaybackNext, Firmware
<1> QED
    BY <1>1, InitReads, PTL DEF PlaybackSpec

\* For every list of chunks, every claim of its last one and every cut: the parser finds
\* the sound that the file holds, with its rate and its length, or says what is wrong with
\* the file, and what the firmware has taken from the iterator, a chunk of samples at a
\* time and from the start again after each playback, are the first frames of that sound,
\* the two channels averaged (wav.rs:52-119, 132-188).
THEOREM ClipIsReadRight == PlaybackSpec => []ReadsWhatIsThere
    BY ReaderInvAlways, ReaderInvImplies, PTL

\* When the parser reads what is there, the frames are numbers, and what was iterated
\* are the first of them.
LEMMA FramesAreNumbers ==
  ASSUME description \in Descriptions, ReadsWhatIsThere, wav.error = "none", frame \in Nat
  PROVE  /\ Frames(description) \in Seq(Int) /\ Len(Frames(description)) \in Nat
         /\ frame <= Len(Frames(description))
         /\ yielded \in Seq(Int) /\ Len(yielded) = frame
         /\ \A k \in 1 .. frame : yielded[k] = Frames(description)[k]
         /\ Exhausted(wav, frame) <=> frame = Len(Frames(description))
<1> DEFINE F == Frames(description)
           fs == frames(wav)
           le == Left(wav, frame)
           c == description.chunks[Chosen(description, DATA)]
<1>1. wav # Unparsed
    BY DEF Unparsed
<1>2. /\ Expected(description) = "none" /\ frames(wav) = Len(F) /\ yielded = SubSeq(F, 1, frame)
      /\ Left(wav, frame) = Len(F) - frame
      /\ Exhausted(wav, frame) <=> frame = Len(F)
    BY <1>1 DEF ReadsWhatIsThere
<1>3. Chosen(description, DATA) # 0
    BY <1>2 DEF Expected
<1>4. c.samples \in Seq(i16_range)
    BY <1>3, ChosenIsThere, DescriptionIs, DataChunkIs
<1>5. F \in Seq(Int)
  <2>1. F = c.samples \/ F = [k \in 1 .. (Len(c.samples) \div 2) |->
                               LET sum == c.samples[2 * k - 1] + c.samples[2 * k]
                               IN  IF sum >= 0 THEN sum \div 2 ELSE (sum + 1) \div 2]
      BY DEF Frames
  <2>2. c.samples \in Seq(Int)
      BY <1>4, WordsAreNumbers
  <2> HIDE DEF c
  <2> QED
      BY <2>1, <2>2, MeansAreNumbers
<1>6. le = IF fs >= frame THEN fs - frame ELSE 0
    BY DEF Left
<1> HIDE DEF F, fs, le
<1>7. fs = Len(F) /\ le = Len(F) - frame /\ Len(F) \in Nat
    BY <1>2, <1>5 DEF fs, le
<1>8. frame <= Len(F)
    BY <1>6, <1>7
<1>9. yielded \in Seq(Int) /\ Len(yielded) = frame /\ \A k \in 1 .. frame : yielded[k] = F[k]
    BY <1>2, <1>5, <1>7, <1>8
<1> QED
    BY <1>2, <1>5, <1>7, <1>8, <1>9 DEF F

\* A slot sounds like the sample that it was made of.
Gain == 2 ^ Larger(0, DATA_FORMAT.data_bits - 16)

LEMMA GainIsPositive == Gain \in Nat \ {0}
<1>1. DATA_FORMAT.data_bits = 16 \/ DATA_FORMAT.data_bits = 32
    BY PlaybackAssumption
<1>2. CASE DATA_FORMAT.data_bits = 16
  <2>1. Larger(0, DATA_FORMAT.data_bits - 16) = 0
      BY <1>2 DEF Larger
  <2>2. Gain = 2 ^ 0
      BY <2>1 DEF Gain
  <2>3. 2 ^ 0 = 1
      OBVIOUS
  <2> QED
      BY <2>2, <2>3
<1>3. CASE DATA_FORMAT.data_bits = 32
  <2>1. Larger(0, DATA_FORMAT.data_bits - 16) = 16
      BY <1>3 DEF Larger
  <2>2. Gain = 2 ^ 16
      BY <2>1 DEF Gain
  <2>3. 2 ^ 16 = 65536
      OBVIOUS
  <2> QED
      BY <2>2, <2>3
<1> QED
    BY <1>1, <1>2, <1>3

LEMMA Quotients ==
  ASSUME NEW F \in Nat \ {0}, NEW k \in Int
  PROVE  (k * F) \div F = k /\ k * F \in Int
BY SMT

LEMMA SlotSounds ==
  ASSUME speaker.layout = SlotLayout(DATA_FORMAT), NEW s \in Int
  PROVE  /\ s * Gain \in Int
         /\ \A k \in 1 .. 2 : write_frame(s)[k] = s * Gain
         /\ Sounds(s * Gain) = s
<1>1. /\ DATA_FORMAT.data_bits \in {16, 32}
      /\ DATA_FORMAT.channel_bits = DATA_FORMAT.data_bits
    BY PlaybackAssumption
<1>2. /\ speaker.layout.shift = Larger(0, DATA_FORMAT.data_bits - 16)
      /\ speaker.layout.slot_bits = DATA_FORMAT.channel_bits
    BY DEF SlotLayout
<1>3. speaker.layout.slot_bits - 16 = Larger(0, DATA_FORMAT.data_bits - 16)
    BY <1>1, <1>2 DEF Larger
<1>4. \A k \in 1 .. 2 : write_frame(s)[k] = s * Gain
    BY <1>2 DEF write_frame, frame_slots, Gain
<1>5. Sounds(s * Gain) = (s * Gain) \div Gain
    BY <1>3 DEF Sounds, Gain
<1> QED
    BY <1>4, <1>5, GainIsPositive, Quotients

-----------------------------------------------------------------------------
(* The inductive invariant. *)

\* How much has been pushed since the start of the playback, in slots: the first
\* samples of the clip, and silence once all of them have been.
Flushing == pc \in {"flush", "flushpush"}
Pushed == 2 * queued + (IF Flushing THEN Capacity - 2 * remaining ELSE 0)
Fed == Flushing \/ pc \in {"refill", "write", "push", "check"}

PlaybackTypes ==
  /\ ring = [slot \in 0 .. Capacity - 1 |-> ring[slot]]
  /\ at \in 0 .. Capacity - 1
  /\ writeAt \in 0 .. Capacity - 1
  /\ drained \in 0 .. Capacity
  /\ frame \in Nat /\ queued \in 0 .. frame
  /\ total \in Nat /\ remaining \in Nat
  /\ starved \in BOOLEAN
  /\ heard \in Seq(Int)
  /\ pc \in {"boot", "configure", "gap", "refill", "write", "push", "check", "flush", "flushpush", "panicked"}

\* What is known about the clip and the output where.
Phases ==
  /\ description \in Descriptions
  /\ pc = "boot" => wav = Unparsed
  /\ pc \in {"boot", "configure"} => speaker = Unbuilt /\ queued = 0
  /\ pc \notin {"boot", "panicked"} => wav.error = "none"
  /\ Fed \/ pc = "gap" => speaker.error = "none"
  /\ speaker.error = "none" => wav.error = "none" /\ speaker.layout = SlotLayout(DATA_FORMAT)
  /\ speaker.error # "none" => heard = <<>>
  /\ pc = "panicked" /\ speaker.error = "none" => drained = Capacity
  /\ pc \in {"boot", "configure", "gap"} => \A slot \in 0 .. Capacity - 1 : ring[slot] = Silence

\* The firmware's loop.
Loop ==
  /\ pc = "refill" => queued = frame
  /\ pc = "push" => queued + total <= frame
  /\ pc \in {"push", "flushpush"} => 2 * total <= drained
  /\ pc = "flushpush" => total <= remaining
  /\ Flushing => queued = frame /\ frame = Len(Frames(description)) /\ 2 * remaining <= Capacity

\* The ring holds the last slots of the stream that was pushed, each in its place, ...
RingHoldsTheLast ==
  Fed =>
    /\ writeAt = Pushed % Capacity
    /\ \A i \in Pushed - Capacity .. Pushed - 1 : ring[i % Capacity] = ClipSlot(i + 1) * Gain

\* ... and until it starves the hardware is that far behind.
HeardSoFar ==
  Fed /\ ~starved =>
    /\ Len(heard) = Pushed + drained
    /\ at = Len(heard) % Capacity

WholeClipHeard ==
  pc = "gap" /\ ~starved /\ queued > 0 => Len(heard) >= Capacity + ClipLength

PlaybackInv ==
  PlaybackTypes /\ Phases /\ Loop /\ RingHoldsTheLast /\ HeardSoFar /\ PlayedInOrder /\ WholeClipHeard

LEMMA CapacityIsWhole ==
  /\ Capacity \in Nat \ {0} /\ STAGE_FRAMES \in Nat \ {0} /\ CHUNK_SAMPLES \in Nat \ {0}
  /\ DescriptorSlots \in Nat \ {0}
  /\ Capacity \div 2 \in Nat /\ 2 * (Capacity \div 2) = Capacity
BY PlaybackAssumption DEF frame_slots

\* What the transfer gives back has been played.
LEMMA GivenBack ==
  ASSUME PlaybackTypes
  PROVE  available \in 0 .. drained
<1>1. at \in 0 .. Capacity - 1 /\ drained \in 0 .. Capacity
    BY DEF PlaybackTypes
<1>2. Capacity \in Nat \ {0} /\ DescriptorSlots \in Nat \ {0}
    BY CapacityIsWhole
<1>3. at \in Int /\ drained \in Nat /\ drained <= Capacity
    BY <1>1, <1>2
<1>4. at % DescriptorSlots \in 0 .. DescriptorSlots - 1
    BY <1>2, <1>3, IntegerDivision
<1> DEFINE r == at % DescriptorSlots
<1>5. r \in Nat
    BY <1>2, <1>4
<1>6. available = IF drained = Capacity THEN Capacity ELSE IF 0 >= drained - r THEN 0 ELSE drained - r
    BY DEF available, Larger
<1> HIDE DEF r
<1> QED
    BY <1>2, <1>3, <1>5, <1>6

\* What write takes fits in what was given back.
LEMMA AcceptedFits ==
  ASSUME PlaybackTypes, NEW n \in Nat
  PROVE  Accepted(n) \in 0 .. n /\ 2 * Accepted(n) <= drained
<1>1. available \in Nat /\ available <= drained /\ drained \in Nat
    BY GivenBack, CapacityIsWhole DEF PlaybackTypes
<1>2. available \div 2 \in Nat /\ 2 * (available \div 2) <= available
    BY <1>1
<1>3. Accepted(n) = Smaller(available \div 2, n)
    BY DEF Accepted, frame_slots
<1> QED
    BY <1>1, <1>2, <1>3 DEF Smaller

\* A push puts frames where the stream goes on.
LEMMA PushKeepsPlaces ==
  ASSUME PlaybackTypes, speaker.layout = SlotLayout(DATA_FORMAT),
         NEW n \in Nat, 2 * n <= drained, NEW p \in Int,
         NEW samples \in Seq(Int), Len(samples) = n, push(samples),
         writeAt = p % Capacity,
         \A i \in p - Capacity .. p - 1 : ring[i % Capacity] = ClipSlot(i + 1) * Gain,
         \A i \in p .. p + 2 * n - 1 : ClipSlot(i + 1) = samples[((i - p) \div 2) + 1]
  PROVE  /\ ring' = [slot \in 0 .. Capacity - 1 |-> ring'[slot]]
         /\ writeAt' = (p + 2 * n) % Capacity /\ writeAt' \in 0 .. Capacity - 1
         /\ drained' = drained - 2 * n /\ drained' \in 0 .. Capacity /\ at' = at
         /\ \A i \in p + 2 * n - Capacity .. p + 2 * n - 1 :
              ring'[i % Capacity] = ClipSlot(i + 1) * Gain
<1> DEFINE C == Capacity
           Place(slot) == (slot - writeAt) % C
<1>1. C \in Nat \ {0} /\ drained \in 0 .. C /\ 2 * n <= C
  <2>1. drained \in 0 .. C
      BY DEF PlaybackTypes
  <2>2. C \in Nat \ {0}
      BY CapacityIsWhole
  <2> QED
      BY <2>1, <2>2
<1>2. DOMAIN ring = 0 .. C - 1
    BY DEF PlaybackTypes
<1>3. ring' = [slot \in 0 .. C - 1 |->
                 IF Place(slot) >= 2 * n THEN ring[slot]
                 ELSE write_frame(samples[(Place(slot) \div 2) + 1])[(Place(slot) % 2) + 1]]
    BY <1>2 DEF push, frame_slots
<1>4. writeAt' = (writeAt + 2 * n) % C /\ drained' = drained - 2 * n /\ at' = at
    BY DEF push, frame_slots
<1>5. writeAt' = (p + 2 * n) % C
  <2>1. ((p % C) + 2 * n) % C = (p + 2 * n) % C
      BY <1>1, 2 * n \in Int, PlaceInRing
  <2> QED
      BY <1>4, <2>1
<1>6. writeAt' \in 0 .. C - 1
    BY <1>1, <1>5, IntegerDivision, p + 2 * n \in Int
<1>7. ASSUME NEW i \in p + 2 * n - C .. p + 2 * n - 1
      PROVE  ring'[i % C] = ClipSlot(i + 1) * Gain
  <2> DEFINE slot == i % C
             k == Place(slot)
  <2>1. i \in Int /\ slot \in 0 .. C - 1
    <3>1. p \in Int /\ n \in Nat /\ C \in Nat \ {0}
        BY <1>1
    <3>2. i \in Int
        BY <3>1
    <3> QED
        BY <3>1, <3>2, IntegerDivision
  <2>2. k = (i - p) % C
      BY <1>1, <2>1, PlaceInRing
  <2> HIDE DEF slot
  <2>3. ring'[slot] = IF k >= 2 * n THEN ring[slot]
                      ELSE write_frame(samples[(k \div 2) + 1])[(k % 2) + 1]
      BY <1>3, <2>1
  <2> HIDE DEF k
  <2>4. CASE i < p
    <3>1. i - p \in -C .. -1 /\ i - p \in Int
        BY <1>1, <2>1, <2>4
    <3>2. k = (i - p) + C
        BY <1>1, <2>2, <3>1, NearPlace
    <3>3. k >= 2 * n /\ i \in p - C .. p - 1
        BY <1>1, <2>1, <2>4, <3>2
    <3> QED
        BY <2>3, <3>3 DEF slot
  <2>5. CASE i >= p
    <3>1. i - p \in 0 .. 2 * n - 1 /\ i - p \in 0 .. C - 1 /\ i - p \in Int
        BY <1>1, <2>1, <2>5
    <3>2. k = i - p
        BY <1>1, <2>2, <3>1, NearPlace
    <3>3. ~(k >= 2 * n) /\ (k % 2) + 1 \in 1 .. 2 /\ (k \div 2) + 1 \in 1 .. n
      <4>1. k \in Nat /\ n \in Nat /\ k <= 2 * n - 1
          BY <3>1, <3>2
      <4> QED
          BY <4>1
    <3>4. samples[(k \div 2) + 1] \in Int
        BY <3>3
    <3>5. write_frame(samples[(k \div 2) + 1])[(k % 2) + 1] = samples[(k \div 2) + 1] * Gain
        BY <3>3, <3>4, SlotSounds
    <3>6. ClipSlot(i + 1) = samples[(k \div 2) + 1]
        BY <2>1, <2>5, <3>1, <3>2
    <3> QED
        BY <2>3, <3>3, <3>5, <3>6 DEF slot
  <2> QED
      BY <2>1, <2>4, <2>5
<1>8. ring' = [slot \in 0 .. C - 1 |-> ring'[slot]]
    BY <1>3
<1>9. drained' \in 0 .. C
    BY <1>1, <1>4
<1> HIDE DEF Place
<1> QED
    BY <1>4, <1>5, <1>6, <1>7, <1>8, <1>9

LEMMA ClipSlotsAreNumbers ==
  ASSUME Frames(description) \in Seq(Int), NEW k \in Int
  PROVE  ClipSlot(k) \in Int
<1> DEFINE F == Frames(description)
           j == ((k - 1) \div 2) + 1
<1>1. Len(F) \in Nat /\ \A i \in 1 .. Len(F) : F[i] \in Int
    OBVIOUS
<1>2. ASSUME k \in 1 .. 2 * Len(F) PROVE j \in 1 .. Len(F)
    BY <1>1, <1>2
<1>3. ClipSlot(k) = IF k \in 1 .. 2 * Len(F) THEN F[j] ELSE 0
    BY DEF ClipSlot, ClipLength, frame_slots, Silence
<1> HIDE DEF F, j
<1> QED
    BY <1>1, <1>2, <1>3

-----------------------------------------------------------------------------
(* It is preserved. *)

\* It holds at first, ...
LEMMA InitKeeps ==
  ASSUME PlaybackInit
  PROVE  PlaybackInv
<1>1. /\ pc = "boot" /\ wav = Unparsed /\ speaker = Unbuilt /\ heard = <<>> /\ frame = 0 /\ queued = 0
      /\ at = 0 /\ writeAt = 0 /\ drained = 0 /\ total = 0 /\ remaining = 0 /\ starved = FALSE
      /\ ring = [slot \in 0 .. Capacity - 1 |-> Silence] /\ description \in Descriptions
    BY DEF PlaybackInit, ReaderInit
<1>2. PlaybackTypes
    BY <1>1, CapacityIsWhole DEF PlaybackTypes
<1>3. Phases
    BY <1>1 DEF Phases, Fed, Flushing, Unbuilt
<1>4. Loop /\ RingHoldsTheLast /\ HeardSoFar /\ WholeClipHeard
    BY <1>1 DEF Loop, RingHoldsTheLast, HeardSoFar, WholeClipHeard, Fed, Flushing
<1>5. PlayedInOrder
    BY <1>1 DEF PlayedInOrder
<1> QED
    BY <1>2, <1>3, <1>4, <1>5 DEF PlaybackInv

\* Where the ring and the stream stay as they are.
LEMMA RingStays ==
  ASSUME RingHoldsTheLast, UNCHANGED <<ring, writeAt, description, bytes>>, Pushed' = Pushed, Fed,
         Pushed \in Int, Capacity \in Nat \ {0}
  PROVE  RingHoldsTheLast'
<1>1. \A k \in Int : ClipSlot(k)' = ClipSlot(k)
    BY SameClip
<1>2. \A i \in Pushed - Capacity .. Pushed - 1 : ring'[i % Capacity] = ClipSlot(i + 1)' * Gain
  <2> SUFFICES ASSUME NEW i \in Pushed - Capacity .. Pushed - 1
               PROVE  ring'[i % Capacity] = ClipSlot(i + 1)' * Gain
      OBVIOUS
  <2>1. i + 1 \in Int
      OBVIOUS
  <2> QED
      BY <1>1, <2>1 DEF RingHoldsTheLast
<1> QED
    BY <1>2 DEF RingHoldsTheLast

LEMMA OrderStays ==
  ASSUME PlayedInOrder, heard \in Seq(Int), UNCHANGED <<heard, description, bytes>>
  PROVE  PlayedInOrder'
<1>1. \A k \in Int : ClipSlot(k)' = ClipSlot(k)
    BY SameClip
<1>2. \A k \in DOMAIN heard : k - Capacity \in Int
    BY CapacityIsWhole
<1> QED
    BY <1>1, <1>2 DEF PlayedInOrder

LEMMA PushedIsNumber ==
  ASSUME PlaybackTypes
  PROVE  Pushed \in Int
<1>1. frame \in Nat /\ queued \in 0 .. frame /\ remaining \in Nat
    BY DEF PlaybackTypes
<1>2. Capacity \in Nat
    BY CapacityIsWhole
<1>3. queued \in Nat
    BY <1>1
<1> QED
    BY <1>1, <1>2, <1>3 DEF Pushed

\* The slot that is played next is the next one of the stream.
LEMMA PlayKeeps ==
  ASSUME PlaybackInv, ReadsWhatIsThere, Play
  PROVE  PlaybackInv'
<1> DEFINE C == Capacity
<1>1. C \in Nat \ {0}
    BY CapacityIsWhole
<1>2. /\ at' = (at + 1) % C /\ drained' = Smaller(C, drained + 1)
      /\ starved' = (starved \/ drained = C)
      /\ heard' = IF starved' THEN heard ELSE Append(heard, Sounds(ring[at]))
      /\ pc \notin {"boot", "configure", "gap"} /\ speaker.error = "none"
      /\ UNCHANGED <<description, bytes, wav, frame, yielded, speaker, ring, writeAt, pc, queued, total, remaining>>
    BY DEF Play, Playing, clip, iterator
<1>3. /\ at \in 0 .. C - 1 /\ drained \in 0 .. C /\ frame \in Nat /\ queued \in 0 .. frame /\ starved \in BOOLEAN
      /\ heard \in Seq(Int) /\ remaining \in Nat /\ total \in Nat
    BY DEF PlaybackInv, PlaybackTypes
<1>4. wav.error = "none" /\ speaker.layout = SlotLayout(DATA_FORMAT) /\ description \in Descriptions
    BY <1>2 DEF PlaybackInv, Phases
<1>5. at' \in 0 .. C - 1
    BY <1>1, <1>2, <1>3, IntegerDivision, at + 1 \in Int
<1>6. drained' \in 0 .. C /\ drained' >= drained /\ (drained < C => drained' = drained + 1) /\ (drained = C => drained' = C)
    BY <1>1, <1>2, <1>3 DEF Smaller
<1>7. starved' \in BOOLEAN
    BY <1>2
<1>8. Pushed' = Pushed /\ Fed' = Fed /\ Flushing' = Flushing
    BY <1>2 DEF Pushed, Fed, Flushing
<1>9. Pushed \in Int
    BY PushedIsNumber DEF PlaybackInv
<1>10. Fed \/ pc = "panicked"
    BY <1>2 DEF PlaybackInv, PlaybackTypes, Fed, Flushing
<1>11. ASSUME ~starved'
       PROVE  /\ Fed /\ ~starved /\ drained < C
              /\ heard' = Append(heard, ClipSlot(Len(heard) + 1 - C))
              /\ ClipSlot(Len(heard) + 1 - C) \in Int
              /\ at' = (Len(heard) + 1) % C
              /\ Len(heard) + 1 = Pushed + drained'
  <2>1. ~starved /\ drained < C
    <3>1. ~starved /\ drained # C
        BY <1>2, <1>11
    <3> QED
        BY <1>1, <1>3, <3>1
  <2>2. Fed
    <3>1. pc = "panicked" => drained = C
        BY <1>2 DEF PlaybackInv, Phases
    <3> QED
        BY <1>10, <2>1, <3>1, <1>3
  <2>3. Len(heard) = Pushed + drained /\ at = Len(heard) % C /\ Len(heard) \in Nat
      BY <1>3, <2>1, <2>2 DEF PlaybackInv, HeardSoFar
  <2> DEFINE i == Len(heard) - C
  <2>4. i \in Pushed - C .. Pushed - 1
      BY <1>1, <1>3, <1>9, <2>1, <2>3
  <2>5. ring[i % C] = ClipSlot(i + 1) * Gain
      BY <2>2, <2>4 DEF PlaybackInv, RingHoldsTheLast
  <2>6. i % C = at
    <3>1. i = Len(heard) + C * (-1) /\ Len(heard) \in Int /\ -1 \in Int
        BY <1>1, <2>3
    <3> QED
        BY <1>1, <2>3, <3>1, SamePlace
  <2>7. i + 1 = Len(heard) + 1 - C /\ i + 1 \in Int
      BY <1>1, <2>3
  <2>8. Frames(description) \in Seq(Int)
      BY <1>3, <1>4, FramesAreNumbers
  <2>9. ClipSlot(i + 1) \in Int
      BY <2>7, <2>8, ClipSlotsAreNumbers
  <2>10. Sounds(ring[at]) = ClipSlot(i + 1)
      BY <1>4, <2>5, <2>6, <2>9, SlotSounds
  <2>11. at' = (Len(heard) + 1) % C
    <3>1. Len(heard) \in Int
        BY <2>3
    <3> HIDE DEF C
    <3>2. ((Len(heard) % C) + 1) % C = (Len(heard) + 1) % C
        BY <1>1, <3>1, NextPlace
    <3> QED
        BY <1>2, <2>3, <3>2
  <2>12. Len(heard) + 1 = Pushed + drained'
      BY <1>3, <1>6, <1>9, <2>1, <2>3
  <2> HIDE DEF i
  <2>13. heard' = Append(heard, ClipSlot(i + 1))
      BY <1>2, <1>11, <2>10
  <2> QED
      BY <2>1, <2>2, <2>7, <2>9, <2>11, <2>12, <2>13
<1>12. heard' \in Seq(Int)
    BY <1>2, <1>3, <1>11
<1>13. PlaybackTypes'
    BY <1>2, <1>3, <1>5, <1>6, <1>7, <1>12 DEF PlaybackInv, PlaybackTypes
<1>14. Phases'
    BY <1>2, <1>6, <1>8 DEF PlaybackInv, Phases
<1>15. Loop'
  <2>1. Frames(description)' = Frames(description)
      BY <1>2, SameClip
  <2> QED
      BY <1>1, <1>2, <1>3, <1>6, <1>8, <2>1 DEF PlaybackInv, Loop
<1>16. RingHoldsTheLast'
  <2>1. CASE Fed
      BY <1>1, <1>2, <1>8, <1>9, <2>1, RingStays DEF PlaybackInv
  <2>2. CASE ~Fed
      BY <1>8, <2>2 DEF RingHoldsTheLast
  <2> QED
      BY <2>1, <2>2
<1>17. HeardSoFar'
  <2>1. ASSUME ~starved' PROVE Len(heard') = Pushed + drained' /\ at' = Len(heard') % C
    <3>1. heard' = Append(heard, ClipSlot(Len(heard) + 1 - C)) /\ ClipSlot(Len(heard) + 1 - C) \in Int
        BY <1>11, <2>1
    <3>2. Len(heard') = Len(heard) + 1
        BY <1>3, <3>1
    <3> QED
        BY <1>11, <2>1, <3>2
  <2> QED
      BY <1>8, <2>1 DEF HeardSoFar
<1>18. PlayedInOrder'
  <2>1. CASE starved'
    <3>1. heard' = heard
        BY <1>2, <2>1
    <3> QED
        BY <1>2, <1>3, <3>1, OrderStays DEF PlaybackInv
  <2>2. CASE ~starved'
    <3> DEFINE x == ClipSlot(Len(heard) + 1 - C)
    <3>1. heard' = Append(heard, x) /\ x \in Int
        BY <1>11, <2>2
    <3>2. \A k \in Int : ClipSlot(k)' = ClipSlot(k)
        BY <1>2, SameClip
    <3>3. ASSUME NEW k \in DOMAIN heard' PROVE heard'[k] = ClipSlot(k - Capacity)
      <4> HIDE DEF x
      <4>1. k \in 1 .. Len(heard) + 1 /\ Len(heard) \in Nat
          BY <1>3, <3>1, <3>3
      <4>2. CASE k \in 1 .. Len(heard)
        <5>1. heard'[k] = heard[k] /\ k \in DOMAIN heard
            BY <1>3, <3>1, <4>2
        <5> QED
            BY <5>1 DEF PlaybackInv, PlayedInOrder
      <4>3. CASE k = Len(heard) + 1
        <5>1. heard'[k] = x
            BY <1>3, <3>1, <4>3
        <5>2. k - Capacity = Len(heard) + 1 - C
            BY <1>1, <4>1, <4>3
        <5> QED
            BY <5>1, <5>2 DEF x
      <4> QED
          BY <4>1, <4>2, <4>3
    <3>4. \A k \in DOMAIN heard' : k - Capacity \in Int
        BY <1>1, <1>12
    <3> QED
        BY <3>2, <3>3, <3>4 DEF PlayedInOrder
  <2> QED
      BY <2>1, <2>2
<1>19. WholeClipHeard'
    BY <1>2 DEF WholeClipHeard
<1> QED
    BY <1>13, <1>14, <1>15, <1>16, <1>17, <1>18, <1>19 DEF PlaybackInv

\* Where the stream and what was heard of it stay as they are.
LEMMA StreamStays ==
  ASSUME PlaybackInv, Fed, Pushed' = Pushed,
         UNCHANGED <<description, bytes, ring, at, writeAt, drained, starved, heard>>
  PROVE  RingHoldsTheLast' /\ HeardSoFar' /\ PlayedInOrder'
<1>1. Pushed \in Int /\ Capacity \in Nat \ {0} /\ heard \in Seq(Int)
    BY PushedIsNumber, CapacityIsWhole DEF PlaybackInv, PlaybackTypes
<1>2. RingHoldsTheLast'
    BY <1>1, RingStays DEF PlaybackInv
<1>3. HeardSoFar'
    BY DEF PlaybackInv, HeardSoFar
<1>4. PlayedInOrder'
    BY <1>1, OrderStays DEF PlaybackInv
<1> QED
    BY <1>2, <1>3, <1>4

\* Where it goes on by some frames.
LEMMA StreamGoesOn ==
  ASSUME PlaybackInv, Fed, UNCHANGED <<description, bytes, starved, heard>>,
         NEW n \in Nat, 2 * n <= drained, Pushed' = Pushed + 2 * n,
         NEW samples \in Seq(Int), Len(samples) = n, push(samples),
         \A i \in Pushed .. Pushed + 2 * n - 1 : ClipSlot(i + 1) = samples[((i - Pushed) \div 2) + 1]
  PROVE  /\ RingHoldsTheLast' /\ HeardSoFar' /\ PlayedInOrder'
         /\ ring' = [slot \in 0 .. Capacity - 1 |-> ring'[slot]]
         /\ at' \in 0 .. Capacity - 1 /\ writeAt' \in 0 .. Capacity - 1
         /\ drained' = drained - 2 * n /\ drained' \in 0 .. Capacity
<1> DEFINE p == Pushed
<1>1. p \in Int /\ Capacity \in Nat \ {0} /\ heard \in Seq(Int)
    BY PushedIsNumber, CapacityIsWhole DEF PlaybackInv, PlaybackTypes
<1>2. speaker.layout = SlotLayout(DATA_FORMAT)
    BY DEF PlaybackInv, Phases
<1>3. /\ writeAt = p % Capacity
      /\ \A i \in p - Capacity .. p - 1 : ring[i % Capacity] = ClipSlot(i + 1) * Gain
    BY DEF PlaybackInv, RingHoldsTheLast
<1>4. \A k \in Int : ClipSlot(k)' = ClipSlot(k)
    BY SameClip
<1>5. PlaybackTypes /\ at \in 0 .. Capacity - 1 /\ drained \in 0 .. Capacity
    BY DEF PlaybackInv, PlaybackTypes
<1>6. Pushed' = p + 2 * n /\ (\A i \in p .. p + 2 * n - 1 : ClipSlot(i + 1) = samples[((i - p) \div 2) + 1])
    OBVIOUS
<1> HIDE DEF p
<1>7. /\ ring' = [slot \in 0 .. Capacity - 1 |-> ring'[slot]]
      /\ writeAt' = (p + 2 * n) % Capacity /\ writeAt' \in 0 .. Capacity - 1
      /\ drained' = drained - 2 * n /\ drained' \in 0 .. Capacity /\ at' = at
      /\ \A i \in p + 2 * n - Capacity .. p + 2 * n - 1 : ring'[i % Capacity] = ClipSlot(i + 1) * Gain
    BY <1>1, <1>2, <1>3, <1>5, <1>6, PushKeepsPlaces
<1>8. RingHoldsTheLast'
  <2>1. \A i \in p + 2 * n - Capacity .. p + 2 * n - 1 : ring'[i % Capacity] = ClipSlot(i + 1)' * Gain
    <3> SUFFICES ASSUME NEW i \in p + 2 * n - Capacity .. p + 2 * n - 1
                 PROVE  ring'[i % Capacity] = ClipSlot(i + 1)' * Gain
        OBVIOUS
    <3>1. i + 1 \in Int
        BY <1>1
    <3> QED
        BY <1>4, <1>7, <3>1
  <2>2. Pushed' - Capacity = p + 2 * n - Capacity /\ Pushed' - 1 = p + 2 * n - 1
      BY <1>1, <1>6
  <2>3. writeAt' = Pushed' % Capacity
      BY <1>6, <1>7
  <2>4. \A i \in Pushed' - Capacity .. Pushed' - 1 : ring'[i % Capacity] = ClipSlot(i + 1)' * Gain
      BY <2>1, <2>2
  <2> QED
      BY <2>3, <2>4 DEF RingHoldsTheLast
<1>9. HeardSoFar'
  <2>1. ASSUME ~starved PROVE Len(heard) = p + drained /\ at = Len(heard) % Capacity
      BY <2>1 DEF PlaybackInv, HeardSoFar, p
  <2>2. ASSUME ~starved PROVE Len(heard) = (p + 2 * n) + drained'
    <3>1. drained \in Int /\ drained' = drained - 2 * n /\ Len(heard) = p + drained
        BY <1>1, <1>5, <1>7, <2>1, <2>2
    <3> QED
        BY <1>1, <3>1
  <2> QED
      BY <1>6, <1>7, <2>1, <2>2 DEF HeardSoFar
<1>10. PlayedInOrder'
    BY <1>1, OrderStays DEF PlaybackInv
<1> QED
    BY <1>5, <1>7, <1>8, <1>9, <1>10

LEMMA BootKeeps ==
  ASSUME PlaybackInv, Boot
  PROVE  PlaybackInv'
<1>1. /\ pc = "boot" /\ pc' \in {"configure", "panicked"} /\ (pc' = "configure" => wav'.error = "none")
      /\ UNCHANGED <<description, bytes, frame, yielded, speaker, ring, at, writeAt, drained>>
      /\ UNCHANGED <<queued, total, remaining, starved, heard>>
    BY DEF Boot, Parse, hardware, history
<1>2. speaker = Unbuilt /\ speaker.error # "none" /\ queued = 0 /\ heard = <<>>
    BY <1>1 DEF PlaybackInv, Phases, Unbuilt
<1>3. ~Fed' /\ ~Flushing'
    BY <1>1 DEF Fed, Flushing
<1>4. PlaybackTypes'
    BY <1>1 DEF PlaybackInv, PlaybackTypes
<1>5. Phases'
    BY <1>1, <1>2, <1>3 DEF PlaybackInv, Phases
<1>6. Loop' /\ RingHoldsTheLast' /\ HeardSoFar' /\ WholeClipHeard'
    BY <1>1, <1>3 DEF Loop, RingHoldsTheLast, HeardSoFar, WholeClipHeard
<1>7. PlayedInOrder'
    BY <1>1, <1>2 DEF PlayedInOrder
<1> QED
    BY <1>4, <1>5, <1>6, <1>7 DEF PlaybackInv

LEMMA ConfigureKeeps ==
  ASSUME PlaybackInv, Configure
  PROVE  PlaybackInv'
<1>1. /\ pc = "configure" /\ pc' \in {"gap", "panicked"} /\ (pc' = "gap" <=> speaker'.error = "none")
      /\ speaker' = build(with_sample_rate(builder, wav.sample_rate))
      /\ UNCHANGED <<description, bytes, wav, frame, yielded, ring, at, writeAt, drained>>
      /\ UNCHANGED <<queued, total, remaining, starved, heard>>
    BY DEF Configure, clip, iterator, hardware, history
<1>2. speaker'.error = "none" => speaker'.layout = SlotLayout(DATA_FORMAT)
    BY <1>1 DEF build, with_sample_rate, builder
<1>3. ~Fed' /\ ~Flushing'
    BY <1>1 DEF Fed, Flushing
<1>4. speaker.error # "none" /\ queued = 0 /\ heard = <<>> /\ wav.error = "none"
    BY <1>1 DEF PlaybackInv, Phases, Unbuilt
<1>5. PlaybackTypes'
    BY <1>1 DEF PlaybackInv, PlaybackTypes
<1>6. Phases'
    BY <1>1, <1>2, <1>3, <1>4 DEF PlaybackInv, Phases
<1>7. Loop' /\ RingHoldsTheLast' /\ HeardSoFar' /\ WholeClipHeard'
    BY <1>1, <1>3, <1>4 DEF Loop, RingHoldsTheLast, HeardSoFar, WholeClipHeard
<1>8. PlayedInOrder'
    BY <1>1, <1>4 DEF PlayedInOrder
<1> QED
    BY <1>5, <1>6, <1>7, <1>8 DEF PlaybackInv

\* A playback starts on a ring that is silent, so nothing of the last one is heard.
LEMMA StartKeeps ==
  ASSUME PlaybackInv, start
  PROVE  PlaybackInv'
<1>1. /\ pc = "gap" /\ pc' = "refill" /\ at' = 0 /\ writeAt' = 0 /\ drained' = 0
      /\ frame' = 0 /\ queued' = 0 /\ starved' = FALSE /\ heard' = <<>>
      /\ UNCHANGED <<description, bytes, wav, speaker, ring, total, remaining>>
    BY DEF start, clip
<1>2. Fed' /\ ~Flushing' /\ Pushed' = 0
    BY <1>1 DEF Fed, Flushing, Pushed
<1>3. Capacity \in Nat \ {0}
    BY CapacityIsWhole
<1>4. 0 % Capacity = 0
    BY <1>3
<1>5. /\ wav.error = "none" /\ speaker.error = "none"
      /\ \A slot \in 0 .. Capacity - 1 : ring[slot] = 0
    BY <1>1 DEF PlaybackInv, Phases, Silence
<1>6. PlaybackTypes'
  <2>1. ring = [slot \in 0 .. Capacity - 1 |-> ring[slot]] /\ total \in Nat /\ remaining \in Nat
      BY DEF PlaybackInv, PlaybackTypes
  <2>2. 0 \in 0 .. Capacity - 1 /\ 0 \in 0 .. Capacity /\ 0 \in 0 .. 0 /\ <<>> \in Seq(Int)
      BY <1>3
  <2> QED
      BY <1>1, <2>1, <2>2 DEF PlaybackTypes
<1>7. Phases'
    BY <1>1, <1>2, <1>5 DEF PlaybackInv, Phases
<1>8. Loop' /\ WholeClipHeard'
    BY <1>1, <1>2 DEF Loop, WholeClipHeard
<1>9. HeardSoFar'
    BY <1>1, <1>2, <1>4 DEF HeardSoFar
<1>10. PlayedInOrder'
    BY <1>1 DEF PlayedInOrder
<1>11. RingHoldsTheLast'
  <2>1. ASSUME NEW i \in -Capacity .. -1 PROVE ring[i % Capacity] = ClipSlot(i + 1) * Gain
    <3>1. i \in Int /\ i % Capacity \in 0 .. Capacity - 1
        BY <1>3, IntegerDivision
    <3>2. ~(i + 1 \in 1 .. ClipLength)
        BY <1>3
    <3>3. ClipSlot(i + 1) = 0
        BY <3>2 DEF ClipSlot, Silence
    <3>4. 0 * Gain = 0
        BY GainIsPositive
    <3> QED
        BY <1>5, <3>1, <3>3, <3>4
  <2>2. \A k \in Int : ClipSlot(k)' = ClipSlot(k)
      BY <1>1, SameClip
  <2>3. \A i \in -Capacity .. -1 : i + 1 \in Int
      BY <1>3
  <2>4. \A i \in -Capacity .. -1 : ring'[i % Capacity] = ClipSlot(i + 1)' * Gain
      BY <1>1, <2>1, <2>2, <2>3
  <2>5. Pushed' - Capacity = -Capacity /\ Pushed' - 1 = -1
      BY <1>2, <1>3
  <2> QED
      BY <1>1, <1>2, <1>4, <2>4, <2>5 DEF RingHoldsTheLast
<1> QED
    BY <1>6, <1>7, <1>8, <1>9, <1>10, <1>11 DEF PlaybackInv

\* What the clip is, once it has been parsed.
LEMMA ClipIsThere ==
  ASSUME PlaybackInv, ReadsWhatIsThere, Fed
  PROVE  /\ Frames(description) \in Seq(Int) /\ Len(Frames(description)) \in Nat
         /\ frame <= Len(Frames(description)) /\ frame \in Nat /\ queued \in 0 .. frame
         /\ yielded \in Seq(Int) /\ Len(yielded) = frame
         /\ \A k \in 1 .. frame : yielded[k] = Frames(description)[k]
         /\ Exhausted(wav, frame) <=> frame = Len(Frames(description))
<1>1. frame \in Nat /\ queued \in 0 .. frame
    BY DEF PlaybackInv, PlaybackTypes
<1>2. description \in Descriptions /\ wav.error = "none"
    BY DEF PlaybackInv, Phases
<1> QED
    BY <1>1, <1>2, FramesAreNumbers

LEMMA RefillKeeps ==
  ASSUME PlaybackInv, ReadsWhatIsThere, Refill
  PROVE  PlaybackInv'
<1> DEFINE F == Frames(description)
           some == Cardinality(Available)
<1>1. /\ pc = "refill" /\ pc' = IF Available = {} THEN "flush" ELSE "write"
      /\ remaining' = IF Available = {} THEN Capacity \div 2 ELSE remaining
      /\ frame' = frame + some
      /\ UNCHANGED <<description, bytes, wav, speaker, ring, at, writeAt, drained>>
      /\ UNCHANGED <<queued, total, starved, heard>>
    BY DEF Refill, TakeChunk, clip, hardware, FlushLength, frame_slots
<1>2. Fed /\ Fed' /\ ~Flushing /\ (Flushing' <=> Available = {})
    BY <1>1 DEF Fed, Flushing
<1>3. frame \in Nat /\ queued = frame /\ remaining \in Nat /\ total \in Nat
    BY <1>1 DEF PlaybackInv, PlaybackTypes, Loop
<1>4. some \in Nat /\ (Available = {} => some = 0)
  <2>1. CHUNK_SAMPLES \in Nat
      BY CapacityIsWhole
  <2>2. IsFiniteSet(0 .. CHUNK_SAMPLES - 1) /\ Available \subseteq 0 .. CHUNK_SAMPLES - 1
      BY <2>1, FS_Interval DEF Available
  <2>3. IsFiniteSet(Available)
      BY <2>2, FS_Subset
  <2> QED
      BY <2>3, FS_CardinalityType, FS_EmptySet
<1> HIDE DEF some
<1>5. Capacity \div 2 \in Nat /\ 2 * (Capacity \div 2) = Capacity /\ Capacity \in Nat /\ CHUNK_SAMPLES \in Nat \ {0}
    BY CapacityIsWhole
<1>6. Pushed' = Pushed
    BY <1>1, <1>2, <1>3, <1>5 DEF Pushed
<1>7. Available = {} => frame = Len(F)
  <2>1. 0 \in 0 .. CHUNK_SAMPLES - 1 /\ frame + 0 = frame
      BY <1>3, <1>5
  <2>2. Available = {} => Exhausted(wav, frame)
      BY <2>1 DEF Available
  <2> QED
      BY <1>2, <2>2, ClipIsThere
<1>8. F' = F
    BY <1>1, SameClip
<1>9. frame' \in Nat /\ queued' \in 0 .. frame' /\ remaining' \in Nat
    BY <1>1, <1>3, <1>4, <1>5
<1>10. PlaybackTypes'
    BY <1>1, <1>9 DEF PlaybackInv, PlaybackTypes
<1>11. Phases'
    BY <1>1, <1>2 DEF PlaybackInv, Phases
<1>12. Loop'
  <2>1. pc' \notin {"refill", "push", "flushpush"}
      BY <1>1
  <2>2. ASSUME Flushing' PROVE queued' = frame' /\ frame' = Len(F)' /\ 2 * remaining' <= Capacity
    <3>1. Available = {} /\ some = 0
        BY <1>2, <1>4, <2>2
    <3>2. frame' = frame /\ remaining' = Capacity \div 2
        BY <1>1, <1>3, <3>1
    <3> QED
        BY <1>1, <1>3, <1>5, <1>7, <1>8, <3>1, <3>2
  <2> QED
      BY <2>1, <2>2 DEF Loop
<1>13. RingHoldsTheLast' /\ HeardSoFar' /\ PlayedInOrder'
    BY <1>1, <1>2, <1>6, StreamStays
<1>14. WholeClipHeard'
    BY <1>1 DEF WholeClipHeard
<1> QED
    BY <1>10, <1>11, <1>12, <1>13, <1>14 DEF PlaybackInv

LEMMA Room ==
  ASSUME NEW a \in Nat, NEW b \in Nat, b <= a, NEW c \in 0 .. a - b
  PROVE  c \in Nat /\ b + c <= a
OBVIOUS

LEMMA WriteKeeps ==
  ASSUME PlaybackInv, Write
  PROVE  PlaybackInv'
<1>1. /\ pc = "write" /\ pc' \in {"push", "check"} /\ total' = Accepted(frame - queued)
      /\ UNCHANGED <<description, bytes, wav, frame, yielded, speaker, ring, at, writeAt, drained>>
      /\ UNCHANGED <<queued, remaining, starved, heard>>
    BY DEF Write, BeginWrite, clip, iterator, hardware, history
<1>2. Fed /\ Fed' /\ ~Flushing /\ ~Flushing'
    BY <1>1 DEF Fed, Flushing
<1>3. Pushed' = Pushed
    BY <1>1, <1>2 DEF Pushed
<1>4. frame \in Nat /\ queued \in 0 .. frame /\ PlaybackTypes
    BY DEF PlaybackInv, PlaybackTypes
<1>5. frame - queued \in Nat
    BY <1>4
<1>6. total' \in 0 .. frame - queued /\ 2 * total' <= drained
    BY <1>1, <1>4, <1>5, AcceptedFits
<1>7. total' \in Nat /\ queued + total' <= frame
  <2>1. frame \in Nat /\ queued \in Nat /\ queued <= frame
      BY <1>4
  <2> QED
      BY <1>6, <2>1, Room
<1>8. PlaybackTypes'
    BY <1>1, <1>4, <1>7 DEF PlaybackTypes
<1>9. Phases'
    BY <1>1, <1>2 DEF PlaybackInv, Phases
<1>10. Loop'
    BY <1>1, <1>2, <1>6, <1>7 DEF Loop
<1>11. RingHoldsTheLast' /\ HeardSoFar' /\ PlayedInOrder'
    BY <1>1, <1>2, <1>3, StreamStays
<1>12. WholeClipHeard'
    BY <1>1 DEF WholeClipHeard
<1> QED
    BY <1>8, <1>9, <1>10, <1>11, <1>12 DEF PlaybackInv

LEMMA CheckKeeps ==
  ASSUME PlaybackInv, Check
  PROVE  PlaybackInv'
<1>1. /\ pc = "check" /\ pc' = IF queued < frame THEN "write" ELSE "refill"
      /\ UNCHANGED <<description, bytes, wav, frame, yielded, speaker, ring, at, writeAt, drained>>
      /\ UNCHANGED <<queued, total, remaining, starved, heard>>
    BY DEF Check, clip, iterator, hardware, history
<1>2. Fed /\ Fed' /\ ~Flushing /\ ~Flushing'
    BY <1>1 DEF Fed, Flushing
<1>3. Pushed' = Pushed
    BY <1>1, <1>2 DEF Pushed
<1>4. frame \in Nat /\ queued \in 0 .. frame
    BY DEF PlaybackInv, PlaybackTypes
<1>5. pc' = "refill" => queued = frame
    BY <1>1, <1>4
<1>6. PlaybackTypes'
    BY <1>1 DEF PlaybackInv, PlaybackTypes
<1>7. Phases'
    BY <1>1, <1>2 DEF PlaybackInv, Phases
<1>8. Loop'
    BY <1>1, <1>2, <1>5 DEF Loop
<1>9. RingHoldsTheLast' /\ HeardSoFar' /\ PlayedInOrder'
    BY <1>1, <1>2, <1>3, StreamStays
<1>10. WholeClipHeard'
    BY <1>1 DEF WholeClipHeard
<1> QED
    BY <1>6, <1>7, <1>8, <1>9, <1>10 DEF PlaybackInv

LEMMA FlushKeeps ==
  ASSUME PlaybackInv, Flush
  PROVE  PlaybackInv'
<1> DEFINE n == Smaller(remaining, STAGE_FRAMES)
<1>1. /\ pc = "flush" /\ pc' \in {"flush", "flushpush"} /\ total' = Accepted(n)
      /\ UNCHANGED <<description, bytes, wav, frame, yielded, speaker, ring, at, writeAt, drained>>
      /\ UNCHANGED <<queued, remaining, starved, heard>>
    BY DEF Flush, BeginWrite, clip, iterator, hardware, history
<1>2. Fed /\ Fed' /\ Flushing /\ Flushing'
    BY <1>1 DEF Fed, Flushing
<1>3. Pushed' = Pushed
    BY <1>1, <1>2 DEF Pushed
<1>4. remaining \in Nat /\ PlaybackTypes
    BY DEF PlaybackInv, PlaybackTypes
<1>5. n \in Nat /\ n <= remaining
    BY <1>4, CapacityIsWhole DEF Smaller
<1> HIDE DEF n
<1>6. total' \in 0 .. n /\ 2 * total' <= drained
    BY <1>1, <1>4, <1>5, AcceptedFits
<1>7. total' \in Nat /\ total' <= remaining
    BY <1>4, <1>5, <1>6
<1>8. PlaybackTypes'
    BY <1>1, <1>4, <1>7 DEF PlaybackTypes
<1>9. Phases'
    BY <1>1, <1>2 DEF PlaybackInv, Phases
<1>10. Loop'
  <2>1. Frames(description)' = Frames(description)
      BY <1>1, SameClip
  <2> QED
      BY <1>1, <1>2, <1>6, <1>7, <2>1 DEF PlaybackInv, Loop
<1>11. RingHoldsTheLast' /\ HeardSoFar' /\ PlayedInOrder'
    BY <1>1, <1>2, <1>3, StreamStays
<1>12. WholeClipHeard'
    BY <1>1 DEF WholeClipHeard
<1> QED
    BY <1>8, <1>9, <1>10, <1>11, <1>12 DEF PlaybackInv

LEMMA PanicKeeps ==
  ASSUME PlaybackInv, Panic
  PROVE  PlaybackInv'
<1>1. /\ pc' = "panicked" /\ drained = Capacity /\ pc \in {"write", "push", "flush", "flushpush"}
      /\ UNCHANGED <<description, bytes, wav, frame, yielded, speaker, ring, at, writeAt, drained>>
      /\ UNCHANGED <<queued, total, remaining, starved, heard>>
    BY DEF Panic, Faulty, clip, iterator, hardware, history
<1>2. ~Fed' /\ ~Flushing'
    BY <1>1 DEF Fed, Flushing
<1>3. PlaybackTypes'
    BY <1>1 DEF PlaybackInv, PlaybackTypes
<1>4. Phases'
    BY <1>1, <1>2 DEF PlaybackInv, Phases
<1>5. Loop' /\ RingHoldsTheLast' /\ HeardSoFar' /\ WholeClipHeard'
    BY <1>1, <1>2 DEF Loop, RingHoldsTheLast, HeardSoFar, WholeClipHeard
<1>6. PlayedInOrder'
  <2>1. heard \in Seq(Int)
      BY DEF PlaybackInv, PlaybackTypes
  <2> QED
      BY <1>1, <2>1, OrderStays DEF PlaybackInv
<1> QED
    BY <1>3, <1>4, <1>5, <1>6 DEF PlaybackInv

LEMMA PausingKeeps ==
  ASSUME PlaybackInv, UNCHANGED playback_vars
  PROVE  PlaybackInv'
<1>1. /\ UNCHANGED <<description, bytes, wav, frame, yielded, speaker, ring, at, writeAt, drained>>
      /\ UNCHANGED <<pc, queued, total, remaining, starved, heard>>
    BY DEF playback_vars, clip, iterator, hardware, history
<1>2. (Fed' <=> Fed) /\ (Flushing' <=> Flushing) /\ Pushed' = Pushed
    BY <1>1 DEF Fed, Flushing, Pushed
<1>3. PlaybackTypes'
    BY <1>1 DEF PlaybackInv, PlaybackTypes
<1>4. Phases'
    BY <1>1, <1>2 DEF PlaybackInv, Phases
<1>5. Frames(description)' = Frames(description) /\ ClipLength' = ClipLength
    BY <1>1, SameClip
<1>6. Loop' /\ WholeClipHeard'
    BY <1>1, <1>2, <1>5 DEF PlaybackInv, Loop, WholeClipHeard
<1>7. CASE Fed
  <2>1. RingHoldsTheLast' /\ HeardSoFar' /\ PlayedInOrder'
      BY <1>1, <1>2, <1>7, StreamStays
  <2> QED
      BY <1>3, <1>4, <1>6, <2>1 DEF PlaybackInv
<1>8. CASE ~Fed
  <2>1. RingHoldsTheLast' /\ HeardSoFar'
      BY <1>2, <1>8 DEF RingHoldsTheLast, HeardSoFar
  <2>2. PlayedInOrder'
    <3>1. heard \in Seq(Int)
        BY DEF PlaybackInv, PlaybackTypes
    <3> QED
        BY <1>1, <3>1, OrderStays DEF PlaybackInv
  <2> QED
      BY <1>3, <1>4, <1>6, <2>1, <2>2 DEF PlaybackInv
<1> QED
    BY <1>7, <1>8

LEMMA PartOfSequence ==
  ASSUME NEW s \in Seq(Int), NEW from \in Nat, NEW many \in Nat, from + many <= Len(s)
  PROVE  LET part == SubSeq(s, from + 1, from + many)
         IN  part \in Seq(Int) /\ Len(part) = many /\ \A j \in 1 .. many : part[j] = s[from + j]
OBVIOUS

LEMMA PushAudioKeeps ==
  ASSUME PlaybackInv, ReadsWhatIsThere, PushAudio
  PROVE  PlaybackInv'
<1> DEFINE n == Smaller(total, STAGE_FRAMES)
           rest == SubSeq(yielded, queued + 1, queued + total)
           F == Frames(description)
<1>1. /\ pc = "push" /\ pc' \in {"push", "check"} /\ push(SubSeq(rest, 1, n))
      /\ total' = total - n /\ queued' = queued + (total - total')
      /\ UNCHANGED <<description, bytes, wav, frame, yielded, speaker, remaining, starved, heard>>
    BY DEF PushAudio, PushSome, clip, iterator, history
<1>2. Fed /\ Fed' /\ ~Flushing /\ ~Flushing'
    BY <1>1 DEF Fed, Flushing
<1>3. total \in Nat /\ remaining \in Nat /\ drained \in 0 .. Capacity
    BY DEF PlaybackInv, PlaybackTypes
<1>4. queued + total <= frame /\ 2 * total <= drained
    BY <1>1 DEF PlaybackInv, Loop
<1>5. /\ F \in Seq(Int) /\ Len(F) \in Nat
      /\ frame <= Len(F) /\ frame \in Nat /\ queued \in 0 .. frame
      /\ yielded \in Seq(Int) /\ Len(yielded) = frame
      /\ \A k \in 1 .. frame : yielded[k] = F[k]
    BY <1>2, ClipIsThere
<1>6. Capacity \in Nat \ {0} /\ STAGE_FRAMES \in Nat \ {0}
    BY CapacityIsWhole
<1>7. queued \in Nat /\ drained \in Nat
    BY <1>3, <1>5, <1>6
<1>8. n \in Nat /\ n <= total
    BY <1>3, <1>6 DEF Smaller
<1>9. rest \in Seq(Int) /\ Len(rest) = total /\ \A j \in 1 .. total : rest[j] = yielded[queued + j]
    BY <1>3, <1>4, <1>5, <1>7, PartOfSequence
<1> HIDE DEF rest, n, F
<1> DEFINE samples == SubSeq(rest, 1, n)
<1>10. samples \in Seq(Int) /\ Len(samples) = n /\ \A j \in 1 .. n : samples[j] = rest[j]
    BY <1>3, <1>8, <1>9
<1>11. push(samples)
    BY <1>1
<1>12. \A j \in 1 .. n : samples[j] = F[queued + j] /\ queued + j \in 1 .. Len(F)
  <2> SUFFICES ASSUME NEW j \in 1 .. n PROVE samples[j] = F[queued + j] /\ queued + j \in 1 .. Len(F)
      OBVIOUS
  <2>1. j \in 1 .. total /\ queued + j \in 1 .. frame
      BY <1>3, <1>4, <1>5, <1>7, <1>8
  <2>2. samples[j] = yielded[queued + j]
      BY <1>9, <1>10, <2>1
  <2>3. yielded[queued + j] = F[queued + j]
      BY <1>5, <2>1
  <2>4. queued + j \in 1 .. Len(F)
    <3>1. Len(F) \in Nat /\ frame \in Nat /\ frame <= Len(F)
        BY <1>5
    <3> QED
        BY <2>1, <3>1
  <2> QED
      BY <2>2, <2>3, <2>4
<1> HIDE DEF samples
<1>13. queued' = queued + n /\ total' = total - n
    BY <1>1, <1>3, <1>8
<1>14. Pushed = 2 * queued /\ Pushed' = 2 * queued + 2 * n
  <2>1. Pushed = 2 * queued + 0 /\ Pushed' = 2 * queued' + 0
      BY <1>2 DEF Pushed
  <2> QED
      BY <1>7, <1>8, <1>13, <2>1
<1>15. 2 * n <= drained
    BY <1>3, <1>4, <1>7, <1>8
<1>16. ASSUME NEW i \in 2 * queued .. 2 * queued + 2 * n - 1
       PROVE  ClipSlot(i + 1) = samples[((i - 2 * queued) \div 2) + 1]
  <2> DEFINE j == ((i - 2 * queued) \div 2) + 1
  <2>1. i \in Int /\ j \in 1 .. n /\ (i \div 2) + 1 = queued + j
      BY <1>7, <1>8
  <2>2. samples[j] = F[queued + j] /\ queued + j \in 1 .. Len(F)
      BY <1>12, <2>1
  <2>3. i + 1 \in 1 .. 2 * Len(F)
      BY <1>5, <1>7, <2>1, <2>2
  <2>4. (i + 1) - 1 = i
      BY <2>1
  <2>5. ClipSlot(i + 1) = F[(i \div 2) + 1]
      BY <2>3, <2>4 DEF ClipSlot, ClipLength, frame_slots, F
  <2> HIDE DEF j
  <2>6. ClipSlot(i + 1) = samples[j]
      BY <2>1, <2>2, <2>5
  <2> QED
      BY <2>6 DEF j
<1>17. /\ RingHoldsTheLast' /\ HeardSoFar' /\ PlayedInOrder'
       /\ ring' = [slot \in 0 .. Capacity - 1 |-> ring'[slot]]
       /\ at' \in 0 .. Capacity - 1 /\ writeAt' \in 0 .. Capacity - 1
       /\ drained' = drained - 2 * n /\ drained' \in 0 .. Capacity
  <2>1. \A i \in Pushed .. Pushed + 2 * n - 1 : ClipSlot(i + 1) = samples[((i - Pushed) \div 2) + 1]
      BY <1>14, <1>16
  <2>2. Pushed' = Pushed + 2 * n
      BY <1>14
  <2> QED
      BY <1>1, <1>2, <1>8, <1>10, <1>11, <1>15, <2>1, <2>2, StreamGoesOn
<1>18. total' \in Nat /\ queued' + total' = queued + total /\ queued' \in 0 .. frame
  <2>1. total' \in Nat
      BY <1>3, <1>8, <1>13
  <2>2. queued' + total' = queued + total
      BY <1>3, <1>7, <1>8, <1>13
  <2>3. queued' \in Nat
      BY <1>7, <1>8, <1>13
  <2>4. queued' <= frame
      BY <1>3, <1>4, <1>5, <1>7, <1>8, <1>13
  <2> QED
      BY <1>5, <2>1, <2>2, <2>3, <2>4
<1>19. PlaybackTypes'
    BY <1>1, <1>3, <1>5, <1>17, <1>18 DEF PlaybackInv, PlaybackTypes
<1>20. Phases'
    BY <1>1, <1>2 DEF PlaybackInv, Phases
<1>21. Loop'
  <2>1. 2 * total' <= drained'
      BY <1>3, <1>4, <1>7, <1>8, <1>13, <1>17
  <2>2. pc' \notin {"refill", "flushpush"} /\ queued' + total' <= frame'
      BY <1>1, <1>4, <1>18
  <2> QED
      BY <1>2, <2>1, <2>2 DEF Loop
<1>22. WholeClipHeard'
    BY <1>1 DEF WholeClipHeard
<1> QED
    BY <1>17, <1>19, <1>20, <1>21, <1>22 DEF PlaybackInv

LEMMA PushSilenceKeeps ==
  ASSUME PlaybackInv, ReadsWhatIsThere, PushSilence
  PROVE  PlaybackInv'
<1> DEFINE n == Smaller(total, STAGE_FRAMES)
           rest == [k \in 1 .. total |-> Silence]
<1>1. /\ pc = "flushpush" /\ pc' \in {"flush", "flushpush"} /\ push(SubSeq(rest, 1, n))
      /\ total' = total - n /\ remaining' = remaining - (total - total')
      /\ UNCHANGED <<description, bytes, wav, frame, yielded, speaker, queued, starved, heard>>
    BY DEF PushSilence, PushSome, clip, iterator, history
<1>2. Fed /\ Fed' /\ Flushing /\ Flushing'
    BY <1>1 DEF Fed, Flushing
<1>3. total \in Nat /\ remaining \in Nat /\ drained \in 0 .. Capacity /\ frame \in Nat /\ queued \in 0 .. frame
    BY DEF PlaybackInv, PlaybackTypes
<1>4. /\ total <= remaining /\ 2 * total <= drained /\ 2 * remaining <= Capacity
      /\ queued = Len(Frames(description)) /\ queued = frame /\ frame = Len(Frames(description))
    BY <1>1, <1>2 DEF PlaybackInv, Loop
<1>5. Capacity \in Nat \ {0} /\ STAGE_FRAMES \in Nat \ {0}
    BY CapacityIsWhole
<1>6. queued \in Nat /\ drained \in Nat
    BY <1>3, <1>5
<1>7. n \in Nat /\ n <= total
    BY <1>3, <1>5 DEF Smaller
<1>8. rest \in Seq(Int) /\ Len(rest) = total /\ \A j \in 1 .. total : rest[j] = 0
    BY <1>3 DEF Silence
<1> HIDE DEF rest, n
<1> DEFINE samples == SubSeq(rest, 1, n)
<1>9. samples \in Seq(Int) /\ Len(samples) = n /\ \A j \in 1 .. n : samples[j] = 0
    BY <1>3, <1>7, <1>8
<1>10. push(samples)
    BY <1>1
<1> HIDE DEF samples
<1>11. remaining' = remaining - n /\ total' = total - n
    BY <1>1, <1>3, <1>7
<1>12. Pushed = 2 * queued + (Capacity - 2 * remaining) /\ Pushed' = Pushed + 2 * n /\ Pushed \in Int
  <2>1. /\ Pushed = 2 * queued + (Capacity - 2 * remaining)
        /\ Pushed' = 2 * queued' + (Capacity - 2 * remaining')
      BY <1>2 DEF Pushed
  <2>2. queued' = queued
      BY <1>1
  <2> QED
      BY <1>3, <1>5, <1>6, <1>7, <1>11, <2>1, <2>2
<1>13. 2 * n <= drained
    BY <1>3, <1>4, <1>6, <1>7
<1>14. ASSUME NEW i \in Pushed .. Pushed + 2 * n - 1
       PROVE  ClipSlot(i + 1) = samples[((i - Pushed) \div 2) + 1]
  <2>1. i \in Int /\ ((i - Pushed) \div 2) + 1 \in 1 .. n /\ i >= Pushed
      BY <1>7, <1>12
  <2>2. samples[((i - Pushed) \div 2) + 1] = 0
      BY <1>9, <2>1
  <2>3. Pushed >= 2 * queued
    <3>1. Capacity - 2 * remaining >= 0 /\ Capacity - 2 * remaining \in Int
        BY <1>3, <1>4, <1>5
    <3> QED
        BY <1>6, <1>12, <3>1
  <2>4. ClipLength = 2 * queued
      BY <1>4 DEF ClipLength, frame_slots
  <2>5. ~(i + 1 \in 1 .. ClipLength)
      BY <1>6, <1>12, <2>1, <2>3, <2>4
  <2> QED
      BY <2>2, <2>5 DEF ClipSlot, Silence
<1>15. /\ RingHoldsTheLast' /\ HeardSoFar' /\ PlayedInOrder'
       /\ ring' = [slot \in 0 .. Capacity - 1 |-> ring'[slot]]
       /\ at' \in 0 .. Capacity - 1 /\ writeAt' \in 0 .. Capacity - 1
       /\ drained' = drained - 2 * n /\ drained' \in 0 .. Capacity
    BY <1>1, <1>2, <1>7, <1>9, <1>10, <1>12, <1>13, <1>14, StreamGoesOn
<1>16. total' \in Nat /\ total' <= remaining' /\ remaining' \in Nat /\ 2 * remaining' <= Capacity
    BY <1>3, <1>4, <1>5, <1>7, <1>11
<1>17. PlaybackTypes'
    BY <1>1, <1>3, <1>15, <1>16 DEF PlaybackInv, PlaybackTypes
<1>18. Phases'
    BY <1>1, <1>2 DEF PlaybackInv, Phases
<1>19. Loop'
  <2>1. 2 * total' <= drained'
      BY <1>3, <1>4, <1>6, <1>7, <1>11, <1>15
  <2>2. pc' \notin {"refill", "push"}
      BY <1>1
  <2>3. queued' = frame' /\ frame' = Len(Frames(description)')
    <3>1. Frames(description)' = Frames(description)
        BY <1>1, SameClip
    <3> QED
        BY <1>1, <1>4, <3>1
  <2> QED
      BY <1>16, <2>1, <2>2, <2>3 DEF Loop
<1>20. WholeClipHeard'
    BY <1>1 DEF WholeClipHeard
<1> QED
    BY <1>15, <1>17, <1>18, <1>19, <1>20 DEF PlaybackInv

\* A ring of silence leaves no place for anything else.
LEMMA StopKeeps ==
  ASSUME PlaybackInv, Stop
  PROVE  PlaybackInv'
<1>1. /\ pc = "flush" /\ remaining = 0 /\ pc' = "gap"
      /\ UNCHANGED <<description, bytes, wav, frame, yielded, speaker, ring, at, writeAt, drained>>
      /\ UNCHANGED <<queued, total, remaining, starved, heard>>
    BY DEF Stop, clip, iterator, hardware, history
<1>2. Fed /\ ~Fed' /\ Flushing /\ ~Flushing'
    BY <1>1 DEF Fed, Flushing
<1>3. drained \in 0 .. Capacity /\ frame \in Nat /\ queued \in 0 .. frame /\ heard \in Seq(Int)
    BY DEF PlaybackInv, PlaybackTypes
<1>4. queued = frame /\ frame = Len(Frames(description))
    BY <1>2 DEF PlaybackInv, Loop
<1>5. Capacity \in Nat \ {0} /\ queued \in Nat
    BY <1>3, CapacityIsWhole
<1>6. Pushed = 2 * queued + Capacity /\ ClipLength = 2 * queued /\ Pushed \in Int
  <2>1. Pushed = 2 * queued + (Capacity - 2 * 0)
      BY <1>1, <1>2 DEF Pushed
  <2> QED
      BY <1>4, <1>5, <2>1 DEF ClipLength, frame_slots
<1>7. ASSUME NEW slot \in 0 .. Capacity - 1 PROVE ring[slot] = Silence
  <2>1. PICK i \in Pushed - Capacity .. Pushed - 1 : i % Capacity = slot
      BY <1>5, <1>6, EveryPlace
  <2>2. ring[slot] = ClipSlot(i + 1) * Gain
      BY <1>2, <2>1 DEF PlaybackInv, RingHoldsTheLast
  <2>3. ~(i + 1 \in 1 .. ClipLength)
      BY <1>5, <1>6
  <2>4. ClipSlot(i + 1) = 0
      BY <2>3 DEF ClipSlot, Silence
  <2>5. 0 * Gain = 0
      BY GainIsPositive
  <2> QED
      BY <2>2, <2>4, <2>5 DEF Silence
<1>8. PlaybackTypes'
    BY <1>1 DEF PlaybackInv, PlaybackTypes
<1>9. Phases'
  <2>1. \A slot \in 0 .. Capacity - 1 : ring'[slot] = Silence
      BY <1>1, <1>7
  <2>2. wav'.error = "none" /\ speaker'.error = "none" /\ description' \in Descriptions
      BY <1>1, <1>2 DEF PlaybackInv, Phases
  <2>3. speaker'.layout = SlotLayout(DATA_FORMAT)
      BY <1>1, <1>2 DEF PlaybackInv, Phases
  <2> QED
      BY <1>1, <1>2, <2>1, <2>2, <2>3 DEF Phases
<1>10. Loop' /\ RingHoldsTheLast' /\ HeardSoFar'
    BY <1>1, <1>2 DEF Loop, RingHoldsTheLast, HeardSoFar
<1>11. PlayedInOrder'
    BY <1>1, <1>3, OrderStays DEF PlaybackInv
<1>12. WholeClipHeard'
  <2>1. ASSUME ~starved PROVE Len(heard) >= Capacity + ClipLength
    <3>1. Len(heard) = Pushed + drained
        BY <1>2, <2>1 DEF PlaybackInv, HeardSoFar
    <3>2. drained \in Nat
        BY <1>3, <1>5
    <3> QED
        BY <1>5, <1>6, <3>1, <3>2
  <2>2. ClipLength' = ClipLength
      BY <1>1, SameClip
  <2> QED
      BY <1>1, <2>1, <2>2 DEF WholeClipHeard
<1> QED
    BY <1>8, <1>9, <1>10, <1>11, <1>12 DEF PlaybackInv

LEMMA PlaybackInvAlways == PlaybackSpec => []PlaybackInv
<1>1. PlaybackInit => PlaybackInv
    BY InitKeeps
<1>2. PlaybackInv /\ ReadsWhatIsThere /\ [PlaybackNext]_playback_vars => PlaybackInv'
  <2> SUFFICES ASSUME PlaybackInv, ReadsWhatIsThere, [PlaybackNext]_playback_vars
               PROVE  PlaybackInv'
      OBVIOUS
  <2>1. CASE Play
      BY <2>1, PlayKeeps
  <2>2. CASE Boot
      BY <2>2, BootKeeps
  <2>3. CASE Configure
      BY <2>3, ConfigureKeeps
  <2>4. CASE start
      BY <2>4, StartKeeps
  <2>5. CASE Refill
      BY <2>5, RefillKeeps
  <2>6. CASE Write
      BY <2>6, WriteKeeps
  <2>7. CASE PushAudio
      BY <2>7, PushAudioKeeps
  <2>8. CASE Check
      BY <2>8, CheckKeeps
  <2>9. CASE Flush
      BY <2>9, FlushKeeps
  <2>10. CASE PushSilence
      BY <2>10, PushSilenceKeeps
  <2>11. CASE Stop
      BY <2>11, StopKeeps
  <2>12. CASE Panic
      BY <2>12, PanicKeeps
  <2>13. CASE UNCHANGED playback_vars
      BY <2>13, PausingKeeps
  <2> QED
      BY <2>1, <2>2, <2>3, <2>4, <2>5, <2>6, <2>7, <2>8, <2>9, <2>10, <2>11, <2>12, <2>13
         DEF PlaybackNext, Firmware
<1> QED
    BY <1>1, <1>2, ClipIsReadRight, PTL DEF PlaybackSpec

\* For every size of the ring, the descriptors, the staging buffer and the chunks, and
\* every file: while the ring is kept fed, what the
\* amplifier hears is the clip, each slot in its place, after a ring of silence and
\* before as much as is flushed (driver.rs:80-87, 294-314).
THEOREM ClipIsPlayedInOrder == PlaybackSpec => []PlayedInOrder
<1>1. PlaybackInv => PlayedInOrder
    BY DEF PlaybackInv
<1> QED
    BY <1>1, PlaybackInvAlways, PTL

\* And when flush has stopped the transfer, the whole clip has been heard and the ring
\* is silent, whether it ran dry or not (driver.rs:326-335).
THEOREM TailIsPlayed == PlaybackSpec => []TailIsHeard
<1>1. PlaybackInv => TailIsHeard
  <2> SUFFICES ASSUME PlaybackInv, pc = "gap"
               PROVE  /\ \A slot \in DOMAIN ring : ring[slot] = Silence
                      /\ ~starved /\ queued > 0 => Len(heard) >= Capacity + ClipLength
      BY DEF TailIsHeard
  <2>1. DOMAIN ring = 0 .. Capacity - 1
      BY DEF PlaybackInv, PlaybackTypes
  <2>2. \A slot \in 0 .. Capacity - 1 : ring[slot] = Silence
      BY DEF PlaybackInv, Phases
  <2> QED
      BY <2>1, <2>2 DEF PlaybackInv, WholeClipHeard
<1> QED
    BY <1>1, PlaybackInvAlways, PTL
=============================================================================
