-------------------------------- MODULE Button --------------------------------
(***************************************************************************)
(* The debouncer of the rotary-encoder crate (button.rs), fed by the       *)
(* firmware with the key level and the milliseconds since boot truncated   *)
(* to 32 bits.                                                             *)
(*                                                                         *)
(* `clock' is the real time in milliseconds; the code sees it modulo       *)
(* ClockModulus, and the times it stores are such truncated times.  The    *)
(* history variables remember real times, for the properties.              *)
(***************************************************************************)
EXTENDS Integers

CONSTANTS
  debounce_ms, long_press_ms,
  ClockModulus,   \* 2^32 in the code
  MaxGap,         \* bound: longest time between two calls
  MaxClock        \* bound on the real time

ASSUME ButtonAssumption ==
  /\ ClockModulus \in Nat \ {0}
  /\ debounce_ms \in 0 .. ClockModulus - 1
  /\ long_press_ms \in 0 .. ClockModulus - 1
  /\ MaxGap \in Nat
  /\ MaxClock \in Nat

VARIABLES
  stable, candidate, changed_at, pressed_at, long_press_sent,
  event,       \* what the last call returned
  clock,       \* real time of the last call
  raw,         \* history: the last sample
  run_start,   \* history: when the current run of equal samples began
  confirmed    \* history: when the last press was confirmed

code == <<stable, candidate, changed_at, pressed_at, long_press_sent>>
button_vars == <<stable, candidate, changed_at, pressed_at, long_press_sent,
          event, clock, raw, run_start, confirmed>>

None == "None"
Pressed == "Pressed"
Released == "Released"
LongPress == "LongPress"
Events == {None, Pressed, Released, LongPress}

\* A fault: the counter is not truncated.
now_ms_wide(t) == t

now_ms(t) == t % ClockModulus
wrapping_sub(x, y) == (x - y) % ClockModulus

ButtonInit ==
  /\ stable = FALSE
  /\ candidate = FALSE
  /\ changed_at = 0
  /\ pressed_at = 0
  /\ long_press_sent = FALSE
  /\ event = None
  /\ clock = 0
  /\ raw = FALSE
  /\ run_start = 0
  /\ confirmed = 0

-----------------------------------------------------------------------------
\* What is remembered of a call with this level at real time t.
Observe(pressed, t) ==
  /\ clock' = t
  /\ raw' = pressed
  /\ run_start' = IF pressed = raw THEN run_start ELSE t
  /\ confirmed' = IF event' = Pressed THEN t ELSE confirmed

\* A fault: the window does not start again.
NewLevelSameWindow(pressed, now) ==
  /\ pressed # candidate
  /\ candidate' = pressed
  /\ event' = None
  /\ UNCHANGED <<stable, changed_at, pressed_at, long_press_sent>>

\* A new level: the debounce window starts again.
NewLevel(pressed, now) ==
  /\ pressed # candidate
  /\ candidate' = pressed
  /\ changed_at' = now
  /\ event' = None
  /\ UNCHANGED <<stable, pressed_at, long_press_sent>>

\* A fault: > for >=.
SettledLate(now) == wrapping_sub(now, changed_at) > debounce_ms

Settled(now) == wrapping_sub(now, changed_at) >= debounce_ms

\* The level differs from the stable one but has not settled.
Settling(pressed, now) ==
  /\ pressed = candidate
  /\ pressed # stable
  /\ ~Settled(now)
  /\ event' = None
  /\ UNCHANGED code

\* A fault: the time of the press is not kept.
ConfirmKeepingPressedAt(pressed, now) ==
  /\ pressed = candidate /\ pressed # stable /\ Settled(now)
  /\ stable' = pressed
  /\ long_press_sent' = (~pressed /\ long_press_sent)
  /\ event' = IF pressed THEN Pressed ELSE Released
  /\ UNCHANGED <<candidate, changed_at, pressed_at>>

\* A fault: a second press inherits the long press of the first.
ConfirmKeepingSent(pressed, now) ==
  /\ pressed = candidate /\ pressed # stable /\ Settled(now)
  /\ stable' = pressed
  /\ pressed_at' = IF pressed THEN now ELSE pressed_at
  /\ event' = IF pressed THEN Pressed ELSE Released
  /\ UNCHANGED <<candidate, changed_at, long_press_sent>>

\* It has settled: the press or the release is believed.
Confirm(pressed, now) ==
  /\ pressed = candidate
  /\ pressed # stable
  /\ Settled(now)
  /\ stable' = pressed
  /\ IF pressed
       THEN /\ pressed_at' = now
            /\ long_press_sent' = FALSE
            /\ event' = Pressed
       ELSE /\ event' = Released
            /\ UNCHANGED <<pressed_at, long_press_sent>>
  /\ UNCHANGED <<candidate, changed_at>>

\* A fault: > for >=.
LongPressOverdue(now) ==
  stable /\ ~long_press_sent /\ wrapping_sub(now, pressed_at) > long_press_ms

LongPressDue(now) ==
  /\ stable
  /\ ~long_press_sent
  /\ wrapping_sub(now, pressed_at) >= long_press_ms

\* Nothing changes; a hold that has lasted long enough is reported, once.
Hold(pressed, now) ==
  /\ pressed = candidate
  /\ pressed = stable
  /\ IF LongPressDue(now)
       THEN /\ long_press_sent' = TRUE
            /\ event' = LongPress
       ELSE /\ event' = None
            /\ UNCHANGED long_press_sent
  /\ UNCHANGED <<stable, candidate, changed_at, pressed_at>>

\* One call with the level `pressed', at real time t.
update(pressed, t) ==
  /\ \/ NewLevel(pressed, now_ms(t))
     \/ Settling(pressed, now_ms(t))
     \/ Confirm(pressed, now_ms(t))
     \/ Hold(pressed, now_ms(t))
  /\ Observe(pressed, t)

ButtonNext ==
  \E pressed \in BOOLEAN, gap \in 0 .. MaxGap :
    /\ clock + gap <= MaxClock
    /\ update(pressed, clock + gap)

ButtonSpec == ButtonInit /\ [][ButtonNext]_button_vars

-----------------------------------------------------------------------------
\* Type invariant.
ButtonTypeOK ==
  /\ stable \in BOOLEAN
  /\ candidate \in BOOLEAN
  /\ changed_at \in 0 .. ClockModulus - 1
  /\ pressed_at \in 0 .. ClockModulus - 1
  /\ long_press_sent \in BOOLEAN
  /\ event \in Events
  /\ clock \in Nat
  /\ raw \in BOOLEAN
  /\ run_start \in 0 .. clock
  /\ confirmed \in 0 .. clock

\* The debounced level changes only to a level that every sample of the last
\* debounce_ms milliseconds of real time has shown, wherever the counter wraps.
BelievedOnlyWhenSettled ==
  [][stable' # stable =>
       /\ raw = stable' /\ raw' = stable'
       /\ clock' - run_start >= debounce_ms]_button_vars

\* A long press is reported only for a key that is still down and that was
\* confirmed down at least long_press_ms of real time ago.
LongPressOnlyWhenHeld ==
  [][event' = LongPress =>
       raw' /\ stable /\ clock' - confirmed >= long_press_ms]_button_vars

\* (BelievedWhenSettled) A level that has lasted for the debounce time is believed at the next call,
\* provided the calls come often enough for the counter not to lap.
BelievedWhenSettled ==
  MaxGap + debounce_ms <= ClockModulus =>
    (stable # raw => clock - run_start < debounce_ms \/ clock = run_start)

\* (LongPressWhenHeld) A hold that has lasted for the long-press time is reported no
\* later than the second call of a run of "down" samples.
LongPressWhenHeld ==
  /\ stable /\ raw
  /\ clock - confirmed \in long_press_ms .. ClockModulus - 1
  /\ clock > confirmed /\ clock > run_start
  => long_press_sent

\* What is due has been reported: a level once it has lasted for the debounce time,
\* and a hold once it has lasted for the long-press time, wherever the counter wraps
\* (button.rs:80, 96).
ReportedWhenDue == BelievedWhenSettled /\ LongPressWhenHeld

-----------------------------------------------------------------------------
\* The events a button owes its caller: refinement mapping.
phase == IF ~stable THEN "up" ELSE IF long_press_sent THEN "held" ELSE "down"

Promise == INSTANCE ButtonProtocol WITH last <- event
PromiseSpec == Promise!Spec
=============================================================================
