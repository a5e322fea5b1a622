------------------------------- MODULE Encoder -------------------------------
(***************************************************************************)
(* The quadrature decoder of the rotary-encoder crate (encoder.rs).        *)
(*                                                                         *)
(* `update' is fed the sampled levels of S1 and S2 and returns a direction *)
(* once a full detent has been travelled.  The two-bit sample is a number  *)
(* in 0..3, as in the code.                                                *)
(***************************************************************************)
EXTENDS Integers

CONSTANTS
  DetentRatio,     \* the argument of with_transitions_per_detent, any i8
  MaxTransitions   \* bound: stands for the i32 range of `transitions'

VARIABLES
  state,         \* previous two-bit sample, or NoSample
  accumulator,   \* transitions since the last reported step
  transitions,   \* net valid transitions since construction or reset
  step           \* what the last call returned

vars == <<state, accumulator, transitions, step>>

Quad == 0 .. 3
NoSample == -1

None == "None"
Clockwise == "Clockwise"
CounterClockwise == "CounterClockwise"
Steps == {None, Clockwise, CounterClockwise}

\* A ratio below 1 is clamped to 1.
transitions_per_detent == IF DetentRatio < 1 THEN 1 ELSE DetentRatio

\* (a << 1) | b
Sample(a, b) == 2 * a + b

\* The transition table: +1 along the Gray-code cycle 00, 01, 11, 10; -1
\* against it; 0 for a repeated sample and when both bits flip at once.
Delta(previous, current) ==
  CASE <<previous, current>> \in {<<0, 1>>, <<1, 3>>, <<3, 2>>, <<2, 0>>} -> 1
    [] <<previous, current>> \in {<<1, 0>>, <<3, 1>>, <<2, 3>>, <<0, 2>>} -> -1
    [] OTHER -> 0

Direction(s) == CASE s = Clockwise -> 1
                  [] s = CounterClockwise -> -1
                  [] OTHER -> 0

Init ==
  /\ state = NoSample
  /\ accumulator = 0
  /\ transitions = 0
  /\ step = None

-----------------------------------------------------------------------------
\* A fault: an impossible transition leaves the baseline where it was.
IgnoreKeepingBaseline(current) ==
  /\ state = NoSample \/ Delta(state, current) = 0
  /\ state' = IF state = NoSample THEN current ELSE state
  /\ step' = None
  /\ UNCHANGED <<accumulator, transitions>>

\* No movement to count: the first sample (a baseline only), the same sample
\* again, or an impossible transition, whose sample becomes the new baseline.
Ignore(current) ==
  /\ state = NoSample \/ Delta(state, current) = 0
  /\ state' = current
  /\ step' = None
  /\ UNCHANGED <<accumulator, transitions>>

\* A fault: > and < for >= and <=.
OutcomeStrict(sum) ==
  CASE sum > transitions_per_detent -> Clockwise
    [] sum < -transitions_per_detent -> CounterClockwise
    [] OTHER -> None

\* What the sum of the accumulator and a movement amounts to.
Outcome(sum) ==
  CASE sum >= transitions_per_detent -> Clockwise
    [] sum <= -transitions_per_detent -> CounterClockwise
    [] OTHER -> None

\* A legal movement is counted; a full detent is reported and starts the
\* accumulator again.
Move(current) ==
  /\ state # NoSample
  /\ LET delta == Delta(state, current)
         sum   == accumulator + delta
     IN  /\ delta # 0
         /\ transitions + delta \in -MaxTransitions .. MaxTransitions
         /\ transitions' = transitions + delta
         /\ step' = Outcome(sum)
         /\ accumulator' = IF step' = None THEN sum ELSE 0
  /\ state' = current

update(a, b) == Ignore(Sample(a, b)) \/ Move(Sample(a, b))

\* A fault: the accumulator survives.
reset_keeping_accumulator ==
  /\ state' = NoSample
  /\ transitions' = 0
  /\ step' = None
  /\ UNCHANGED accumulator

\* Everything is cleared, the baseline too; the ratio is kept.
reset ==
  /\ state' = NoSample
  /\ accumulator' = 0
  /\ transitions' = 0
  /\ step' = None

Next == reset \/ \E a, b \in {0, 1} : update(a, b)

Spec == Init /\ [][Next]_vars

-----------------------------------------------------------------------------
\* Type invariant.
TypeOK ==
  /\ state \in Quad \cup {NoSample}
  /\ accumulator \in Int
  /\ transitions \in Int
  /\ step \in Steps

\* Between calls less than a detent is pending, so that the i8 accumulator
\* cannot overflow for any ratio an i8 can hold.
PendingBelowDetent ==
  accumulator \in -(transitions_per_detent - 1) .. transitions_per_detent - 1
=============================================================================
