---------------------------- MODULE RotaryFirmware ----------------------------
(***************************************************************************)
(* The main loop of the rotary-encoder firmware (firmware/src/bin/main.rs) *)
(* over the Encoder and the Button, and the hand that turns and presses.   *)
(*                                                                         *)
(* The shaft is counted in quadrature transitions.  It moves between the   *)
(* samples the loop takes; contact bounce is the shaft going to and fro    *)
(* between neighbours.  A transition is missed when the shaft is two or    *)
(* more away from the last sample by the time the loop takes the next one. *)
(***************************************************************************)
EXTENDS Button

CONSTANTS
  DetentRatio, MaxTransitions,
  MaxSlip,     \* bound: shaft movement between two samples
  MaxShaft     \* bound on the shaft

ASSUME FirmwareAssumption ==
  /\ DetentRatio \in -128 .. 127
  /\ MaxTransitions \in Nat
  /\ MaxSlip \in Nat
  /\ MaxShaft \in Nat

VARIABLES
  state, accumulator, transitions, step,                      \* Encoder
  polls,         \* which of the two the loop polls next
  position,   \* detents, as shown to the user
  shaft,      \* where the shaft is
  sampled,    \* history: where it was at the last sample
  origin,     \* history: where it was at the baseline sample
  at_step,    \* history: where it was at the last step, or at the baseline
  missed      \* history: a transition was missed since the baseline

encoder_vars == <<state, accumulator, transitions, step>>
shaft_history == <<sampled, origin, at_step, missed>>
vars == <<encoder_vars, button_vars, polls, position, shaft, shaft_history>>

E == INSTANCE Encoder

Distance(x, y) == IF x >= y THEN x - y ELSE y - x

\* The contacts close in Gray-code order as the shaft turns clockwise.
S1(at) == IF at % 4 \in {2, 3} THEN 1 ELSE 0
S2(at) == IF at % 4 \in {1, 2} THEN 1 ELSE 0

Init ==
  /\ E!Init
  /\ ButtonInit
  /\ polls = "encoder"
  /\ position = 0
  /\ shaft = 0
  /\ sampled = 0
  /\ origin = 0
  /\ at_step = 0
  /\ missed = FALSE

-----------------------------------------------------------------------------
\* The hand, or a bouncing contact.
Turn ==
  \E d \in {-1, 1} :
    /\ shaft + d \in -MaxShaft .. MaxShaft
    /\ Distance(shaft + d, sampled) <= MaxSlip
    /\ shaft' = shaft + d
    /\ UNCHANGED <<encoder_vars, button_vars, polls, position, shaft_history>>

PollEncoder ==
  /\ polls = "encoder"
  /\ E!update(S1(shaft), S2(shaft))
  /\ position' = position + E!Direction(step')
  /\ polls' = "button"
  /\ sampled' = shaft
  /\ origin' = IF state = E!NoSample THEN shaft ELSE origin
  /\ at_step' = IF state = E!NoSample \/ step' # E!None THEN shaft ELSE at_step
  /\ missed' = (state # E!NoSample /\ (missed \/ Distance(shaft, sampled) > 1))
  /\ UNCHANGED <<button_vars, shaft>>

\* A fault: the encoder is not reset with the position.
PollButtonKeepingEncoder ==
  /\ polls = "button"
  /\ \E pressed \in BOOLEAN, gap \in 1 .. MaxGap :
       /\ clock + gap <= MaxClock
       /\ update(pressed, clock + gap)
  /\ position' = IF event' = Pressed THEN 0 ELSE position
  /\ polls' = "encoder"
  /\ UNCHANGED <<encoder_vars, shaft, shaft_history>>

\* A confirmed press zeroes the position and resets the encoder.
PollButton ==
  /\ polls = "button"
  /\ \E pressed \in BOOLEAN, gap \in 1 .. MaxGap :
       /\ clock + gap <= MaxClock
       /\ update(pressed, clock + gap)
  /\ IF event' = Pressed
       THEN position' = 0 /\ E!reset
       ELSE UNCHANGED <<position, encoder_vars>>
  /\ polls' = "encoder"
  /\ UNCHANGED <<shaft, shaft_history>>

Next == Turn \/ PollEncoder \/ PollButton

Spec == Init /\ [][Next]_vars

-----------------------------------------------------------------------------
\* Type invariant.
TypeOK ==
  /\ E!TypeOK
  /\ ButtonTypeOK
  /\ polls \in {"encoder", "button"}
  /\ position \in Int
  /\ shaft \in Int
  /\ sampled \in Int
  /\ origin \in Int
  /\ at_step \in Int
  /\ missed \in BOOLEAN

\* Unless a transition was missed, the position shown is less than one detent
\* from how far the shaft has really turned since the press (or the start)
\* that made it zero, whatever the contacts did in between.
PositionTracksShaft ==
  state # E!NoSample /\ ~missed =>
    Distance(E!transitions_per_detent * position, sampled - origin)
      < E!transitions_per_detent

\* Unless a transition was missed, the position changes by one, and only after
\* the shaft has turned a full detent from where it last changed: a contact
\* that bounces around a detent's edge shows nothing.
StepNeedsFullDetent ==
  [][polls = "encoder" /\ ~missed' /\ position' # position =>
       /\ Distance(position', position) = 1
       /\ Distance(sampled', at_step) = E!transitions_per_detent]_vars

\* However many transitions are missed, the decoder ends on the contacts' last
\* sample and has counted the shaft's movement modulo two: impossible
\* transitions are dropped in pairs, never singly.
MissedSamplesAreEven ==
  state # E!NoSample =>
    /\ state = E!Sample(S1(sampled), S2(sampled))
    /\ (transitions - (sampled - origin)) % 2 = 0

\* Every transition the decoder has counted since the last reset is in the
\* position shown or pending in the accumulator: the reset that a press sends
\* and the steps that polls report never leave the loop's position and the
\* decoder's count apart.
PositionAccountsForCount ==
  transitions = E!transitions_per_detent * position + accumulator

\* Between calls less than a detent is pending, so that the i8 accumulator
\* cannot overflow for any ratio an i8 can hold.
PendingBelowDetent == E!PendingBelowDetent
=============================================================================
