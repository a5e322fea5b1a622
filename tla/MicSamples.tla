----------------------------- MODULE MicSamples -----------------------------
(***************************************************************************)
(* A program that captures sound with the i2s-mic crate: it reads blocks   *)
(* from a Recording, which unpacks one slot of every frame (format.rs,     *)
(* part.rs), takes the offset out of them with a DcBlocker (dsp.rs) and    *)
(* meters them with a Level (level.rs).                                    *)
(*                                                                         *)
(* A byte of Recording stands for a slot word here, so that a frame is two *)
(* of them.  The widths are a parameter: 16 bits for the code's i16.  The  *)
(* filter's pole is a half, and MaxFed small enough for its floats to be   *)
(* exact; the pole is the program's to choose (DcBlocker::with_pole).      *)
(***************************************************************************)
EXTENDS Recording, Sequences

CONSTANTS
  SampleBits,     \* bits of a sample; a word has twice as many
  Sound,          \* what is to be heard in each slot, one sample and a half wide
  METER_SAMPLES,  \* samples per level-meter report
  MaxFed          \* bound on the samples filtered between two resets

ASSUME MicSamplesAssumption ==
  /\ FRAME_BYTES = 2
  /\ SampleBits \in Nat \ {0} /\ SampleBits % 2 = 0
  /\ LET Width == 2 ^ (SampleBits - 1 + (SampleBits \div 2))
     IN  Sound \in [{"Left", "Right"} -> Seq(-Width .. Width - 1) \ {<<>>}]
  /\ MaxFed \in Nat

VARIABLES
  slot,      \* the slot that the program keeps
  samples,   \* the block in hand
  stage,     \* what was done to it: "none" (there is no block), "raw" or "filtered"
  dc,        \* the DcBlocker
  level,     \* the Level
  heard,     \* history: the frames filtered since the filter was reset
  window     \* history: the samples metered since the last report

program == <<slot, samples, stage, dc, level, heard, window>>
sample_vars == <<vars, program>>

SampleMax == 2 ^ (SampleBits - 1) - 1
SampleMin == -(2 ^ (SampleBits - 1))

-----------------------------------------------------------------------------
(* What the hardware captures. *)

Heard(side, frame) == Sound[side][(frame % Len(Sound[side])) + 1]

\* A word: the microphone's data at the top of the slot.
Word(n) ==
  Heard(IF n % 2 = 0 THEN "Left" ELSE "Right", n \div 2) * 2 ^ (SampleBits \div 2)

-----------------------------------------------------------------------------
(* format.rs *)

DEFAULT_SLOT == "Left"
SHIFT == SampleBits

\* Slot::offset
offset(side) == IF side = "Left" THEN 0 ELSE 1

\* `as i16' of a wider integer
Cast(n) == ((n - SampleMin) % (2 ^ SampleBits)) + SampleMin

\* unpack_mono: whole frames only, and no more than `out' has room for.
unpack_mono(words, side, room) ==
  [i \in 1 .. Smaller(room, Len(words) \div 2) |->
     Cast(words[2 * (i - 1) + offset(side) + 1] \div (2 ^ SHIFT))]

-----------------------------------------------------------------------------
(* dsp.rs: prev_out is kept in units of 1 / SCALE. *)

SCALE == 2 ^ MaxFed

NewDcBlocker == [prev_in |-> 0, prev_out |-> 0]

\* A fault: overshoot wraps around.
Wrapped(n) == Cast(n)

\* `as i16' of a float cuts off the fraction and saturates.
Saturated(n) == IF n > SampleMax THEN SampleMax ELSE IF n < SampleMin THEN SampleMin ELSE n

Truncated(y) == IF y >= 0 THEN y \div SCALE ELSE -((-y) \div SCALE)

Filtered(filter, x) ==
  [prev_in |-> x, prev_out |-> (x - filter.prev_in) * SCALE + (filter.prev_out \div 2)]

\* DcBlocker::process: the filter after each sample of the block
process(filter, block) ==
  LET after[i \in 0 .. Len(block)] ==
        IF i = 0 THEN filter ELSE Filtered(after[i - 1], block[i])
  IN  after

-----------------------------------------------------------------------------
(* level.rs *)

NewLevel == [sum_sq |-> 0, peak |-> 0, count |-> 0]

\* saturating_abs
Magnitude(s) == IF s = SampleMin THEN SampleMax ELSE IF s < 0 THEN -s ELSE s

\* Level::push
LevelPush(meter, s) ==
  [sum_sq |-> meter.sum_sq + s * s,
   peak |-> IF Magnitude(s) > meter.peak THEN Magnitude(s) ELSE meter.peak,
   count |-> meter.count + 1]

\* Level::extend: the meter after each sample of the block
extend(meter, block) ==
  LET after[i \in 0 .. Len(block)] ==
        IF i = 0 THEN meter ELSE LevelPush(after[i - 1], block[i])
  IN  after

-----------------------------------------------------------------------------
SamplesInit ==
  /\ Init
  /\ slot \in DOMAIN Sound
  /\ samples = <<>> /\ stage = "none"
  /\ dc = NewDcBlocker
  /\ level = NewLevel
  /\ heard = <<>> /\ window = <<>>

\* Recording::read into room for n samples: it returns nothing, or pops.
AskSamples(n) ==
  /\ stage = "none"
  /\ read(n)
  /\ UNCHANGED program

ReadSamples ==
  /\ stage = "none"
  /\ ReadPop
  /\ samples' = unpack_mono([i \in 1 .. call'.bytes |-> Word(call'.from + i - 1)], slot,
                            wanted \div FRAME_BYTES)
  /\ stage' = IF samples' = <<>> THEN "none" ELSE "raw"
  /\ UNCHANGED <<slot, dc, level, heard, window>>

\* dc.process(block)
Process ==
  /\ stage = "raw"
  /\ Len(heard) + Len(samples) <= MaxFed
  /\ LET after == process(dc, samples)
     IN  /\ dc' = after[Len(samples)]
         /\ samples' = [i \in DOMAIN samples |-> Saturated(Truncated(after[i].prev_out))]
  /\ stage' = "filtered"
  /\ heard' = heard \o [i \in DOMAIN samples |-> (call.from \div FRAME_BYTES) + i - 1]
  /\ UNCHANGED <<vars, slot, level, window>>

\* level.extend(block)
Extend ==
  /\ stage = "filtered"
  /\ level' = extend(level, samples)[Len(samples)]
  /\ window' = window \o samples
  /\ samples' = <<>> /\ stage' = "none"
  /\ UNCHANGED <<vars, slot, dc, heard>>

\* level.take(), once enough has accumulated
TakeLevel ==
  /\ take = 0
  /\ level.count >= METER_SAMPLES
  /\ level' = NewLevel
  /\ window' = <<>>
  /\ UNCHANGED <<vars, slot, samples, stage, dc, heard>>

\* dc.reset(), before a block is filtered
ResetFilter ==
  /\ stage = "raw"
  /\ dc' = NewDcBlocker
  /\ heard' = <<>>
  /\ UNCHANGED <<vars, slot, samples, stage, level, window>>

SamplesNext ==
  \/ \E n \in 1 .. MaxSamples : AskSamples(n)
  \/ ReadSamples \/ Process \/ Extend \/ TakeLevel \/ ResetFilter
  \/ /\ UNCHANGED program
     /\ \/ \E g \in Grains : Capture(g) /\ UNCHANGED <<call, left, goal>>
        \/ /\ stage = "none"
           /\ \/ \E n \in 1 .. MaxSamples : BeginDiscard(n)
              \/ DiscardAsk \/ DiscardSome \/ start

SamplesSpec == SamplesInit /\ [][SamplesNext]_sample_vars

-----------------------------------------------------------------------------
(* What the program should have: the top bits of what was to be heard on its *)
(* side, the filter's response to them, and their power.                     *)

Top(frame) == Heard(slot, frame) \div (2 ^ (SampleBits \div 2))

\* The difference equation solved: every step of the input fades by half per sample.
Response(i) ==
  LET Input(j) == IF j = 0 THEN 0 ELSE Top(heard[j])
      Faded(j) == (Input(j) - Input(j - 1)) * 2 ^ (MaxFed - (i - j))
      sum[j \in 0 .. i] == IF j = 0 THEN 0 ELSE sum[j - 1] + Faded(j)
  IN  sum[i]

\* The sum of the squares of some samples.
Power(block) ==
  LET sum[i \in 0 .. Len(block)] == IF i = 0 THEN 0 ELSE sum[i - 1] + block[i] * block[i]
  IN  sum[Len(block)]

\* Rounded to zero, and kept within the range of a sample
Rounded(y) ==
  CHOOSE n \in SampleMin .. SampleMax :
    \/ n = SampleMax /\ y >= SampleMax * SCALE
    \/ n = SampleMin /\ y <= SampleMin * SCALE
    \/ y >= 0 /\ n * SCALE <= y /\ y < (n + 1) * SCALE
    \/ y < 0 /\ n * SCALE >= y /\ y > (n - 1) * SCALE

\* Whatever the grain of the hardware, the sizes of the reads, the discards, and the
\* overruns between them: the samples that were read are those of the chosen slot,
\* none of the other's, at full scale too; the filter, which is never told of a gap
\* or a block's end, has answered to the samples in the order they were read; and
\* the meter has those since the last report (driver.rs:266-273, format.rs:38-55,
\* dsp.rs:46-55, level.rs:49-92).
SamplesAreTheSound ==
  /\ stage = "raw" =>
       samples = [i \in 1 .. call.bytes \div FRAME_BYTES |-> Top((call.from \div FRAME_BYTES) + i - 1)]
  /\ stage = "filtered" =>
       \A i \in DOMAIN samples :
         samples[i] = Rounded(Response(Len(heard) - Len(samples) + i))
  /\ level.count = Len(window)
  /\ level.sum_sq = Power(window)
  /\ \A i \in DOMAIN window : Magnitude(window[i]) <= level.peak
  /\ level.peak # 0 => \E i \in DOMAIN window : Magnitude(window[i]) = level.peak
=============================================================================
