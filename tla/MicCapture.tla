------------------------------ MODULE MicCapture ------------------------------
(***************************************************************************)
(* The main loop of the microphone firmware (firmware/src/bin/main.rs):    *)
(* it reads blocks from a Recording, warms up, cuts the samples into       *)
(* frames and writes them out, and restarts the recording on an overrun.   *)
(* MicStream models what becomes of the bytes; here write_frame is its     *)
(* outcome and the time it takes, during which the hardware goes on        *)
(* capturing.                                                              *)
(*                                                                         *)
(* One tick of time is one sample.  A sample is named by when it was       *)
(* captured and by how many the DC blocker had seen when it came out of    *)
(* it, so that a frame shows what it was made of; MicSamples models what   *)
(* the filter and the meter compute.                                       *)
(***************************************************************************)
EXTENDS Integers, Sequences, SequencesExt

CONSTANTS
  ScratchSamples, BufferSamples,   \* sizes of the two DMA buffers
  READ_SAMPLES, FRAME_SAMPLES, WARMUP_SAMPLES, METER_SAMPLES,
  FRAME_TIMEOUT, PROBE_TIMEOUT,    \* in ticks
  MaxTime                          \* bound on the time

ASSUME CaptureAssumption ==
  /\ {READ_SAMPLES, FRAME_SAMPLES, METER_SAMPLES} \subseteq Nat \ {0}
  /\ {ScratchSamples, BufferSamples, WARMUP_SAMPLES,
      FRAME_TIMEOUT, PROBE_TIMEOUT, MaxTime} \subseteq Nat

VARIABLES
  head, available, late, take, wanted, call, left, goal, reasons,   \* the Recording
  pc,          \* "start", "read", "block" or "write"
  block,       \* samples of the block still to be framed
  warmed,      \* samples that have gone by during the warm-up
  fed,         \* samples that the DC blocker has seen since it was made
  metered,     \* samples in the level meter
  frame,       \* samples in the frame so far; `filled' is their number
  stalled,     \* the last frame was abandoned
  dropped, overruns,
  time_left,   \* write: ticks to the deadline
  listening,   \* a host is draining the port
  last,        \* history: the last complete frame, and the overruns before it
  patient,     \* history: a write since the last read had the full timeout
  delayed      \* history: since then time has passed outside of writes

recording == <<head, available, late, take, wanted, call, left, goal, reasons>>
vars == <<recording, pc, block, warmed, fed, metered, frame, stalled, dropped, overruns,
          time_left, listening, last, patient, delayed>>

\* A recording whose unit is the sample.
R == INSTANCE Recording WITH
       FRAME_BYTES <- 1, ScratchBytes <- ScratchSamples, BufferBytes <- BufferSamples,
       Grains <- {1}, MaxSamples <- READ_SAMPLES, MaxHead <- MaxTime

Samples(from, n) == [i \in 1 .. n |-> [at |-> from + i - 1, nth |-> fed + i]]
Consecutive(s) == \A i \in 1 .. Len(s) - 1 : s[i + 1].at = s[i].at + 1 /\ s[i + 1].nth = s[i].nth + 1

Init ==
  /\ R!Init
  /\ pc = "read"
  /\ block = <<>>
  /\ warmed = 0
  /\ fed = 0
  /\ metered = 0
  /\ frame = <<>>
  /\ stalled = FALSE
  /\ dropped = 0
  /\ overruns = 0
  /\ time_left = 0
  /\ listening \in BOOLEAN
  /\ last = [samples |-> <<>>, overruns |-> 0]
  /\ patient = FALSE
  /\ delayed = FALSE

-----------------------------------------------------------------------------
\* External: time passes and a sample is captured.
Tick ==
  /\ IF pc = "write"
       THEN time_left > 0 /\ time_left' = time_left - 1 /\ UNCHANGED delayed
       ELSE /\ UNCHANGED time_left
            /\ delayed' = (delayed \/ pc # "read" \/ available # 0)
  /\ R!Capture(1)
  /\ UNCHANGED <<call, left, goal, pc, block, warmed, fed, metered, frame, stalled, dropped,
                 overruns, listening, last, patient>>

\* External: a host appears or goes away.
HostChanges ==
  /\ listening' = ~listening
  /\ UNCHANGED <<recording, pc, block, warmed, fed, metered, frame, stalled, dropped, overruns,
                 time_left, last, patient, delayed>>

Start ==
  /\ pc = "start"
  /\ R!start
  /\ pc' = "read"
  /\ UNCHANGED <<block, warmed, fed, metered, frame, stalled, dropped, overruns, time_left,
                 listening, last, patient, delayed>>

\* A fault: the partial frame is kept.
ReadFailedKeepingFrame ==
  /\ overruns' = overruns + 1
  /\ pc' = "start"
  /\ UNCHANGED <<frame, block, warmed, fed, metered>>

\* recording.read failed: the partial frame is dropped and the loop resyncs.
ReadFailed ==
  /\ overruns' = overruns + 1
  /\ frame' = <<>>
  /\ pc' = "start"
  /\ UNCHANGED <<block, warmed, fed, metered>>

\* Every block goes through the DC blocker.  During the warm-up it is only counted
\* then; later it is metered, reported when enough has accumulated, and framed.
ReadBlock ==
  LET n == call'.bytes IN
  /\ fed' = fed + n
  /\ IF warmed < WARMUP_SAMPLES
       THEN /\ warmed' = warmed + n
            /\ UNCHANGED <<pc, block, metered>>
       ELSE /\ block' = Samples(call'.from, n)
            /\ metered' = IF metered + n >= METER_SAMPLES THEN 0 ELSE metered + n
            /\ pc' = IF block' = <<>> THEN "read" ELSE "block"
            /\ UNCHANGED warmed
  /\ UNCHANGED <<frame, overruns>>

\* recording.read has asked how much is available, and something is.
AskRead ==
  /\ pc = "read"
  /\ R!read(READ_SAMPLES)
  /\ take' > 0
  /\ UNCHANGED <<pc, block, warmed, fed, metered, frame, stalled, dropped, overruns, time_left,
                 listening, last, patient, delayed>>

\* recording.read returns: nothing was available, or it has popped, or it failed.
Read ==
  /\ pc = "read"
  /\ R!read(READ_SAMPLES) \/ R!ReadPop
  /\ take' = 0
  /\ IF call'.ok THEN ReadBlock ELSE ReadFailed
  /\ patient' = FALSE
  /\ delayed' = FALSE
  /\ UNCHANGED <<stalled, dropped, time_left, listening, last>>

\* A fault: every frame gets the full timeout.
timeout_full == FRAME_TIMEOUT

\* The deadline of a frame: short when the one before it was abandoned.
timeout == IF stalled THEN PROBE_TIMEOUT ELSE FRAME_TIMEOUT

FrameFull(filled) == Len(filled) = FRAME_SAMPLES

\* A sample goes into the frame; a full frame goes out.
PushSample ==
  /\ pc = "block"
  /\ block' = Tail(block)
  /\ LET filled == Append(frame, Head(block))
     IN  IF ~FrameFull(filled)
           THEN /\ frame' = filled
                /\ pc' = IF block' = <<>> THEN "read" ELSE "block"
                /\ UNCHANGED <<time_left, last, patient, delayed>>
           ELSE /\ frame' = <<>>
                /\ last' = [samples |-> filled, overruns |-> overruns]
                /\ pc' = "write"
                /\ time_left' = timeout
                /\ patient' = (patient \/ ~stalled)
  /\ UNCHANGED <<recording, warmed, fed, metered, stalled, dropped, overruns, listening, delayed>>

\* A fault: an abandoned frame takes the rest of the block with it.
WriteFrameLosingBlock ==
  /\ pc = "write"
  /\ \/ listening /\ stalled' = FALSE /\ UNCHANGED <<dropped, block>>
     \/ time_left = 0 /\ stalled' = TRUE /\ dropped' = dropped + 1 /\ block' = <<>>
  /\ time_left' = 0
  /\ pc' = IF block' = <<>> THEN "read" ELSE "block"
  /\ UNCHANGED <<recording, warmed, fed, metered, frame, overruns, listening, last, patient, delayed>>

\* write_frame returns: everything was taken, or the deadline has passed.
WriteFrame ==
  /\ pc = "write"
  /\ \/ listening /\ stalled' = FALSE /\ UNCHANGED dropped
     \/ time_left = 0 /\ stalled' = TRUE /\ dropped' = dropped + 1
  /\ time_left' = 0
  /\ pc' = IF block = <<>> THEN "read" ELSE "block"
  /\ UNCHANGED <<recording, block, warmed, fed, metered, frame, overruns, listening, last, patient, delayed>>

Next == Tick \/ HostChanges \/ Start \/ AskRead \/ Read \/ PushSample \/ WriteFrame

Spec == Init /\ [][Next]_vars

-----------------------------------------------------------------------------
\* Type invariant.
TypeOK ==
  /\ R!TypeOK
  /\ pc \in {"start", "read", "block", "write"}
  /\ Len(frame) < FRAME_SAMPLES
  /\ Len(block) <= READ_SAMPLES
  /\ warmed \in 0 .. WARMUP_SAMPLES + READ_SAMPLES
  /\ fed \in Nat
  /\ metered \in 0 .. METER_SAMPLES - 1
  /\ stalled \in BOOLEAN
  /\ time_left \in 0 .. FRAME_TIMEOUT
  /\ listening \in BOOLEAN

\* A frame never joins samples from before an overrun to samples from after it:
\* the samples of each are consecutive, and so they were for the DC blocker; those
\* of the one being filled too.  "The filter has converged by the time the first
\* frame goes out": it had seen a whole warm-up before the first of them
\* (main.rs:136-156, 167-178).
FramesAreContiguous ==
  /\ Consecutive(last.samples) /\ Consecutive(frame \o block)
  /\ \A s \in Range(last.samples) \cup Range(frame) : s.nth > WARMUP_SAMPLES

\* Between two frames no sample is missing or repeated, nor was another filtered
\* between them, unless there was an overrun, and then the later one is still later:
\* a dropped frame and a slow host cost whole frames only.
FramesAdjoin ==
  [][last' # last /\ last.samples # <<>> =>
       IF last'.overruns = last.overruns
         THEN Consecutive(last.samples \o last'.samples)
         ELSE Head(last'.samples).at > Last(last.samples).at]_vars

\* "This keeps the idle path nearly free": an overrun is never due to probing for
\* a host that is not there.  Since the read before it the loop was delayed
\* elsewhere, if only between asking what is available and popping it, or a frame was
\* given the full timeout.
ProbingIsFree == [][overruns' > overruns => patient \/ delayed]_vars
=============================================================================
