--------------------------- MODULE MicCaptureProofs ---------------------------
(***************************************************************************)
(* Theorems about the microphone firmware's main loop, for buffers, frames *)
(* and reads of any size, any warm-up and any timeouts.                    *)
(***************************************************************************)
EXTENDS MicCapture, SequenceTheorems, TLAPS

-----------------------------------------------------------------------------
(***************************************************************************)
(* The inductive invariant.                                                *)
(***************************************************************************)
Sample == [at : Int, nth : Int]

\* s holds the samples from the one captured at `from' on, the filter having seen
\* `seen' samples before them.
Spells(s, from, seen) ==
  \A i \in 1 .. Len(s) : s[i] = [at |-> from + i - 1, nth |-> seen + i]

\* How many samples wait in the frame and the block.
InHand == Len(frame) + Len(block)

DriverOK ==
  /\ head \in Nat /\ available \in Nat /\ available <= head
  /\ left = 0

\* A read that has asked pops no more than there is and than it has room for.
PendingOK ==
  /\ take \in Nat /\ take <= available /\ take <= READ_SAMPLES
  /\ take # 0 => pc = "read"

\* A recording that failed is started again before anything else.
PhaseOK ==
  /\ pc \in {"start", "read", "block", "write"}
  /\ call.ok = (pc # "start")
  /\ pc \in {"start", "read"} => block = <<>>
  /\ pc = "start" => frame = <<>>
  /\ pc = "block" => block # <<>>

HandOK ==
  /\ frame \in Seq(Sample) /\ Len(frame) < FRAME_SAMPLES
  /\ block \in Seq(Sample) /\ Len(block) <= READ_SAMPLES

CountsOK ==
  /\ warmed \in Nat /\ fed \in Nat /\ warmed <= fed
  /\ warmed < WARMUP_SAMPLES => fed = warmed
  /\ overruns \in Nat /\ time_left \in Nat

FlagsOK ==
  /\ late \in BOOLEAN /\ stalled \in BOOLEAN
  /\ patient \in BOOLEAN /\ delayed \in BOOLEAN

Types == DriverOK /\ PendingOK /\ PhaseOK /\ HandOK /\ CountsOK /\ FlagsOK

\* What is in hand ends before `end', where the driver goes on when the buffer has
\* not overflowed; the filter has seen it last, and the whole warm-up before it.
HandEndsAt(end) ==
  /\ late \/ end = head - available
  /\ InHand <= end
  /\ Spells(block, end - Len(block), fed - Len(block))
  /\ Spells(frame, end - InHand, fed - InHand)
  /\ InHand > 0 => fed - InHand >= WARMUP_SAMPLES

\* The last frame ended before `tail', when the filter had seen `seen' samples; what
\* is in hand goes on from there when nothing was lost, and is later anyway.
LastEndsAt(tail, seen, end) ==
  /\ last.samples \in Seq(Sample)
  /\ Len(last.samples) = FRAME_SAMPLES
  /\ Spells(last.samples, tail - FRAME_SAMPLES, seen - FRAME_SAMPLES)
  /\ seen - FRAME_SAMPLES >= WARMUP_SAMPLES
  /\ tail <= end - InHand
  /\ last.overruns = overruns => tail = end - InHand /\ seen = fed - InHand

Lined ==
  \E end \in 0 .. head - available :
    /\ HandEndsAt(end)
    /\ \/ last.samples = <<>>
       \/ \E tail \in 0 .. head, seen \in 0 .. fed : LastEndsAt(tail, seen, end)

\* A loop that resyncs has counted the overrun.
OverrunsCounted ==
  /\ last.overruns \in Nat /\ last.overruns <= overruns
  /\ pc = "start" => last.overruns < overruns

IInv == Types /\ Lined /\ OverrunsCounted

\* How many samples may wait for a read that takes them all.
Room == R!Smaller(ScratchSamples, READ_SAMPLES)

\* The frames that one block can complete may all be probes, and the next read still
\* takes what has come in meanwhile.  In main.rs a block of 512 samples completes at
\* most two frames of 256, and two probes take 32 ticks of the 512 there is room for.
ProbesFit ==
  /\ 1 <= Room /\ Room <= BufferSamples
  /\ \A w \in Nat : FRAME_SAMPLES * w < FRAME_SAMPLES + READ_SAMPLES => PROBE_TIMEOUT * w <= Room

\* The loop has written w frames since the last read, as probes, and nothing but
\* their timeouts has passed.
Probed(w) ==
  /\ FRAME_SAMPLES * w + InHand < FRAME_SAMPLES + READ_SAMPLES
  /\ pc = "write" => available + time_left <= PROBE_TIMEOUT * w
  /\ pc = "block" => available <= PROBE_TIMEOUT * w
  /\ pc = "read" => available <= 1 \/ available <= PROBE_TIMEOUT * w

Unhurried ==
  pc # "start" /\ ~patient /\ ~delayed =>
    /\ ~late /\ (take # 0 => take = available)
    /\ \E w \in 0 .. FRAME_SAMPLES + READ_SAMPLES : Probed(w)

-----------------------------------------------------------------------------
(***************************************************************************)
(* Runs of samples.                                                        *)
(***************************************************************************)
LEMMA Difference ==
  ASSUME NEW x \in Nat, NEW y \in Nat, y <= x
  PROVE  \E d \in Nat : d = x - y
  BY SMT

LEMMA SpellsSamples ==
  ASSUME fed \in Nat, NEW from \in Int, NEW n \in Nat
  PROVE  /\ Samples(from, n) \in Seq(Sample)
         /\ Len(Samples(from, n)) = n
         /\ Spells(Samples(from, n), from, fed)
  BY DEF Samples, Sample, Spells

LEMMA SpellsEmpty == ASSUME NEW a, NEW b PROVE Spells(<<>>, a, b)
  BY DEF Spells

LEMMA SpellsTail ==
  ASSUME NEW s \in Seq(Sample), s # <<>>, NEW a \in Int, NEW b \in Int, Spells(s, a, b)
  PROVE  /\ Tail(s) \in Seq(Sample) /\ Len(Tail(s)) = Len(s) - 1 /\ Len(s) > 0
         /\ Spells(Tail(s), a + 1, b + 1)
         /\ Head(s) = [at |-> a, nth |-> b + 1]
<1>1. /\ Tail(s) \in Seq(Sample) /\ Len(Tail(s)) = Len(s) - 1
      /\ \A i \in 1 .. Len(Tail(s)) : Tail(s)[i] = s[i + 1]
  BY HeadTailProperties
<1>2. Len(s) \in Nat /\ Len(s) > 0 /\ Head(s) = s[1]
  BY SMT
<1>3. s[1] = [at |-> a, nth |-> b + 1]
  BY <1>2, s[1] = [at |-> a + 1 - 1, nth |-> b + 1], a + 1 - 1 = a DEF Spells
<1>4. ASSUME NEW i \in 1 .. Len(Tail(s))
      PROVE  Tail(s)[i] = [at |-> (a + 1) + i - 1, nth |-> (b + 1) + i]
  <2>1. i + 1 \in 1 .. Len(s) /\ i \in Int
    BY <1>1, <1>2
  <2>2. s[i + 1] = [at |-> a + (i + 1) - 1, nth |-> b + (i + 1)]
    BY <2>1 DEF Spells
  <2>3. a + (i + 1) - 1 = (a + 1) + i - 1 /\ b + (i + 1) = (b + 1) + i
    BY <2>1
  <2> QED
    BY <1>1, <2>2, <2>3
<1> QED
  BY <1>1, <1>2, <1>3, <1>4 DEF Spells

LEMMA SpellsAppend ==
  ASSUME NEW s \in Seq(Sample), NEW a \in Int, NEW b \in Int, Spells(s, a, b),
         NEW x, x = [at |-> a + Len(s), nth |-> b + Len(s) + 1]
  PROVE  /\ Append(s, x) \in Seq(Sample) /\ Len(Append(s, x)) = Len(s) + 1
         /\ Spells(Append(s, x), a, b)
<1>1. Len(s) \in Nat /\ x \in Sample
  BY DEF Sample
<1>2. /\ Append(s, x) \in Seq(Sample) /\ Len(Append(s, x)) = Len(s) + 1
      /\ \A i \in 1 .. Len(s) : Append(s, x)[i] = s[i]
      /\ Append(s, x)[Len(s) + 1] = x
  BY <1>1, AppendProperties
<1>3. ASSUME NEW i \in 1 .. Len(s) + 1
      PROVE  Append(s, x)[i] = [at |-> a + i - 1, nth |-> b + i]
  <2>1. CASE i \in 1 .. Len(s)
    BY <2>1, <1>2 DEF Spells
  <2>2. CASE i = Len(s) + 1
    <3>1. a + i - 1 = a + Len(s) /\ b + i = b + Len(s) + 1
      BY <2>2, <1>1
    <3> QED
      BY <3>1, <2>2, <1>2
  <2> QED
    BY <2>1, <2>2, <1>1
<1> QED
  BY <1>2, <1>3 DEF Spells

LEMMA SpellsConcat ==
  ASSUME NEW s \in Seq(Sample), NEW t \in Seq(Sample), NEW a \in Int, NEW b \in Int,
         Spells(s, a, b), Spells(t, a + Len(s), b + Len(s))
  PROVE  s \o t \in Seq(Sample) /\ Spells(s \o t, a, b)
<1>1. Len(s) \in Nat /\ Len(t) \in Nat
  OBVIOUS
<1>2. /\ s \o t \in Seq(Sample) /\ Len(s \o t) = Len(s) + Len(t)
      /\ \A i \in 1 .. Len(s) + Len(t) :
           (s \o t)[i] = IF i <= Len(s) THEN s[i] ELSE t[i - Len(s)]
  BY ConcatProperties
<1>3. ASSUME NEW i \in 1 .. Len(s) + Len(t)
      PROVE  (s \o t)[i] = [at |-> a + i - 1, nth |-> b + i]
  <2>1. CASE i <= Len(s)
    BY <2>1, <1>1, <1>2 DEF Spells
  <2>2. CASE i > Len(s)
    <3> DEFINE j == i - Len(s)
    <3>1. j \in 1 .. Len(t) /\ i \in Int /\ ~(i <= Len(s))
      BY <2>2, <1>1
    <3>2. t[j] = [at |-> (a + Len(s)) + j - 1, nth |-> (b + Len(s)) + j]
      BY <3>1 DEF Spells
    <3>3. (a + Len(s)) + j - 1 = a + i - 1 /\ (b + Len(s)) + j = b + i
      BY <3>1, <1>1
    <3> QED
      BY <3>1, <3>2, <3>3, <1>2
  <2> QED
    BY <2>1, <2>2, <1>1
<1> QED
  BY <1>2, <1>3 DEF Spells

LEMMA SpellsConsecutive ==
  ASSUME NEW s \in Seq(Sample), NEW a \in Int, NEW b \in Int, Spells(s, a, b)
  PROVE  Consecutive(s)
<1>1. ASSUME NEW i \in 1 .. Len(s) - 1
      PROVE  s[i + 1].at = s[i].at + 1 /\ s[i + 1].nth = s[i].nth + 1
  <2>1. i \in 1 .. Len(s) /\ i + 1 \in 1 .. Len(s) /\ i \in Int
    OBVIOUS
  <2>2. /\ s[i] = [at |-> a + i - 1, nth |-> b + i]
        /\ s[i + 1] = [at |-> a + (i + 1) - 1, nth |-> b + (i + 1)]
    BY <2>1 DEF Spells
  <2> QED
    BY <2>1, <2>2
<1> QED
  BY <1>1 DEF Consecutive

\* The samples of a run came after the ones it follows.
LEMMA SpellsSeen ==
  ASSUME NEW s \in Seq(Sample), NEW a \in Int, NEW b \in Int, Spells(s, a, b), b >= WARMUP_SAMPLES
  PROVE  \A x \in Range(s) : x.nth > WARMUP_SAMPLES
<1>1. SUFFICES ASSUME NEW i \in 1 .. Len(s) PROVE s[i].nth > WARMUP_SAMPLES
  BY DEF Range
<1>2. s[i] = [at |-> a + i - 1, nth |-> b + i]
  BY DEF Spells
<1> QED
  BY <1>2, CaptureAssumption

-----------------------------------------------------------------------------
(***************************************************************************)
(* What the driver does.                                                   *)
(***************************************************************************)
LEMMA TakeSize ==
  ASSUME available \in Nat, NEW n \in Nat
  PROVE  /\ R!take_size(n) \in Nat
         /\ R!take_size(n) <= available /\ R!take_size(n) <= n
         /\ R!Smaller(ScratchSamples, n) >= 1 /\ available >= 1 => R!take_size(n) >= 1
         /\ R!take_size(n) > 0 /\ available <= R!Smaller(ScratchSamples, n)
              => R!take_size(n) = available
<1>1. \A x \in Nat : R!RoundDown(x) = x
  BY DEF R!RoundDown
<1>2. R!Smaller(available, R!Smaller(ScratchSamples, n)) \in Nat
  BY CaptureAssumption DEF R!Smaller
<1>3. R!take_size(n) = IF available < 1 THEN 0 ELSE R!Smaller(available, R!Smaller(ScratchSamples, n))
  BY <1>1, <1>2 DEF R!take_size
<1> QED
  BY <1>3, CaptureAssumption DEF R!Smaller

LEMMA AskOutcome ==
  ASSUME Types, R!read(READ_SAMPLES)
  PROVE  /\ head' = head /\ available' = available /\ late' = late /\ left' = 0
         /\ take = 0 /\ call.ok
         /\ take' = IF late THEN 0 ELSE R!take_size(READ_SAMPLES)
         /\ take' \in Nat /\ take' <= available /\ take' <= READ_SAMPLES
         /\ take' > 0 => UNCHANGED call
         /\ take' = 0 => call' = IF late THEN R!Overrun("read") ELSE R!Popped("read", 0)
<1> DEFINE n == READ_SAMPLES
           size == R!take_size(n)
<1>1. n \in Nat /\ n * 1 = n /\ available \in Nat /\ left = 0
  BY CaptureAssumption DEF Types, DriverOK
<1>2. size \in Nat /\ size <= available /\ size <= n
  BY <1>1, TakeSize
<1>3. /\ R!Ask("read", n) /\ left' = left
  BY <1>1 DEF R!read
<1>4. /\ head' = head /\ available' = available /\ late' = late /\ left' = 0
      /\ take = 0 /\ call.ok
      /\ take' = IF late THEN 0 ELSE size
      /\ take' > 0 => UNCHANGED call
      /\ ~(take' > 0) => call' = IF late THEN R!Overrun("read") ELSE R!Popped("read", 0)
  BY <1>1, <1>3 DEF R!Ask
<1> HIDE DEF n, size
<1>5. take' \in Nat /\ take' <= available /\ take' <= n
  BY <1>1, <1>2, <1>4
<1> QED
  BY <1>4, <1>5 DEF n, size

LEMMA PopOutcome ==
  ASSUME Types, R!ReadPop
  PROVE  /\ head' = head /\ late' = late /\ left' = 0 /\ take # 0 /\ take' = 0
         /\ call' = IF late \/ available # take THEN R!Overrun("read") ELSE R!Popped("read", take)
         /\ available' = available - call'.bytes
<1>1. take \in Nat /\ available \in Nat /\ take <= available /\ left = 0
  BY DEF Types, DriverOK, PendingOK
<1>2. available > take <=> available # take
  BY <1>1
<1> QED
  BY <1>1, <1>2 DEF R!ReadPop, R!Pop

\* A read that returns has taken nothing or all there was.
LEMMA ReadOutcome ==
  ASSUME Types, R!read(READ_SAMPLES) \/ R!ReadPop, take' = 0
  PROVE  /\ head' = head /\ late' = late /\ left' = 0 /\ call'.ok \in BOOLEAN
         /\ call'.ok =>
              /\ ~late /\ call'.from = head - available
              /\ call'.bytes \in Nat /\ call'.bytes <= READ_SAMPLES
              /\ call'.bytes = 0 \/ call'.bytes = available
              /\ available' = available - call'.bytes
              /\ R!Smaller(ScratchSamples, READ_SAMPLES) >= 1 => available' = 0
         /\ ~call'.ok =>
              /\ available' = available
              /\ late \/ (take # 0 /\ available # take)
<1>1. /\ READ_SAMPLES \in Nat /\ available \in Nat /\ late \in BOOLEAN
      /\ take \in Nat /\ take <= READ_SAMPLES
  BY CaptureAssumption DEF Types, DriverOK, PendingOK, FlagsOK
<1>2. CASE R!read(READ_SAMPLES)
  <2>1. /\ head' = head /\ available' = available /\ late' = late /\ left' = 0
        /\ call' = IF late THEN R!Overrun("read") ELSE R!Popped("read", 0)
        /\ late \/ R!take_size(READ_SAMPLES) = 0
    BY <1>2, AskOutcome
  <2>2. CASE late
    <3>1. call'.ok = FALSE
      BY <2>1, <2>2 DEF R!Overrun
    <3> QED
      BY <2>1, <2>2, <3>1, Zenon
  <2>3. CASE ~late
    <3>1. call'.ok = TRUE /\ call'.bytes = 0 /\ call'.from = head - available
      BY <2>1, <2>3 DEF R!Popped
    <3>2. R!Smaller(ScratchSamples, READ_SAMPLES) >= 1 => available' = 0
      BY <1>1, <2>1, <2>3, TakeSize
    <3>3. call'.bytes \in Nat /\ call'.bytes <= READ_SAMPLES /\ available' = available - call'.bytes
      BY <1>1, <2>1, <3>1
    <3> QED
      BY <2>1, <2>3, <3>1, <3>2, <3>3, Zenon
  <2> QED
    BY <2>2, <2>3
<1>3. CASE R!ReadPop
  <2>1. /\ head' = head /\ late' = late /\ left' = 0 /\ take # 0
        /\ call' = IF late \/ available # take THEN R!Overrun("read") ELSE R!Popped("read", take)
        /\ available' = available - call'.bytes
    BY <1>3, PopOutcome
  <2>2. CASE late \/ available # take
    <3>1. call'.ok = FALSE /\ call'.bytes = 0
      BY <2>1, <2>2 DEF R!Overrun
    <3>2. available' = available
      BY <1>1, <2>1, <3>1
    <3> QED
      BY <2>1, <2>2, <3>1, <3>2, Zenon
  <2>3. CASE ~(late \/ available # take)
    <3>1. call'.ok = TRUE /\ call'.bytes = take /\ call'.from = head - available
      BY <2>1, <2>3 DEF R!Popped
    <3>2. call'.bytes \in Nat /\ call'.bytes <= READ_SAMPLES /\ available' = 0
      BY <1>1, <2>1, <2>3, <3>1
    <3> QED
      BY <2>1, <2>3, <3>1, <3>2, Zenon
  <2> QED
    BY <2>2, <2>3
<1> QED
  BY <1>2, <1>3

LEMMA StartOutcome ==
  ASSUME Types, R!start
  PROVE  /\ head' = head /\ available' = 0 /\ late' = FALSE /\ call'.ok = TRUE /\ left' = left
         /\ take' = take
<1>1. (-head) % 1 = 0
  BY DEF Types, DriverOK
<1>2. call'.ok = TRUE
  BY DEF R!start, R!Popped
<1> QED
  BY <1>1, <1>2 DEF R!start, Types, DriverOK

\* Time passes: the samples not popped yet stay where they are unless the buffer
\* overflows.
LEMMA CaptureOutcome ==
  ASSUME Types, R!Capture(1)
  PROVE  /\ head' = head + 1 /\ take' = take
         /\ \/ available' = available + 1 /\ late' = late
            \/ /\ available' = available /\ late' = TRUE
               /\ available >= BufferSamples
  BY CaptureAssumption DEF R!Capture, Types, DriverOK, FlagsOK

-----------------------------------------------------------------------------
(***************************************************************************)
(* The inductive invariant holds.                                          *)
(***************************************************************************)
LEMMA TypesInitially == Init => Types
<1> SUFFICES ASSUME Init PROVE Types
  OBVIOUS
<1>1. call.ok = TRUE /\ head = 0 /\ available = 0 /\ late = FALSE /\ left = 0 /\ take = 0
  BY DEF Init, R!Init, R!Popped
<1>2. <<>> \in Seq(Sample) /\ Len(<<>>) = 0
  OBVIOUS
<1>3. 0 < FRAME_SAMPLES /\ 0 <= READ_SAMPLES
  BY CaptureAssumption
<1>4. /\ frame = <<>> /\ block = <<>> /\ pc = "read" /\ warmed = 0 /\ fed = 0
      /\ overruns = 0 /\ time_left = 0 /\ stalled = FALSE /\ patient = FALSE /\ delayed = FALSE
  BY DEF Init
<1>5. DriverOK
  <2>1. head = 0 /\ available = 0 /\ left = 0
    BY <1>1
  <2> QED
    BY <2>1 DEF DriverOK
<1>6. PhaseOK
  BY <1>1, <1>4 DEF PhaseOK
<1>7. HandOK
  BY <1>2, <1>3, <1>4 DEF HandOK
<1>8. CountsOK
  <2>1. warmed = 0 /\ fed = 0 /\ overruns = 0 /\ time_left = 0
    BY <1>4
  <2> QED
    BY <2>1 DEF CountsOK
<1>9. FlagsOK
  BY <1>1, <1>4 DEF FlagsOK
<1>10. PendingOK
  BY <1>1, <1>3 DEF PendingOK
<1> QED
  BY <1>5, <1>6, <1>7, <1>8, <1>9, <1>10 DEF Types

LEMMA PushSampleCases ==
  ASSUME Types, PushSample
  PROVE  /\ pc = "block" /\ block # <<>>
         /\ block' = Tail(block) /\ block' \in Seq(Sample) /\ Len(block') = Len(block) - 1
         /\ Head(block) \in Sample
         /\ Append(frame, Head(block)) \in Seq(Sample)
         /\ Len(Append(frame, Head(block))) = Len(frame) + 1
         /\ \/ /\ Len(frame) + 1 < FRAME_SAMPLES
               /\ frame' = Append(frame, Head(block))
               /\ pc' = IF block' = <<>> THEN "read" ELSE "block"
               /\ UNCHANGED <<time_left, last, patient, delayed>>
            \/ /\ Len(frame) + 1 = FRAME_SAMPLES
               /\ frame' = <<>>
               /\ last' = [samples |-> Append(frame, Head(block)), overruns |-> overruns]
               /\ pc' = "write"
               /\ time_left' = timeout
               /\ patient' = (patient \/ ~stalled)
               /\ delayed' = delayed
         /\ UNCHANGED <<recording, warmed, fed, metered, stalled, dropped, overruns, listening>>
<1>1. block \in Seq(Sample) /\ block # <<>> /\ pc = "block" /\ frame \in Seq(Sample)
      /\ Len(frame) < FRAME_SAMPLES
  BY DEF Types, PhaseOK, HandOK, PushSample
<1>2. /\ Tail(block) \in Seq(Sample) /\ Len(Tail(block)) = Len(block) - 1
      /\ Head(block) \in Sample
  BY <1>1, HeadTailProperties
<1>3. Append(frame, Head(block)) \in Seq(Sample) /\ Len(Append(frame, Head(block))) = Len(frame) + 1
  BY <1>1, <1>2, AppendProperties
<1>4. Len(frame) + 1 < FRAME_SAMPLES \/ Len(frame) + 1 = FRAME_SAMPLES
  BY <1>1, CaptureAssumption
<1> HIDE DEF Sample
<1>5. CASE FrameFull(Append(frame, Head(block)))
  <2>1. Len(frame) + 1 = FRAME_SAMPLES
    BY <1>3, <1>5 DEF FrameFull
  <2> QED
    BY <1>1, <1>2, <1>3, <1>5, <2>1 DEF PushSample
<1>6. CASE ~FrameFull(Append(frame, Head(block)))
  <2>1. Len(frame) + 1 < FRAME_SAMPLES
    BY <1>3, <1>4, <1>6 DEF FrameFull
  <2> QED
    BY <1>1, <1>2, <1>3, <1>6, <2>1 DEF PushSample
<1> QED
  BY <1>5, <1>6

LEMMA ReadCases ==
  ASSUME Types, Read
  PROVE  /\ pc = "read" /\ block = <<>>
         /\ \/ /\ ~call'.ok
               /\ overruns' = overruns + 1 /\ frame' = <<>> /\ pc' = "start"
               /\ UNCHANGED <<block, warmed, fed>>
            \/ /\ call'.ok
               /\ fed' = fed + call'.bytes
               /\ UNCHANGED <<frame, overruns>>
               /\ \/ /\ warmed < WARMUP_SAMPLES
                     /\ warmed' = warmed + call'.bytes
                     /\ UNCHANGED <<pc, block>>
                  \/ /\ warmed >= WARMUP_SAMPLES
                     /\ block' = Samples(call'.from, call'.bytes)
                     /\ pc' = IF block' = <<>> THEN "read" ELSE "block"
                     /\ UNCHANGED warmed
         /\ patient' = FALSE /\ delayed' = FALSE
         /\ UNCHANGED <<stalled, dropped, time_left, listening, last>>
<1>1. /\ pc = "read" /\ block = <<>>
      /\ patient' = FALSE /\ delayed' = FALSE
      /\ UNCHANGED <<stalled, dropped, time_left, listening, last>>
  BY DEF Types, PhaseOK, Read
<1>2. CASE call'.ok /\ ReadBlock
  <2>1. warmed < WARMUP_SAMPLES \/ warmed >= WARMUP_SAMPLES
    BY CaptureAssumption DEF Types, CountsOK
  <2>2. fed' = fed + call'.bytes /\ UNCHANGED <<frame, overruns>>
    BY <1>2 DEF ReadBlock
  <2>3. CASE warmed < WARMUP_SAMPLES
    <3>1. warmed' = warmed + call'.bytes /\ UNCHANGED <<pc, block>>
      BY <1>2, <2>3 DEF ReadBlock
    <3> QED
      BY <1>1, <1>2, <2>2, <2>3, <3>1
  <2>4. CASE warmed >= WARMUP_SAMPLES
    <3>1. ~(warmed < WARMUP_SAMPLES)
      BY <2>4, CaptureAssumption DEF Types, CountsOK
    <3>2. /\ block' = Samples(call'.from, call'.bytes)
          /\ pc' = IF block' = <<>> THEN "read" ELSE "block"
          /\ UNCHANGED warmed
      BY <1>2, <3>1 DEF ReadBlock
    <3> QED
      BY <1>1, <1>2, <2>2, <2>4, <3>2
  <2> QED
    BY <2>1, <2>3, <2>4
<1>3. CASE ~call'.ok /\ ReadFailed
  BY <1>1, <1>3 DEF ReadFailed
<1> QED
  BY <1>2, <1>3 DEF Read


LEMMA TypesStep == Types /\ [Next]_vars => Types'
<1> SUFFICES ASSUME Types, [Next]_vars PROVE Types'
  OBVIOUS
<1> HIDE DEF Sample
<1>1. CASE Tick
  <2>1. UNCHANGED <<call, left, pc, block, warmed, fed, frame, stalled, overruns, patient>>
    BY <1>1 DEF Tick
  <2>2. time_left' \in Nat
    BY <1>1 DEF Tick, Types, CountsOK
  <2>3. delayed' \in BOOLEAN
    BY <1>1 DEF Tick, Types, FlagsOK
  <2>4. /\ head' = head + 1
        /\ \/ available' = available + 1 /\ late' = late
           \/ available' = available /\ late' = TRUE
    BY <1>1, CaptureOutcome DEF Tick
  <2>5. DriverOK'
    <3>1. head' = head + 1 /\ (available' = available + 1 \/ available' = available) /\ left' = left
      BY <2>1, <2>4
    <3> QED
      BY <3>1 DEF Types, DriverOK
  <2>6. PhaseOK' /\ HandOK'
    BY <2>1 DEF Types, PhaseOK, HandOK
  <2>9. PendingOK'
    <3>1. /\ take' = take /\ pc' = pc
          /\ available' = available + 1 \/ available' = available
      BY <1>1, <2>1, <2>4, CaptureOutcome DEF Tick
    <3> QED
      BY <3>1 DEF Types, DriverOK, PendingOK
  <2>7. CountsOK'
    BY <2>1, <2>2 DEF Types, CountsOK
  <2>8. FlagsOK'
    BY <2>1, <2>3, <2>4 DEF Types, FlagsOK
  <2> QED
    BY <2>5, <2>6, <2>7, <2>8, <2>9 DEF Types
<1>2. CASE HostChanges
  BY <1>2 DEF HostChanges, recording, Types, DriverOK, PendingOK, PhaseOK, HandOK, CountsOK, FlagsOK
<1>3. CASE Start
  <2>1. /\ head' = head /\ available' = 0 /\ late' = FALSE /\ call'.ok = TRUE /\ left' = left
        /\ take' = take
    BY <1>3, StartOutcome DEF Start
  <2>6. PendingOK'
    <3>1. take = 0
      BY <1>3 DEF Start, Types, PendingOK
    <3> QED
      BY <2>1, <3>1, CaptureAssumption DEF PendingOK
  <2>2. DriverOK'
    <3>1. head' = head /\ available' = 0 /\ left' = left
      BY <2>1
    <3> QED
      BY <3>1 DEF Types, DriverOK
  <2>3. PhaseOK'
    BY <1>3, <2>1 DEF Start, Types, PhaseOK
  <2>4. HandOK' /\ CountsOK'
    BY <1>3 DEF Start, Types, HandOK, CountsOK
  <2>5. FlagsOK'
    BY <1>3, <2>1 DEF Start, Types, FlagsOK
  <2> QED
    BY <2>2, <2>3, <2>4, <2>5, <2>6 DEF Types
<1>8. CASE AskRead
  <2>1. /\ UNCHANGED <<head, available, late, call, left, pc>>
        /\ take' \in Nat /\ take' <= available /\ take' <= READ_SAMPLES /\ pc = "read"
    BY <1>8, AskOutcome DEF AskRead, Types, DriverOK
  <2>2. DriverOK' /\ PendingOK'
    BY <2>1 DEF Types, DriverOK, PendingOK
  <2>3. UNCHANGED <<block, warmed, fed, frame, stalled, overruns, time_left, patient, delayed>>
    BY <1>8 DEF AskRead
  <2> QED
    BY <2>1, <2>2, <2>3 DEF Types, PhaseOK, HandOK, CountsOK, FlagsOK
<1>4. CASE Read
  <2>1. /\ head' = head /\ late' = late /\ left' = 0 /\ call'.ok \in BOOLEAN
        /\ call'.ok => /\ call'.from = head - available
                       /\ call'.bytes \in Nat /\ call'.bytes <= READ_SAMPLES
                       /\ call'.bytes <= available
                       /\ available' = available - call'.bytes
        /\ ~call'.ok => available' = available
    BY <1>4, ReadOutcome DEF Read, Types, DriverOK
  <2>2. call'.ok => /\ Samples(call'.from, call'.bytes) \in Seq(Sample)
                    /\ Len(Samples(call'.from, call'.bytes)) = call'.bytes
    <3>1. fed \in Nat /\ head - available \in Int
      BY DEF Types, CountsOK, DriverOK
    <3> QED
      BY <2>1, <3>1, SpellsSamples
  <2>3. <<>> \in Seq(Sample) /\ Len(<<>>) = 0 /\ 0 < FRAME_SAMPLES /\ 0 <= READ_SAMPLES
    BY CaptureAssumption
  <2>4. DriverOK' /\ PendingOK' /\ call'.ok \in BOOLEAN /\ late' = late
    <3>0. DriverOK' => PendingOK'
      BY <1>4, CaptureAssumption DEF Read, DriverOK, PendingOK
    <3>1. CASE call'.ok
      <4>1. /\ head' = head /\ left' = 0
            /\ call'.bytes \in Nat /\ call'.bytes <= available
            /\ available' = available - call'.bytes
        BY <2>1, <3>1
      <4>2. DriverOK'
        BY <4>1 DEF Types, DriverOK
      <4> QED
        BY <3>0, <4>2, <2>1
    <3>2. CASE ~call'.ok
      <4>1. head' = head /\ left' = 0 /\ available' = available
        BY <2>1, <3>2
      <4>2. DriverOK'
        BY <4>1 DEF Types, DriverOK
      <4> QED
        BY <3>0, <4>2, <2>1
    <3> QED
      BY <3>0, <3>1, <3>2, <2>1
  <2>5. /\ pc = "read" /\ block = <<>> /\ patient' = FALSE /\ delayed' = FALSE
        /\ UNCHANGED <<stalled, time_left>>
    BY <1>4, ReadCases
  <2>6. CASE ~call'.ok
    <3>1. overruns' = overruns + 1 /\ frame' = <<>> /\ pc' = "start" /\ UNCHANGED <<block, warmed, fed>>
      BY <1>4, <2>6, ReadCases
    <3>2. FlagsOK'
      BY <2>4, <2>5 DEF Types, FlagsOK
    <3>3. PhaseOK'
      BY <2>4, <2>5, <2>6, <3>1 DEF PhaseOK
    <3>4. HandOK' /\ CountsOK'
      BY <2>3, <2>5, <3>1 DEF Types, HandOK, CountsOK
    <3> QED
      BY <2>4, <3>2, <3>3, <3>4 DEF Types
  <2>7. CASE call'.ok
    <3>1. fed' = fed + call'.bytes /\ UNCHANGED <<frame, overruns>>
      BY <1>4, <2>7, ReadCases
    <3>2. CASE /\ warmed < WARMUP_SAMPLES /\ warmed' = warmed + call'.bytes
               /\ UNCHANGED <<pc, block>>
      <4>1. FlagsOK'
        BY <2>4, <2>5 DEF Types, FlagsOK
      <4>2. PhaseOK' /\ HandOK'
        BY <2>4, <2>5, <2>7, <3>1, <3>2 DEF Types, PhaseOK, HandOK
      <4>3. CountsOK'
        <5>1. call'.bytes \in Nat /\ WARMUP_SAMPLES \in Nat
          BY <2>1, <2>7, CaptureAssumption
        <5> QED
          BY <2>5, <3>1, <3>2, <5>1 DEF Types, CountsOK
      <4> QED
        BY <2>4, <4>1, <4>2, <4>3 DEF Types
    <3>3. CASE /\ block' = Samples(call'.from, call'.bytes)
               /\ pc' = IF block' = <<>> THEN "read" ELSE "block"
               /\ UNCHANGED warmed /\ warmed >= WARMUP_SAMPLES
      <4>1. block' \in Seq(Sample) /\ Len(block') <= READ_SAMPLES
        BY <2>1, <2>2, <2>7, <3>3
      <4>2. (pc' = "read" /\ block' = <<>>) \/ (pc' = "block" /\ block' # <<>>)
        BY <3>3
      <4>3. CountsOK'
        <5>1. call'.bytes \in Nat /\ WARMUP_SAMPLES \in Nat
          BY <2>1, <2>7, CaptureAssumption
        <5>2. fed' \in Nat /\ warmed' \in Nat /\ warmed' <= fed' /\ ~(warmed' < WARMUP_SAMPLES)
          BY <3>1, <3>3, <5>1 DEF Types, CountsOK
        <5> QED
          BY <2>5, <3>1, <5>2 DEF Types, CountsOK
      <4>4. FlagsOK' /\ HandOK'
        BY <2>4, <2>5, <3>1, <4>1 DEF Types, FlagsOK, HandOK
      <4>5. PhaseOK'
        BY <2>4, <2>7, <4>2 DEF PhaseOK
      <4> QED
        BY <2>4, <4>3, <4>4, <4>5 DEF Types
    <3> QED
      BY <1>4, <2>7, <3>2, <3>3, ReadCases
  <2> QED
    BY <2>6, <2>7
<1>5. CASE PushSample
  <2>1. /\ pc = "block" /\ block' \in Seq(Sample) /\ Len(block') = Len(block) - 1
        /\ UNCHANGED <<recording, warmed, fed, stalled, overruns>>
    BY <1>5, PushSampleCases
  <2>2. Len(block') <= READ_SAMPLES
    BY <2>1, CaptureAssumption DEF Types, HandOK
  <2>3. UNCHANGED <<head, available, late, take, call, left>>
    BY <2>1 DEF recording
  <2>6. PendingOK'
    BY <2>1, <2>3 DEF Types, PendingOK
  <2>4. CASE frame' = Append(frame, Head(block)) /\ Len(frame) + 1 < FRAME_SAMPLES
             /\ pc' = (IF block' = <<>> THEN "read" ELSE "block")
             /\ UNCHANGED <<time_left, last, patient, delayed>>
    <3>1. frame' \in Seq(Sample) /\ Len(frame') < FRAME_SAMPLES
      BY <1>5, <2>4, PushSampleCases
    <3>2. (pc' = "read" /\ block' = <<>>) \/ (pc' = "block" /\ block' # <<>>)
      BY <2>4
    <3> QED
      BY <2>1, <2>2, <2>3, <2>4, <2>6, <3>1, <3>2 DEF Types, DriverOK, PhaseOK, HandOK, CountsOK, FlagsOK
  <2>5. CASE /\ frame' = <<>> /\ pc' = "write" /\ time_left' = timeout
             /\ patient' = (patient \/ ~stalled) /\ delayed' = delayed
    <3>1. time_left' \in Nat
      BY <2>5, CaptureAssumption DEF timeout
    <3>2. frame' \in Seq(Sample) /\ Len(frame') < FRAME_SAMPLES
      BY <2>5, CaptureAssumption
    <3>3. patient' \in BOOLEAN /\ delayed' \in BOOLEAN
      BY <2>5 DEF Types, FlagsOK
    <3> QED
      BY <2>1, <2>2, <2>3, <2>5, <2>6, <3>1, <3>2, <3>3 DEF Types, DriverOK, PhaseOK, HandOK, CountsOK, FlagsOK
  <2> QED
    BY <1>5, <2>4, <2>5, PushSampleCases
<1>6. CASE WriteFrame
  <2>1. stalled' \in BOOLEAN /\ time_left' = 0
    BY <1>6 DEF WriteFrame
  <2>2. UNCHANGED <<head, available, late, take, call, left, block, warmed, fed, frame, overruns,
                    patient, delayed>>
    BY <1>6 DEF WriteFrame, recording
  <2>3. pc = "write" /\ ((pc' = "read" /\ block = <<>>) \/ (pc' = "block" /\ block # <<>>))
    BY <1>6 DEF WriteFrame
  <2>4. PendingOK'
    BY <2>2, <2>3 DEF Types, PendingOK
  <2> QED
    BY <2>1, <2>2, <2>3, <2>4 DEF Types, DriverOK, PhaseOK, HandOK, CountsOK, FlagsOK
<1>7. CASE UNCHANGED vars
  BY <1>7 DEF vars, recording, Types, DriverOK, PendingOK, PhaseOK, HandOK, CountsOK, FlagsOK
<1> QED
  BY <1>1, <1>2, <1>3, <1>4, <1>5, <1>6, <1>7, <1>8 DEF Next


LEMMA OverrunsStep == Types /\ OverrunsCounted /\ [Next]_vars => OverrunsCounted'
<1> SUFFICES ASSUME Types, OverrunsCounted, [Next]_vars PROVE OverrunsCounted'
  OBVIOUS
<1>1. CASE Read
  <2>1. last' = last /\ (overruns' = overruns + 1 \/ (overruns' = overruns /\ pc' # "start"))
    BY <1>1, ReadCases
  <2>2. overruns \in Nat
    BY DEF Types, CountsOK
  <2> QED
    BY <2>1, <2>2 DEF OverrunsCounted
<1>2. CASE PushSample
  <2>1. overruns' = overruns /\ pc' # "start"
    BY <1>2, PushSampleCases
  <2>2. last' = last \/ last'.overruns = overruns
    BY <1>2, PushSampleCases
  <2>3. overruns \in Nat
    BY DEF Types, CountsOK
  <2> QED
    BY <2>1, <2>2, <2>3 DEF OverrunsCounted
<1>3. CASE Start
  BY <1>3 DEF Start, OverrunsCounted
<1>4. CASE Tick \/ HostChanges \/ AskRead \/ WriteFrame \/ UNCHANGED vars
  <2>1. /\ UNCHANGED <<overruns, last>>
        /\ pc' = pc \/ pc' # "start"
    BY <1>4 DEF Tick, HostChanges, AskRead, WriteFrame, vars
  <2> QED
    BY <2>1 DEF OverrunsCounted
<1> QED
  BY <1>1, <1>2, <1>3, <1>4 DEF Next

LEMMA HandTypes ==
  ASSUME Types
  PROVE  /\ Len(frame) \in Nat /\ Len(block) \in Nat /\ InHand \in Nat
         /\ Len(frame) = 0 <=> frame = <<>>
         /\ Len(block) = 0 <=> block = <<>>
  BY DEF Types, HandOK, InHand

LEMMA LinedInitially == Init => Lined
<1> SUFFICES ASSUME Init PROVE Lined
  OBVIOUS
<1>1. /\ head = 0 /\ available = 0 /\ frame = <<>> /\ block = <<>> /\ InHand = 0
      /\ last.samples = <<>>
  BY DEF Init, R!Init, InHand
<1>2. HandEndsAt(0)
  BY <1>1, SpellsEmpty DEF HandEndsAt
<1> QED
  BY <1>1, <1>2 DEF Lined

\* Nothing about the samples changes when nothing is read or pushed.
LEMMA LinedKept ==
  ASSUME Types, Lined, DriverOK', UNCHANGED <<frame, block, fed, last, overruns>>,
         head' >= head, head' - available' >= head - available,
         late' \/ (late' = late /\ head' - available' = head - available)
  PROVE  Lined'
<1>1. PICK end \in 0 .. head - available :
        /\ HandEndsAt(end)
        /\ \/ last.samples = <<>>
           \/ \E tail \in 0 .. head, seen \in 0 .. fed : LastEndsAt(tail, seen, end)
  BY DEF Lined
<1>2. end \in 0 .. head' - available'
  <2>1. {head, available, head', available'} \subseteq Nat
    BY DEF Types, DriverOK
  <2> QED
    BY <2>1
<1>3. InHand' = InHand
  BY DEF InHand
<1>4. HandEndsAt(end)'
  BY <1>1, <1>3 DEF HandEndsAt, Types, FlagsOK
<1>5. ASSUME NEW tail \in 0 .. head, NEW seen \in 0 .. fed, LastEndsAt(tail, seen, end)
      PROVE  /\ tail \in 0 .. head' /\ seen \in 0 .. fed' /\ LastEndsAt(tail, seen, end)'
  BY <1>3, <1>5 DEF LastEndsAt, Types, DriverOK
<1> QED
  BY <1>1, <1>2, <1>4, <1>5 DEF Lined

\* With nothing in hand any later sample will do, once an overrun has been counted.
LEMMA LinedAfresh ==
  ASSUME Types, Lined, Types', frame' = <<>>, block' = <<>>, last' = last, fed' = fed,
         head' = head, head' - available' >= head - available,
         last.overruns # overruns'
  PROVE  Lined'
<1>1. PICK end \in 0 .. head - available :
        /\ HandEndsAt(end)
        /\ \/ last.samples = <<>>
           \/ \E tail \in 0 .. head, seen \in 0 .. fed : LastEndsAt(tail, seen, end)
  BY DEF Lined
<1>0. PICK e \in Nat : e = head' - available'
  <2>1. head' \in Nat /\ available' \in Nat /\ available' <= head'
    BY DEF Types, DriverOK
  <2> QED
    BY <2>1, Difference, Zenon
<1>2. e \in 0 .. head' - available' /\ end <= e /\ end \in Nat
  <2>1. head \in Nat /\ available \in Nat
    BY DEF Types, DriverOK
  <2> QED
    BY <1>0, <2>1
<1>3. InHand' = 0 /\ InHand \in Nat
  BY HandTypes DEF InHand
<1>4. HandEndsAt(e)'
  BY <1>0, <1>2, <1>3, SpellsEmpty DEF HandEndsAt
<1>5. ASSUME NEW tail \in 0 .. head, NEW seen \in 0 .. fed, LastEndsAt(tail, seen, end)
      PROVE  tail \in 0 .. head' /\ seen \in 0 .. fed' /\ LastEndsAt(tail, seen, e)'
  BY <1>2, <1>3, <1>5 DEF LastEndsAt
<1> QED
  BY <1>1, <1>2, <1>4, <1>5 DEF Lined


\* A block read goes on where what is in hand ends, or is the first after the warm-up.
LEMMA LinedRead ==
  ASSUME Types, Lined, Types', Read, call'.ok
  PROVE  Lined'
<1>1. PICK end \in 0 .. head - available :
        /\ HandEndsAt(end)
        /\ \/ last.samples = <<>>
           \/ \E tail \in 0 .. head, seen \in 0 .. fed : LastEndsAt(tail, seen, end)
  BY DEF Lined
<1>2. PICK n \in Nat : n = call'.bytes
  BY ReadOutcome DEF Read
<1>3. /\ head' = head /\ ~late /\ call'.from = head - available
      /\ available' = available - n /\ n <= available
  <2>1. available \in Nat
    BY DEF Types, DriverOK
  <2> QED
    BY <1>2, <2>1, ReadOutcome DEF Read
<1>4. /\ head \in Nat /\ available \in Nat /\ fed \in Nat /\ warmed \in Nat /\ warmed <= fed
      /\ warmed < WARMUP_SAMPLES => fed = warmed
      /\ WARMUP_SAMPLES \in Nat /\ FRAME_SAMPLES \in Nat
  BY CaptureAssumption DEF Types, DriverOK, CountsOK
<1>5. end \in Nat /\ end = head - available
  BY <1>1, <1>3, <1>4 DEF HandEndsAt
<1>6. PICK e \in Nat : e = end + n
  BY <1>5
<1>7. e \in 0 .. head' - available' /\ e = head' - available'
  BY <1>3, <1>4, <1>5, <1>6
<1>8. /\ fed' = fed + n /\ frame' = frame /\ overruns' = overruns /\ last' = last
      /\ block = <<>>
  BY <1>2, ReadCases
<1>9. Len(frame) \in Nat /\ InHand = Len(frame) /\ Len(block) = 0
  BY <1>8, HandTypes DEF InHand
<1>10. CASE warmed < WARMUP_SAMPLES
  <2>1. block' = <<>>
    BY <1>4, <1>8, <1>10, ReadCases
  <2>2. InHand = 0
    BY <1>1, <1>4, <1>9, <1>10 DEF HandEndsAt
  <2>3. last.samples = <<>>
    BY <1>1, <1>4, <1>10 DEF LastEndsAt
  <2>4. InHand' = 0 /\ frame' = <<>>
    BY <1>8, <1>9, <2>1, <2>2, HandTypes DEF InHand
  <2>5. HandEndsAt(e)'
    BY <1>6, <1>7, <2>1, <2>4, SpellsEmpty DEF HandEndsAt
  <2> QED
    BY <1>7, <1>8, <2>3, <2>5 DEF Lined
<1>11. CASE warmed >= WARMUP_SAMPLES
  <2>1. block' = Samples(head - available, n)
    BY <1>2, <1>3, <1>4, <1>11, ReadCases
  <2>2. Len(block') = n /\ Spells(block', end, fed)
    BY <1>4, <1>5, <2>1, SpellsSamples
  <2>3. InHand' = Len(frame) + n
    BY <1>8, <2>2 DEF InHand
  <2>4. /\ e - n = end /\ fed' - n = fed
        /\ e - InHand' = end - InHand /\ fed' - InHand' = fed - InHand
    BY <1>4, <1>5, <1>6, <1>8, <1>9, <2>3
  <2>5. HandEndsAt(e)'
    <3>1. Spells(block', e - Len(block'), fed' - Len(block'))
      BY <2>2, <2>4
    <3>2. Spells(frame', e - InHand', fed' - InHand')
      BY <1>1, <1>8, <2>4 DEF HandEndsAt
    <3>3. InHand' <= e
      BY <1>1, <1>5, <1>6, <1>9, <2>3 DEF HandEndsAt
    <3>4. InHand' > 0 => fed' - InHand' >= WARMUP_SAMPLES
      <4>1. CASE InHand > 0
        BY <1>1, <2>4, <4>1 DEF HandEndsAt
      <4>2. CASE InHand = 0
        BY <1>4, <1>11, <2>4, <4>2
      <4> QED
        BY <1>9, <4>1, <4>2
    <3> QED
      BY <1>7, <3>1, <3>2, <3>3, <3>4 DEF HandEndsAt
  <2>6. ASSUME NEW tail \in 0 .. head, NEW seen \in 0 .. fed, LastEndsAt(tail, seen, end)
        PROVE  tail \in 0 .. head' /\ seen \in 0 .. fed' /\ LastEndsAt(tail, seen, e)'
    <3>1. tail \in 0 .. head' /\ seen \in 0 .. fed'
      BY <1>3, <1>4, <1>8
    <3>2. LastEndsAt(tail, seen, e)'
      BY <1>8, <2>4, <2>6 DEF LastEndsAt
    <3> QED
      BY <3>1, <3>2
  <2> QED
    BY <1>1, <1>7, <1>8, <2>5, <2>6 DEF Lined
<1> QED
  BY <1>4, <1>10, <1>11

\* The sample pushed is the one after those in the frame.
LEMMA LinedPush ==
  ASSUME Types, Lined, Types', PushSample
  PROVE  Lined'
<1>1. PICK end \in 0 .. head - available :
        /\ HandEndsAt(end)
        /\ \/ last.samples = <<>>
           \/ \E tail \in 0 .. head, seen \in 0 .. fed : LastEndsAt(tail, seen, end)
  BY DEF Lined
<1> DEFINE b == Len(block)
           f == Len(frame)
           filled == Append(frame, Head(block))
<1>2. /\ head \in Nat /\ available \in Nat /\ available <= head /\ fed \in Nat
      /\ WARMUP_SAMPLES \in Nat /\ FRAME_SAMPLES \in Nat
  BY CaptureAssumption DEF Types, DriverOK, CountsOK
<1>3. /\ block \in Seq(Sample) /\ frame \in Seq(Sample) /\ block # <<>>
      /\ b \in Nat /\ f \in Nat /\ b > 0 /\ InHand = f + b
  BY PushSampleCases, HandTypes DEF Types, HandOK, InHand
<1>4. UNCHANGED <<head, available, late, fed, overruns>> /\ block' = Tail(block)
  BY PushSampleCases DEF recording
<1>5. end \in Nat /\ end \in 0 .. head' - available'
  BY <1>1, <1>2, <1>4
<1>6. /\ Len(block') = b - 1
      /\ Spells(block', end - b + 1, fed - b + 1)
      /\ Head(block) = [at |-> end - b, nth |-> fed - b + 1]
  <2>1. Spells(block, end - b, fed - b)
    BY <1>1 DEF HandEndsAt
  <2>2. end - b \in Int /\ fed - b \in Int
    BY <1>2, <1>3, <1>5
  <2> QED
    BY <1>3, <1>4, <2>1, <2>2, SpellsTail
<1>7. /\ filled \in Seq(Sample) /\ Len(filled) = f + 1
      /\ Spells(filled, end - InHand, fed - InHand)
  <2>1. Spells(frame, end - InHand, fed - InHand)
    BY <1>1 DEF HandEndsAt
  <2>2. end - InHand \in Int /\ fed - InHand \in Int
    BY <1>2, <1>3, <1>5
  <2>3. (end - InHand) + f = end - b /\ (fed - InHand) + f + 1 = fed - b + 1
    BY <1>2, <1>3, <1>5
  <2> HIDE DEF b, f
  <2> QED
    <3>1. Head(block) = [at |-> (end - InHand) + Len(frame), nth |-> (fed - InHand) + Len(frame) + 1]
      BY <1>6, <2>3 DEF f
    <3>2. frame \in Seq(Sample)
      BY <1>3
    <3> HIDE DEF filled
    <3>3. /\ filled \in Seq(Sample) /\ Len(filled) = Len(frame) + 1
          /\ Spells(filled, end - InHand, fed - InHand)
      BY <2>1, <2>2, <3>1, <3>2, SpellsAppend DEF filled
    <3> QED
      BY <3>3 DEF f
<1>8. InHand <= end /\ fed - InHand >= WARMUP_SAMPLES
  BY <1>1, <1>3 DEF HandEndsAt
<1>9. CASE frame' = filled /\ last' = last
  <2>1. InHand' = InHand
    BY <1>3, <1>6, <1>7, <1>9 DEF InHand
  <2>2. Spells(block', end - Len(block'), fed' - Len(block'))
    <3>1. end - Len(block') = end - b + 1 /\ fed' - Len(block') = fed - b + 1
      BY <1>2, <1>3, <1>4, <1>5, <1>6
    <3> QED
      BY <1>6, <3>1
  <2>3. HandEndsAt(end)'
    BY <1>1, <1>4, <1>7, <1>8, <1>9, <2>1, <2>2 DEF HandEndsAt, Types, FlagsOK
  <2>4. ASSUME NEW tail \in 0 .. head, NEW seen \in 0 .. fed, LastEndsAt(tail, seen, end)
        PROVE  tail \in 0 .. head' /\ seen \in 0 .. fed' /\ LastEndsAt(tail, seen, end)'
    BY <1>4, <1>9, <2>1, <2>4 DEF LastEndsAt
  <2> QED
    BY <1>1, <1>5, <1>9, <2>3, <2>4 DEF Lined
<1>10. CASE /\ f + 1 = FRAME_SAMPLES /\ frame' = <<>>
            /\ last' = [samples |-> filled, overruns |-> overruns]
  <2>1. InHand' = b - 1
    BY <1>3, <1>6, <1>10 DEF InHand
  <2>2. /\ end - Len(block') = end - b + 1 /\ fed' - Len(block') = fed - b + 1
    BY <1>2, <1>3, <1>4, <1>5, <1>6
  <2>3. HandEndsAt(end)'
    <3>1. InHand' <= end /\ fed' - InHand' >= WARMUP_SAMPLES
      BY <1>2, <1>3, <1>4, <1>5, <1>8, <2>1
    <3> QED
      BY <1>1, <1>4, <1>6, <1>10, <2>2, <3>1, SpellsEmpty DEF HandEndsAt, Types, FlagsOK
  <2>4. PICK tail \in Nat, seen \in Nat : tail = end - b + 1 /\ seen = fed - b + 1
    <3>1. end - b + 1 \in Nat /\ fed - b + 1 \in Nat
      <4> HIDE DEF b, f
      <4> QED
        BY <1>2, <1>3, <1>5, <1>8
    <3> QED
      BY <3>1, Zenon
  <2>5. tail \in 0 .. head' /\ seen \in 0 .. fed'
    BY <1>2, <1>3, <1>4, <1>5, <2>4
  <2>6. LastEndsAt(tail, seen, end)'
    <3>1. last'.samples = filled /\ last'.overruns = overruns
      BY <1>10
    <3>2. tail - FRAME_SAMPLES = end - InHand /\ seen - FRAME_SAMPLES = fed - InHand
      <4> HIDE DEF b, f
      <4>1. f + 1 = FRAME_SAMPLES
        BY <1>10
      <4> QED
        BY <1>2, <1>3, <1>5, <2>4, <4>1
    <3>3. tail = end - InHand' /\ seen = fed' - InHand'
      BY <1>2, <1>3, <1>4, <1>5, <2>1, <2>4
    <3> QED
      BY <1>7, <1>8, <1>10, <2>4, <3>1, <3>2, <3>3 DEF LastEndsAt
  <2> QED
    BY <1>5, <2>3, <2>5, <2>6 DEF Lined
<1> QED
  BY <1>9, <1>10, PushSampleCases

LEMMA LinedStep == IInv /\ Types' /\ OverrunsCounted' /\ [Next]_vars => Lined'
<1> SUFFICES ASSUME IInv, Types', OverrunsCounted', [Next]_vars PROVE Lined'
  OBVIOUS
<1> USE DEF IInv
<1>1. {head, available, overruns, last.overruns} \subseteq Nat /\ available <= head
  BY DEF Types, DriverOK, CountsOK, OverrunsCounted
<1>2. CASE Tick
  <2>1. /\ UNCHANGED <<frame, block, fed, last, overruns>>
        /\ R!Capture(1)
    BY <1>2 DEF Tick
  <2>2. /\ head' = head + 1
        /\ \/ available' = available + 1 /\ late' = late
           \/ available' = available /\ late' = TRUE
    BY <2>1, CaptureOutcome
  <2>3. head' >= head /\ head' - available' >= head - available
    BY <1>1, <2>2
  <2>4. late' \/ (late' = late /\ head' - available' = head - available)
    <3>1. available' = available + 1 => head' - available' = head - available
      BY <1>1, <2>2
    <3> QED
      BY <2>2, <3>1
  <2> QED
    BY <2>1, <2>3, <2>4, LinedKept DEF Types
<1>3. CASE HostChanges \/ AskRead \/ WriteFrame \/ UNCHANGED vars
  <2>1. UNCHANGED <<frame, block, fed, last, overruns, head, available, late>>
    <3>1. CASE AskRead
      BY <3>1, AskOutcome DEF AskRead
    <3> QED
      BY <1>3, <3>1 DEF HostChanges, WriteFrame, recording, vars
  <2>2. head' >= head /\ head' - available' >= head - available /\ head' - available' = head - available
    BY <1>1, <2>1
  <2> QED
    BY <2>1, <2>2, LinedKept DEF Types
<1>4. CASE Start
  <2>1. head' = head /\ available' = 0
    BY <1>4, StartOutcome DEF Start
  <2>2. frame = <<>> /\ block = <<>> /\ last.overruns < overruns
    BY <1>4 DEF Start, Types, PhaseOK, OverrunsCounted
  <2>3. UNCHANGED <<frame, block, last, fed, overruns>>
    BY <1>4 DEF Start
  <2>4. head' - available' >= head - available /\ last.overruns # overruns'
    BY <1>1, <2>1, <2>2, <2>3
  <2> QED
    BY <2>1, <2>2, <2>3, <2>4, LinedAfresh
<1>5. CASE Read
  <2>1. CASE call'.ok
    BY <1>5, <2>1, LinedRead
  <2>2. CASE ~call'.ok
    <3>1. head' = head /\ available' = available
      BY <1>5, <2>2, ReadOutcome DEF Read
    <3>2. block = <<>> /\ overruns' = overruns + 1 /\ frame' = <<>> /\ UNCHANGED <<block, fed, last>>
      BY <1>5, <2>2, ReadCases
    <3>3. head' - available' >= head - available /\ last.overruns # overruns'
      BY <1>1, <3>1, <3>2 DEF OverrunsCounted
    <3> QED
      BY <3>1, <3>2, <3>3, LinedAfresh
  <2> QED
    BY <2>1, <2>2
<1>6. CASE PushSample
  BY <1>6, LinedPush
<1> QED
  BY <1>2, <1>3, <1>4, <1>5, <1>6 DEF Next


LEMMA InvariantHolds == Spec => []IInv
<1>1. Init => IInv
  <2>1. Init => OverrunsCounted
    BY DEF Init, OverrunsCounted
  <2> QED
    BY <2>1, TypesInitially, LinedInitially DEF IInv
<1>2. IInv /\ [Next]_vars => IInv'
  BY TypesStep, OverrunsStep, LinedStep DEF IInv
<1> QED
  BY <1>1, <1>2, PTL DEF Spec

-----------------------------------------------------------------------------
(***************************************************************************)
(* The theorems.                                                           *)
(***************************************************************************)
LEMMA InvariantIsContiguity == IInv => FramesAreContiguous
<1> SUFFICES ASSUME IInv PROVE FramesAreContiguous
  OBVIOUS
<1>1. PICK end \in 0 .. head - available :
        /\ HandEndsAt(end)
        /\ \/ last.samples = <<>>
           \/ \E tail \in 0 .. head, seen \in 0 .. fed : LastEndsAt(tail, seen, end)
  BY DEF IInv, Lined
<1>2. /\ frame \in Seq(Sample) /\ block \in Seq(Sample)
      /\ Len(frame) \in Nat /\ Len(block) \in Nat /\ InHand = Len(frame) + Len(block)
      /\ fed \in Nat /\ end \in Int /\ WARMUP_SAMPLES \in Nat /\ FRAME_SAMPLES \in Nat
  BY HandTypes, CaptureAssumption DEF IInv, Types, HandOK, CountsOK, InHand
<1> DEFINE a == end - InHand
           s == fed - InHand
<1>3. a \in Int /\ s \in Int /\ a + Len(frame) = end - Len(block) /\ s + Len(frame) = fed - Len(block)
  BY <1>2
<1>4. Spells(frame, a, s) /\ Spells(block, a + Len(frame), s + Len(frame))
  BY <1>1, <1>3 DEF HandEndsAt
<1> HIDE DEF a
<1>5. Consecutive(frame \o block)
  <2> HIDE DEF s
  <2>1. frame \o block \in Seq(Sample) /\ Spells(frame \o block, a, s)
    BY <1>2, <1>3, <1>4, SpellsConcat
  <2> QED
    BY <1>3, <2>1, SpellsConsecutive
<1>6. \A x \in Range(frame) : x.nth > WARMUP_SAMPLES
  <2>1. CASE frame = <<>>
    BY <2>1 DEF Range
  <2>2. CASE frame # <<>>
    <3>1. s >= WARMUP_SAMPLES
      BY <1>1, <1>2, <2>2, HandTypes DEF HandEndsAt, IInv
    <3> HIDE DEF s
    <3> QED
      BY <1>2, <1>3, <1>4, <3>1, SpellsSeen
  <2> QED
    BY <2>1, <2>2
<1>7. Consecutive(last.samples) /\ \A x \in Range(last.samples) : x.nth > WARMUP_SAMPLES
  <2>1. CASE last.samples = <<>>
    BY <2>1 DEF Range, Consecutive
  <2>2. ASSUME NEW tail \in 0 .. head, NEW seen \in 0 .. fed, LastEndsAt(tail, seen, end)
        PROVE  Consecutive(last.samples) /\ \A x \in Range(last.samples) : x.nth > WARMUP_SAMPLES
    <3>1. tail - FRAME_SAMPLES \in Int /\ seen - FRAME_SAMPLES \in Int
      BY <1>2
    <3> QED
      BY <2>2, <3>1, SpellsConsecutive, SpellsSeen DEF LastEndsAt
  <2> QED
    BY <1>1, <2>1, <2>2
<1> QED
  BY <1>5, <1>6, <1>7 DEF FramesAreContiguous

\* Every frame, and what is in hand for the next one, is a run of samples captured
\* and filtered one after the other, all after the warm-up (main.rs:136-189).
THEOREM Contiguous == Spec => []FramesAreContiguous
  BY InvariantHolds, InvariantIsContiguity, PTL

LEMMA InvariantIsAdjacency ==
  ASSUME IInv, IInv', [Next]_vars, last' # last, last.samples # <<>>
  PROVE  IF last'.overruns = last.overruns
           THEN Consecutive(last.samples \o last'.samples)
           ELSE Head(last'.samples).at > Last(last.samples).at
<1>1. PICK end \in 0 .. head - available :
        /\ HandEndsAt(end)
        /\ \E tail \in 0 .. head, seen \in 0 .. fed : LastEndsAt(tail, seen, end)
  BY DEF IInv, Lined
<1>2. PICK tail \in 0 .. head, seen \in 0 .. fed : LastEndsAt(tail, seen, end)
  BY <1>1
<1>3. PushSample
  BY ReadCases DEF Next, Tick, HostChanges, Start, AskRead, WriteFrame, Read, vars, IInv
<1> DEFINE filled == Append(frame, Head(block))
           a == end - InHand
           s == fed - InHand
<1>4. /\ Len(frame) + 1 = FRAME_SAMPLES
      /\ last'.samples = filled /\ last'.overruns = overruns
      /\ block # <<>>
  BY <1>3, PushSampleCases DEF IInv
<1>5. /\ frame \in Seq(Sample) /\ block \in Seq(Sample)
      /\ Len(frame) \in Nat /\ Len(block) \in Nat /\ InHand = Len(frame) + Len(block)
      /\ fed \in Nat /\ end \in Int /\ FRAME_SAMPLES \in Nat /\ FRAME_SAMPLES > 0
      /\ tail \in Int /\ seen \in Int
  <2>1. FRAME_SAMPLES \in Nat /\ FRAME_SAMPLES > 0
    BY CaptureAssumption
  <2>2. fed \in Nat /\ head \in Nat /\ available \in Nat
    BY DEF IInv, Types, CountsOK, DriverOK
  <2>3. end \in Int /\ tail \in Int /\ seen \in Int
    BY <2>2
  <2> QED
    BY <2>1, <2>2, <2>3, HandTypes DEF IInv, Types, HandOK, InHand
<1>6. /\ a \in Int /\ s \in Int
      /\ a + Len(frame) = end - Len(block) /\ s + Len(frame) = fed - Len(block)
  BY <1>5
<1>7. Spells(frame, a, s) /\ Spells(block, a + Len(frame), s + Len(frame))
  BY <1>1, <1>6 DEF HandEndsAt
<1>8. filled \in Seq(Sample) /\ Len(filled) = FRAME_SAMPLES /\ Spells(filled, a, s)
  <2> HIDE DEF a, s
  <2>1. Head(block) = [at |-> a + Len(frame), nth |-> s + Len(frame) + 1]
    BY <1>4, <1>5, <1>6, <1>7, SpellsTail
  <2> QED
    <3>1. /\ Append(frame, Head(block)) \in Seq(Sample)
          /\ Len(Append(frame, Head(block))) = Len(frame) + 1
          /\ Spells(Append(frame, Head(block)), a, s)
      <4> DEFINE x == Head(block)
      <4>1. x = [at |-> a + Len(frame), nth |-> s + Len(frame) + 1]
        BY <2>1
      <4>2. frame \in Seq(Sample) /\ a \in Int /\ s \in Int /\ Spells(frame, a, s)
        BY <1>5, <1>6, <1>7
      <4> HIDE DEF x
      <4>3. /\ Append(frame, x) \in Seq(Sample) /\ Len(Append(frame, x)) = Len(frame) + 1
            /\ Spells(Append(frame, x), a, s)
        BY <4>1, <4>2, SpellsAppend
      <4> QED
        BY <4>3 DEF x
    <3> QED
      BY <1>4, <3>1
<1>9. /\ last.samples \in Seq(Sample) /\ Len(last.samples) = FRAME_SAMPLES
      /\ Spells(last.samples, tail - FRAME_SAMPLES, seen - FRAME_SAMPLES)
      /\ tail <= a
      /\ last.overruns = overruns => tail = a /\ seen = s
  BY <1>2 DEF LastEndsAt
<1> HIDE DEF a, s, filled
<1>10. CASE last'.overruns = last.overruns
  <2>1. /\ tail - FRAME_SAMPLES \in Int /\ seen - FRAME_SAMPLES \in Int
        /\ (tail - FRAME_SAMPLES) + Len(last.samples) = a
        /\ (seen - FRAME_SAMPLES) + Len(last.samples) = s
    BY <1>4, <1>5, <1>9, <1>10
  <2>2. /\ last.samples \o filled \in Seq(Sample)
        /\ Spells(last.samples \o filled, tail - FRAME_SAMPLES, seen - FRAME_SAMPLES)
    BY <1>8, <1>9, <2>1, SpellsConcat
  <2> QED
    BY <1>4, <1>10, <2>1, <2>2, SpellsConsecutive
<1>11. CASE last'.overruns # last.overruns
  <2>1. Head(filled).at = a
    <3>1. filled # <<>> /\ Head(filled) = [at |-> a, nth |-> s + 1]
      BY <1>5, <1>6, <1>8, SpellsTail
    <3> QED
      BY <3>1
  <2>2. Last(last.samples).at = tail - 1
    <3>0. FRAME_SAMPLES \in 1 .. Len(last.samples)
      BY <1>5, <1>9
    <3>1. last.samples[FRAME_SAMPLES]
            = [at |-> (tail - FRAME_SAMPLES) + FRAME_SAMPLES - 1, nth |-> (seen - FRAME_SAMPLES) + FRAME_SAMPLES]
      BY <1>9, <3>0 DEF Spells
    <3>2. (tail - FRAME_SAMPLES) + FRAME_SAMPLES - 1 = tail - 1
      BY <1>5
    <3> QED
      BY <1>9, <3>1, <3>2 DEF Last
  <2>3. a > tail - 1
    BY <1>5, <1>6, <1>9
  <2> QED
    BY <1>4, <1>11, <2>1, <2>2, <2>3
<1> QED
  BY <1>10, <1>11

\* A frame goes on where the one before it ended when there was no overrun between
\* them, dropped or not, and is later than it anyway (main.rs:144-189).
THEOREM Adjoin == Spec => FramesAdjoin
<1>1. IInv /\ IInv' /\ [Next]_vars =>
        [last' # last /\ last.samples # <<>> =>
           IF last'.overruns = last.overruns
             THEN Consecutive(last.samples \o last'.samples)
             ELSE Head(last'.samples).at > Last(last.samples).at]_vars
  BY InvariantIsAdjacency
<1> QED
  BY <1>1, InvariantHolds, PTL DEF Spec, FramesAdjoin


-----------------------------------------------------------------------------
(***************************************************************************)
(* Probing for a host.                                                     *)
(***************************************************************************)
LEMMA OneMore ==
  ASSUME NEW F \in Nat, NEW w \in Nat
  PROVE  F * w \in Nat /\ F * (w + 1) = F * w + F /\ F * 0 = 0 /\ (F >= 1 => w <= F * w)
<1>1. F >= 1 => w <= F * w
  <2>1. CASE F >= 1
    <3>1. PICK d \in Nat : F = d + 1
      BY <2>1
    <3>2. F * w = d * w + w /\ d * w \in Nat
      BY <3>1
    <3> QED
      BY <3>2
  <2> QED
    BY <2>1
<1> QED
  BY <1>1

LEMMA ProbesAreShort ==
  ASSUME ProbesFit, Types, NEW w \in Nat, Probed(w)
  PROVE  PROBE_TIMEOUT * w \in Nat /\ PROBE_TIMEOUT * w <= Room
<1>1. FRAME_SAMPLES * w \in Nat /\ PROBE_TIMEOUT * w \in Nat
  BY OneMore, CaptureAssumption
<1>2. InHand \in Nat
  BY HandTypes
<1>3. FRAME_SAMPLES * w < FRAME_SAMPLES + READ_SAMPLES
  BY <1>1, <1>2, CaptureAssumption DEF Probed
<1> QED
  BY <1>1, <1>3 DEF ProbesFit

\* A read finds nothing left and the count begins again.
LEMMA ProbedAfresh ==
  ASSUME Types', available' = 0, pc' # "write"
  PROVE  \E w \in 0 .. FRAME_SAMPLES + READ_SAMPLES : Probed(w)'
<1>1. FRAME_SAMPLES * 0 = 0 /\ PROBE_TIMEOUT * 0 = 0 /\ 0 \in 0 .. FRAME_SAMPLES + READ_SAMPLES
  BY CaptureAssumption
<1>2. InHand' < FRAME_SAMPLES + READ_SAMPLES
  BY CaptureAssumption DEF Types, HandOK, InHand
<1>3. InHand' = 0 + InHand'
  BY DEF Types, HandOK, InHand
<1>4. Probed(0)'
  BY <1>1, <1>2, <1>3 DEF Probed
<1> QED
  BY <1>1, <1>4

LEMMA UnhurriedStep ==
  ASSUME ProbesFit, Types, Types', Unhurried, [Next]_vars
  PROVE  Unhurried'
<1> SUFFICES ASSUME pc' # "start", ~patient', ~delayed'
             PROVE  /\ ~late' /\ (take' # 0 => take' = available')
                    /\ \E w \in 0 .. FRAME_SAMPLES + READ_SAMPLES : Probed(w)'
  BY DEF Unhurried
<1>1. /\ {head, available, time_left, BufferSamples, PROBE_TIMEOUT, FRAME_SAMPLES} \subseteq Nat
      /\ FRAME_SAMPLES >= 1 /\ READ_SAMPLES \in Nat /\ Room \in Nat
  BY CaptureAssumption DEF Types, DriverOK, CountsOK, Room, R!Smaller
<1>2. CASE Tick
  <2>1. pc' = pc /\ ~patient /\ InHand' = InHand
    BY <1>2 DEF Tick, InHand
  <2>2. /\ R!Capture(1)
        /\ \/ pc = "write" /\ time_left > 0 /\ time_left' = time_left - 1 /\ ~delayed
           \/ pc # "write" /\ ~delayed /\ pc = "read" /\ available = 0
    BY <1>2 DEF Tick
  <2>3. PICK w \in 0 .. FRAME_SAMPLES + READ_SAMPLES : Probed(w)
    BY <2>1, <2>2 DEF Unhurried
  <2>4. ~late /\ take = 0
    <3>1. ~late /\ (take # 0 => take = available)
      BY <2>1, <2>2 DEF Unhurried
    <3> QED
      BY <2>2, <3>1 DEF Types, PendingOK
  <2>5. w \in Nat /\ PROBE_TIMEOUT * w \in Nat /\ PROBE_TIMEOUT * w <= Room
    <3>1. w \in Nat
      BY <1>1
    <3> QED
      BY <3>1, <2>3, ProbesAreShort
  <2>6. available < BufferSamples
    <3>1. CASE pc = "write"
      <4>1. available + time_left <= PROBE_TIMEOUT * w /\ time_left > 0
        BY <2>2, <2>3, <3>1 DEF Probed
      <4> QED
        BY <1>1, <2>5, <4>1 DEF ProbesFit
    <3>2. CASE pc # "write"
      BY <1>1, <2>2, <3>2 DEF ProbesFit
    <3> QED
      BY <3>1, <3>2
  <2>7. available' = available + 1 /\ late' = late /\ take' = take
    <3>1. ~(available >= BufferSamples)
      BY <1>1, <2>6
    <3> QED
      BY <2>2, <3>1, CaptureOutcome
  <2>8. Probed(w)'
    <3>1. CASE pc = "write"
      <4>1. available + time_left <= PROBE_TIMEOUT * w /\ time_left' = time_left - 1
        BY <2>2, <2>3, <3>1 DEF Probed
      <4>2. available' + time_left' <= PROBE_TIMEOUT * w
        BY <1>1, <2>5, <2>7, <4>1
      <4> QED
        BY <2>1, <2>3, <3>1, <4>2 DEF Probed
    <3>2. CASE pc = "read" /\ available = 0
      BY <1>1, <2>1, <2>3, <2>7, <3>2 DEF Probed
    <3> QED
      BY <2>2, <3>1, <3>2
  <2> QED
    BY <2>3, <2>4, <2>7, <2>8
<1>3. CASE HostChanges \/ UNCHANGED vars
  <2>1. UNCHANGED <<available, late, take, pc, frame, block, time_left, patient, delayed>>
    BY <1>3 DEF HostChanges, recording, vars
  <2>2. PICK w \in 0 .. FRAME_SAMPLES + READ_SAMPLES : Probed(w)
    BY <2>1 DEF Unhurried
  <2>3. Probed(w)'
    BY <2>1, <2>2 DEF Probed, InHand
  <2> QED
    BY <2>1, <2>2, <2>3 DEF Unhurried
<1>4. CASE Start
  <2>1. available' = 0 /\ ~late' /\ pc' = "read" /\ take' = 0
    BY <1>4, StartOutcome DEF Start, Types, PendingOK
  <2> QED
    BY <2>1, ProbedAfresh
<1>8. CASE AskRead
  <2>1. /\ UNCHANGED <<available, late>>
        /\ take' = IF late THEN 0 ELSE R!take_size(READ_SAMPLES)
        /\ pc = "read" /\ ~patient /\ ~delayed
        /\ UNCHANGED <<pc, frame, block, time_left>>
    BY <1>8, AskOutcome DEF AskRead
  <2>2. PICK w \in 0 .. FRAME_SAMPLES + READ_SAMPLES : Probed(w)
    BY <2>1 DEF Unhurried
  <2>3. ~late
    BY <2>1 DEF Unhurried
  <2>4. available <= Room
    <3>1. w \in Nat
      BY <1>1
    <3>2. PROBE_TIMEOUT * w \in Nat /\ PROBE_TIMEOUT * w <= Room
      BY <2>2, <3>1, ProbesAreShort
    <3> QED
      BY <1>1, <2>1, <2>2, <3>2 DEF Probed, ProbesFit
  <2>5. take' # 0 => take' = available'
    <3>1. R!take_size(READ_SAMPLES) \in Nat
      BY <1>1, TakeSize
    <3>2. R!take_size(READ_SAMPLES) > 0 => R!take_size(READ_SAMPLES) = available
      BY <1>1, <2>4, TakeSize DEF Room
    <3> QED
      BY <2>1, <2>3, <3>1, <3>2
  <2>6. Probed(w)'
    BY <2>1, <2>2 DEF Probed, InHand
  <2> QED
    BY <2>1, <2>2, <2>3, <2>5, <2>6
<1>5. CASE Read
  <2>1. call'.ok
    BY <1>5, ReadCases
  <2>2. ~late' /\ available' = 0
    <3>1. ~late /\ late' = late
      BY <1>5, <2>1, ReadOutcome DEF Read
    <3>2. R!Smaller(ScratchSamples, READ_SAMPLES) >= 1
      BY <1>1 DEF ProbesFit, Room
    <3>3. available' = 0
      BY <1>5, <2>1, <3>2, ReadOutcome DEF Read
    <3> QED
      BY <3>1, <3>3
  <2>3. pc' # "write" /\ take' = 0
    BY <1>5, <2>1, ReadCases DEF Read
  <2> QED
    BY <2>2, <2>3, ProbedAfresh
<1>6. CASE PushSample
  <2>1. /\ pc = "block" /\ ~delayed /\ ~patient
        /\ UNCHANGED <<available, late, take>>
        /\ Len(block') = Len(block) - 1
    BY <1>6, PushSampleCases DEF recording, Types, FlagsOK
  <2>2. PICK w \in 0 .. FRAME_SAMPLES + READ_SAMPLES : Probed(w)
    BY <2>1 DEF Unhurried
  <2>3. ~late' /\ (take' # 0 => take' = available')
    BY <2>1 DEF Unhurried
  <2>4. /\ w \in Nat /\ w + 1 \in Nat
        /\ FRAME_SAMPLES * w \in Nat /\ FRAME_SAMPLES * (w + 1) = FRAME_SAMPLES * w + FRAME_SAMPLES
        /\ PROBE_TIMEOUT * w \in Nat /\ PROBE_TIMEOUT * (w + 1) = PROBE_TIMEOUT * w + PROBE_TIMEOUT
        /\ w + 1 <= FRAME_SAMPLES * (w + 1)
    <3>1. w \in Nat /\ w + 1 \in Nat
      BY <1>1
    <3> QED
      BY <1>1, <3>1, OneMore
  <2>5. /\ Len(frame) \in Nat /\ Len(block) \in Nat /\ InHand = Len(frame) + Len(block)
        /\ FRAME_SAMPLES * w + InHand < FRAME_SAMPLES + READ_SAMPLES
        /\ available <= PROBE_TIMEOUT * w
    BY <2>1, <2>2, HandTypes DEF Probed, InHand
  <2>6. CASE frame' = Append(frame, Head(block)) /\ pc' # "write"
    <3>1. InHand' = InHand
      BY <1>6, <2>1, <2>5, <2>6, PushSampleCases DEF InHand
    <3>2. Probed(w)'
      BY <2>1, <2>5, <2>6, <3>1 DEF Probed
    <3> QED
      BY <2>2, <2>3, <3>2
  <2>7. CASE /\ Len(frame) + 1 = FRAME_SAMPLES /\ frame' = <<>>
             /\ pc' = "write" /\ time_left' = timeout /\ patient' = (patient \/ ~stalled)
    <3>1. InHand' = Len(block) - 1
      BY <2>1, <2>5, <2>7 DEF InHand
    <3>2. time_left' = PROBE_TIMEOUT
      BY <2>7 DEF timeout
    <3>3. FRAME_SAMPLES * (w + 1) + InHand' < FRAME_SAMPLES + READ_SAMPLES
      <4>1. Len(frame) + 1 = FRAME_SAMPLES
        BY <2>7
      <4> QED
        BY <1>1, <2>4, <2>5, <3>1, <4>1
    <3>4. w + 1 \in 0 .. FRAME_SAMPLES + READ_SAMPLES
      <4>1. InHand' \in Nat
        BY <1>6, <3>1, <2>5, PushSampleCases, HandTypes
      <4> QED
        BY <1>1, <2>4, <3>3, <4>1
    <3>5. available' + time_left' <= PROBE_TIMEOUT * (w + 1)
      <4> DEFINE p == PROBE_TIMEOUT * w
                 q == PROBE_TIMEOUT * (w + 1)
      <4>1. p \in Nat /\ q = p + PROBE_TIMEOUT /\ available <= p
        BY <2>4, <2>5
      <4>2. available' = available
        BY <2>1
      <4> HIDE DEF p, q
      <4>3. available' + time_left' <= q
        BY <1>1, <3>2, <4>1, <4>2
      <4> QED
        BY <4>3 DEF q
    <3>6. Probed(w + 1)'
      BY <2>7, <3>3, <3>5 DEF Probed
    <3> QED
      BY <2>3, <3>4, <3>6
  <2> QED
    BY <1>6, <2>6, <2>7, PushSampleCases
<1>7. CASE WriteFrame
  <2>1. /\ pc = "write" /\ (pc' = "read" \/ pc' = "block") /\ ~patient /\ ~delayed
        /\ UNCHANGED <<available, late, take>> /\ InHand' = InHand
    BY <1>7 DEF WriteFrame, recording, InHand
  <2>2. PICK w \in 0 .. FRAME_SAMPLES + READ_SAMPLES : Probed(w)
    BY <2>1 DEF Unhurried
  <2>3. ~late' /\ (take' # 0 => take' = available')
    BY <2>1 DEF Unhurried
  <2>4. available <= PROBE_TIMEOUT * w
    <3>1. w \in Nat /\ available + time_left <= PROBE_TIMEOUT * w
      BY <1>1, <2>1, <2>2 DEF Probed
    <3>2. PROBE_TIMEOUT * w \in Nat
      BY <1>1, <3>1, OneMore
    <3> QED
      BY <1>1, <3>1, <3>2
  <2>5. Probed(w)'
    BY <2>1, <2>2, <2>4 DEF Probed
  <2> QED
    BY <2>2, <2>3, <2>5
<1> QED
  BY <1>2, <1>3, <1>4, <1>5, <1>6, <1>7, <1>8 DEF Next

LEMMA UnhurriedInitially == Init => Unhurried
<1> SUFFICES ASSUME Init
             PROVE  ~late /\ take = 0 /\ \E w \in 0 .. FRAME_SAMPLES + READ_SAMPLES : Probed(w)
  BY DEF Unhurried
<1>1. available = 0 /\ ~late /\ take = 0 /\ pc = "read" /\ frame = <<>> /\ block = <<>>
  BY DEF Init, R!Init
<1>2. FRAME_SAMPLES * 0 = 0 /\ PROBE_TIMEOUT * 0 = 0 /\ 0 \in 0 .. FRAME_SAMPLES + READ_SAMPLES
      /\ 0 < FRAME_SAMPLES + READ_SAMPLES
  BY CaptureAssumption
<1>3. Probed(0)
  BY <1>1, <1>2 DEF Probed, InHand
<1> QED
  BY <1>1, <1>2, <1>3

LEMMA UnhurriedReadsAll ==
  ASSUME Types, Unhurried, Read, overruns' > overruns
  PROVE  patient \/ delayed
<1> SUFFICES ASSUME ~patient, ~delayed PROVE FALSE
  OBVIOUS
<1>1. pc = "read" /\ overruns \in Nat
  BY DEF Read, Types, CountsOK
<1>2. ~late /\ (take # 0 => take = available)
  BY <1>1 DEF Unhurried
<1>3. ~call'.ok
  <2>1. call'.ok => overruns' = overruns
    BY ReadCases
  <2> QED
    BY <1>1, <2>1
<1> QED
  BY <1>2, <1>3, ReadOutcome DEF Read

\* "This keeps the idle path nearly free": whatever the sizes, as long as the probes
\* that one block can need fit in the room there is between two reads, the firmware
\* never loses audio by probing for a host (main.rs:87-91, 226-243).
THEOREM Probing == ASSUME ProbesFit PROVE Spec => ProbingIsFree
<1>1. Init => Types /\ Unhurried
  BY TypesInitially, UnhurriedInitially
<1>2. (Types /\ Unhurried) /\ [Next]_vars => (Types /\ Unhurried)'
  BY TypesStep, UnhurriedStep
<1>3. (Types /\ Unhurried) /\ [Next]_vars
        => [overruns' > overruns => patient \/ delayed]_vars
  <2> SUFFICES ASSUME Types, Unhurried, [Next]_vars, overruns' > overruns
               PROVE  patient \/ delayed
    OBVIOUS
  <2>1. overruns \in Nat
    BY DEF Types, CountsOK
  <2>2. CASE Read
    BY <2>2, UnhurriedReadsAll
  <2>3. CASE Tick \/ HostChanges \/ Start \/ AskRead \/ PushSample \/ WriteFrame \/ UNCHANGED vars
    <3>1. overruns' = overruns
      BY <2>3 DEF Tick, HostChanges, Start, AskRead, PushSample, WriteFrame, vars
    <3> QED
      BY <2>1, <3>1
  <2> QED
    BY <2>2, <2>3 DEF Next
<1> QED
  BY <1>1, <1>2, <1>3, PTL DEF Spec, ProbingIsFree

=============================================================================
