------------------------------ MODULE Playback ------------------------------
(***************************************************************************)
(* The speaker: the firmware (firmware/src/bin/main.rs) that parses the    *)
(* sound embedded in it, configures the driver for it and plays it again   *)
(* and again, and the driver's Playback (crates/i2s-speaker/src/driver.rs, *)
(* part.rs) over a circular DMA transfer.                                  *)
(*                                                                         *)
(* The transfer belongs to the hardware-abstraction layer and is external: *)
(* it plays the ring slot by slot and never waits, gives back the part of  *)
(* the ring behind it one descriptor at a time, and may report a fault     *)
(* once everything in the ring has been played.  A descriptor need not     *)
(* hold whole frames.                                                      *)
(***************************************************************************)
EXTENDS WavReader

CONSTANTS
  DescriptorSlots,   \* slots of one DMA descriptor
  Capacity,          \* slots of the ring
  STAGE_FRAMES,      \* frames staged per push
  CHUNK_SAMPLES,     \* samples the firmware stages per write
  DATA_FORMAT,       \* the part's: the bits of a slot and of the data in it
  Faults             \* whether the transfer may report a drained ring as a fault

frame_slots == 2

ASSUME PlaybackAssumption ==
  /\ {DescriptorSlots, Capacity, STAGE_FRAMES, CHUNK_SAMPLES} \subseteq Nat \ {0}
  /\ Capacity % frame_slots = 0
  /\ Capacity % DescriptorSlots = 0
  /\ DATA_FORMAT \in [channel_bits : {16, 32}, data_bits : {16, 32}]
  /\ DATA_FORMAT.data_bits = DATA_FORMAT.channel_bits
  /\ Faults \in BOOLEAN

VARIABLES
  speaker,     \* the configured output, or why there is none
  ring,        \* the buffer: what each slot of it holds
  at,          \* hardware: the slot it plays next
  writeAt,     \* hardware: the slot the next push fills first
  drained,     \* hardware: slots played since they were pushed, Capacity at most
  pc,          \* where the firmware is
  queued,      \* samples of the clip pushed
  total,       \* write: frames left to push
  remaining,   \* flush: frames of silence left to write
  underruns,   \* whether the firmware has counted an underrun
  starved,     \* history: the hardware has replayed a slot
  ranDry,      \* history: it had when the flush began
  heard        \* history: what the amplifier has heard, until it starved

clip == <<description, bytes, wav>>
iterator == <<frame, yielded>>
hardware == <<ring, at, writeAt, drained>>
history == <<starved, ranDry, heard>>
playback_vars == <<clip, iterator, speaker, hardware, pc, queued, total, remaining, underruns, history>>

Smaller(x, y) == IF x <= y THEN x ELSE y
Larger(x, y) == IF x >= y THEN x ELSE y
Silence == 0

Unbuilt == [error |-> "unbuilt"]

PlaybackInit ==
  /\ ReaderInit
  /\ speaker = Unbuilt
  /\ ring = [slot \in 0 .. Capacity - 1 |-> Silence]
  /\ at = 0
  /\ writeAt = 0
  /\ drained = 0
  /\ pc = "boot"
  /\ queued = 0
  /\ total = 0
  /\ remaining = 0
  /\ underruns = FALSE
  /\ starved = FALSE
  /\ ranDry = FALSE
  /\ heard = <<>>

-----------------------------------------------------------------------------
(* The output, and how it is configured. *)

DEFAULT_SAMPLE_RATE == 16000

\* Max98357a::supports_sample_rate
BANDS == {7600 .. 8400, 15200 .. 16800, 30400 .. 50400, 83800 .. 100800}
supports_sample_rate(hz) == \E band \in BANDS : hz \in band

\* SlotLayout::of: a sample goes to the most significant bits of its slot.
SlotLayout(format) ==
  [slot_bits |-> format.channel_bits, shift |-> Larger(0, format.data_bits - 16)]

\* I2sOut::builder
builder == [sample_rate |-> DEFAULT_SAMPLE_RATE, data_format |-> DATA_FORMAT]

\* SpeakerBuilder::with_sample_rate
with_sample_rate(b, rate) == [b EXCEPT !.sample_rate = rate]

\* SpeakerBuilder::build
build(b) ==
  IF ~supports_sample_rate(b.sample_rate) THEN [error |-> "UnsupportedSampleRate"]
  ELSE [error |-> "none", sample_rate |-> b.sample_rate, layout |-> SlotLayout(b.data_format)]

\* SlotLayout::write_frame: the same sample in both slots.
write_frame(s) == [slot \in 1 .. frame_slots |-> s * (2 ^ speaker.layout.shift)]

-----------------------------------------------------------------------------
(* The transfer. *)

Playing == pc \notin {"boot", "configure", "gap"} /\ speaker.error = "none"

\* What it gives back: the finished descriptors, unless everything was played.
available ==
  IF drained = Capacity THEN Capacity
  ELSE Larger(0, drained - (at % DescriptorSlots))

Faulty == Faults /\ drained = Capacity

\* What the amplifier makes of a slot: its most significant bits.
Sounds(slot) == slot \div (2 ^ (speaker.layout.slot_bits - 16))

Play ==
  /\ Playing
  /\ at' = (at + 1) % Capacity
  /\ drained' = Smaller(Capacity, drained + 1)
  /\ starved' = (starved \/ drained = Capacity)
  /\ heard' = IF starved' THEN heard ELSE Append(heard, Sounds(ring[at]))
  /\ UNCHANGED <<clip, iterator, speaker, ring, writeAt, pc, queued, total, remaining, underruns, ranDry>>

\* Frames go into the ring, a slot after the other.
push(samples) ==
  LET slots == frame_slots * Len(samples) IN
  /\ ring' = [slot \in DOMAIN ring |->
                LET i == (slot - writeAt) % Capacity
                IN  IF i >= slots THEN ring[slot]
                    ELSE write_frame(samples[(i \div frame_slots) + 1])[(i % frame_slots) + 1]]
  /\ writeAt' = (writeAt + slots) % Capacity
  /\ drained' = drained - slots
  /\ UNCHANGED at

-----------------------------------------------------------------------------
(* The driver. *)

\* A fault: a slot left over counts as a frame.
AcceptedRoundingUp(n) == Smaller((available + frame_slots - 1) \div frame_slots, n)

\* Playback::write, up to its loop: how many of n samples fit.
Accepted(n) == Smaller(available \div frame_slots, n)

\* Playback::underrun
underrun == available >= Capacity - frame_slots

\* A call that failed: the firmware's expect panics, and the transfer goes on.
Panic ==
  /\ Faulty
  /\ pc \in {"write", "push", "flush", "flushpush"}
  /\ pc' = "panicked"
  /\ UNCHANGED <<clip, iterator, speaker, hardware, queued, total, remaining, underruns, history>>

BeginWrite(n, yes, no) ==
  /\ total' = Accepted(n)
  /\ pc' = IF Accepted(n) = 0 THEN no ELSE yes
  /\ UNCHANGED <<clip, iterator, speaker, hardware, underruns, history>>

\* One turn of write's loop: some of the samples that are left are pushed.
PushSome(samples, done) ==
  LET n == Smaller(total, STAGE_FRAMES) IN
  /\ push(SubSeq(samples, 1, n))
  /\ total' = total - n
  /\ pc' = IF n = total THEN done ELSE pc
  /\ UNCHANGED <<clip, iterator, speaker, underruns, history>>

\* I2sOut::start: the transfer starts at the front of whatever the ring holds.
start ==
  /\ pc = "gap"
  /\ at' = 0 /\ writeAt' = 0 /\ drained' = 0
  /\ pc' = "refill"
  /\ frame' = 0 /\ yielded' = <<>> /\ queued' = 0
  /\ underruns' = FALSE
  /\ starved' = FALSE /\ ranDry' = FALSE /\ heard' = <<>>
  /\ UNCHANGED <<clip, speaker, ring, total, remaining>>

-----------------------------------------------------------------------------
(* The firmware. *)

\* The embedded file is parsed ...
Boot ==
  /\ pc = "boot"
  /\ Parse
  /\ pc' = IF wav'.error = "none" THEN "configure" ELSE "panicked"
  /\ UNCHANGED <<speaker, hardware, queued, total, remaining, underruns, history>>

\* ... and the output configured for its rate; either may panic.
Configure ==
  /\ pc = "configure"
  /\ speaker' = build(with_sample_rate(builder, wav.sample_rate))
  /\ pc' = IF speaker'.error = "none" THEN "gap" ELSE "panicked"
  /\ UNCHANGED <<clip, iterator, hardware, queued, total, remaining, underruns, history>>

\* A fault: flush writes a frame too little.
FlushLengthShort == (Capacity \div frame_slots) - 1

\* Silence that flush pushes.
FlushLength == Capacity \div frame_slots

\* The samples that the iterator still has for a chunk.
Available == {k \in 0 .. CHUNK_SAMPLES - 1 : ~Exhausted(wav, frame + k)}

TakeChunk ==
  /\ frame' = frame + Cardinality(Available)
  /\ yielded' = yielded \o [k \in 1 .. Cardinality(Available) |-> sample(wav, frame + k - 1)]

\* A fault: the end of the clip is not noticed.
RefillForEver ==
  /\ pc = "refill"
  /\ TakeChunk
  /\ pc' = "write"
  /\ UNCHANGED <<clip, speaker, hardware, queued, total, remaining, underruns, history>>

\* The next chunk of the clip, or the flush when the clip is exhausted.
Refill ==
  /\ pc = "refill"
  /\ TakeChunk
  /\ pc' = IF Available = {} THEN "flush" ELSE "write"
  /\ remaining' = IF Available = {} THEN FlushLength ELSE remaining
  /\ ranDry' = IF Available = {} THEN starved ELSE ranDry
  /\ UNCHANGED <<clip, speaker, hardware, queued, total, underruns, starved, heard>>

Write ==
  /\ pc = "write"
  /\ BeginWrite(frame - queued, "push", "check")
  /\ UNCHANGED <<queued, remaining>>

PushAudio ==
  /\ pc = "push"
  /\ PushSome(SubSeq(yielded, queued + 1, queued + total), "check")
  /\ queued' = queued + (total - total')
  /\ UNCHANGED remaining

Check ==
  /\ pc = "check"
  /\ \E failed \in {FALSE, Faulty} : underruns' = (underruns \/ (~failed /\ underrun))
  /\ pc' = IF queued < frame THEN "write" ELSE "refill"
  /\ UNCHANGED <<clip, iterator, speaker, hardware, queued, total, remaining, history>>

\* Playback::flush: a ring's worth of silence, then stop.
Flush ==
  /\ pc = "flush"
  /\ remaining > 0
  /\ BeginWrite(Smaller(remaining, STAGE_FRAMES), "flushpush", "flush")
  /\ UNCHANGED <<queued, remaining>>

PushSilence ==
  /\ pc = "flushpush"
  /\ PushSome([k \in 1 .. total |-> Silence], "flush")
  /\ remaining' = remaining - (total - total')
  /\ UNCHANGED queued

Stop ==
  /\ pc = "flush"
  /\ remaining = 0
  /\ pc' = "gap"
  /\ UNCHANGED <<clip, iterator, speaker, hardware, queued, total, remaining, underruns, history>>

-----------------------------------------------------------------------------
Firmware ==
  Boot \/ Configure \/ start \/ Refill \/ Write \/ PushAudio \/ Check \/ Flush \/ PushSilence \/ Stop \/ Panic

PlaybackNext == Play \/ Firmware

PlaybackSpec == PlaybackInit /\ [][PlaybackNext]_playback_vars

\* The amplifier's clock never stops while a transfer runs, and the loop is the
\* only thing the processor does.
FairPlaybackSpec == PlaybackSpec /\ WF_playback_vars(Play) /\ WF_playback_vars(Firmware)

-----------------------------------------------------------------------------
\* Type invariant.
PlaybackTypeOK ==
  /\ ring \in [0 .. Capacity - 1 -> Int]
  /\ at \in 0 .. Capacity - 1
  /\ writeAt \in 0 .. Capacity - 1
  /\ drained \in 0 .. Capacity
  /\ pc \in {"boot", "configure", "gap", "refill", "write", "push", "check", "flush", "flushpush", "panicked"}
  /\ queued \in 0 .. frame
  /\ total \in 0 .. Capacity \div frame_slots
  /\ remaining \in 0 .. Capacity \div frame_slots
  /\ {underruns, starved, ranDry} \subseteq BOOLEAN

\* The slots of the sound that the file holds, and the silence around it.
ClipLength == frame_slots * Len(Frames(description))
ClipSlot(k) ==
  IF k \in 1 .. ClipLength THEN Frames(description)[((k - 1) \div frame_slots) + 1] ELSE Silence

\* While the ring is kept fed, the amplifier hears a ring of silence, every frame that
\* was put into the file, in order and at its loudness, and silence again, however the
\* transfer interleaves with the pushes: a push never overwrites a slot that has not
\* been played, and nothing that an earlier playback left in the ring is heard
\* (driver.rs:80-87, 294-314).
PlayedInOrder == \A k \in DOMAIN heard : heard[k] = ClipSlot(k - Capacity)

\* "stopping without flushing repeats a fragment of the tail": when flush stops the
\* transfer, the whole clip has been heard, and the ring, which the next start
\* replays before anything is pushed, holds silence only, even after it ran dry
\* (driver.rs:326-335).
TailIsHeard ==
  pc = "gap" =>
    /\ \A slot \in DOMAIN ring : ring[slot] = Silence
    /\ ~starved /\ queued > 0 => Len(heard) >= Capacity + ClipLength

\* Every clip comes to its end: the firmware never spins for ever on a full ring.
ClipsEnd == pc = "refill" ~> pc \in {"gap", "panicked"}

\* "{} underruns - the DMA ran dry during playback": a playback in which it did is
\* one for which underruns were counted.
UnderrunIsCounted == pc = "gap" /\ ranDry => underruns
=============================================================================
