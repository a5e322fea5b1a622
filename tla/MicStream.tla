------------------------------ MODULE MicStream ------------------------------
(***************************************************************************)
(* The microphone's USB stream, end to end: the firmware's framing and     *)
(* write_frame (firmware/src/bin/main.rs), the byte pipe to the host, and  *)
(* the host's frames() parser with its DropCounter (tools/mic_stream.py).  *)
(*                                                                         *)
(* Bytes are small numbers.  The sequence number and the payload length    *)
(* take one byte each here and two in the code; nothing else of the wire   *)
(* format is abstracted, so that a frame cut off anywhere, in the magic    *)
(* too, is seen by the parser as the code would see it.                    *)
(***************************************************************************)
EXTENDS Integers, Sequences, SequencesExt

CONSTANTS
  Magic,        \* the bytes that start a frame
  Payloads,     \* the payloads a frame may carry, all of one length
  MaxPayload,   \* the longest payload the host believes
  SeqModulus,   \* 65536 in the code
  PipeSize,     \* bytes between write_byte_nb and ser.read
  MaxFrames     \* bound: frames the firmware builds

ASSUME StreamAssumption ==
  /\ Magic # <<>>
  /\ \A p \in Payloads : Len(p) \in 1 .. MaxPayload /\ Len(p) % 2 = 0
  /\ \A p, q \in Payloads : Len(p) = Len(q)
  /\ {SeqModulus, PipeSize, MaxFrames} \subseteq Nat \ {0}

VARIABLES
  seq,         \* firmware: number of the next frame
  frame,       \* firmware: bytes of the frame being written, <<>> between two
  written,     \* firmware: how many of them write_byte_nb has taken
  stalled,     \* firmware: the last frame was abandoned
  dropped,     \* firmware: frames abandoned so far
  pipe,        \* bytes on their way
  buf,         \* host: bytes not parsed yet
  parsing,     \* host: in the inner loop of frames(), not at ser.read
  counter,     \* host: the DropCounter
  log,         \* history: the frames built
  yielded      \* history: the frames the parser yielded

firmware == <<seq, frame, written, stalled, dropped, log>>
host == <<buf, parsing, counter, yielded>>
vars == <<firmware, pipe, host>>

HEADER == Len(Magic) + 2
NoSeq == -1

Header(n, length) == Magic \o <<n, length>>
FrameBytes(n, payload) == Header(n, Len(payload)) \o payload
FrameLength == HEADER + Len(CHOOSE p \in Payloads : TRUE)

Init ==
  /\ seq = 0
  /\ frame = <<>>
  /\ written = 0
  /\ stalled = FALSE
  /\ dropped = 0
  /\ pipe = <<>>
  /\ buf = <<>>
  /\ parsing = FALSE
  /\ counter = [dropped |-> 0, received |-> 0, expect |-> NoSeq]
  /\ log = <<>>
  /\ yielded = <<>>

-----------------------------------------------------------------------------
\* Firmware.

\* Bytes handed to the pipe since the start.
Sent == IF log = <<>> THEN 0 ELSE Last(log).at + Last(log).written

\* A frame is full of samples: it takes the next number, which advances whether
\* the frame will be sent or dropped.
BuildFrame(payload) ==
  /\ frame = <<>>
  /\ Len(log) < MaxFrames
  /\ frame' = FrameBytes(seq, payload)
  /\ written' = 0
  /\ seq' = (seq + 1) % SeqModulus
  /\ log' = Append(log, [payload |-> payload, at |-> Sent, written |-> 0])
  /\ UNCHANGED <<stalled, dropped, pipe, host>>

\* write_byte_nb takes a byte; the last one ends write_frame successfully.
WriteByte ==
  /\ frame # <<>>
  /\ Len(pipe) < PipeSize
  /\ pipe' = Append(pipe, frame[written + 1])
  /\ written' = written + 1
  /\ log' = [log EXCEPT ![Len(log)].written = written + 1]
  /\ IF written' = Len(frame)
       THEN frame' = <<>> /\ stalled' = FALSE
       ELSE UNCHANGED <<frame, stalled>>
  /\ UNCHANGED <<seq, dropped, host>>

\* WouldBlock after the deadline: the rest of the frame is abandoned.  The
\* deadline (shorter when stalled) may pass at any time.
AbandonFrame ==
  /\ frame # <<>>
  /\ Len(pipe) = PipeSize
  /\ frame' = <<>>
  /\ stalled' = TRUE
  /\ dropped' = dropped + 1
  /\ UNCHANGED <<seq, written, pipe, host, log>>

-----------------------------------------------------------------------------
\* Host: ser.read takes some of the bytes that have arrived.
Read ==
  /\ ~parsing
  /\ \E k \in 1 .. Len(pipe) :
       /\ buf' = buf \o SubSeq(pipe, 1, k)
       /\ pipe' = SubSeq(pipe, k + 1, Len(pipe))
  /\ parsing' = TRUE
  /\ UNCHANGED <<firmware, counter, yielded>>

MagicAt(i) == SubSeq(buf, i, i + Len(Magic) - 1) = Magic

\* Where buf.find(MAGIC) finds it first; 0 when it is not there.
start == LET hits == {i \in 1 .. Len(buf) - Len(Magic) + 1 : MagicAt(i)}
         IN  IF hits = {} THEN 0 ELSE CHOOSE i \in hits : \A j \in hits : i <= j

Dropping(n) == buf' = SubSeq(buf, n + 1, Len(buf))

\* A fault: nothing is kept.
NoMagicKeepingNothing ==
  /\ start = 0
  /\ buf' = <<>>
  /\ parsing' = FALSE
  /\ UNCHANGED <<counter, yielded>>

\* A fault: continue for break.
NoMagicContinuing ==
  /\ start = 0
  /\ Dropping(IF Len(buf) < Len(Magic) THEN 0 ELSE Len(buf) - (Len(Magic) - 1))
  /\ UNCHANGED <<parsing, counter, yielded>>

\* Keep the last few bytes in case a magic straddles the read boundary.
NoMagic ==
  /\ start = 0
  /\ Dropping(IF Len(buf) < Len(Magic) THEN 0 ELSE Len(buf) - (Len(Magic) - 1))
  /\ parsing' = FALSE
  /\ UNCHANGED <<counter, yielded>>

HeaderSeen == start # 0 /\ Len(buf) - (start - 1) >= HEADER
length == buf[start + Len(Magic) + 1]
end == start + HEADER + length        \* the byte after the candidate

AwaitHeader ==
  /\ start # 0
  /\ ~HeaderSeen
  /\ Dropping(start - 1)
  /\ parsing' = FALSE
  /\ UNCHANGED <<counter, yielded>>

LengthBelievable == length # 0 /\ length % 2 = 0 /\ length <= MaxPayload

\* Magic bytes inside the samples: skip past them.
BadLength ==
  /\ HeaderSeen
  /\ ~LengthBelievable
  /\ Dropping(start)
  /\ UNCHANGED <<parsing, counter, yielded>>

Candidate == HeaderSeen /\ LengthBelievable
NextMagicSeen == Len(buf) >= end + Len(Magic) - 1

\* A fault: without the lookahead check.
NextIsNotChecked == TRUE

\* The lookahead check: the next frame starts where this one ends.
NextIsMagic == MagicAt(end)

AwaitNext ==
  /\ Candidate
  /\ ~NextMagicSeen
  /\ Dropping(start - 1)
  /\ parsing' = FALSE
  /\ UNCHANGED <<counter, yielded>>

\* A fault: the whole candidate is skipped, not its first byte.
RejectWhole ==
  /\ Candidate
  /\ NextMagicSeen
  /\ ~NextIsMagic
  /\ Dropping(end - 1)
  /\ UNCHANGED <<parsing, counter, yielded>>

\* The next frame does not start where this one should end.
Reject ==
  /\ Candidate
  /\ NextMagicSeen
  /\ ~NextIsMagic
  /\ Dropping(start)
  /\ UNCHANGED <<parsing, counter, yielded>>

\* A fault: a number that has wrapped counts backwards.
CountUnwrapped(n) ==
  [dropped  |-> counter.dropped +
                  IF counter.expect = NoSeq THEN 0 ELSE n - counter.expect,
   received |-> counter.received + 1,
   expect   |-> (n + 1) % SeqModulus]

\* DropCounter.update
Count(n) ==
  [dropped  |-> counter.dropped +
                  IF counter.expect = NoSeq THEN 0
                  ELSE (n - counter.expect) % SeqModulus,
   received |-> counter.received + 1,
   expect   |-> (n + 1) % SeqModulus]

\* Bytes of the stream before buf: where the candidate starts in the stream.
Offset == Sent - Len(pipe) - Len(buf)

Accept ==
  /\ Candidate
  /\ NextMagicSeen
  /\ NextIsMagic
  /\ LET n       == buf[start + Len(Magic)]
         payload == SubSeq(buf, start + HEADER, end - 1)
     IN  /\ counter' = Count(n)
         /\ yielded' = Append(yielded,
                [seq |-> n, payload |-> payload, at |-> Offset + start - 1])
  /\ Dropping(end - 1)
  /\ UNCHANGED parsing

Parse ==
  /\ parsing
  /\ NoMagic \/ AwaitHeader \/ BadLength \/ AwaitNext \/ Reject \/ Accept
  /\ UNCHANGED <<firmware, pipe>>

Next ==
  \/ \E payload \in Payloads : BuildFrame(payload)
  \/ WriteByte
  \/ AbandonFrame
  \/ Read
  \/ Parse

\* Both sides keep running; whether a deadline passes is left open.
Fairness ==
  /\ WF_vars(\E payload \in Payloads : BuildFrame(payload))
  /\ WF_vars(WriteByte)
  /\ WF_vars(Read)
  /\ WF_vars(Parse)

Spec == Init /\ [][Next]_vars
FairSpec == Spec /\ Fairness

-----------------------------------------------------------------------------
\* Type invariant.
TypeOK ==
  /\ seq \in 0 .. SeqModulus - 1
  /\ written \in 0 .. FrameLength
  /\ frame \in Seq(Nat)
  /\ stalled \in BOOLEAN
  /\ dropped \in 0 .. MaxFrames
  /\ Len(pipe) <= PipeSize
  /\ parsing \in BOOLEAN
  /\ counter.expect \in {NoSeq} \cup 0 .. SeqModulus - 1

Whole(k) == log[k].written = FrameLength

\* The frame that starts at an offset of the stream.
FrameAt(at) == CHOOSE k \in 1 .. Len(log) : log[k].at = at /\ log[k].written > 0

\* Frame k, or a splice that starts with it, has been yielded.
Yielded(k) == k \in {FrameAt(yielded[i].at) : i \in 1 .. Len(yielded)}

\* A yielded frame is the one the firmware wrote there, all of it.
Genuine(y) ==
  \E k \in 1 .. Len(log) :
    /\ log[k].at = y.at
    /\ Whole(k)
    /\ y.payload = log[k].payload
    /\ y.seq = (k - 1) % SeqModulus

\* A yielded frame is the beginning of an abandoned one, filled up by what was
\* written of the abandoned one after it.
Spliced(y) ==
  \E k \in 1 .. Len(log) - 1 :
    log[k].at = y.at /\ ~Whole(k) /\ ~Whole(k + 1)

\* What frames() yields is a frame the firmware wrote whole, or spliced out of
\* two or more consecutive abandoned ones; a whole frame next to an abandoned
\* one is never damaged.
YieldsAreGenuineOrSpliced == \A i \in 1 .. Len(yielded) : Genuine(yielded[i]) \/ Spliced(yielded[i])

\* "Without that check a frame the firmware abandoned mid-write [...] would
\* swallow the bytes that follow it" (mic_stream.py): with it, none does.
YieldsAreGenuine == \A i \in 1 .. Len(yielded) : Genuine(yielded[i])

\* Whenever the parser has come to rest, every whole frame whose successor's
\* magic it has seen behind it has been yielded: losing synchronisation on an
\* abandoned frame costs no whole frame but the one just before it.
ResynchronisesOnMagic ==
  ~parsing =>
    \A k \in 1 .. Len(log) - 1 :
      /\ Whole(k)
      /\ log[k + 1].written >= Len(Magic)
      /\ Sent - Len(pipe) >= log[k + 1].at + Len(Magic)
      => Yielded(k)

\* How many frames are missing between the i-th yielded and the one after it.
Gap(i) == FrameAt(yielded[i + 1].at) - FrameAt(yielded[i].at) - 1

\* Frames are yielded in the order written, none twice, and what the host counts as
\* received and dropped adds up to the frames from the first it yielded to the last,
\* however often the number has wrapped, if no gap is of a whole modulus; a longer
\* one is short by whole moduli (mic_stream.py:105-109).
GapsAreCounted ==
  yielded # <<>> =>
    LET span == FrameAt(Last(yielded).at) - FrameAt(Head(yielded).at) + 1
        told == counter.received + counter.dropped
        gaps == {Gap(i) : i \in 1 .. Len(yielded) - 1}
    IN  /\ \A i \in 1 .. Len(yielded) - 1 : yielded[i].at + FrameLength <= yielded[i + 1].at
        /\ counter.received = Len(yielded)
        /\ told <= span
        /\ (span - told) % SeqModulus = 0
        /\ (\A gap \in gaps : gap < SeqModulus) => told = span

\* "Turns sequence-number gaps into a count of frames the firmware couldn't
\* send" (mic_stream.py): the host counts no frame that was sent whole.
DropsAreTheFirmwares == counter.dropped <= dropped

\* The inner loop of frames() always comes back to ser.read.
ParserComesBack == parsing ~> ~parsing

\* Every frame written whole is yielded in the end, once the magic of the frame
\* after it has been written: the parser never waits for ever on bytes it has.
Confirmed(k) ==
  IF k < Len(log) THEN Whole(k) /\ log[k + 1].written >= Len(Magic) ELSE FALSE

WholeFramesArrive == \A k \in 1 .. MaxFrames - 1 : Confirmed(k) ~> Yielded(k)
=============================================================================
