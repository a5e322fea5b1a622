------------------------------ MODULE Recording ------------------------------
(***************************************************************************)
(* The microphone driver's Recording (crates/i2s-mic/src/driver.rs) over a *)
(* circular DMA transfer.                                                  *)
(*                                                                         *)
(* The transfer belongs to the hardware-abstraction layer and is external: *)
(* it makes captured bytes available in grains, reports a fault when the   *)
(* buffer overflows, and refuses a pop that does not take everything.      *)
(* Bytes are numbered as the hardware captures them; the ones available    *)
(* are the last `available' before `head'.                                 *)
(***************************************************************************)
EXTENDS Integers

CONSTANTS
  FRAME_BYTES,     \* bytes of one stereo frame
  ScratchBytes,    \* size of the scratch buffer
  BufferBytes,     \* size of the circular DMA buffer
  Grains,          \* how many bytes the hardware makes available at a time
  MaxSamples,      \* bound: the largest request
  MaxHead          \* bound on the bytes captured

ASSUME RecordingAssumption ==
  /\ FRAME_BYTES \in Nat \ {0}
  /\ ScratchBytes \in Nat
  /\ BufferBytes \in Nat
  /\ Grains \subseteq Nat \ {0}
  /\ MaxSamples \in Nat
  /\ MaxHead \in Nat

VARIABLES
  head,        \* hardware: bytes captured since the start
  available,   \* hardware: bytes captured and not popped
  late,        \* hardware: the buffer overflowed
  take,        \* the bytes that take_size told the running call to pop, or 0
  wanted,      \* the bytes it has room for, or 0
  call,        \* what the last call was and returned
  left,        \* discard: samples still to throw away, 0 when it is not running
  goal,        \* history: the byte at which the running discard should stop
  reasons      \* history: why the last pop cannot have been what was available

attempt == <<take, wanted, reasons>>
vars == <<head, available, late, attempt, call, left, goal>>

Smaller(x, y) == IF x <= y THEN x ELSE y
RoundDown(x) == (x \div FRAME_BYTES) * FRAME_BYTES

\* What a call returned: how many bytes it popped from which byte on, and whether it
\* failed.
Popped(op, n) == [op |-> op, ok |-> TRUE, from |-> head - available, bytes |-> n]
Overrun(op) == [op |-> op, ok |-> FALSE, from |-> 0, bytes |-> 0]

Init ==
  /\ head = 0
  /\ available = 0
  /\ late = FALSE
  /\ take = 0
  /\ wanted = 0
  /\ reasons = {}
  /\ call = Popped("start", 0)
  /\ left = 0
  /\ goal = 0

-----------------------------------------------------------------------------
\* External: the hardware captures some more, or overflows its buffer; between a
\* call's asking and popping, too.
Capture(g) ==
  /\ head + g <= MaxHead
  /\ head' = head + g
  /\ IF available + g <= BufferBytes
       THEN available' = available + g /\ UNCHANGED late
       ELSE late' = TRUE /\ UNCHANGED available
  /\ reasons' = IF take = 0 THEN reasons ELSE reasons \cup {"captured"}
  /\ UNCHANGED <<take, wanted>>

\* Two faults: without the rounding, and with a clamp one frame too tight.
take_size_unrounded(room) ==
  IF available < FRAME_BYTES THEN 0
  ELSE Smaller(available, Smaller(ScratchBytes, room))

take_size_tight(room) ==
  IF available < FRAME_BYTES THEN 0
  ELSE RoundDown(Smaller(available, Smaller(ScratchBytes - FRAME_BYTES, room)))

\* Everything available, clamped to what can be absorbed and rounded down to
\* whole frames.
take_size(room) ==
  IF available < FRAME_BYTES THEN 0
  ELSE RoundDown(Smaller(available, Smaller(ScratchBytes, room)))

\* What speaks against a pop when it is asked for.
Obstacles(room) ==
  {r \in {"more", "half"} :
     \/ r = "more" /\ available > Smaller(ScratchBytes, room)
     \/ r = "half" /\ available % FRAME_BYTES # 0}

\* The first half of an attempt to pop up to `room' bytes, which asks what is
\* available: it fails if the buffer has overflowed, and returns if nothing is there.
Ask(op, room) ==
  /\ take = 0 /\ call.ok
  /\ take' = IF late THEN 0 ELSE take_size(room)
  /\ IF take' > 0
       THEN wanted' = room /\ reasons' = Obstacles(room) /\ UNCHANGED call
       ELSE /\ UNCHANGED wanted
            /\ reasons' = IF late THEN {"late"} ELSE {}
            /\ call' = IF late THEN Overrun(op) ELSE Popped(op, 0)
  /\ UNCHANGED <<head, available, late>>

\* The second half pops, and is refused if that would leave something.
Pop(op) ==
  /\ take > 0
  /\ call' = IF late \/ available > take THEN Overrun(op) ELSE Popped(op, take)
  /\ available' = available - call'.bytes
  /\ take' = 0 /\ wanted' = 0
  /\ UNCHANGED <<head, late, reasons>>

\* Recording::read into a buffer for n samples.
read(n) ==
  /\ left = 0
  /\ Ask("read", n * FRAME_BYTES)
  /\ UNCHANGED <<left, goal>>

ReadPop ==
  /\ left = 0
  /\ Pop("read")
  /\ UNCHANGED <<left, goal>>

\* Recording::discard: the loop pops until enough has gone by or a pop fails.
BeginDiscard(n) ==
  /\ left = 0 /\ take = 0
  /\ call.ok
  /\ left' = n
  /\ goal' = head - available + n * FRAME_BYTES
  /\ UNCHANGED <<head, available, late, attempt, call>>

DiscardAsk ==
  /\ left > 0
  /\ Ask("discard", left * FRAME_BYTES)
  /\ left' = IF call'.ok THEN left ELSE 0
  /\ UNCHANGED goal

\* A fault: bytes are counted as samples.
DiscardSomeBytes ==
  /\ left > 0
  /\ Pop("discard")
  /\ left' = IF call'.ok THEN left - call'.bytes ELSE 0
  /\ UNCHANGED goal

DiscardSome ==
  /\ left > 0
  /\ Pop("discard")
  /\ left' = IF ~call'.ok THEN 0
             ELSE LET got == call'.bytes \div FRAME_BYTES
                  IN  IF got >= left THEN 0 ELSE left - got
  /\ UNCHANGED goal

\* I2sMic::start after an overrun: the transfer starts again, with an empty
\* buffer and at a frame's first byte; what it held is gone.
start ==
  /\ ~call.ok
  /\ head' = head + ((-head) % FRAME_BYTES)
  /\ available' = 0
  /\ late' = FALSE
  /\ call' = [Popped("start", 0) EXCEPT !.from = head']
  /\ reasons' = {}
  /\ UNCHANGED <<take, wanted, left, goal>>

Next ==
  \/ \E g \in Grains : Capture(g) /\ UNCHANGED <<call, left, goal>>
  \/ \E n \in 1 .. MaxSamples : read(n) \/ BeginDiscard(n)
  \/ ReadPop
  \/ DiscardAsk \/ DiscardSome
  \/ start

Spec == Init /\ [][Next]_vars

-----------------------------------------------------------------------------
\* Type invariant.
TypeOK ==
  /\ head \in Nat
  /\ available \in 0 .. BufferBytes
  /\ late \in BOOLEAN
  /\ take \in Nat /\ wanted \in Nat
  /\ reasons \subseteq {"late", "more", "half", "captured"}
  /\ call \in [op : {"start", "read", "discard"}, ok : BOOLEAN, from : Nat, bytes : Nat]
  /\ left \in 0 .. MaxSamples

\* Left and right never swap: whatever the hardware's grain, whatever was
\* requested and however often the capture was restarted, every pop starts at a
\* frame's first byte and takes whole frames.
PhaseNeverSlips ==
  call.from % FRAME_BYTES = 0 /\ call.bytes % FRAME_BYTES = 0

\* A discard throws away exactly the samples it was asked to: while it runs, what
\* it has popped and what is left make up the request, and it ends there.
DiscardIsExact ==
  [][~late /\ left > 0 =>
       /\ head - available + left * FRAME_BYTES = goal
       /\ left' = 0 /\ call'.ok => head' - available' = goal]_vars

\* A pop succeeds exactly when nothing speaks against it: the buffer has not
\* overflowed, no more was waiting than the scratch and the request have room for, it
\* was whole frames, and nothing was captured between asking for its size and popping.
\* No loss goes untold, and a caller that is in time is refused for nothing else
\* (driver.rs:262-305).
RefusedOnlyWithReason == take = 0 => (~call.ok <=> reasons # {})

\* "An Err(Error::Overrun) means the read loop fell behind and audio was lost"
\* (driver.rs:262): more was waiting than a read could take in.
ReadFailsOnlyWhenBehind ==
  ~call.ok /\ call.op = "read" => "late" \in reasons \/ "more" \in reasons

\* "A DMA fault during a circular read means exactly one thing: we fell behind":
\* a discard fails only when more was waiting than its scratch buffer holds.
DiscardFailsOnlyWhenBehind ==
  [][~call'.ok /\ call'.op = "discard" /\ call.ok => late \/ available > ScratchBytes]_vars
=============================================================================
