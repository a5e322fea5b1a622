# A verification of basicprograms in TLA+

The repository is a collection of programs. Most of its 361 files are exercises,
build files and assets; what carries state, concurrency or timing is a dozen
components. This directory models those components in TLA+, checks the models
with TLC on small instances, and proves theorems about some of them with TLAPS.
`PROJECT.json` maps every definition to the source lines it stands for and lists
the runs, the hazards and the theorems.

Paths below are relative to `src/`.

## 1. Inventory

### Embedded Rust (ESP32-S3) and the kernel

| Component | State | Operations | What is hard, what must hold |
|---|---|---|---|
| `Rust/rotary-encoder/.../encoder.rs` | last two-bit sample, i8 accumulator, i32 count | `update(a, b)`, `reset` | contact bounce, skipped samples, the i8: no step is invented, nothing is lost but in pairs, the accumulator fits |
| `.../button.rs` | debounced level, candidate, three times | `update(pressed, now_ms)` | a millisecond counter that wraps, calls that come late: presses, releases and long presses neither early nor twice nor never |
| `Rust/rotary-encoder/firmware` | the position shown | the 1 ms poll loop | a press resets the decoder in the middle of a turn: the position follows the shaft |
| `Rust/microphone/firmware` | block, frame, meter, `seq`, `stalled`, `dropped`, `overruns` | capture loop, `write_frame` | a host that comes and goes, timeouts that abandon a frame anywhere, DMA overruns: frames are contiguous, probing is free |
| `Rust/microphone/tools/mic_stream.py` | `buf`, `DropCounter` | `frames()`, `update` | magic bytes in the samples, reads cut anywhere, sequence numbers that wrap: resynchronisation, a right count of gaps |
| `Rust/microphone/crates/i2s-mic` `driver.rs` | the circular DMA transfer | `read`, `discard`, `start` | `available` grows behind the caller's back and is not a number of frames: left and right never swap |
| the same, `format.rs`, `part.rs`, `dsp.rs`, `level.rs` | the filter's last sample and output, the meter's window | `unpack_mono`, `DcBlocker::process`, `Level::feed` | sign, shifts, full scale and clipping, and state that outlives a call: the samples are the sound's |
| `Rust/speaker/crates/i2s-speaker` `wav.rs` | the place in the file | `Wav::parse`, `Iterator::next`, `duration_ms` | chunks in any order, padding, files cut off anywhere: the sound the chunks describe, to the last whole frame |
| the same, `driver.rs`, `part.rs`, and `Rust/speaker/firmware` | the ring, the staging buffer, the clip | `Builder`, `write`, `flush`, `underrun`, the clip loop | DMA reads what the CPU writes: order, the tail, silence after the clip, an end |
| `Rust/screen` | the framebuffer, the panel's memory, the firmware's times | `row_y`, `center_x`, `text_in`, `flush`, the loop | a flush goes page by page and may fail; text wider than the panel: whole frames, in place, that tell the time |
| `Rust/os` | the VGA writer and serial port behind spin locks, the interrupt controllers, the tables, the keyboard decoder | boot, `print!`, handlers, panic handlers, `test_runner` | handlers that print while a lock is held, an end of interrupt for the wrong vector, a test that traps: no wedge, whole messages, a true verdict |
| `Rust/vector` | pointer, size, capacity | `push`, `pop`, indexing, iteration, `drop` | raw memory in which three fields must agree while it moves |

The encoder and the button are called by the firmware loop in one thread; the
drivers' transfers run beside their callers; the microphone's two ends share
nothing but a serial line that loses the ends of frames; the kernel's handlers
share its locks with the code they interrupt.

### Servers and data structures (C, C++)

| Component | State | Operations | What is hard, what must hold |
|---|---|---|---|
| `C++/Program-01` (kvdb) `server.cc` | a map, one `Connection` per descriptor with `rbuf`, `wbuf` and a state | the `poll` loop: accept, fill, parse, execute, flush | partial reads and writes, pipelined requests, disconnections, `malloc` failing: atomic, ordered service, whole responses |
| kvdb `hash.cc` | chains | `Set`, `Get`, `Delete` | works on copies of its chains; not used by the server yet |
| `C/Program-07` hash table | slots, `count`, `base_size` | insert, search, delete, resize | double hashing with tombstones: reachability, termination |
| `C/Program-08/pollserver.c` | the `pfds` array | accept, receive, broadcast, close | entries move and are added while they are scanned |
| `C/Program-08/selectserver.c` | `master`, `read_fds`, `fdmax` | the same | descriptors are used again |
| `C/Program-03` linked list, `C/Program-10` FUSE files, `C++/Program-03` address map, `C++/Program-04` tic-tac-toe, `C++/Program-05` RAII | sequential data | | boundary cases |

### The rest

`scope.py` and `record.py` are windows and files over `mic_stream.py`.
`JavaScript`, `k8s` (an application framework with its deployment), the small C
and C++ exercises and the design-pattern examples keep no state worth a model or
consist of calls into libraries. They are listed in `PROJECT.json` as not
modelled, with the reason for each.

## 2. Plan

Order of work, the most important behaviour first.

1. *Done.* The microphone's stream, end to end (`MicStream`), and the loop and
   driver that feed it (`MicCapture`, `Recording`), with what becomes of a sample
   (`MicSamples`).
2. *Done.* The rotary encoder (`Encoder`, `Button`, `RotaryFirmware`).
3. *Done.* The speaker, from the bytes of a file to the slots on the wire (`Wav`,
   `WavReader`, `Playback`).
4. *Done.* The key-value server against an atomic service (`KvServer`, `KvService`).
5. *Done.* The chat servers against one abstract room (`PollServer`,
   `SelectServer`, `Chat`).
6. *Done.* The hash table (`HashTable`), and `Vector` with its raw memory
   against a sequence (`Vector`, `ElementSequence`).
7. *Done.* The kernel's locks, handlers, interrupt controllers and test harness
   (`Kernel`, `VgaBuffer`), and the uptime display (`Screen`, `ScreenFirmware`).
8. *Next.* kvdb's `Hash`; the scope's reader thread and window; the in-memory file
   system and the linked list against sequences (`program-10.c:69` reads past a
   short file); the pairings of the address map at a small width; the pass over
   the alerts of `JavaScript/Program-01/app.js:133`, which removes while it walks.
9. *Theorems.* Done: the rotary encoder and its button, the recording, the capture
   loop, the vector, the hash table, both chat rooms, the key-value server, the
   kernel's locks, its screen and the verdict of its harness, what a sample is
   worth, what the display shows, and the speaker, from the bytes of a file to what
   is heard. To come: the serial stream (`MicStream`).

## 3. Modules

Abstract specifications say what is promised; the detailed module implements
them through a refinement mapping, checked as a property of its run.

| Module | Models | Composed of, implements |
|---|---|---|
| `Encoder` | `Encoder::update`, `reset`, the transition table | |
| `Button` | `Button::update` | implements `ButtonProtocol` |
| `RotaryFirmware` | the loop of `main.rs`, and the shaft | extends `Button`, an instance of `Encoder` |
| `MicStream` | `write_frame`, the serial line, `frames()`, `DropCounter` | |
| `Recording` | the driver's `Recording` | external DMA transfer |
| `MicSamples` | unpacking, the DC blocker, the meter, and a program that uses them | extends `Recording` |
| `MicCapture` | the capture loop of `main.rs` | an instance of `Recording` whose unit is a sample |
| `Wav`, `WavReader` | the parser and the iterator; files and a reader of them | `WavReader` extends `Wav` |
| `Playback` | the driver's `Playback` and the firmware | extends `WavReader`, external DMA transfer |
| `Screen`, `ScreenFirmware` | `layout.rs` and `screen.rs`; `main.rs` | `ScreenFirmware` extends `Screen` |
| `VgaBuffer`, `Kernel` | the `Writer`; everything else of the kernel | `Kernel` extends `VgaBuffer` |
| `Vector` | `Vector<T>` and the heap | implements `ElementSequence` |
| `KvServer` | `server.cc`, and clients as `client.cc` is one | implements `KvService` |
| `HashTable` | `hash_table.c`, `prime.c` | |
| `ChatSockets` | the sockets as both chat servers see them (external) | |
| `PollServer`, `SelectServer` | `pollserver.c`, `selectserver.c` | extend `ChatSockets`, implement `Chat` |
| `FirmwareProofs`, `DeviceProofs`, `MicCaptureProofs`, `ContainersProofs`, `PollServerProofs`, `SelectServerProofs`, `KvServerProofs`, `KernelProofs` | theorems | extend the modules they are about; `FirmwareProofs` is about the rotary encoder, its button and the speaker, `DeviceProofs` about the recording, the samples and the screen, `ContainersProofs` about the hash table and the vector |
| `MCContainers`, `MCSpeaker`, `MCScreen` | two users each, of which a behaviour has one | the hash table or the vector; the firmware or a program of its own |
| the other `MC...` | values of the constants | |

An action has the name of the function it stands for, or of the branch of a long
one, and one action is what happens between two points where someone else can
act: a system call, a DMA access, a poll, an operation that an interrupt can
follow. Definitions that begin with "A fault:" in their comment are not part of
a model: they are what a plausible bug would make of the definition below them,
and every property has one that breaks it. Variables marked *history* are not in
the code; they remember what a property needs.

### The rotary encoder

`Encoder.update` is `Ignore` (the first sample, the same sample again, or one
that skipped a state) or `Move`. The two-bit sample, the table and the clamp of
the ratio are the code's. `Button.update` has the code's four ways out:
`NewLevel`, `Settling`, `Confirm` and `Hold`; the time is a real clock that is
truncated to `ClockModulus` where the code truncates it, and all differences
wrap. `RotaryFirmware` polls one and then the other; `Turn` moves the shaft by
one transition, to and fro, so that bounce is part of every behaviour. `missed`
remembers that the shaft was two or more transitions from the last sample when
the next was taken, which is when the decoder cannot know what happened.

### The microphone

`MicStream` sends bytes one at a time. `BuildFrame`, `WriteByte` and
`AbandonFrame` are the firmware: a frame is abandoned when the line is full,
after any number of its bytes, whenever the deadline passes (the model leaves
open when). `Read` is `ser.read` and takes any prefix of what has arrived.
`Parse` is one turn of the inner loop of `frames()`, with one action for every
`break`, `continue` and `yield`. The sequence number and the length take one
byte each and not two.

`Recording` has the transfer as an external: it makes bytes available in any
grain, refuses to pop less than everything, and fails for good after an
overflow. `take_size`, `read` and `discard` are the code's. A `read`, and each turn of
a `discard`, is two steps, as the transfer goes on between them: `Ask` finds out what
is available, and `Pop` takes as much as was found. The history `reasons` holds what
speaks against that pop, from the asking on: more is waiting than there is room for,
there is half a frame, or something has been captured since.

`MicSamples` adds what a program does with the bytes: it unpacks one slot of
every frame, filters and meters. The words of a slot are scaled down
(`SampleBits`), and the filter's pole is a half, for which its floats are exact;
`SamplesAreTheSound` compares its output with the difference equation solved, a sum
in which every step of the input fades by half per sample.
`MicCapture` runs the firmware's loop over a recording: a tick of time is a
sample, and time passes everywhere, inside a `read` too, so that the loop can be late
at any point. A
sample there is named by when it was captured and how many the filter had seen,
so that a frame shows what it was made of.

### The speaker

`WavReader` chooses a file by the chunks that are in it, what the last claims, and
where it was cut off, encodes it in bytes, and runs `Wav`'s parser and iterator
over them; so the two can be compared. `Playback` has the ring slot by slot.
`Play` is the hardware, which goes round whether there is anything new or not,
gives back a descriptor at a time, and may fault. The firmware takes samples out
of the file into a chunk, spreads them over both slots in the staging buffer,
pushes it in pieces, asks for underruns, and at the end of the clip writes one
ring of silence and stops.

### The screen

Text is a box with what it says; the framebuffer is a set of boxes, and so is
each page of the panel's memory, which `SendPage` fills one at a time and
`FlushFails` cuts short. `row_y`, `center_x` and the saturating width are the
code's, on a `usize` of any size from 16 bits. The firmware's time goes
on between any two steps. A behaviour starts with the boot or, because hours of
uptime are out of reach of a run, in the wait after a frame at a given uptime.

### The kernel

A function is the sequence of operations it performs, and `frames` is the stack:
the top frame performs one operation, an interrupt or an exception pushes a
handler, `ReturnFromInterrupt` pops one. A spin lock that is taken simply does not
let its frame go on. `print` turns interrupts off around its lock as
`without_interrupts` does; the keyboard's handler keeps its lock over the end of
interrupt, as its guard is dropped at the end of the scope. The controllers keep
requested and in-service lines, and an end of interrupt clears the most urgent
one, whichever vector it names. The same module runs the kernel and its two test
builds (`Entries`), with tests that pass, panic, trap, or overflow the stack; one
turn of the loop of `test_runner` is a step (`RunTests`).

### The vector

The heap maps addresses to blocks of cells, and a cell that was never written is
`Uninit`. A call is a step; each is written out as the code reads and writes the
block, with the old block freed by a growth. Reading a cell outside the elements
is undefined behaviour and ends the model (`status`), and so is iterating over a
vector that was never pushed to, whose slice `lib.rs:83` makes from the null pointer
(`IterUnpushed`). `ElementSequence` is what a user sees: elements that are in the
sequence, his again, or dropped, once; it promises nothing of those two calls.

### The key-value server

One step of `KvServer` is one system call and what the loop does until the next:
`Poll`, `Dispatch` (the next descriptor that was reported), `Fill` (one
`read`), `Handle` (`TryOneRequest`), `Flush` (one `write`) and `Accept`. Sockets
hold `InSize` and `OutSize` units, so that reads and writes are partial. A
request counts its units: how many are in `rbuf` decides what the parser does.
Clients make requests, write and read them in pieces, may pipeline up to
`Window` of them, and close at any moment. `pc` tells who called `StateResponse`:
in `"respond"` it was `TryOneRequest`, which goes on to the next request of `rbuf`
when the response is out; in `"flush"` it was the loop, which leaves what is in
`rbuf` until the client sends more (`parked`).

The process can end in three ways (`Ends`): its assertion after a read fails; a
request is `Fatal` (no words, whose `cmd[0]` is read through a null pointer at line
345, as the repository's own client without arguments makes one; or a word of
negative size, which line 413 lets pass and `std::string` throws for); or it writes
to a socket whose other end was closed and has answered an earlier write by a reset
(`reset`), and `SIGPIPE`, neither blocked nor ignored, kills it. The first write
after a close may fail with an error, which ends the connection, or be accepted. A
negative length of the request itself is refused: it is compared with a `size_t`.
`RequestsAreAnswered` speaks of the time while the process lives.

### The hash table

A call is a step. A probe that never ends sets `hung`, as does a null pointer that is
followed, and what the program would do next is left out. The polynomial hashes are
two numbers per key; their reduction, the step of the probe and the sizes are the
code's (`Index`, `Step`, `next_prime`). `Refills` is `ht_resize`'s loop: the new table
after each slot of the old one.

Every `malloc` may fail. For the table of a resize nothing happens (`Unallocated`),
for its array, or for the copy of a key, a null pointer is followed; for an item the
insertion returns silently, and for a value the item has none. In a resize that holds
for each item on its own (`Recopied`): `ht_resize` inserts copies (line 64), those
that could not be made are missing from the new table, and line 79 frees the old
ones. `doubted` is the history of that: the keys that a failed allocation has taken
an item or a value from, and those of which a deletion or a resize met two items (an
insertion stops at a tombstone and leaves an older item of its key behind it). A
key that is inserted anew, or deleted with nothing left behind, is in doubt no
more.

### The chat servers

`Poll` (or `Select`) fixes what is ready; the scan then goes on entry by entry
while clients connect, speak, read and hang up between any two steps. `revents`
is kept per entry, as in the array, and is whatever was there for an entry that
was just added. A `send` to a full socket waits, to one that was reset may kill
the process.

## 4. Runs

| Run | Checks | Bounds, and why they are enough |
|---|---|---|
| `rotary` | `PositionTracksShaft`, `StepNeedsFullDetent`, `MissedSamplesAreEven`, `PositionAccountsForCount` | detents of 2 transitions, a shaft of 7 places, up to 3 transitions between samples: bounce over a detent's edge, full turns of the Gray code both ways, every wrong sample (2 off and 3 off), and presses in the middle of a detent. The theorems cover all ratios |
| `button` | `ReportedWhenDue`, `BelievedOnlyWhenSettled`, `LongPressOnlyWhenHeld`, `PromiseSpec` | a counter of 8 ms over 26 ms of real time: it wraps three times, in every phase of a press |
| `mic_stream` | `YieldsAreGenuineOrSpliced`, `GapsAreCounted`, `WholeFramesArrive` | 5 frames, a line of 2 bytes, payloads that are the magic: frames are cut in the magic, the header and the payload, several in a row, and the parser sees false magics, whose lengths it does not believe; a sequence number of 1 bit, which wraps after every second frame, so that gaps cross the wrap and some are of a whole modulus, which the count misses by as much |
| `recording` | `PhaseNeverSlips`, `SamplesAreTheSound`, `DiscardIsExact`, `RefusedOnlyWithReason` | frames of 2 words, grains of 1, 2 and 3, a scratch of 7 (not a whole number of frames), 16 words in all: overflow and restart included, and words that come in between a call's asking and its popping; a sound with both ends of the scale, steps that overshoot, and values around the rounding |
| `mic_capture` | `FramesAreContiguous`, `FramesAdjoin`, `ProbingIsFree` | 22 ticks, frames of 3 samples, blocks of up to 4, a window of 5: blocks, frames and windows go out of step, both timeouts expire, the buffer overflows and capture restarts twice |
| `playback` | `PlayedInOrder`, `TailIsHeard`, `ReadsWhatIsThere`, `ClipsEnd` | some 160 files: chunks in all orders, twice, missing, odd, with false sizes, cut at each of 65 places, and all formats; a ring of 12 slots with descriptors of 3, not whole frames, and a clip of 14 slots: the ring wraps in the clip, and the clip is played again and again, with faults |
| `screen` | `PanelIsTrue` | uptimes around every change of length of the display (10 s, 1 min, 10 min, 1000 s and frames, 100 min, 1000 min), 7 half-seconds from each: late frames and failed flushes; text of 0, 10, 21 (the widest that fits), 22 and 10923 characters (whose width saturates a `usize` of 16 bits, and would wrap to 2, a text nearly in the middle) on the first, last and a missing row |
| `kernel` | `ScreenShowsWholeMessages`, `NeverWedged`, `VerdictIsTrue`, `EverythingIsAnswered` | a screen of 3 rows of 2, so that lines wrap and scroll; 2 ticks at any moment and 2 keys at any moment after the controllers are set up, an extended key and an erasing one among them; 17 suites of one and two tests |
| `containers` | `ItemsAreReachable`, `InsertEnds`, `SearchIsRightUnlessDoubted`, `BlockIsTheVectors`, `SequenceSpec` | four keys whose probes collide over a table that grows from 5 buckets to 11 and shrinks back, one of them with a probe that does not move in the small table (`InsertEnds` is about those that do); `MaxFailing` is 1, so a resize loses one item, or a value, or one of each; each key has one value, as an item is told from an older one by being there, or by having no value; a vector that begins with one cell and grows to 4 elements over 2 blocks, with indices up to 5, and allocations that fail |
| `kv_server` | `ResponsesAreWhole`, `DescriptorsAreFresh`, `ServiceSpec`, `RequestsAreAnswered` | two clients, one that makes three requests, up to two of them at once, so that a request is left in `rbuf` and the third releases it, and one that sets the key or sends a malformed, an oversized or an empty request; responses longer than a socket holds, writes to clients that have closed, all three ends of the process |
| `poll_server` | `ChatSpec`, `EveryoneIsServed` | three clients, two of which speak, and an array of 2 entries that has to grow |
| `select_server` | `ReceivesOnlyWhenReady`, `ChatSpec` | three clients, two of which speak; descriptors are used again |

Deadlock is not checked where the system may really stop: the clients have made
their requests, the bounded clock, line or shaft is at its end, the server was
killed, the kernel halts, the firmware panicked. That nothing stops where it
should not is what the liveness properties and `NeverWedged` say.

What the runs say, in a sentence each: the position on the display is within a
detent of the shaft, unless the hand was faster than the poll; a press is
believed neither early nor late, at every phase of the counter; the parser never
yields bytes that no frame starts with, its gaps add up, and frames that were
sent whole arrive; samples keep their phase across every restart, and filtered
they are the response to the sound; a frame never joins two sides of an overrun;
the parser finds the sound of every file, and the speaker plays it once, in
order, to the end, then silence; the panel shows whole frames with the right
time, in place at any uptime; the kernel never waits for itself, its messages
are whole, every key is typed, and the harness tells the truth; the table loses
no item but those there is no memory to copy, finds what it should of every other
key, and an insertion whose probe moves comes to its end; the vector is a sequence
and its memory is its block; the key-value server is an atomic map, served in order, and leaves a request only where it says;
the chat servers keep their tables of connections right while they scan them, and both
are the same room.

### Disagreements between the code and what is said of it

These configurations are not part of the regular runs. Each checks one property
that the module states, from what a comment, an assertion or the code's own check
says, and that the code does not keep; TLC shows how.

| Configuration (module) | Property | What TLC shows |
|---|---|---|
| `KvServerClaims.cfg` (`MCKvServer`), with `-continue` | `FillAssertion` | `server.cc:242` asserts that `rbuf` is at most half full after every read: a legal request that is longer ends the server |
| the same | `SurvivesClosedClients` | `server.cc:69` means a client that goes away to cost its connection: two pipelined requests and a close raise `SIGPIPE` in the second `write` (line 256) |
| the same | `NoneIsLeftInTheBuffer` | `server.cc:329` continues "the outer loop if the request was fully processed", but a response that was finished by the poll loop (line 198) comes back to no loop, and a complete request stays in `rbuf` |
| `PollServerClaims.cfg` (`PollServer`), with `-continue` | `ReceivesOnlyWhenReady` | `add_to_pfds` (`pollserver.c:181`) does not clear `revents`: a client that takes the entry of one who left in the same scan inherits `POLLIN`, and `recv` blocks the server until it speaks |
| `PollServerClaims.cfg` (`PollServer`), with `-continue` | `SurvivesFailedSends` | two messages to a client that has hung up raise `SIGPIPE` (`pollserver.c:105`) |
| `MicStreamSplice.cfg` (`MCMicStream`), with `-continue` | `YieldsAreGenuine`, `YieldsAreGenuineOrSpliced` | two frames abandoned one after the other can add up to one that passes the lookahead check of `mic_stream.py:85`; and when the samples are a whole header with a believable length, which line 80 means to skip, an abandoned frame can end at the false header in a whole one, which is lost with it, or the false header itself be yielded |
| `MicStreamDrops.cfg` (`MCMicStream`) | `DropsAreTheFirmwares` | a frame that was sent whole is counted as dropped when the next one was abandoned in its magic; `mic_stream.py:98` says the count is of frames the firmware could not send |
| `RecordingDiscard.cfg` (`Recording`), with `-continue` | `DiscardFailsOnlyWhenBehind`, `ReadFailsOnlyWhenBehind` | the last pop of a discard asks for less than everything and fails (`driver.rs:78`, `283`); a `read` that is in time fails when the hardware makes more available between its `available()` and its `pop` (`driver.rs:299`, `271`), although line 262 says that it means the loop fell behind |
| `PlaybackUnderrun.cfg` (`MCSpeaker`) | `UnderrunIsCounted` | `underrun()` is asked after the ring was filled again, and misses that it ran dry |
| `ContainersClaims.cfg` (`MCContainers`), with `-continue` | `IndexIsChecked`, `IterHasABlock`, `SearchFindsLatest` | `index > self.size` lets `index == size` pass (`vector/src/lib.rs:111`); `iter` makes a slice from the null pointer of a new vector (`lib.rs:83`); although no `malloc` fails here, an insertion into a tombstone leaves an older item of its key behind it, which a later deletion brings back (`hash_table.c:161`) |
| the same | `InsertAlwaysEnds`, `SearchEnds` | the fix of the issue that `hash_table.c:113` quotes is for a second hash of 0, but the step is that hash plus one (line 118): a hash of the size less one never moves, and an insertion into a taken slot spins; and once every free slot is a tombstone a search for a key that is not there does (`hash_table.c:169`) |

`Recording` depends on a contract of the hardware-abstraction layer that is not in
the repository, that a pop must take everything; the driver's comments state it.
That `is_prime(9)` holds (`prime.c:23`) is in `HashTable` as the code has it; the
sizes the table takes in the run are primes all the same.

## 5. Fairness

Safety is checked without fairness. Liveness assumes:

* `MicStream`: both programs are loops that never exit, so the firmware builds and
  writes and the host reads and parses (weak fairness of each). Whether a
  deadline passes is left open: `AbandonFrame` is not fair.
* `MCSpeaker`: the hardware's clock and the firmware's loop (weak fairness of both).
  A fault is not fair, nor is it prevented: it ends a clip, by a panic.
* `Kernel`: the processor executes, and takes an interrupt that stays requested
  and allowed (weak fairness of `Execute` and of each line). A frame that spins on
  a lock is not an enabled step, so a wedge would show.
* `KvServer`: the process is scheduled (weak fairness of the loop), and a client
  that has begun to write or read goes on, as `WriteFull` and `ReadFull` of
  `kvdb.cc` do. A client that closes or whose connection was closed is exempt, and
  everyone is once the process has ended.
* `PollServer`: the process is scheduled; clients in the end read what they are
  sent and hang up, without which the code's blocking `send` and its endless
  connections can hold everyone up; and `accept` does not fail for ever (strong
  fairness of an accept that succeeds, since failing ones come between).

## 6. Theorems

TLAPS proves the following from the assumptions on the constants that the modules
name (`ButtonAssumption`, `FirmwareAssumption` of both firmwares, `ScreenAssumption`, `RecordingAssumption`,
`MicSamplesAssumption`, `PlaybackAssumption`, `DescriptionsAssumption`, `CaptureAssumption`, `VectorAssumption`, `TableAssumption`, `PrimeAssumption`, `SizesArePrime`,
`SocketAssumption`, `PollAssumption`, `NamesAssumption`, `NoneAssumption`,
`KvAssumption`, `KernelAssumption`), for every value of them. `PrimeAssumption` is
number theory: it says that there is a next prime for every size a table may ask
for, and that a table twice the size is less than 70 % full of what the old one
held; TLC evaluates it for the run's sizes. `SizesArePrime` says that `next_prime`
gives a prime for the base sizes that doubling leads to: `is_prime` also takes the
square of a prime for one, on which a probe need not visit every slot, but from the
code's 50 on none is met before an `int` overflows (53, 101, 211, ..., 838860817). `KernelAssumption` asks of the screen
what the crate's `test_println_output` relies on: a row above the last (the buffer
has 25), and that the byte it writes is printable. `MicSamplesAssumption`, of which only
`SoundIsKept` makes use, scales the words of a slot: a sample has an even number of
bits, and what is to be heard is a sample and a half wide, as the microphone's 24
bits are to the code's 16. `PlaybackAssumption` has whole frames and whole
descriptors in the ring, as the `dma_buffers!(0, 8 * 4092)` of the firmware has, and
slots that are all data, as the one part there is has them (`Data32Channel32`); `DescriptionsAssumption` says what a file may be described
as: samples that fit an `i16`, the fields of an `fmt ` chunk of whatever length their
`u16` and `u32`, ids of four bytes, sizes that fit their `u32`, and a last chunk that
claims any number of bytes more than it has but one, which the padding of an odd
chunk would make up for. The bounds of the runs occur in the modules as guards; no
proof needs them (of the screen's program, `ProgramAssumption` says that rows and
lengths are numbers), except that `MaxFed` is also what the filter's scale is made of.

`FirmwareProofs`, for the button, with all timings, every modulus and any spacing of
the calls:

* `ButtonTypeCorrect`, `NeverBelievedEarly`, `NeverLongEarly`, `ReportedInTime`,
  `KeepsPromise`: the types, `BelievedOnlyWhenSettled`, `LongPressOnlyWhenHeld`,
  `ReportedWhenDue` and the refinement of `ButtonProtocol`. `ReportedWhenDue` says
  itself for which spacing of the calls and which holds it is meant: the counter
  must not lap between a change and the call that could report it.
* The invariant (`ButtonInv`): the candidate level is the last sample, and the times
  the code keeps are the real times they stand for, truncated. What was needed
  is `TruncatedAgeIsSafe`: the wrapped difference of two truncated times is never
  more than the real one, so that what looks old enough is; and, for
  `ReportedInTime`, that the two are equal while the counter has not lapped.
* `LoopRunsTheButton`: every behaviour of the firmware is one of the button, so that
  all of these hold in it.

`FirmwareProofs`, for the encoder, with every ratio an i8 can hold and every movement
of the shaft:

* `PositionIsRight`, `NoPhantomStep`, `LossesAreEven`, `NothingIsUnaccounted`,
  `AccumulatorNeverOverflows`.
* The invariant: the count is the position in transitions and what is pending;
  the pending part is less than a detent; the count is how far the samples have
  moved since the baseline, exactly or, once a transition was missed, modulo two;
  and until one was, the pending part is how far they have moved since the last
  step. None of the five properties is inductive by itself: the position is right
  because the count is and nothing is lost between the two. `TableReadsMovement`
  and `TableReadsParity` say what the transition table reads between neighbours
  and between any two places, `OutcomeSplits` what a report is worth.

`FirmwareProofs`, for the speaker, with every file (any chunks in any order, cut off
anywhere), a ring and descriptors of any size, and any chunk and staging buffer:

* `ClipIsReadRight` (`ReadsWhatIsThere`), from the bytes to the samples. `ParserIsRight`
  is the parser's part, and its three steps are those of the code: where each chunk of
  the description is in the file (`EncodedAre`, `StartsAre`, of `Holds`: a sequence of
  bytes is there at an offset) and what is read there (`HeaderRead`, `BodyRead`, from
  `Halves` and `Parts`: two bytes make a number and are made of it); what the walk
  collects (`ChunksAre`: the chunks that are wholly there, in order, and `Truncated`
  if a header follows them, by induction from the last of them back to the first);
  and which of them wins (`ChosenSeen`). `ClipIs` is the iterator's: a frame is there
  whole or is not (`OneChannel`, `TwoChannels`), rounding towards zero is the mean's
  (`QuotientIsMean`). `ReaderInv` adds where the loop has got to. The two recursive
  functions, of the walk and of the encoding, are reached by showing that a function
  that solves the equation exists (`WalksExist`, `JoinsExist`).
* `ClipIsPlayedInOrder` (`PlayedInOrder`) and `TailIsPlayed` (`TailIsHeard`), from the
  samples to the amplifier; with the above, from the bytes of the file.
* The invariant (`PlaybackInv`) sees a stream of slots without end, a ring of silence,
  the clip and silence again, of which `Pushed` says how much was pushed. The ring
  holds the last `Capacity` slots of it, each at its number modulo `Capacity`
  (`RingHoldsTheLast`); until it starves the hardware has heard as much as was
  pushed and drained, and plays at that number modulo `Capacity` (`HeardSoFar`).
  So the next slot it plays is the next of the stream. A push that fits in what is
  given back (`AcceptedFits`, from `GivenBack`) keeps that, wherever the ring wraps
  (`PushKeepsPlaces`), and when flush has pushed a ring of silence no place is left
  that holds anything else (`EveryPlace`).

`DeviceProofs`, for every size of frame, buffer and scratch, every set of
grains and any request:

* `ChannelsNeverSwap` (`PhaseNeverSlips`), `DiscardsWhatWasAsked`
  (`DiscardIsExact`), `NoSpuriousOverrun` (`RefusedOnlyWithReason`).
* The invariant: until the buffer has overflowed, the first byte that is waiting
  begins a frame, which is what makes a pop of whole frames end where one ends;
  and while a discard is on its way, the byte it has got to and what is left of
  it add up to its goal. Of a call that has asked and not popped (`Pending`,
  `Reasoned`): it takes whole frames, no more than there is and than it has room for,
  and all there is exactly as long as nothing speaks against it, which the hardware
  can change at any moment. The lemmas before it are about multiples: rounding down
  and up to whole frames, and sums of them. These theorems are about `Recording`
  with its own user, which reads and discards anything at any moment; the program
  of `MicSamples` takes the same steps of it (`SamplesStep`).
* `SoundIsKept` (`SamplesAreTheSound`), for that program, with every width of
  sample and any sound. The invariant (`SamplesIInv`) adds what the property leaves
  out: the filter's state is the last input and, exactly, the reference's response
  at it (`Follows`), also when no block is in hand; and the meter has what was given
  to it (`Metered`). Reading keeps it because pops begin and end with whole frames,
  which is the invariant of `Recording`, and because the shift, the cast and the
  choice of the slot undo how a word is made (`Unpacked`, `TopInRange`). Filtering
  keeps it because the response a sample later is half of the one before it plus
  what rose last (`Fades`), and nothing that is heard later changes it
  (`SameResponse`). Truncating and saturating is the reference's rounding, which no
  other sample meets (`SaturatedRounds`, `RoundsToOne`). The recursive functions
  are reached by showing that there is an iterate (`Iterates`, by the least
  counterexample) and that a sum is determined by its terms (`SumIsOne`).

`DeviceProofs`, for the screen, with text of any length on any row, any uptime, and
any `usize` of 16 bits or more:

* `PanelStaysTrue` (`PanelIsTrue`), for the firmware and for a program of its own.
* The invariant (`ScreenInv`) of the firmware says which pages have been sent: those
  below `page` show what is in the framebuffer, all of them when it waits
  (`PagesSent`); and that what is drawn is a frame that is due: the first one a splash
  after the boot, each of the others a second or more after the one before it
  (`FrameIsDue`), which is what bounds the count by the uptime. That a frame is
  legible (`FrameIsLegible`) rests on `TextsFit`: no text of an uptime or a count is
  longer than 17 characters, and a buffer of as many bytes has it whole
  (`FittingIsWhole`, by induction over what `write_str` has written). The buffer of
  24 bytes is what `FirmwareAssumption` needs. Numbers have ten digits at most in the
  model, which for the count of frames is 300 years. For the program, every box is
  inside and every centred one in the middle (`LineIsInside`, `CenteredIsInside`),
  also where the width of the text saturates.

`ContainersProofs`, for vectors of any first capacity, elements, indices and number of
blocks:

* `MemoryIsTheVectors` (`BlockIsTheVectors`): the heap has the vector's block and
  nothing else, of the size the vector believes, and what it counts as elements
  are. `VectorIsASequence` (`SequenceSpec`): it implements `ElementSequence`. What
  is undefined in the code is not passed over: the two calls that are
  (`index == size`, and iterating before the first push) are steps of the vector and
  must be steps that the sequence leaves undefined, and no other call may be.
* The invariant (`VectorInv`) is `BlockIsTheVectors` and the types of the fields.
  `GrowthKeepsElements` is the step that needs it: a growth frees the old block
  after copying what it says are the elements, and leaves everything else
  `Uninit`. The refinement then has one lemma for each call, that its step is the
  sequence's call or leaves the sequence alone.

`ContainersProofs`, for hash tables of any keys, hashes and first size, with or
without a `malloc` that fails:

* `ReachableAlways` (`ItemsAreReachable`) and `SearchIsRight`
  (`SearchIsRightUnlessDoubted`), deletions and failed copies of a resize included.
* The invariant (`TableInv`): the slots, the size and the count have their types;
  every item is reachable; and, while no call has hung, what a search for a key that
  is not in doubt would find is right (`Agrees`, `Latest`): of the items of the key
  that its probe meets before an empty slot the first has the value last inserted,
  and all that it meets up to there are that item; or the key was deleted and no
  slot holds it. An insertion makes this so for its key whatever lies behind, a
  deletion leaves it so if nothing does (else the key comes into doubt), and neither
  disturbs another key (`LatestElsewhere`): a slot is never emptied.
* For a resize, the old table's items go one by one into the new one. A key of which
  there is one item and a copy of it has one in the new table (`OneIsLatest`); the
  others are the resize's `Doubts`.
* A resize moves any number of items, one insertion each. `RefillsExist` shows that
  the recursive function that describes it exists, by a least counterexample;
  `RefilledAlways` that after each slot the new table holds what was moved, and
  everything in it is reachable. The new table is not resized in turn: by
  `PrimeAssumption` it is less than 70 % full.
* A search is right if it ends. An insertion whose probe moves does
  (`InsertionEnds`, for `InsertEnds`). `Counted` is the invariant: the count is the
  number of live slots, and the size is the next prime of a base size that doubling
  leads to. A table that is not resized is then at most 70 % full, one that is has
  moved at most as many items as the old one had slots (`GrownHasRoom`), so some slot
  holds none. `PrimeMultiples` and `ProbeVisitsAll` show that the probe meets it: the
  least attempt at which the multiples of a step return to 0 would divide the size.

`MicCaptureProofs`, for any sizes of reads, blocks, frames and buffers, any
warm-up and any timeouts:

* `Contiguous` (`FramesAreContiguous`), `Adjoin` (`FramesAdjoin`), and `Probing`
  (`ProbingIsFree`) for constants that satisfy `ProbesFit`: a block of samples
  completes some number of frames, each of them may wait for one probe's timeout,
  and all of these together fit between two reads. With the numbers of `main.rs`
  a block completes at most two frames, and 32 samples of time fit in the 512.
  Without that the property is false: a probe that is longer than the buffer
  loses audio by itself.
* The invariant (`IInv`) is `Types`, `Lined` and `OverrunsCounted`. `Lined` is what
  the property needs beyond itself: the samples in the frame and the block spell out
  a run that ends exactly where the next read will begin, both in the transfer and
  in the filter, and the last frame is a run that ended before it, right before it
  when no overrun came between. `OverrunsCounted` is why "no overrun between" can
  be read off the counter. For `Probing` another invariant is added (`Unhurried`):
  since the last read no more time has passed than the probes of this block have
  asked for, and a read that has asked is to take all there is. Time that passes
  within a read, between asking and popping, counts as delay: the read fails then,
  prompt or not, and not for the probes.

`PollServerProofs`, for any finite set of clients, any texts, any `buf`, and a first
array of any size:

* `EntriesHold` (`EntriesAreTheConnections`): the array holds the listener and every
  open connection, each once. `IsAChatRoom` (`ChatSpec`).
* The invariant (`IInv`): the listener's entry is the first and stays there, and the
  others that are in use and the open connections correspond one to one
  (`EntriesOK`); the inner loop runs in an array that does not change, for the
  client at `i` (`LoopsOK`); and everyone who is connected has been sent what was
  addressed to him, less the message that the inner loop has not come to him with
  (`EveryoneHeard`). A removal moves the last entry into the gap: `RemovedEntry`
  shows that what is left is what was there, without the closed one. Nothing in the
  invariant is about `revents`, and nothing could be: an entry may be reported that
  is not ready (`PollServerClaims.cfg`), which delays everyone but breaks nothing.

`SelectServerProofs`, for any finite set of clients, any texts and any `buf`:

* `Reached` (`MasterIsTheConnections`), `ReadyWhenReceived`
  (`ReceivesOnlyWhenReady`), `IsAChatRoom` (`ChatSpec`).
* The invariant: master and the connections are in a one-to-one relation that
  `fdmax` bounds (`TableOK`); what `select` reported for a descriptor that the scan
  has not come to is still so, as only the server closes, and only the one it is
  at (`ReportsHold`); and everyone who is connected has been sent what was
  addressed to him, less the text that the inner loop has not come to him with
  (`EveryoneHeard`). The refinement then has one lemma for each action: taking a
  text is the room's step, each `send` of it leaves the room alone. That `accept`
  finds a free descriptor is the pigeonhole principle, over one more descriptor
  than there are clients.

`KvServerProofs`, for any finite set of clients, any requests, buffers and sockets:

* `TypeCorrect` (`TypeOK`), `Fresh` (`DescriptorsAreFresh`), `Whole`
  (`ResponsesAreWhole`), `IsAService` (`ServiceSpec`).
* The types include that `rbuf` never holds more than it has room for: each read
  asks for what is left, although the assertion after it compares with half.
* The invariant: what `poll` reported and the loop has not done is still in the
  table (`Control`); a client is new, waits, is connected by one descriptor, or is
  gone (`Population`); and each connection stands at one place in its client's
  requests and responses: it has answered those before its front, its `wbuf` holds
  the answer to the last of them, and the client's socket and what it has read
  end where that goes on (`Progress`). With it `ResponsesAreWhole`, which is
  about each unit and the units before it, is preserved by a `send` of any part.
  The refinement maps one handled request to one service, and every other step
  but the clients' own requests to a stutter.

`KernelProofs`, for any screen, keys and test suites, and any number of ticks and
key presses:

* `LocksAreFree` (`NeverWedged`): no code waits for a lock that its own processor
  holds, and no interrupt or exception comes before its handler and its stack.
* The invariant: the operations that are left in a frame fit together
  (`Chained`), each leaving held and masked what the next one expects, so that what
  a frame holds is read off its next operation (`Before`, `Held`); and the machine
  is starting, running, in a handler, or has failed a test, each with the locks
  and the interrupt flag that it may have. A handler runs only over a flow that
  holds nothing, as whatever takes the screen's or the port's lock does it with
  interrupts off; `read_scancode`'s lock is the handler's own, and is held past the
  end of interrupt but not past the return. A failed test keeps the screen's lock
  for good, and what follows it only prints to the port, whose lock is free.
  The lemmas before it say for each function of the kernel which operations it is
  made of and that they fit together, for any text and any suite.
* `MessagesStayWhole` (`ScreenShowsWholeMessages`): on top of that invariant,
  `MessagesOK` says that both devices' logs are whole messages so far (`LogOK`),
  that the writer's rows are what the log's text leaves on a screen (`WriterOK`),
  and where the message that is being written stands: the frame that has written
  some of it goes on with its next byte and holds the device's lock, or each log
  ends with the last byte of a message. That a text's screen can be computed byte
  by byte, which is what the writer does, is shown from the definition of `Screen`
  over all the text (`Lines` is a recursive function on the length of the text, so
  it is unfolded by well-founded recursion, not by induction over data): one more
  byte adds to the last line, wraps it or begins a new one, and what the earlier
  bytes left above it only scrolls.
* `VerdictIsHonest` (`VerdictIsTrue`): the harness reports success only after every
  test of the suite has run and none fails, and failure at the first that does,
  with nothing run after it. What a piece of code will say to the host, and how it
  ends, is computed from its last operation backwards (`Said`, `Tells`): words sent
  to the port, then an exit, a halt or the next turn of the loop over the tests; a
  panic anywhere means `[failed]`, `Error` and a failing exit, and the code of a
  handler says nothing. The invariant `VerdictOK` is that what the host has read so
  far, followed by what the frames will still say, is what it should read at that
  end (`Judged`): so a step that says nothing keeps it as it was, a step that says
  a word moves it from one part to the other, and only the loop's turn (`RunTests`)
  has to be argued about (`TurnIsJudged`). An assertion on the screen is the one
  place where the outcome depends on a device: with both other invariants, the row
  above the last shows the line that the test has just written whole, whoever
  printed before it, as no handler runs between the writing and the look
  (`LineIsShown`, `InterruptVerdict`).

Only model-checked:

* everything about `MicStream`. What its parser yields depends on what the payloads
  look like: the two invariants hold of the run's payloads and not of all, since a
  frame within a frame is one that no parser can tell from a true one;
* liveness and `ENABLED`, which are out of the prover's reach; and what the other
  recursive definitions compute for every input: the library's induction theorems
  take an operator, which the provers cannot instantiate, so that an induction has
  to go over a set, as `Upwards` does in `DeviceProofs`.

## 7. Abstractions and what is left out

* Keys and messages are small numbers or model values. Samples are integers; the
  DC blocker is modelled at one pole, where no float is rounded, and the meter
  without the decibels of its log.
* Register set-up and pins; a driver's `start` that fails, which panics; the
  tables of `tone.rs`; the screen's brightness and sleep; `i2cscan.rs`; logging
  and the text of messages.
* The kernel's spurious interrupts and keys before its controllers are set up.
* The operating system, the serial line and the hardware-abstraction layer are
  external: `ChatSockets`, the sockets of `KvServer`, the transfers of `Recording`
  and `Playback`, the interrupt controllers and the panel are written from how the
  code uses them, and allow more than one system or chip does.
* kvdb's listener, its log and the errors of system calls other than a closed
  connection and a failed `malloc`.
* `EINTR`, which none of the servers handles.
* The components listed in `PROJECT.json` as not modelled, with the reason; the
  plan says which come next.

Every run ends within about two and a half minutes on two workers:

    tlc -workers 2 -config MicStream.cfg MCMicStream.tla
    tlapm FirmwareProofs.tla
