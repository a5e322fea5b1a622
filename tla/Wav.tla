--------------------------------- MODULE Wav ---------------------------------
(***************************************************************************)
(* The RIFF/WAVE parser of src/Rust/speaker/crates/i2s-speaker/src/wav.rs. *)
(* A file is a sequence of bytes; offsets count from 0 as in the code.     *)
(***************************************************************************)
EXTENDS Integers, Sequences, SequencesExt

CHUNK_HEADER == 8

\* "RIFF", "WAVE", "fmt ", "data"
RIFF == <<82, 73, 70, 70>>
WAVE == <<87, 65, 86, 69>>
FMT == <<102, 109, 116, 32>>
DATA == <<100, 97, 116, 97>>

\* &bytes[from..to]
Slice(bytes, from, to) == SubSeq(bytes, from + 1, to)

\* from_le_bytes of a u16, a u32 (small enough for the checker's integers) and an i16
u16(bytes, at) == bytes[at + 1] + 256 * bytes[at + 2]
u32(bytes, at) == u16(bytes, at) + 65536 * u16(bytes, at + 2)
i16(bytes, at) == IF u16(bytes, at) < 32768 THEN u16(bytes, at) ELSE u16(bytes, at) - 65536

Failed(error) == [error |-> error]

\* A fault: the byte that pads an odd chunk is taken for the next header's first.
NextChunkUnpadded(end, size) == end

\* Odd-sized chunks are padded to an even boundary.
NextChunk(end, size) == end + (size % 2)

\* The walk over the chunk list: what it finds from each position on.  An end
\* beyond the file is Truncated, whether the addition overflows or not.
Chunks(bytes) ==
    LET walk[pos \in 12..(Len(bytes) + 1)] ==
        IF pos + CHUNK_HEADER > Len(bytes) THEN <<>>
        ELSE LET size == u32(bytes, pos + 4)
                 body == pos + CHUNK_HEADER
                 end == body + size
             IN  IF end > Len(bytes) THEN <<[id |-> "Truncated"]>>
                 ELSE <<[id |-> Slice(bytes, pos, pos + 4), body |-> Slice(bytes, body, end)]>>
                        \o walk[NextChunk(end, size)]
    IN  walk[12]

\* The chunks of an id, of which the last one wins.
Found(chunks, id) == {i \in DOMAIN chunks : chunks[i].id = id}
LastBody(chunks, id) ==
    chunks[CHOOSE i \in Found(chunks, id) : \A j \in Found(chunks, id) : j <= i].body

ReadFormat(fmt, data) ==
    LET format == u16(fmt, 0)
        channels == u16(fmt, 2)
        bits == u16(fmt, 14)
    IN  IF format # 1 \/ bits # 16 \/ channels \notin {1, 2} THEN Failed("Unsupported")
        ELSE [error |-> "none", sample_rate |-> u32(fmt, 4), channels |-> channels, data |-> data]

\* Wav::parse
parse(bytes) ==
    IF Len(bytes) < 12 THEN Failed("Truncated")
    ELSE IF Slice(bytes, 0, 4) # RIFF THEN Failed("NotRiff")
    ELSE IF Slice(bytes, 8, 12) # WAVE THEN Failed("NotWave")
    ELSE LET chunks == Chunks(bytes)
             truncated == chunks # <<>> /\ Last(chunks) = [id |-> "Truncated"]
         IN  IF truncated THEN Failed("Truncated")
             ELSE IF Found(chunks, FMT) = {} THEN Failed("MissingFmt")
             ELSE IF Found(chunks, DATA) = {} THEN Failed("MissingData")
             ELSE IF Len(LastBody(chunks, FMT)) < 16 THEN Failed("Truncated")
             ELSE ReadFormat(LastBody(chunks, FMT), LastBody(chunks, DATA))

frames(wav) == Len(wav.data) \div (2 * wav.channels)

\* Whole milliseconds of sound
duration_ms(wav) == IF wav.sample_rate = 0 THEN 0 ELSE (frames(wav) * 1000) \div wav.sample_rate

\* Integer division rounds towards zero.
Quotient(a, b) == IF a >= 0 THEN a \div b ELSE -((-a) \div b)

\* Samples::next has no sample for a frame the data does not hold whole, ...
Exhausted(wav, frame) == (frame + 1) * 2 * wav.channels > Len(wav.data)

\* ... and else the average of its channels.
sample(wav, frame) ==
    LET at == frame * 2 * wav.channels
        left == i16(wav.data, at)
    IN  IF wav.channels = 1 THEN left ELSE Quotient(left + i16(wav.data, at + 2), 2)

\* Samples::size_hint, exact
Left(wav, frame) == IF frames(wav) >= frame THEN frames(wav) - frame ELSE 0
=============================================================================
