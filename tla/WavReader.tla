------------------------------ MODULE WavReader ------------------------------
(***************************************************************************)
(* A user of Wav: it parses a file and iterates its samples to the end.    *)
(* The files are given by what is in them - the list of chunks, what the   *)
(* last one claims beyond its size, and where the file was cut off - so    *)
(* that what the parser makes of the bytes can be compared with it.        *)
(***************************************************************************)
EXTENDS Wav

CONSTANT Descriptions

\* A chunk is [id, samples, extra] for data, [id, size, format, channels,
\* rate, bits] for fmt, and [id, size] for any other.
le16(n) == <<n % 256, (n \div 256) % 256>>
le32(n) == le16(n % 65536) \o le16(n \div 65536)

Zeros(n) == [i \in 1..n |-> 0]
Pcm(samples) ==
    [i \in 1..(2 * Len(samples)) |-> le16(samples[(i + 1) \div 2] % 65536)[IF i % 2 = 1 THEN 1 ELSE 2]]

fmt_chunk(c) ==
    le16(c.format) \o le16(c.channels) \o le32(c.rate) \o le32(c.rate * c.channels * (c.bits \div 8))
        \o le16(c.channels * (c.bits \div 8)) \o le16(c.bits)

Payload(c) ==
    CASE c.id = FMT -> SubSeq(fmt_chunk(c) \o Zeros(2), 1, c.size)
      [] c.id = DATA -> Pcm(c.samples) \o Zeros(c.extra)
      [] OTHER -> Zeros(c.size)

ChunkBytes(c, claim) ==
    LET payload == Payload(c)
    IN  c.id \o le32(Len(payload) + claim) \o payload \o Zeros(Len(payload) % 2)

Claim(d, i) == IF i = Len(d.chunks) THEN d.claim ELSE 0

\* The first n chunks.
Encoded(d) ==
    LET first[n \in 0..Len(d.chunks)] ==
        IF n = 0 THEN <<>> ELSE first[n - 1] \o ChunkBytes(d.chunks[n], Claim(d, n))
    IN  first

Body(d) == Encoded(d)[Len(d.chunks)]

\* The file, of which the first `cut' bytes are left.
build_file(d) ==
    LET file == d.riff \o le32(4 + Len(Body(d))) \o d.wave \o Body(d)
    IN  IF d.cut < Len(file) THEN SubSeq(file, 1, d.cut) ELSE file

byte == 0 .. 255
u16_max == 65535
u16_range == 0 .. u16_max
i16_min == -32768
i16_max == 32767
i16_range == i16_min .. i16_max
u32_range(n) == n \in Nat /\ n \div 65536 < 65536

\* What a chunk may be: an fmt chunk may be cut short or longer than is read, data may
\* end with half a sample.
IsChunk(c) ==
    /\ c.id = FMT => /\ c.size \in 0..18 /\ u32_range(c.rate)
                     /\ {c.format, c.channels, c.bits} \subseteq u16_range
    /\ c.id = DATA => c.samples \in Seq(i16_range) /\ c.extra \in 0..1
    /\ c.id \notin {FMT, DATA} => c.id \in [1..4 -> byte] /\ c.size \in Nat

\* A claim of one byte more would be met by an odd chunk's padding.
ASSUME DescriptionsAssumption ==
    \A d \in Descriptions :
        /\ {d.riff, d.wave} \subseteq [1..4 -> byte]
        /\ Len(d.chunks) \in Nat /\ DOMAIN d.chunks = 1..Len(d.chunks)
        /\ d.claim \in Nat \ {1} /\ d.cut \in Nat
        /\ \A i \in DOMAIN d.chunks :
              IsChunk(d.chunks[i]) /\ u32_range(Len(Payload(d.chunks[i])) + d.claim)

VARIABLES description, bytes, wav, frame, yielded

reader_vars == <<description, bytes, wav, frame, yielded>>

Unparsed == [error |-> "unparsed"]

ReaderInit ==
    /\ description \in Descriptions
    /\ bytes = build_file(description)
    /\ wav = Unparsed /\ frame = 0 /\ yielded = <<>>

Parse ==
    /\ wav = Unparsed
    /\ wav' = parse(bytes)
    /\ UNCHANGED <<description, bytes, frame, yielded>>

NextSample ==
    /\ wav.error = "none" /\ ~Exhausted(wav, frame)
    /\ yielded' = Append(yielded, sample(wav, frame))
    /\ frame' = frame + 1
    /\ UNCHANGED <<description, bytes, wav>>

ReaderNext == Parse \/ NextSample

----------------------------------------------------------------------------
(* What a file holds, from its description. *)

Start(d, i) == 12 + Len(Encoded(d)[i - 1])

HeaderIsThere(d, i) == Start(d, i) + CHUNK_HEADER <= Len(bytes)
BodyIsThere(d, i) ==
    Start(d, i) + CHUNK_HEADER + Len(Payload(d.chunks[i])) + Claim(d, i) <= Len(bytes)

\* The last chunk of an id that is wholly in the file, 0 for none.
Chosen(d, id) ==
    LET found == {i \in DOMAIN d.chunks : d.chunks[i].id = id /\ BodyIsThere(d, i)}
    IN  IF found = {} THEN 0 ELSE CHOOSE i \in found : \A j \in found : j <= i

Expected(d) ==
    LET fmt == d.chunks[Chosen(d, FMT)]
    IN  CASE Len(bytes) < 12 -> "Truncated"
          [] Len(bytes) >= 12 /\ d.riff # RIFF -> "NotRiff"
          [] Len(bytes) >= 12 /\ d.riff = RIFF /\ d.wave # WAVE -> "NotWave"
          [] OTHER ->
               IF \E i \in DOMAIN d.chunks : HeaderIsThere(d, i) /\ ~BodyIsThere(d, i) THEN "Truncated"
               ELSE IF Chosen(d, FMT) = 0 THEN "MissingFmt"
               ELSE IF Chosen(d, DATA) = 0 THEN "MissingData"
               ELSE IF fmt.size < 16 THEN "Truncated"
               ELSE IF fmt.format = 1 /\ fmt.bits = 16 /\ fmt.channels \in {1, 2} THEN "none"
               ELSE "Unsupported"

\* The frames of a file's sound, two samples in each when it is stereo: of the two
\* whole numbers next to the mean, the one nearer to zero.
Frames(d) ==
    LET s == d.chunks[Chosen(d, DATA)].samples
        Mean(sum) == IF sum >= 0 THEN sum \div 2 ELSE (sum + 1) \div 2
    IN  IF d.chunks[Chosen(d, FMT)].channels = 1 THEN s
        ELSE [k \in 1..(Len(s) \div 2) |-> Mean(s[2 * k - 1] + s[2 * k])]

\* Whatever chunks a file has, in whatever order, however it was cut: the parser
\* finds the sound its chunks describe, or says what is wrong, and the iterator
\* yields its frames in order, knows how many are left and forgets the part of a
\* frame at the end (wav.rs:52-119, 132-188).
ReadsWhatIsThere ==
    wav # Unparsed =>
        /\ wav.error = Expected(description)
        /\ wav.error = "none" =>
            /\ wav.sample_rate = description.chunks[Chosen(description, FMT)].rate
            /\ frames(wav) = Len(Frames(description))
            /\ LET played == duration_ms(wav) * wav.sample_rate
                   wanted == 1000 * Len(Frames(description))
               IN  wav.sample_rate > 0 => played <= wanted /\ wanted < played + wav.sample_rate
            /\ yielded = SubSeq(Frames(description), 1, frame)
            /\ Left(wav, frame) = Len(Frames(description)) - frame
            /\ Exhausted(wav, frame) <=> frame = Len(Frames(description))
=============================================================================
