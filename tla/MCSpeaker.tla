------------------------------ MODULE MCSpeaker ------------------------------
(***************************************************************************)
(* Two users of the speaker crate: the firmware, that plays one of the     *)
(* embedded files, and a program that reads any file with Wav alone.       *)
(***************************************************************************)
EXTENDS Playback

CONSTANT Embedded   \* the files that are embedded in a firmware

Fmt(channels) == [id |-> FMT, size |-> 16, format |-> 1, channels |-> channels, rate |-> 16000, bits |-> 16]
Data(samples) == [id |-> DATA, samples |-> samples, extra |-> 0]
List(size) == [id |-> <<76, 73, 83, 84>>, size |-> size]

Whole(chunks) == [riff |-> RIFF, wave |-> WAVE, chunks |-> chunks, claim |-> 0, cut |-> 999]

Some == <<100, -100, 300>>
Edges == <<32767, 32767, -32768, -32768, 0, -1, -7, 2, 5>>

\* chunks in every order, before, between and after, twice, and missing
Layouts ==
    {<<Fmt(n), Data(s)>> : n \in {1, 2}, s \in {<<>>, Some, Edges}}
        \cup {<<Data(Some), Fmt(2)>>, <<Fmt(1)>>, <<Data(Some)>>, <<>>,
              <<Fmt(1), List(3), Data(Some)>>, <<List(5), Fmt(2), List(2), Data(Edges), List(1)>>,
              <<Fmt(1), Data(Some), Data(Edges)>>, <<Fmt(2), Fmt(1), Data(Some)>>,
              <<Fmt(2), [Data(Some) EXCEPT !.extra = 1], List(3)>>,
              <<Fmt(1), [Data(Some) EXCEPT !.extra = 1], Fmt(2)>>,
              <<[Fmt(1) EXCEPT !.rate = 0], Data(Some)>>, <<[Fmt(1) EXCEPT !.rate = 700], Data(Some)>>}

\* formats that are not played, and fmt chunks too short and longer than needed
Formats ==
    {<<[Fmt(n) EXCEPT !.format = f, !.bits = b, !.size = s], Data(Some)>> :
        n \in 1..3, f \in {1, 3}, b \in {8, 16, 24}, s \in {14, 16, 18}}

\* A mono clip of seven frames, a stereo one of four and a half, an empty one, one
\* at a rate between the bands, and one that was cut off.
Tune == <<1000, -2, 3, 32767, -32768, 257, -129>>
Mono == Whole(<<Fmt(1), List(3), Data(Tune)>>)
MCEmbedded ==
    {Mono, Whole(<<Fmt(2), Data(<<100, 300, -7, -10, 32767, 32767, 5, 6, 9>>)>>), Whole(<<Fmt(1), Data(<<>>)>>),
     Whole(<<[Fmt(1) EXCEPT !.rate = 22050], Data(Tune)>>), [Mono EXCEPT !.cut = 60]}

MCDataFormat == [channel_bits |-> 32, data_bits |-> 32]

MCDescriptions ==
    {Whole(chunks) : chunks \in Layouts \cup Formats}
        \cup {[Whole(chunks) EXCEPT !.claim = 999] : chunks \in Layouts \ {<<>>}}
        \cup {[Whole(<<Fmt(1), List(3), Data(Some)>>) EXCEPT !.cut = n] : n \in 0..64}
        \cup MCEmbedded
        \cup {[Whole(<<Fmt(1), Data(Some)>>) EXCEPT !.riff = WAVE], [Whole(<<Fmt(1), Data(Some)>>) EXCEPT !.wave = RIFF]}

VARIABLE user

MCInit == PlaybackInit /\ user = IF description \in Embedded THEN "firmware" ELSE "library"

Library ==
    /\ user = "library"
    /\ ReaderNext
    /\ UNCHANGED <<speaker, hardware, pc, queued, total, remaining, underruns, history>>

OfFirmware(Action) == user = "firmware" /\ Action /\ UNCHANGED user

MCNext == OfFirmware(PlaybackNext) \/ (Library /\ UNCHANGED user)

FairMCSpec ==
    /\ MCInit /\ [][MCNext]_<<playback_vars, user>>
    /\ WF_<<playback_vars, user>>(OfFirmware(Play))
    /\ WF_<<playback_vars, user>>(OfFirmware(Firmware))
=============================================================================
