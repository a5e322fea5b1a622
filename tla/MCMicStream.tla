----------------------------- MODULE MCMicStream -----------------------------
EXTENDS MicStream

\* Two bytes of magic; no other byte of a frame looks like one of them.
MCMagic == <<20, 21>>
MCPayloads == {<<10, 11>>}

\* Samples that are the magic: what follows them in the next frame is no length that
\* the host believes.
MCMagicPayloads == {<<20, 21>>}

\* Samples that are a whole header, with a length the host believes.
MCHeaderPayloads == {<<20, 21, 0, 2>>}
=============================================================================
