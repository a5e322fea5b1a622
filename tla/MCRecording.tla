---------------------------- MODULE MCRecording ----------------------------
EXTENDS MicSamples

\* Steps between the ends of the scale, that overshoot, and small ones, on the left;
\* only positive sound on the right.
MCSound ==
  [Left |-> <<2047, -2048, 100, -17, 2047>>, Right |-> <<16, 48, 1600, 32, 800, 64, 15>>]
=============================================================================
