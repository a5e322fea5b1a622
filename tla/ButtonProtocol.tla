---------------------------- MODULE ButtonProtocol ----------------------------
(***************************************************************************)
(* What a debounced button promises its caller (the documentation of       *)
(* ButtonEvent): presses and releases alternate, and between them there is *)
(* at most one long press.                                                 *)
(***************************************************************************)
VARIABLES phase, last

vars == <<phase, last>>

Init == phase = "up" /\ last = "None"

Press   == phase = "up" /\ phase' = "down" /\ last' = "Pressed"
Long    == phase = "down" /\ phase' = "held" /\ last' = "LongPress"
Release == phase \in {"down", "held"} /\ phase' = "up" /\ last' = "Released"
Quiet   == last' = "None" /\ UNCHANGED phase

Next == Press \/ Long \/ Release \/ Quiet

Spec == Init /\ [][Next]_vars
=============================================================================
