--------------------------------- MODULE Chat ---------------------------------
(***************************************************************************)
(* What a chat server of C/Program-08 promises: a message goes to everyone *)
(* who is in the room when it is taken, and everyone who stays hears what  *)
(* was addressed to them, all of it, once, and in one order.               *)
(***************************************************************************)
EXTENDS Sequences, SequencesExt

CONSTANTS Clients, Texts

VARIABLES
  members,   \* the clients in the room
  gone,      \* the clients who have hung up, noticed or not
  addressed, \* the texts of the messages taken, for each client they are for
  heard      \* the texts each client was sent

Init ==
  /\ members = {}
  /\ gone = {}
  /\ addressed = [c \in Clients |-> <<>>]
  /\ heard = [c \in Clients |-> <<>>]

Join(c) ==
  /\ c \notin members
  /\ members' = members \cup {c}
  /\ UNCHANGED <<gone, addressed, heard>>

Leave(c) ==
  /\ c \in members \cap gone
  /\ members' = members \ {c}
  /\ UNCHANGED <<gone, addressed, heard>>

HangUp(c) ==
  /\ gone' = gone \cup {c}
  /\ UNCHANGED <<members, addressed, heard>>

\* A message is taken, for all the others at once, when no one who is still there
\* waits for an earlier one.
Say(c, texts) ==
  /\ c \in members
  /\ \A d \in members \ gone : heard[d] = addressed[d]
  /\ addressed' = [d \in Clients |->
                     IF d \in members \ {c} THEN addressed[d] \o texts ELSE addressed[d]]
  /\ UNCHANGED <<members, gone, heard>>

Hear(c, texts) ==
  /\ c \in members \ gone
  /\ heard' = [heard EXCEPT ![c] = @ \o texts]
  /\ IsPrefix(heard'[c], addressed[c])
  /\ UNCHANGED <<members, gone, addressed>>

Next ==
  \E c \in Clients :
    \/ Join(c)
    \/ Leave(c)
    \/ HangUp(c)
    \/ \E texts \in Texts : Say(c, texts) \/ Hear(c, texts)

Spec == Init /\ [][Next]_<<members, gone, addressed, heard>>
===============================================================================
