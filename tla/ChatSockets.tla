----------------------------- MODULE ChatSockets -----------------------------
(***************************************************************************)
(* The sockets between the clients and a chat server (C/Program-08), which *)
(* pollserver.c and selectserver.c share: the clients and the kernel, as   *)
(* the servers' accept, recv and send see them.  Both are outside the      *)
(* repository.  A client connects once, speaks, reads and hangs up.        *)
(***************************************************************************)
EXTENDS Integers, Sequences, FiniteSets, FiniteSetsExt

CONSTANTS
  Clients,
  Talkers,      \* the clients that say something
  MaxTexts,     \* bound: how many texts each of them says
  BUF,          \* texts that fit the server's `buf' (256 bytes)
  SendCap       \* texts that fit between the server and a client who does not read

ASSUME SocketAssumption ==
  /\ IsFiniteSet(Clients)
  /\ Talkers \subseteq Clients /\ MaxTexts \in Nat
  /\ BUF \in Nat \ {0}
  /\ SendCap \in Nat /\ SendCap >= BUF

VARIABLES
  net,        \* each client's connection, seen from both ends
  addressed,  \* history: what the server took while each client was connected
  heard       \* history: what each client was sent

sockets == <<net, addressed, heard>>

SocketsInit ==
  /\ net = [c \in Clients |->
              [phase |-> "away", up |-> <<>>, spoken |-> 0, unread |-> 0,
               hungup |-> FALSE, reset |-> FALSE]]
  /\ addressed = [c \in Clients |-> <<>>]
  /\ heard = [c \in Clients |-> <<>>]

\* What the clients may say, and what one recv may take.
Says == Talkers \X (1 .. MaxTexts)
Chunks == UNION {[1 .. n -> Says] : n \in 1 .. BUF}

InPhase(p) == {c \in Clients : net[c].phase = p}
Backlog == InPhase("backlog")        \* connected, not accepted yet
Accepted == InPhase("open")          \* accepted, not closed by the server

\* What poll and select report as POLLIN: data, or the end of the data.
Readable(c) == net[c].up # <<>> \/ net[c].hungup

-----------------------------------------------------------------------------
(* The clients. *)

Connect(c) ==
  /\ net[c].phase = "away"
  /\ net' = [net EXCEPT ![c].phase = "backlog"]
  /\ UNCHANGED <<addressed, heard>>

Speak(c) ==
  /\ net[c].phase # "away" /\ ~net[c].hungup
  /\ c \in Talkers /\ net[c].spoken < MaxTexts
  /\ net' = [net EXCEPT ![c].spoken = @ + 1,
                        ![c].up = Append(@, <<c, net[c].spoken + 1>>)]
  /\ UNCHANGED <<addressed, heard>>

Read(c) ==
  /\ net[c].unread > 0 /\ ~net[c].hungup
  /\ net' = [net EXCEPT ![c].unread = 0]
  /\ UNCHANGED <<addressed, heard>>

HangUp(c) ==
  /\ net[c].phase # "away" /\ ~net[c].hungup
  /\ net' = [net EXCEPT ![c].hungup = TRUE, ![c].unread = 0]
  /\ UNCHANGED <<addressed, heard>>

ClientNext == \E c \in Clients : Connect(c) \/ Speak(c) \/ Read(c) \/ HangUp(c)

-----------------------------------------------------------------------------
(* The server's calls; each says what becomes of `sockets'. *)

\* accept: a connection leaves the backlog.
accept(c) ==
  /\ net' = [net EXCEPT ![c].phase = "open"]
  /\ UNCHANGED <<addressed, heard>>

\* recv: what is there, as far as the buffer reaches.
Chunk(c) == SubSeq(net[c].up, 1, Min({Len(net[c].up), BUF}))

recv(c) ==
  /\ net[c].up # <<>>
  /\ net' = [net EXCEPT ![c].up = SubSeq(@, Len(Chunk(c)) + 1, Len(@))]
  /\ addressed' = [d \in Clients |->
                     IF d \in Accepted \ {c} THEN addressed[d] \o Chunk(c) ELSE addressed[d]]
  /\ UNCHANGED heard

\* recv returns 0 or -1, and the server closes the connection.
recv_end_close(c) ==
  /\ net[c].up = <<>> /\ net[c].hungup
  /\ net' = [net EXCEPT ![c].phase = "closed"]
  /\ UNCHANGED <<addressed, heard>>

\* A blocking send.  The first one to a client who has hung up is lost, and may
\* be answered by a reset of the connection.
send(c, texts) ==
  /\ ~net[c].reset
  /\ \/ /\ ~net[c].hungup
        /\ net[c].unread + Len(texts) <= SendCap
        /\ net' = [net EXCEPT ![c].unread = @ + Len(texts)]
        /\ heard' = [heard EXCEPT ![c] = @ \o texts]
     \/ /\ net[c].hungup
        /\ \E r \in BOOLEAN : net' = [net EXCEPT ![c].reset = r]
        /\ UNCHANGED heard
  /\ UNCHANGED addressed

\* A send on a connection that was reset raises SIGPIPE, which neither server
\* blocks or handles: the process ends.
send_raises_SIGPIPE(c) == net[c].reset /\ UNCHANGED sockets

-----------------------------------------------------------------------------
SocketsTypeOK ==
  /\ \A c \in Clients :
       /\ net[c].phase \in {"away", "backlog", "open", "closed"}
       /\ net[c].up \in Seq(Says)
       /\ net[c].spoken \in 0 .. MaxTexts
       /\ net[c].unread \in 0 .. SendCap
       /\ net[c].reset => net[c].hungup
=============================================================================
