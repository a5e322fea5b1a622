----------------------------- MODULE SelectServer -----------------------------
(***************************************************************************)
(* selectserver.c of C/Program-08: the chat server over select, whose sets *)
(* are indexed by descriptor number.  Descriptors are numbered as the      *)
(* kernel numbers them, lowest free first, from the listener on; a number  *)
(* that was closed is used again.                                          *)
(***************************************************************************)
EXTENDS ChatSockets

VARIABLES
  master, read_fds,   \* sets of descriptors
  fdmax,
  owner,              \* the client behind each descriptor
  pc,                 \* "select", "scan", "send" or, killed by a signal, "dead"
  i, j,               \* the loop counters, both over descriptors
  buf

vars == <<sockets, master, read_fds, fdmax, owner, pc, i, j, buf>>
server == <<master, read_fds, fdmax, owner, pc, i, j, buf>>

listener == 0
Fds == 0 .. Cardinality(Clients)
None == "none"

ASSUME NoneAssumption == None \notin Clients

Init ==
  /\ SocketsInit
  /\ master = {listener} /\ read_fds = {}
  /\ fdmax = listener
  /\ owner = [fd \in Fds |-> None]
  /\ pc = "select" /\ i = 0 /\ j = 0
  /\ buf = <<>>

-----------------------------------------------------------------------------
Ready(fd) == IF fd = listener THEN Backlog # {} ELSE Readable(owner[fd])

\* select blocks until a descriptor is ready.
Select ==
  /\ pc = "select"
  /\ read_fds' = {fd \in master : fd <= fdmax /\ Ready(fd)}
  /\ read_fds' # {}
  /\ pc' = "scan" /\ i' = 0
  /\ UNCHANGED <<sockets, master, fdmax, owner, j, buf>>

Scanning == pc = "scan" /\ i <= fdmax
Reported == Scanning /\ i \in read_fds

Skip ==
  /\ Scanning /\ i \notin read_fds
  /\ i' = i + 1
  /\ UNCHANGED <<sockets, master, read_fds, fdmax, owner, pc, j, buf>>

EndScan ==
  /\ pc = "scan" /\ i > fdmax
  /\ pc' = "select"
  /\ UNCHANGED <<sockets, master, read_fds, fdmax, owner, i, j, buf>>

\* The number the kernel gives a new connection.
NewFd == Min({fd \in Fds \ {listener} : owner[fd] = None})

\* "keep track of the max".
Largest(newfd) == IF newfd > fdmax THEN newfd ELSE fdmax

\* A fault: the new connection is put into the set that is being scanned.
Scanned_too(newfd) == read_fds \cup {newfd}

\* What the scan looks at after a connection was accepted: what select reported.
Scanned(newfd) == read_fds

\* accept failing leaves everything as it was.
Accept ==
  /\ Reported /\ i = listener
  /\ \/ \E c \in Backlog :
          /\ accept(c)
          /\ owner' = [owner EXCEPT ![NewFd] = c]
          /\ master' = master \cup {NewFd}
          /\ read_fds' = Scanned(NewFd)
          /\ fdmax' = Largest(NewFd)
     \/ UNCHANGED <<sockets, owner, master, read_fds, fdmax>>
  /\ i' = i + 1
  /\ UNCHANGED <<pc, j, buf>>

Receive ==
  /\ Reported /\ i # listener
  /\ recv(owner[i])
  /\ buf' = Chunk(owner[i])
  /\ pc' = "send" /\ j' = 0
  /\ UNCHANGED <<master, read_fds, fdmax, owner, i>>

\* A fault: FD_CLR is forgotten.
Cleared_not(fd) == master

\* FD_CLR(i, &master).
Cleared(fd) == master \ {fd}

Close ==
  /\ Reported /\ i # listener
  /\ recv_end_close(owner[i])
  /\ owner' = [owner EXCEPT ![i] = None]
  /\ master' = Cleared(i)
  /\ i' = i + 1
  /\ UNCHANGED <<read_fds, fdmax, pc, j, buf>>

\* A fault: the sender is not left out.
Sent_to_sender == j \in master /\ j # listener

\* "except the listener and ourselves".
Sent_to == j \in master /\ j # listener /\ j # i

Send ==
  /\ pc = "send" /\ j <= fdmax
  /\ \/ ~Sent_to /\ pc' = pc /\ j' = j + 1 /\ UNCHANGED sockets
     \/ Sent_to /\ send(owner[j], buf) /\ pc' = pc /\ j' = j + 1
     \/ Sent_to /\ send_raises_SIGPIPE(owner[j]) /\ pc' = "dead" /\ j' = j
  /\ UNCHANGED <<master, read_fds, fdmax, owner, i, buf>>

EndSend ==
  /\ pc = "send" /\ j > fdmax
  /\ pc' = "scan" /\ i' = i + 1
  /\ buf' = <<>>
  /\ UNCHANGED <<sockets, master, read_fds, fdmax, owner, j>>

ServerNext ==
  Select \/ Skip \/ EndScan \/ Accept \/ Receive \/ Close \/ Send \/ EndSend

Next == (ClientNext /\ UNCHANGED server) \/ ServerNext

Spec == Init /\ [][Next]_vars

-----------------------------------------------------------------------------
\* Type invariant.
TypeOK ==
  /\ SocketsTypeOK
  /\ master \subseteq Fds /\ read_fds \subseteq Fds
  /\ fdmax \in Fds
  /\ owner \in [Fds -> Clients \cup {None}]
  /\ pc \in {"select", "scan", "send", "dead"}
  /\ i \in 0 .. fdmax + 1 /\ j \in 0 .. fdmax + 1

\* The set holds the open connections, and the loops reach them all: fdmax, which
\* is never lowered, is at least the largest of them.
MasterIsTheConnections ==
  /\ {owner[fd] : fd \in master \ {listener}} = Accepted
  /\ \A fd \in master : fd <= fdmax

\* The server receives only from a client select found ready, and so never waits
\* for one: a descriptor closed in a scan is not used again in it, because the
\* listener has the lowest number and is served first.
ReceivesOnlyWhenReady ==
  (Reported /\ i # listener) => owner[i] # None /\ Readable(owner[i])

\* The server is a chat room: a message goes to everyone connected when it is
\* taken, in one order, once, and in full.
Room ==
  INSTANCE Chat WITH
    Texts <- Chunks,
    members <- Accepted,
    gone <- {c \in Clients : net[c].hungup}

ChatSpec == Room!Spec
===============================================================================
