------------------------------ MODULE PollServer ------------------------------
(***************************************************************************)
(* pollserver.c of C/Program-08: one thread, blocking sockets, and a       *)
(* growing array of pollfd.                                                *)
(*                                                                         *)
(* poll writes `revents' for the entries it is given and for no other, and *)
(* add_to_pfds leaves it alone: an entry that is added keeps what its slot *)
(* held, which for a slot never used before is whatever malloc returned.   *)
(***************************************************************************)
EXTENDS ChatSockets

CONSTANT FD_SIZE   \* the slots of the first allocation (5)

ASSUME PollAssumption == FD_SIZE \in Nat \ {0}

VARIABLES
  pfds,       \* the array; its slots are numbered from 0
  fd_count,
  fd_size,
  pc,         \* "poll", "scan", "send" or, killed by a signal, "dead"
  i, j,       \* the loop counters
  buf         \* what was received, by whom

vars == <<sockets, pfds, fd_count, fd_size, pc, i, j, buf>>
server == <<pfds, fd_count, fd_size, pc, i, j, buf>>

listener == "listener"

\* A slot that was never written.
Garbage == [fd |-> "none", revents |-> "garbage"]
Nothing == [by |-> "none", texts |-> <<>>]

ASSUME NamesAssumption == {listener, Garbage.fd} \cap Clients = {}

Init ==
  /\ SocketsInit
  /\ pfds = [s \in 0 .. FD_SIZE - 1 |->
               IF s = 0 THEN [fd |-> listener, revents |-> "garbage"] ELSE Garbage]
  /\ fd_count = 1
  /\ fd_size = FD_SIZE
  /\ pc = "poll" /\ i = 0 /\ j = 0
  /\ buf = Nothing

-----------------------------------------------------------------------------
Ready(fd) == IF fd = listener THEN Backlog # {} ELSE Readable(fd)

\* poll blocks until an entry is ready.
Poll ==
  /\ pc = "poll"
  /\ \E s \in 0 .. fd_count - 1 : Ready(pfds[s].fd)
  /\ pfds' = [s \in DOMAIN pfds |->
                IF s < fd_count
                THEN [pfds[s] EXCEPT !.revents = IF Ready(pfds[s].fd) THEN "POLLIN" ELSE "none"]
                ELSE pfds[s]]
  /\ pc' = "scan" /\ i' = 0
  /\ UNCHANGED <<sockets, fd_count, fd_size, j, buf>>

\* The entry the scan is at; the test of a slot never written may go either way.
Entry == pfds[i]
Scanning == pc = "scan" /\ i < fd_count
Reported == Scanning /\ Entry.revents \in {"POLLIN", "garbage"}

Skip ==
  /\ Scanning /\ Entry.revents \in {"none", "garbage"}
  /\ i' = i + 1
  /\ UNCHANGED <<sockets, pfds, fd_count, fd_size, pc, j, buf>>

EndScan ==
  /\ pc = "scan" /\ i >= fd_count
  /\ pc' = "poll"
  /\ UNCHANGED <<sockets, pfds, fd_count, fd_size, i, j, buf>>

add_to_pfds(c) ==
  LET size == IF fd_count = fd_size THEN 2 * fd_size ELSE fd_size IN
  /\ fd_size' = size
  /\ pfds' = [s \in 0 .. size - 1 |->
                LET old == IF s \in DOMAIN pfds THEN pfds[s] ELSE Garbage
                IN  IF s = fd_count THEN [old EXCEPT !.fd = c] ELSE old]
  /\ fd_count' = fd_count + 1

\* accept may fail, and leaves everything as it was.
Accept ==
  /\ Reported /\ Entry.fd = listener
  /\ \/ \E c \in Backlog : accept(c) /\ add_to_pfds(c)
     \/ UNCHANGED <<sockets, pfds, fd_count, fd_size>>
  /\ i' = i + 1
  /\ UNCHANGED <<pc, j, buf>>

Receive ==
  /\ Reported /\ Entry.fd # listener
  /\ recv(Entry.fd)
  /\ buf' = [by |-> Entry.fd, texts |-> Chunk(Entry.fd)]
  /\ pc' = "send" /\ j' = 0
  /\ UNCHANGED <<pfds, fd_count, fd_size, i>>

\* A fault: the last entry is dropped and the one at k stays.
del_from_pfds_last(k) ==
  /\ pfds' = [pfds EXCEPT ![fd_count - 1] = pfds[k]]
  /\ fd_count' = fd_count - 1

\* The last entry is copied over the one at k.
del_from_pfds(k) ==
  /\ pfds' = [pfds EXCEPT ![k] = pfds[fd_count - 1]]
  /\ fd_count' = fd_count - 1

\* The entry now at i is not looked at in this scan.
Close ==
  /\ Reported /\ Entry.fd # listener
  /\ recv_end_close(Entry.fd)
  /\ del_from_pfds(i)
  /\ i' = i + 1
  /\ UNCHANGED <<fd_size, pc, j, buf>>

\* A fault: the sender is not left out.
Excepted_listener(fd) == fd = listener

\* "Except the listener and ourselves".
Excepted(fd) == fd \in {listener, buf.by}

SendTo(fd) ==
  /\ pc = "send" /\ j < fd_count /\ pfds[j].fd = fd
  /\ \/ Excepted(fd) /\ pc' = pc /\ j' = j + 1 /\ UNCHANGED sockets
     \/ ~Excepted(fd) /\ send(fd, buf.texts) /\ pc' = pc /\ j' = j + 1
     \/ ~Excepted(fd) /\ send_raises_SIGPIPE(fd) /\ pc' = "dead" /\ j' = j
  /\ UNCHANGED <<pfds, fd_count, fd_size, i, buf>>

Send == \E fd \in {listener} \cup Clients : SendTo(fd)

EndSend ==
  /\ pc = "send" /\ j >= fd_count
  /\ pc' = "scan" /\ i' = i + 1
  /\ buf' = Nothing
  /\ UNCHANGED <<sockets, pfds, fd_count, fd_size, j>>

ServerNext == Poll \/ Skip \/ EndScan \/ Accept \/ Receive \/ Close \/ Send \/ EndSend

Next == (ClientNext /\ UNCHANGED server) \/ ServerNext

Spec == Init /\ [][Next]_vars

\* The process is scheduled, accept does not fail for ever, and every client reads
\* what it is sent and hangs up in the end.
Fairness ==
  /\ WF_vars(ServerNext)
  /\ SF_vars(Accept /\ fd_count' > fd_count)
  /\ \A c \in Clients :
       /\ WF_vars(Read(c) /\ UNCHANGED server)
       /\ WF_vars(HangUp(c) /\ UNCHANGED server)

FairSpec == Spec /\ Fairness

-----------------------------------------------------------------------------
\* Type invariant: the loops stay within the array.
TypeOK ==
  /\ SocketsTypeOK
  /\ fd_size \in Nat /\ fd_count \in 1 .. fd_size
  /\ pfds \in [0 .. fd_size - 1 -> [fd : {listener, "none"} \cup Clients,
                                    revents : {"POLLIN", "none", "garbage"}]]
  /\ pc \in {"poll", "scan", "send", "dead"}
  /\ i \in 0 .. fd_size /\ j \in 0 .. fd_size

\* Whatever entries were added, moved and removed under the two loops, the array
\* holds the listener and every connection that is open, each of them once.
EntriesAreTheConnections ==
  /\ {pfds[s].fd : s \in 0 .. fd_count - 1} = {listener} \cup Accepted
  /\ fd_count = 1 + Cardinality(Accepted)

\* The server is a chat room: a message goes to everyone connected when it is
\* taken, in one order, once, and in full.
Room ==
  INSTANCE Chat WITH
    Texts <- Chunks,
    members <- Accepted,
    gone <- {c \in Clients : net[c].hungup}

ChatSpec == Room!Spec

\* Everyone who connects is accepted, listened to and in the end let go of, unless
\* the process is killed: no connection is passed over for ever by a scan over an
\* array that changes under it.
EveryoneIsServed ==
  \A c \in Clients : net[c].phase = "backlog" ~> (net[c].phase = "closed" \/ pc = "dead")

\* "Check if someone's ready to read": the server receives only from a client
\* poll found ready, so that it never waits for one of them.
ReceivesOnlyWhenReady ==
  (Scanning /\ Entry.revents = "POLLIN" /\ Entry.fd # listener) => Readable(Entry.fd)

\* A send that fails is reported, perror("send"), and the server carries on.
SurvivesFailedSends == pc # "dead"
===============================================================================
