--------------------------- MODULE PollServerProofs ---------------------------
(***************************************************************************)
(* Theorems about pollserver.c, for any number of clients and texts, and   *)
(* for buffers and first allocations of any size.                          *)
(***************************************************************************)
EXTENDS PollServer, FiniteSetTheorems, SequenceTheorems, TLAPS

Gone == {c \in Clients : net[c].hungup}

-----------------------------------------------------------------------------
(***************************************************************************)
(* The inductive invariant.                                                *)
(***************************************************************************)
Connection ==
  [phase : {"away", "backlog", "open", "closed"}, up : Seq(Says), spoken : Nat,
   unread : Nat, hungup : BOOLEAN, reset : BOOLEAN]

SocketsOK ==
  /\ net \in [Clients -> Connection]
  /\ addressed \in [Clients -> Seq(Says)]
  /\ heard \in [Clients -> Seq(Says)]

Revents == {"POLLIN", "none", "garbage"}
Slot == [fd : {listener, "none"} \cup Clients, revents : Revents]

ArrayOK ==
  /\ fd_size \in Nat /\ fd_count \in Nat /\ 1 <= fd_count /\ fd_count <= fd_size
  /\ pfds \in [0 .. fd_size - 1 -> Slot]

\* The listener's entry is the first, and is never removed; the others that are in
\* use belong to one open connection each, and every open connection has one.
EntriesOK ==
  /\ pfds[0].fd = listener
  /\ \A s \in 1 .. fd_count - 1 : pfds[s].fd \in Accepted
  /\ \A c \in Accepted : \E s \in 1 .. fd_count - 1 : pfds[s].fd = c
  /\ \A s, r \in 1 .. fd_count - 1 : pfds[s].fd = pfds[r].fd => s = r
  /\ fd_count = 1 + Cardinality(Accepted)

LoopsOK ==
  /\ pc \in {"poll", "scan", "send", "dead"}
  /\ i \in Nat /\ j \in Nat
  /\ pc = "send" => /\ i \in 1 .. fd_count - 1 /\ pfds[i].fd = buf.by
                    /\ buf.texts \in Chunks /\ buf.texts \in Seq(Says)

\* While a message is sent, those the loop has not come to wait for it; everyone
\* else who is still there has heard everything.
WaitsFor(s) == pc = "send" /\ s # i /\ s >= j

EveryoneHeard ==
  pc # "dead" =>
    \A s \in 1 .. fd_count - 1 :
      ~net[pfds[s].fd].hungup =>
        addressed[pfds[s].fd] = IF WaitsFor(s) THEN heard[pfds[s].fd] \o buf.texts
                                ELSE heard[pfds[s].fd]

\* Nothing was addressed to a client who is not in the room yet.
Newcomers ==
  \A c \in Clients : net[c].phase \in {"away", "backlog"} => heard[c] = addressed[c]

IInv == SocketsOK /\ ArrayOK /\ EntriesOK /\ LoopsOK /\ EveryoneHeard /\ Newcomers

-----------------------------------------------------------------------------
(***************************************************************************)
(* What the clients do.                                                    *)
(***************************************************************************)
\* A client changes neither who is in the room nor what was addressed to whom; one
\* who hangs up stays gone, and what could be received still can.
Kept ==
  /\ UNCHANGED <<addressed, heard>>
  /\ Accepted' = Accepted
  /\ \A c \in Clients :
       /\ net[c].hungup => net'[c].hungup
       /\ Readable(c) => Readable(c)'
       /\ net'[c].phase \in {"away", "backlog"} => net[c].phase \in {"away", "backlog"}

LEMMA ConnectOutcome ==
  ASSUME SocketsOK, NEW c \in Clients, Connect(c)
  PROVE  SocketsOK' /\ Kept /\ Gone' = Gone
<1>1. /\ net \in [Clients -> Connection]
      /\ net[c].phase = "away"
      /\ net' = [net EXCEPT ![c] = [net[c] EXCEPT !.phase = "backlog"]]
      /\ UNCHANGED <<addressed, heard>>
  BY DEF SocketsOK, Connect
<1>2. SocketsOK'
  BY <1>1 DEF SocketsOK, Connection
<1>3. \A d \in Clients : /\ net'[d].hungup = net[d].hungup /\ net'[d].up = net[d].up
                         /\ d # c => net'[d] = net[d]
  BY <1>1 DEF Connection
<1>4. net'[c].phase = "backlog"
  BY <1>1 DEF Connection
<1>5. Accepted' = Accepted /\ Gone' = Gone
  BY <1>1, <1>3, <1>4 DEF Accepted, InPhase, Gone
<1> QED
  BY <1>1, <1>2, <1>3, <1>4, <1>5 DEF Kept, Readable

LEMMA SpeakOutcome ==
  ASSUME SocketsOK, NEW c \in Clients, Speak(c)
  PROVE  SocketsOK' /\ Kept /\ Gone' = Gone
<1> DEFINE text == <<c, net[c].spoken + 1>>
<1>1. /\ net \in [Clients -> Connection]
      /\ net[c].spoken < MaxTexts /\ c \in Talkers
      /\ net' = [net EXCEPT ![c] = [net[c] EXCEPT !.spoken = @ + 1, !.up = Append(@, text)]]
      /\ UNCHANGED <<addressed, heard>>
  BY DEF SocketsOK, Speak
<1>2. net[c].up \in Seq(Says) /\ net[c].spoken \in Nat /\ net[c].spoken + 1 \in Nat
  BY <1>1 DEF Connection
<1>3. text \in Says
  BY <1>1, <1>2, SocketAssumption DEF Says
<1> HIDE DEF text
<1>4. Append(net[c].up, text) \in Seq(Says) /\ Append(net[c].up, text) # <<>>
  BY <1>2, <1>3, AppendProperties
<1>5. net' \in [Clients -> Connection]
  BY <1>1, <1>2, <1>4 DEF Connection
<1>6. \A d \in Clients : /\ net'[d].hungup = net[d].hungup /\ net'[d].phase = net[d].phase
                         /\ d # c => net'[d] = net[d]
  BY <1>1 DEF Connection
<1>7. net'[c].up # <<>>
  BY <1>1, <1>4 DEF Connection
<1>8. Accepted' = Accepted /\ Gone' = Gone
  BY <1>6 DEF Accepted, InPhase, Gone
<1> QED
  BY <1>1, <1>5, <1>6, <1>7, <1>8 DEF Kept, Readable, SocketsOK

LEMMA ReadOutcome ==
  ASSUME SocketsOK, NEW c \in Clients, Read(c)
  PROVE  SocketsOK' /\ Kept /\ Gone' = Gone
<1>1. /\ net \in [Clients -> Connection]
      /\ net' = [net EXCEPT ![c] = [net[c] EXCEPT !.unread = 0]]
      /\ UNCHANGED <<addressed, heard>>
  BY DEF SocketsOK, Read
<1>2. SocketsOK'
  BY <1>1 DEF SocketsOK, Connection
<1>3. \A d \in Clients : /\ net'[d].hungup = net[d].hungup /\ net'[d].phase = net[d].phase
                         /\ net'[d].up = net[d].up
  BY <1>1 DEF Connection
<1>4. Accepted' = Accepted /\ Gone' = Gone
  BY <1>3 DEF Accepted, InPhase, Gone
<1> QED
  BY <1>1, <1>2, <1>3, <1>4 DEF Kept, Readable

LEMMA HangUpOutcome ==
  ASSUME SocketsOK, NEW c \in Clients, HangUp(c)
  PROVE  SocketsOK' /\ Kept /\ Gone' = Gone \cup {c}
<1>1. /\ net \in [Clients -> Connection]
      /\ net' = [net EXCEPT ![c] = [net[c] EXCEPT !.hungup = TRUE, !.unread = 0]]
      /\ UNCHANGED <<addressed, heard>>
  BY DEF SocketsOK, HangUp
<1>2. SocketsOK'
  BY <1>1 DEF SocketsOK, Connection
<1>3. \A d \in Clients : /\ net'[d].phase = net[d].phase /\ net'[d].up = net[d].up
                         /\ d # c => net'[d] = net[d]
  BY <1>1 DEF Connection
<1>4. net'[c].hungup
  BY <1>1 DEF Connection
<1>5. Accepted' = Accepted /\ Gone' = Gone \cup {c}
  BY <1>3, <1>4 DEF Accepted, InPhase, Gone
<1> QED
  BY <1>1, <1>2, <1>3, <1>4, <1>5 DEF Kept, Readable

LEMMA ClientOutcome == SocketsOK /\ ClientNext => SocketsOK' /\ Kept
  BY ConnectOutcome, SpeakOutcome, ReadOutcome, HangUpOutcome DEF ClientNext

-----------------------------------------------------------------------------
(***************************************************************************)
(* What the server's calls do.                                             *)
(***************************************************************************)
LEMMA MinOfTwo ==
  ASSUME NEW x \in Nat, NEW y \in Nat
  PROVE  Min({x, y}) = IF x <= y THEN x ELSE y
<1> DEFINE m == IF x <= y THEN x ELSE y
<1>1. m \in {x, y} /\ \A z \in {x, y} : m <= z
  OBVIOUS
<1>2. \A z \in {x, y} : (\A w \in {x, y} : z <= w) => z = m
  OBVIOUS
<1> HIDE DEF m
<1>3. Min({x, y}) = m
  BY <1>1, <1>2 DEF Min
<1> QED
  BY <1>3 DEF m

\* What one recv takes, and what it leaves.
LEMMA ChunkOutcome ==
  ASSUME SocketsOK, NEW c \in Clients, net[c].up # <<>>
  PROVE  /\ Chunk(c) \in Chunks /\ Chunk(c) \in Seq(Says)
         /\ SubSeq(net[c].up, Len(Chunk(c)) + 1, Len(net[c].up)) \in Seq(Says)
<1> DEFINE up == net[c].up
           n == IF Len(up) <= BUF THEN Len(up) ELSE BUF
<1>1. up \in Seq(Says)
  BY DEF SocketsOK, Connection
<1> HIDE DEF up
<1>2. BUF \in Nat /\ BUF >= 1 /\ Len(up) \in Nat /\ Len(up) >= 1
  <2>1. up # <<>>
    BY DEF up
  <2> QED
    BY <1>1, <2>1, SocketAssumption
<1>3. n \in 1 .. BUF /\ n \in 1 .. Len(up)
  BY <1>2
<1>4. Chunk(c) = SubSeq(up, 1, n)
  <2>1. Min({Len(up), BUF}) = n
    BY <1>2, MinOfTwo
  <2> QED
    BY <2>1 DEF Chunk, up
<1> HIDE DEF n
<1>5. \A k \in 1 .. Len(up) : up[k] \in Says
  BY <1>1
<1>6. /\ SubSeq(up, 1, n) \in Seq(Says) /\ Len(SubSeq(up, 1, n)) = n
  <2>1. \A k \in 1 .. n : up[k] \in Says
    BY <1>2, <1>3, <1>5
  <2>2. n \in Int /\ 1 <= n /\ n - 1 + 1 = n
    BY <1>3
  <2> QED
    BY <2>1, <2>2, SubSeqProperties
<1>7. SubSeq(up, 1, n) \in [1 .. n -> Says]
  BY <1>6, LenProperties
<1>8. SubSeq(up, n + 1, Len(up)) \in Seq(Says)
  <2>1. \A k \in n + 1 .. Len(up) : up[k] \in Says
    BY <1>2, <1>3, <1>5
  <2>2. n + 1 \in Int /\ Len(up) \in Int
    BY <1>2, <1>3
  <2> QED
    BY <2>1, <2>2, SubSeqProperties
<1> QED
  BY <1>3, <1>4, <1>6, <1>7, <1>8 DEF Chunks, up


LEMMA AcceptOutcome ==
  ASSUME SocketsOK, NEW c \in Backlog, accept(c)
  PROVE  /\ SocketsOK' /\ UNCHANGED <<addressed, heard>>
         /\ c \in Clients /\ c \notin Accepted /\ net[c].phase = "backlog"
         /\ Accepted' = Accepted \cup {c} /\ Gone' = Gone
         /\ \A d \in Clients :
              /\ net'[d].hungup = net[d].hungup /\ net'[d].up = net[d].up
              /\ net'[d].phase = IF d = c THEN "open" ELSE net[d].phase
<1>1. /\ net \in [Clients -> Connection]
      /\ net' = [net EXCEPT ![c] = [net[c] EXCEPT !.phase = "open"]]
      /\ UNCHANGED <<addressed, heard>>
      /\ c \in Clients /\ net[c].phase = "backlog"
  BY DEF SocketsOK, accept, Backlog, InPhase
<1>2. SocketsOK'
  BY <1>1 DEF SocketsOK, Connection
<1>3. \A d \in Clients :
        /\ net'[d].hungup = net[d].hungup /\ net'[d].up = net[d].up
        /\ net'[d].phase = IF d = c THEN "open" ELSE net[d].phase
  BY <1>1 DEF Connection
<1>4. Accepted' = Accepted \cup {c} /\ Gone' = Gone /\ c \notin Accepted
  BY <1>1, <1>3 DEF Accepted, InPhase, Gone
<1> QED
  BY <1>1, <1>2, <1>3, <1>4

LEMMA RecvOutcome ==
  ASSUME SocketsOK, NEW c \in Clients, recv(c)
  PROVE  /\ SocketsOK' /\ heard' = heard
         /\ Chunk(c) \in Chunks /\ Chunk(c) \in Seq(Says)
         /\ Accepted' = Accepted /\ Gone' = Gone
         /\ addressed' = [d \in Clients |->
                            IF d \in Accepted \ {c} THEN addressed[d] \o Chunk(c) ELSE addressed[d]]
         /\ \A d \in Clients :
              /\ net'[d].hungup = net[d].hungup /\ net'[d].phase = net[d].phase
              /\ d # c => net'[d] = net[d]
<1> DEFINE rest == SubSeq(net[c].up, Len(Chunk(c)) + 1, Len(net[c].up))
<1>1. /\ net \in [Clients -> Connection] /\ net[c].up # <<>>
      /\ net' = [net EXCEPT ![c] = [net[c] EXCEPT !.up = rest]]
      /\ addressed' = [d \in Clients |->
                         IF d \in Accepted \ {c} THEN addressed[d] \o Chunk(c) ELSE addressed[d]]
      /\ heard' = heard
  BY DEF SocketsOK, recv
<1>2. rest \in Seq(Says) /\ Chunk(c) \in Chunks /\ Chunk(c) \in Seq(Says)
  BY <1>1, ChunkOutcome
<1> HIDE DEF rest
<1>3. net' \in [Clients -> Connection]
  BY <1>1, <1>2 DEF Connection
<1>4. \A d \in Clients : addressed[d] \in Seq(Says) /\ addressed[d] \o Chunk(c) \in Seq(Says)
  BY <1>2, ConcatProperties DEF SocketsOK
<1>5. addressed' \in [Clients -> Seq(Says)]
  BY <1>1, <1>4
<1>6. SocketsOK'
  BY <1>1, <1>3, <1>5 DEF SocketsOK
<1>7. \A d \in Clients :
        /\ net'[d].hungup = net[d].hungup /\ net'[d].phase = net[d].phase
        /\ d # c => net'[d] = net[d]
  BY <1>1 DEF Connection
<1>8. Accepted' = Accepted /\ Gone' = Gone
  BY <1>7 DEF Accepted, InPhase, Gone
<1> QED
  BY <1>1, <1>2, <1>6, <1>7, <1>8

LEMMA CloseOutcome ==
  ASSUME SocketsOK, NEW c \in Clients, recv_end_close(c)
  PROVE  /\ SocketsOK' /\ UNCHANGED <<addressed, heard>>
         /\ net[c].hungup
         /\ Accepted' = Accepted \ {c} /\ Gone' = Gone
         /\ \A d \in Clients :
              /\ net'[d].hungup = net[d].hungup /\ net'[d].up = net[d].up
              /\ net'[d].phase = IF d = c THEN "closed" ELSE net[d].phase
<1>1. /\ net \in [Clients -> Connection]
      /\ net' = [net EXCEPT ![c] = [net[c] EXCEPT !.phase = "closed"]]
      /\ UNCHANGED <<addressed, heard>>
      /\ net[c].hungup
  BY DEF SocketsOK, recv_end_close
<1>2. SocketsOK'
  BY <1>1 DEF SocketsOK, Connection
<1>3. \A d \in Clients :
        /\ net'[d].hungup = net[d].hungup /\ net'[d].up = net[d].up
        /\ net'[d].phase = IF d = c THEN "closed" ELSE net[d].phase
  BY <1>1 DEF Connection
<1>4. Accepted' = Accepted \ {c} /\ Gone' = Gone
  BY <1>1, <1>3 DEF Accepted, InPhase, Gone
<1> QED
  BY <1>1, <1>2, <1>3, <1>4

LEMMA SendOutcome ==
  ASSUME SocketsOK, NEW c \in Clients, NEW texts \in Seq(Says), send(c, texts)
  PROVE  /\ SocketsOK' /\ addressed' = addressed
         /\ Accepted' = Accepted /\ Gone' = Gone
         /\ \A d \in Clients :
              /\ net'[d].hungup = net[d].hungup /\ net'[d].phase = net[d].phase
              /\ net'[d].up = net[d].up
         /\ \/ ~net[c].hungup /\ heard' = [heard EXCEPT ![c] = @ \o texts]
            \/ net[c].hungup /\ heard' = heard
<1>1. net \in [Clients -> Connection] /\ heard \in [Clients -> Seq(Says)]
      /\ addressed' = addressed /\ Len(texts) \in Nat
  BY DEF SocketsOK, send
<1>2. CASE /\ ~net[c].hungup
           /\ net' = [net EXCEPT ![c].unread = @ + Len(texts)]
           /\ heard' = [heard EXCEPT ![c] = @ \o texts]
  <2>1. net' = [net EXCEPT ![c] = [net[c] EXCEPT !.unread = @ + Len(texts)]]
    BY <1>1, <1>2
  <2>2. net[c].unread + Len(texts) \in Nat
    BY <1>1 DEF Connection
  <2>3. net' \in [Clients -> Connection]
    BY <1>1, <2>1, <2>2 DEF Connection
  <2>4. heard[c] \o texts \in Seq(Says)
    BY <1>1, ConcatProperties
  <2>5. SocketsOK'
    BY <1>1, <1>2, <2>3, <2>4 DEF SocketsOK
  <2>6. \A d \in Clients :
          /\ net'[d].hungup = net[d].hungup /\ net'[d].phase = net[d].phase
          /\ net'[d].up = net[d].up
    BY <1>1, <2>1 DEF Connection
  <2>7. Accepted' = Accepted /\ Gone' = Gone
    BY <2>6 DEF Accepted, InPhase, Gone
  <2> QED
    BY <1>1, <1>2, <2>5, <2>6, <2>7
<1>3. CASE /\ net[c].hungup /\ heard' = heard
           /\ \E r \in BOOLEAN : net' = [net EXCEPT ![c].reset = r]
  <2>1. PICK r \in BOOLEAN : net' = [net EXCEPT ![c] = [net[c] EXCEPT !.reset = r]]
    BY <1>1, <1>3
  <2>2. SocketsOK'
    <3>1. [net[c] EXCEPT !.reset = r] \in Connection
      BY <1>1, Zenon DEF Connection
    <3>2. net' \in [Clients -> Connection]
      BY <1>1, <2>1, <3>1
    <3> QED
      BY <1>1, <1>3, <3>2 DEF SocketsOK
  <2>3. \A d \in Clients :
          /\ net'[d].hungup = net[d].hungup /\ net'[d].phase = net[d].phase
          /\ net'[d].up = net[d].up
    BY <1>1, <2>1 DEF Connection
  <2>4. Accepted' = Accepted /\ Gone' = Gone
    BY <2>3 DEF Accepted, InPhase, Gone
  <2> QED
    BY <1>1, <1>3, <2>2, <2>3, <2>4
<1> QED
  BY <1>2, <1>3 DEF send

-----------------------------------------------------------------------------
(***************************************************************************)
(* Every step keeps the invariant.                                         *)
(***************************************************************************)
LEMMA SameArray ==
  /\ ArrayOK /\ UNCHANGED <<pfds, fd_count, fd_size>> => ArrayOK'
  /\ EntriesOK /\ UNCHANGED <<pfds, fd_count, fd_size>> /\ Accepted' = Accepted => EntriesOK'
  BY DEF ArrayOK, EntriesOK

LEMMA SameSockets ==
  UNCHANGED sockets => /\ (SocketsOK => SocketsOK') /\ (Newcomers => Newcomers')
                       /\ Accepted' = Accepted /\ Gone' = Gone
  BY DEF sockets, SocketsOK, Newcomers, Accepted, InPhase, Gone

\* An entry in use, other than the listener's, is a connection.
LEMMA EntryIsOpen ==
  ASSUME EntriesOK, NEW s \in 1 .. fd_count - 1
  PROVE  /\ pfds[s].fd \in Clients /\ pfds[s].fd \in Accepted
         /\ pfds[s].fd # listener /\ net[pfds[s].fd].phase = "open"
  BY NamesAssumption DEF EntriesOK, Accepted, InPhase

\* The entry the scan is at, when it is not the listener's.
LEMMA ScannedEntry ==
  ASSUME IInv, Reported, Entry.fd # listener
  PROVE  /\ i \in 1 .. fd_count - 1 /\ Entry = pfds[i]
         /\ Entry.fd \in Clients /\ Entry.fd \in Accepted
<1>1. pc = "scan" /\ i < fd_count /\ Entry = pfds[i]
  BY DEF Reported, Scanning, Entry
<1>2. i \in Nat /\ fd_count \in Nat /\ i # 0
  BY <1>1 DEF IInv, LoopsOK, ArrayOK, EntriesOK
<1>3. i \in 1 .. fd_count - 1
  BY <1>1, <1>2
<1> QED
  BY <1>1, <1>3, EntryIsOpen DEF IInv

LEMMA ClientKeeps == IInv /\ ClientNext /\ UNCHANGED server => IInv'
<1> SUFFICES ASSUME IInv, ClientNext, UNCHANGED server
             PROVE  IInv'
  OBVIOUS
<1> USE DEF server
<1>1. SocketsOK' /\ Kept
  BY ClientOutcome DEF IInv
<1>2. ArrayOK' /\ EntriesOK' /\ LoopsOK'
  BY <1>1, SameArray DEF IInv, Kept, LoopsOK
<1>3. EveryoneHeard'
  <2> SUFFICES ASSUME pc # "dead", NEW s \in 1 .. fd_count - 1, ~net'[pfds[s].fd].hungup
               PROVE  addressed[pfds[s].fd] = IF WaitsFor(s) THEN heard[pfds[s].fd] \o buf.texts
                                              ELSE heard[pfds[s].fd]
    BY <1>1 DEF EveryoneHeard, Kept, WaitsFor
  <2>1. pfds[s].fd \in Clients
    BY EntryIsOpen DEF IInv
  <2>2. ~net[pfds[s].fd].hungup
    BY <1>1, <2>1 DEF Kept
  <2> QED
    BY <2>2 DEF IInv, EveryoneHeard
<1>4. Newcomers'
  BY <1>1 DEF Kept, Newcomers, IInv
<1> QED
  BY <1>1, <1>2, <1>3, <1>4 DEF IInv

\* poll changes what is reported of the entries, not whose they are.
LEMMA PollKeeps == IInv /\ Poll => IInv'
<1> SUFFICES ASSUME IInv, Poll
             PROVE  IInv'
  OBVIOUS
<1> DEFINE report(fd) == IF Ready(fd) THEN "POLLIN" ELSE "none"
<1>1. /\ pc = "poll" /\ pc' = "scan" /\ i' = 0
      /\ pfds' = [s \in DOMAIN pfds |->
                    IF s < fd_count THEN [pfds[s] EXCEPT !.revents = report(pfds[s].fd)] ELSE pfds[s]]
      /\ UNCHANGED sockets /\ UNCHANGED <<fd_count, fd_size, j, buf>>
  BY DEF Poll
<1>2. \A fd : report(fd) \in Revents
  BY DEF Revents
<1> HIDE DEF report
<1>3. /\ fd_size \in Nat /\ fd_count \in Nat /\ 1 <= fd_count /\ fd_count <= fd_size
      /\ pfds \in [0 .. fd_size - 1 -> Slot]
  BY DEF IInv, ArrayOK
<1>4. \A s \in 0 .. fd_size - 1 : pfds'[s] \in Slot /\ pfds'[s].fd = pfds[s].fd
  BY <1>1, <1>2, <1>3 DEF Slot
<1>5. ArrayOK'
  <2>1. pfds' \in [0 .. fd_size - 1 -> Slot]
    BY <1>1, <1>3, <1>4
  <2> QED
    BY <1>1, <1>3, <2>1 DEF ArrayOK
<1>6. pfds'[0].fd = pfds[0].fd /\ \A s \in 1 .. fd_count - 1 : pfds'[s].fd = pfds[s].fd
  BY <1>3, <1>4
<1>7. SocketsOK' /\ Newcomers' /\ Accepted' = Accepted
  BY <1>1, SameSockets DEF IInv
<1>8. EntriesOK'
  <2>1. pfds'[0].fd = listener /\ fd_count' = 1 + Cardinality(Accepted')
    BY <1>1, <1>6, <1>7 DEF IInv, EntriesOK
  <2>2. \A s \in 1 .. fd_count - 1 : pfds'[s].fd \in Accepted
    BY <1>6 DEF IInv, EntriesOK
  <2>3. \A c \in Accepted : \E s \in 1 .. fd_count - 1 : pfds'[s].fd = c
    BY <1>6 DEF IInv, EntriesOK
  <2>4. \A s, r \in 1 .. fd_count - 1 : pfds'[s].fd = pfds'[r].fd => s = r
    <3> TAKE s, r \in 1 .. fd_count - 1
    <3>1. pfds'[s].fd = pfds[s].fd /\ pfds'[r].fd = pfds[r].fd
      BY <1>6
    <3> QED
      BY <3>1 DEF IInv, EntriesOK
  <2> QED
    BY <1>1, <1>7, <2>1, <2>2, <2>3, <2>4 DEF EntriesOK
<1>9. LoopsOK'
  BY <1>1 DEF IInv, LoopsOK
<1>10. EveryoneHeard'
  BY <1>1, <1>6 DEF IInv, EveryoneHeard, WaitsFor, sockets
<1> QED
  BY <1>5, <1>7, <1>8, <1>9, <1>10 DEF IInv

LEMMA SkipKeeps == IInv /\ Skip => IInv'
<1> SUFFICES ASSUME IInv, Skip
             PROVE  IInv'
  OBVIOUS
<1>1. /\ pc = "scan" /\ i' = i + 1
      /\ UNCHANGED sockets /\ UNCHANGED <<pfds, fd_count, fd_size, pc, j, buf>>
  BY DEF Skip, Scanning
<1>2. SocketsOK' /\ ArrayOK' /\ EntriesOK' /\ Newcomers'
  BY <1>1, SameSockets, SameArray DEF IInv
<1>3. LoopsOK'
  BY <1>1 DEF IInv, LoopsOK
<1>4. EveryoneHeard'
  BY <1>1 DEF IInv, EveryoneHeard, WaitsFor, sockets
<1> QED
  BY <1>2, <1>3, <1>4 DEF IInv

LEMMA EndScanKeeps == IInv /\ EndScan => IInv'
<1> SUFFICES ASSUME IInv, EndScan
             PROVE  IInv'
  OBVIOUS
<1>1. /\ pc = "scan" /\ pc' = "poll"
      /\ UNCHANGED sockets /\ UNCHANGED <<pfds, fd_count, fd_size, i, j, buf>>
  BY DEF EndScan
<1>2. SocketsOK' /\ ArrayOK' /\ EntriesOK' /\ Newcomers'
  BY <1>1, SameSockets, SameArray DEF IInv
<1>3. LoopsOK'
  BY <1>1 DEF IInv, LoopsOK
<1>4. EveryoneHeard'
  BY <1>1 DEF IInv, EveryoneHeard, WaitsFor, sockets
<1> QED
  BY <1>2, <1>3, <1>4 DEF IInv

\* A new entry follows those in use; the array may have been enlarged for it.
LEMMA AddedEntry ==
  ASSUME ArrayOK, NEW c \in Clients, add_to_pfds(c)
  PROVE  /\ ArrayOK' /\ fd_count' = fd_count + 1
         /\ pfds'[fd_count].fd = c
         /\ \A s \in 0 .. fd_count - 1 : pfds'[s] = pfds[s]
<1> DEFINE size == IF fd_count = fd_size THEN 2 * fd_size ELSE fd_size
           old(s) == IF s \in DOMAIN pfds THEN pfds[s] ELSE Garbage
<1>1. /\ fd_size \in Nat /\ fd_count \in Nat /\ 1 <= fd_count /\ fd_count <= fd_size
      /\ pfds \in [0 .. fd_size - 1 -> Slot]
  BY DEF ArrayOK
<1>2. /\ fd_size' = size /\ fd_count' = fd_count + 1
      /\ pfds' = [s \in 0 .. size - 1 |->
                    IF s = fd_count THEN [old(s) EXCEPT !.fd = c] ELSE old(s)]
  BY DEF add_to_pfds
<1>3. size \in Nat /\ fd_size <= size /\ fd_count + 1 <= size
  BY <1>1
<1> HIDE DEF size
<1>4. Garbage \in Slot
  BY DEF Garbage, Slot, Revents
<1>5. \A s : old(s) \in Slot
  BY <1>1, <1>4
<1>6. \A s \in 0 .. fd_count - 1 : s \in DOMAIN pfds /\ s \in 0 .. size - 1 /\ s # fd_count
  BY <1>1, <1>3
<1>7. \A s \in 0 .. fd_count - 1 : pfds'[s] = pfds[s]
  BY <1>2, <1>6
<1> HIDE DEF old
<1>8. \A s : [old(s) EXCEPT !.fd = c] \in Slot /\ [old(s) EXCEPT !.fd = c].fd = c
  BY <1>5 DEF Slot
<1>9. pfds' \in [0 .. size - 1 -> Slot]
  BY <1>2, <1>5, <1>8
<1>10. fd_count \in 0 .. size - 1
  BY <1>1, <1>3
<1>11. pfds'[fd_count].fd = c
  BY <1>2, <1>8, <1>10
<1>12. ArrayOK'
  BY <1>1, <1>2, <1>3, <1>9 DEF ArrayOK
<1> QED
  BY <1>2, <1>7, <1>11, <1>12

LEMMA AcceptKeeps == IInv /\ Accept => IInv'
<1> SUFFICES ASSUME IInv, Accept
             PROVE  IInv'
  OBVIOUS
<1>1. /\ pc = "scan" /\ i' = i + 1 /\ UNCHANGED <<pc, j, buf>>
  BY DEF Accept, Reported, Scanning
<1>2. ASSUME UNCHANGED <<sockets, pfds, fd_count, fd_size>>
      PROVE  IInv'
  <2>1. SocketsOK' /\ ArrayOK' /\ EntriesOK' /\ Newcomers'
    BY <1>2, SameSockets, SameArray DEF IInv
  <2>2. LoopsOK'
    BY <1>1, <1>2 DEF IInv, LoopsOK
  <2>3. EveryoneHeard'
    BY <1>1, <1>2 DEF IInv, EveryoneHeard, WaitsFor, sockets
  <2> QED
    BY <2>1, <2>2, <2>3 DEF IInv
<1>3. ASSUME NEW c \in Backlog, accept(c), add_to_pfds(c)
      PROVE  IInv'
  <2>1. /\ SocketsOK' /\ UNCHANGED <<addressed, heard>>
        /\ c \in Clients /\ c \notin Accepted /\ net[c].phase = "backlog"
        /\ Accepted' = Accepted \cup {c}
        /\ \A d \in Clients :
             /\ net'[d].hungup = net[d].hungup /\ net'[d].up = net[d].up
             /\ net'[d].phase = IF d = c THEN "open" ELSE net[d].phase
    BY <1>3, AcceptOutcome DEF IInv
  <2>2. /\ ArrayOK' /\ fd_count' = fd_count + 1
        /\ pfds'[fd_count].fd = c
        /\ \A s \in 0 .. fd_count - 1 : pfds'[s] = pfds[s]
    BY <1>3, <2>1, AddedEntry DEF IInv
  <2>3. fd_count \in Nat /\ 1 <= fd_count
    BY DEF IInv, ArrayOK
  <2>4. \A s \in 1 .. fd_count' - 1 : s = fd_count \/ s \in 1 .. fd_count - 1
    BY <2>2, <2>3
  <2>5. /\ fd_count \in 1 .. fd_count' - 1
        /\ \A s \in 1 .. fd_count - 1 : s \in 1 .. fd_count' - 1 /\ pfds'[s] = pfds[s] /\ s # fd_count
    BY <2>2, <2>3
  <2>6. EntriesOK'
    <3>1. pfds'[0].fd = listener
      BY <2>2, <2>3 DEF IInv, EntriesOK
    <3>2. \A s \in 1 .. fd_count' - 1 : pfds'[s].fd \in Accepted'
      BY <2>1, <2>2, <2>4, <2>5 DEF IInv, EntriesOK
    <3>3. \A d \in Accepted' : \E s \in 1 .. fd_count' - 1 : pfds'[s].fd = d
      BY <2>1, <2>2, <2>5 DEF IInv, EntriesOK
    <3>4. ASSUME NEW s \in 1 .. fd_count' - 1, NEW r \in 1 .. fd_count' - 1,
                 pfds'[s].fd = pfds'[r].fd
          PROVE  s = r
      <4>1. \A t \in 1 .. fd_count - 1 : pfds'[t].fd # c
        BY <2>1, <2>5 DEF IInv, EntriesOK
      <4>2. CASE s = fd_count \/ r = fd_count
        BY <2>2, <2>4, <3>4, <4>1, <4>2
      <4>3. CASE s # fd_count /\ r # fd_count
        BY <2>4, <2>5, <3>4, <4>3 DEF IInv, EntriesOK
      <4> QED
        BY <4>2, <4>3
    <3>5. fd_count' = 1 + Cardinality(Accepted')
      <4>1. IsFiniteSet(Accepted)
        BY SocketAssumption, FS_Subset DEF Accepted, InPhase
      <4>2. Cardinality(Accepted \cup {c}) = Cardinality(Accepted) + 1
        BY <2>1, <4>1, FS_AddElement
      <4>3. Cardinality(Accepted) \in Nat
        BY <4>1, FS_CardinalityType
      <4> QED
        BY <2>1, <2>2, <4>2, <4>3 DEF IInv, EntriesOK
    <3> QED
      BY <3>1, <3>2, <3>3, <3>4, <3>5 DEF EntriesOK
  <2>7. LoopsOK'
    BY <1>1 DEF IInv, LoopsOK
  <2>8. EveryoneHeard'
    <3> SUFFICES ASSUME NEW s \in 1 .. fd_count' - 1, ~net'[pfds'[s].fd].hungup
                 PROVE  addressed[pfds'[s].fd] = heard[pfds'[s].fd]
      BY <1>1, <2>1 DEF EveryoneHeard, WaitsFor
    <3>1. CASE s = fd_count
      BY <2>1, <2>2, <3>1 DEF IInv, Newcomers
    <3>2. CASE s \in 1 .. fd_count - 1
      <4>1. pfds'[s] = pfds[s] /\ pfds[s].fd \in Clients
        BY <2>5, <3>2, EntryIsOpen DEF IInv
      <4> QED
        BY <1>1, <2>1, <3>2, <4>1 DEF IInv, EveryoneHeard, WaitsFor
    <3> QED
      BY <2>4, <3>1, <3>2
  <2>9. Newcomers'
    BY <2>1 DEF IInv, Newcomers
  <2> QED
    BY <2>1, <2>2, <2>6, <2>7, <2>8, <2>9 DEF IInv
<1> QED
  BY <1>2, <1>3 DEF Accept

LEMMA ReceiveKeeps == IInv /\ Receive => IInv'
<1> SUFFICES ASSUME IInv, Receive
             PROVE  IInv'
  OBVIOUS
<1> DEFINE c == Entry.fd
<1>1. /\ pc = "scan" /\ pc' = "send" /\ j' = 0
      /\ recv(c) /\ buf' = [by |-> c, texts |-> Chunk(c)]
      /\ UNCHANGED <<pfds, fd_count, fd_size, i>>
  BY DEF Receive, Reported, Scanning
<1>2. i \in 1 .. fd_count - 1 /\ c = pfds[i].fd /\ c \in Clients /\ c \in Accepted
  BY ScannedEntry DEF Receive
<1>3. \A s \in 1 .. fd_count - 1 : pfds[s].fd = c => s = i
  BY <1>2 DEF IInv, EntriesOK
<1> HIDE DEF c
<1>4. /\ SocketsOK' /\ heard' = heard
      /\ Chunk(c) \in Chunks /\ Chunk(c) \in Seq(Says)
      /\ Accepted' = Accepted
      /\ addressed' = [d \in Clients |->
                         IF d \in Accepted \ {c} THEN addressed[d] \o Chunk(c) ELSE addressed[d]]
      /\ \A d \in Clients :
           /\ net'[d].hungup = net[d].hungup /\ net'[d].phase = net[d].phase
           /\ d # c => net'[d] = net[d]
  BY <1>1, <1>2, RecvOutcome DEF IInv
<1>5. buf'.by = c /\ buf'.texts = Chunk(c)
  BY <1>1
<1>6. ArrayOK' /\ EntriesOK'
  BY <1>1, <1>4, SameArray DEF IInv
<1>7. LoopsOK'
  BY <1>1, <1>2, <1>4, <1>5 DEF IInv, LoopsOK
<1>8. EveryoneHeard'
  <2>1. \A s \in 1 .. fd_count - 1 : WaitsFor(s)' <=> s # i
    BY <1>1 DEF WaitsFor
  <2> SUFFICES ASSUME NEW s \in 1 .. fd_count - 1, ~net'[pfds[s].fd].hungup
               PROVE  addressed'[pfds[s].fd] =
                        IF s # i THEN heard[pfds[s].fd] \o Chunk(c) ELSE heard[pfds[s].fd]
    BY <1>1, <1>4, <1>5, <2>1 DEF EveryoneHeard
  <2>2. pfds[s].fd \in Clients /\ pfds[s].fd \in Accepted
    BY EntryIsOpen DEF IInv
  <2>3. addressed[pfds[s].fd] = heard[pfds[s].fd]
    BY <1>1, <1>4, <2>2 DEF IInv, EveryoneHeard, WaitsFor
  <2>4. CASE s = i
    BY <1>2, <1>4, <2>2, <2>3, <2>4
  <2>5. CASE s # i
    BY <1>3, <1>4, <2>2, <2>3, <2>5
  <2> QED
    BY <2>4, <2>5
<1>9. Newcomers'
  <2>1. \A d \in Clients : net[d].phase \in {"away", "backlog"} => d \notin Accepted
    BY DEF Accepted, InPhase
  <2> QED
    BY <1>4, <2>1 DEF IInv, Newcomers
<1> QED
  BY <1>4, <1>6, <1>7, <1>8, <1>9 DEF IInv

\* The last entry moves to where the closed one was: every slot that stays in use
\* holds the entry of a slot of before, none the closed one's, and none twice.
Source(s) == IF s = i THEN fd_count - 1 ELSE s

LEMMA RemovedEntry ==
  ASSUME ArrayOK, i \in 1 .. fd_count - 1, del_from_pfds(i), fd_size' = fd_size
  PROVE  /\ ArrayOK' /\ fd_count' = fd_count - 1 /\ pfds'[0] = pfds[0]
         /\ \A s \in 1 .. fd_count' - 1 :
              pfds'[s] = pfds[Source(s)] /\ Source(s) \in 1 .. fd_count - 1 /\ Source(s) # i
         /\ \A s, r \in 1 .. fd_count' - 1 : Source(s) = Source(r) => s = r
         /\ \A r \in 1 .. fd_count - 1 : r # i => \E s \in 1 .. fd_count' - 1 : Source(s) = r
<1>1. /\ fd_size \in Nat /\ fd_count \in Nat /\ 1 <= fd_count /\ fd_count <= fd_size
      /\ pfds \in [0 .. fd_size - 1 -> Slot]
  BY DEF ArrayOK
<1>2. /\ pfds' = [pfds EXCEPT ![i] = pfds[fd_count - 1]] /\ fd_count' = fd_count - 1
      /\ fd_size' = fd_size
  BY DEF del_from_pfds
<1>3. i \in Nat /\ 1 <= i /\ i <= fd_count - 1
  BY <1>1
<1>4. i \in 0 .. fd_size - 1 /\ fd_count - 1 \in 0 .. fd_size - 1
  BY <1>1, <1>3
<1>5. \A s \in 0 .. fd_size - 1 : pfds'[s] = IF s = i THEN pfds[fd_count - 1] ELSE pfds[s]
  BY <1>1, <1>2
<1>6. pfds' \in [0 .. fd_size - 1 -> Slot]
  BY <1>1, <1>2, <1>4
<1>7. ArrayOK'
  BY <1>1, <1>2, <1>3, <1>6 DEF ArrayOK
<1>8. pfds'[0] = pfds[0]
  BY <1>1, <1>3, <1>5
<1>9. ASSUME NEW s \in 1 .. fd_count' - 1
      PROVE  pfds'[s] = pfds[Source(s)] /\ Source(s) \in 1 .. fd_count - 1 /\ Source(s) # i
  <2>1. s \in 0 .. fd_size - 1 /\ s < fd_count - 1 /\ s >= 1
    BY <1>1, <1>2
  <2> QED
    BY <1>1, <1>3, <1>5, <2>1 DEF Source
<1>10. \A s, r \in 1 .. fd_count' - 1 : Source(s) = Source(r) => s = r
  BY <1>1, <1>2, <1>3 DEF Source
<1>11. ASSUME NEW r \in 1 .. fd_count - 1, r # i
       PROVE  \E s \in 1 .. fd_count' - 1 : Source(s) = r
  <2>1. CASE r = fd_count - 1
    BY <1>1, <1>2, <1>3, <1>11, <2>1 DEF Source
  <2>2. CASE r # fd_count - 1
    BY <1>1, <1>2, <1>3, <1>11, <2>2 DEF Source
  <2> QED
    BY <2>1, <2>2
<1> QED
  BY <1>2, <1>7, <1>8, <1>9, <1>10, <1>11

LEMMA CloseKeeps == IInv /\ Close => IInv'
<1> SUFFICES ASSUME IInv, Close
             PROVE  IInv'
  OBVIOUS
<1> DEFINE c == Entry.fd
<1>1. /\ pc = "scan" /\ i' = i + 1 /\ recv_end_close(c) /\ del_from_pfds(i)
      /\ UNCHANGED <<fd_size, pc, j, buf>>
  BY DEF Close, Reported, Scanning
<1>2. i \in 1 .. fd_count - 1 /\ c = pfds[i].fd /\ c \in Clients /\ c \in Accepted
  BY ScannedEntry DEF Close
<1> HIDE DEF c
<1>3. /\ SocketsOK' /\ UNCHANGED <<addressed, heard>>
      /\ Accepted' = Accepted \ {c}
      /\ \A d \in Clients :
           /\ net'[d].hungup = net[d].hungup /\ net'[d].up = net[d].up
           /\ net'[d].phase = IF d = c THEN "closed" ELSE net[d].phase
  BY <1>1, <1>2, CloseOutcome DEF IInv
<1>4. /\ ArrayOK' /\ fd_count' = fd_count - 1 /\ pfds'[0] = pfds[0]
      /\ \A s \in 1 .. fd_count' - 1 :
           pfds'[s] = pfds[Source(s)] /\ Source(s) \in 1 .. fd_count - 1 /\ Source(s) # i
      /\ \A s, r \in 1 .. fd_count' - 1 : Source(s) = Source(r) => s = r
      /\ \A r \in 1 .. fd_count - 1 : r # i => \E s \in 1 .. fd_count' - 1 : Source(s) = r
  BY <1>1, <1>2, RemovedEntry DEF IInv
<1>5. \A r \in 1 .. fd_count - 1 : r # i => pfds[r].fd # c
  BY <1>2 DEF IInv, EntriesOK
<1>6. EntriesOK'
  <2>1. pfds'[0].fd = listener
    BY <1>4 DEF IInv, EntriesOK
  <2>2. \A s \in 1 .. fd_count' - 1 : pfds'[s].fd \in Accepted'
    BY <1>3, <1>4, <1>5 DEF IInv, EntriesOK
  <2>3. ASSUME NEW d \in Accepted'
        PROVE  \E s \in 1 .. fd_count' - 1 : pfds'[s].fd = d
    <3>1. d \in Accepted /\ d # c
      BY <1>3
    <3>2. PICK r \in 1 .. fd_count - 1 : pfds[r].fd = d
      BY <3>1 DEF IInv, EntriesOK
    <3>3. r # i
      BY <1>2, <3>1, <3>2
    <3> QED
      BY <1>4, <3>2, <3>3
  <2>4. ASSUME NEW s \in 1 .. fd_count' - 1, NEW r \in 1 .. fd_count' - 1,
               pfds'[s].fd = pfds'[r].fd
        PROVE  s = r
    <3>1. /\ Source(s) \in 1 .. fd_count - 1 /\ Source(r) \in 1 .. fd_count - 1
          /\ pfds[Source(s)].fd = pfds[Source(r)].fd
      BY <1>4, <2>4
    <3>2. Source(s) = Source(r)
      BY <3>1 DEF IInv, EntriesOK
    <3> QED
      BY <1>4, <3>2
  <2>5. fd_count' = 1 + Cardinality(Accepted')
    <3>1. IsFiniteSet(Accepted)
      BY SocketAssumption, FS_Subset DEF Accepted, InPhase
    <3>2. Cardinality(Accepted \ {c}) = Cardinality(Accepted) - 1
      BY <1>2, <3>1, FS_RemoveElement
    <3>3. Cardinality(Accepted) \in Nat
      BY <3>1, FS_CardinalityType
    <3> QED
      BY <1>3, <1>4, <3>2, <3>3 DEF IInv, EntriesOK
  <2> QED
    BY <2>1, <2>2, <2>3, <2>4, <2>5 DEF EntriesOK
<1>7. LoopsOK'
  BY <1>1 DEF IInv, LoopsOK
<1>8. EveryoneHeard'
  <2> SUFFICES ASSUME NEW s \in 1 .. fd_count' - 1, ~net'[pfds'[s].fd].hungup
               PROVE  addressed[pfds'[s].fd] = heard[pfds'[s].fd]
    BY <1>1, <1>3 DEF EveryoneHeard, WaitsFor
  <2>1. pfds'[s] = pfds[Source(s)] /\ Source(s) \in 1 .. fd_count - 1
    BY <1>4
  <2>2. pfds[Source(s)].fd \in Clients
    BY <2>1, EntryIsOpen DEF IInv
  <2> QED
    BY <1>1, <1>3, <2>1, <2>2 DEF IInv, EveryoneHeard, WaitsFor
<1>9. Newcomers'
  BY <1>3 DEF IInv, Newcomers
<1> QED
  BY <1>3, <1>4, <1>6, <1>7, <1>8, <1>9 DEF IInv

\* Whoever a message is sent to has an entry of its own, and waits for it.
LEMMA ReceiverWaits ==
  ASSUME IInv, pc = "send", j < fd_count, ~Excepted(pfds[j].fd)
  PROVE  /\ j \in 1 .. fd_count - 1 /\ WaitsFor(j)
         /\ pfds[j].fd \in Clients /\ pfds[j].fd \in Accepted /\ pfds[j].fd # buf.by
<1>1. j \in Nat /\ fd_count \in Nat /\ pfds[0].fd = listener /\ pfds[i].fd = buf.by
  BY DEF IInv, LoopsOK, ArrayOK, EntriesOK
<1>2. j # 0 /\ j # i /\ pfds[j].fd # buf.by
  BY <1>1 DEF Excepted
<1>3. j \in 1 .. fd_count - 1
  BY <1>1, <1>2
<1> QED
  BY <1>1, <1>2, <1>3, EntryIsOpen DEF WaitsFor, IInv

\* Once the loop has passed an entry nobody waits there.
LEMMA Passed ==
  ASSUME pc = "send", UNCHANGED <<pc, i>>, j \in Nat, j' = j + 1, NEW s \in Nat
  PROVE  WaitsFor(s)' <=> WaitsFor(s) /\ s # j
  BY DEF WaitsFor

LEMMA SendKeeps == IInv /\ Send => IInv'
<1> SUFFICES ASSUME IInv, Send
             PROVE  IInv'
  OBVIOUS
<1> DEFINE fd == pfds[j].fd
<1>1. /\ pc = "send" /\ j < fd_count
      /\ UNCHANGED <<pfds, fd_count, fd_size, i, buf>>
      /\ \/ Excepted(fd) /\ pc' = pc /\ j' = j + 1 /\ UNCHANGED sockets
         \/ ~Excepted(fd) /\ send(fd, buf.texts) /\ pc' = pc /\ j' = j + 1
         \/ ~Excepted(fd) /\ send_raises_SIGPIPE(fd) /\ pc' = "dead" /\ j' = j
  BY DEF Send, SendTo
<1>2. /\ j \in Nat /\ i \in 1 .. fd_count - 1 /\ pfds[i].fd = buf.by
      /\ buf.texts \in Chunks /\ buf.texts \in Seq(Says) /\ fd_count \in Nat
  BY <1>1 DEF IInv, LoopsOK, ArrayOK
<1>3. ASSUME Excepted(fd), pc' = pc, j' = j + 1, UNCHANGED sockets
      PROVE  IInv'
  <2>1. SocketsOK' /\ ArrayOK' /\ EntriesOK' /\ Newcomers'
    BY <1>1, <1>3, SameSockets, SameArray DEF IInv
  <2>2. LoopsOK'
    BY <1>1, <1>3 DEF IInv, LoopsOK
  <2>3. ASSUME NEW s \in 1 .. fd_count - 1
        PROVE  WaitsFor(s)' <=> WaitsFor(s)
    <3>1. s = j => s = i
      <4>1. fd # listener => fd = buf.by
        BY <1>3 DEF Excepted
      <4>2. pfds[s].fd # listener
        BY EntryIsOpen DEF IInv
      <4> QED
        BY <1>2, <4>1, <4>2 DEF IInv, EntriesOK
    <3>2. s \in Nat
      BY <1>2
    <3> QED
      BY <1>1, <1>2, <1>3, <3>1, <3>2, Passed DEF WaitsFor
  <2>4. EveryoneHeard'
    BY <1>1, <1>3, <2>3 DEF IInv, EveryoneHeard, sockets
  <2> QED
    BY <2>1, <2>2, <2>4 DEF IInv
<1>4. ASSUME ~Excepted(fd)
      PROVE  /\ j \in 1 .. fd_count - 1 /\ WaitsFor(j)
             /\ fd \in Clients /\ fd \in Accepted /\ fd # buf.by
  BY <1>1, <1>4, ReceiverWaits
<1>5. ASSUME ~Excepted(fd), send(fd, buf.texts), pc' = pc, j' = j + 1
      PROVE  IInv'
  <2>1. j \in 1 .. fd_count - 1 /\ WaitsFor(j) /\ fd \in Clients /\ fd \in Accepted
    BY <1>4, <1>5
  <2>2. /\ SocketsOK' /\ addressed' = addressed /\ Accepted' = Accepted
        /\ \A d \in Clients :
             /\ net'[d].hungup = net[d].hungup /\ net'[d].phase = net[d].phase
             /\ net'[d].up = net[d].up
        /\ \/ ~net[fd].hungup /\ heard' = [heard EXCEPT ![fd] = @ \o buf.texts]
           \/ net[fd].hungup /\ heard' = heard
    BY <1>2, <1>5, <2>1, SendOutcome DEF IInv
  <2>3. ArrayOK' /\ EntriesOK'
    BY <1>1, <2>2, SameArray DEF IInv
  <2>4. LoopsOK'
    BY <1>1, <1>5 DEF IInv, LoopsOK
  <2>5. heard \in [Clients -> Seq(Says)]
    BY DEF IInv, SocketsOK
  <2>6. EveryoneHeard'
    <3> SUFFICES ASSUME NEW s \in 1 .. fd_count - 1, ~net'[pfds[s].fd].hungup
                 PROVE  addressed[pfds[s].fd] =
                          IF WaitsFor(s)' THEN heard'[pfds[s].fd] \o buf.texts ELSE heard'[pfds[s].fd]
      BY <1>1, <2>2 DEF EveryoneHeard
    <3>1. pfds[s].fd \in Clients /\ ~net[pfds[s].fd].hungup
      BY <2>2, EntryIsOpen DEF IInv
    <3>2. addressed[pfds[s].fd] =
            IF WaitsFor(s) THEN heard[pfds[s].fd] \o buf.texts ELSE heard[pfds[s].fd]
      BY <1>1, <3>1 DEF IInv, EveryoneHeard
    <3>3. WaitsFor(s)' <=> WaitsFor(s) /\ s # j
      <4>1. s \in Nat
        BY <1>2
      <4> QED
        BY <1>1, <1>2, <1>5, <4>1, Passed
    <3>4. CASE s = j
      <4>1. WaitsFor(s) /\ ~WaitsFor(s)'
        BY <2>1, <3>3, <3>4
      <4>2. pfds[s].fd = fd
        BY <3>4
      <4>3. heard'[fd] = heard[fd] \o buf.texts
        BY <2>1, <2>2, <2>5, <3>1, <4>2
      <4> QED
        BY <3>2, <4>1, <4>2, <4>3
    <3>5. CASE s # j
      <4>1. pfds[s].fd # fd
        BY <2>1, <3>5 DEF IInv, EntriesOK
      <4>2. heard'[pfds[s].fd] = heard[pfds[s].fd]
        BY <2>2, <2>5, <3>1, <4>1
      <4> QED
        BY <3>2, <3>3, <3>5, <4>2
    <3> QED
      BY <3>4, <3>5
  <2>7. Newcomers'
    <3> SUFFICES ASSUME NEW d \in Clients, net'[d].phase \in {"away", "backlog"}
                 PROVE  heard'[d] = addressed[d]
      BY <2>2 DEF Newcomers
    <3>1. d \notin Accepted /\ heard[d] = addressed[d]
      BY <2>2 DEF IInv, Newcomers, Accepted, InPhase
    <3>2. heard'[d] = heard[d]
      BY <2>1, <2>2, <2>5, <3>1
    <3> QED
      BY <3>1, <3>2
  <2> QED
    BY <2>2, <2>3, <2>4, <2>6, <2>7 DEF IInv
<1>6. ASSUME ~Excepted(fd), send_raises_SIGPIPE(fd), pc' = "dead", j' = j
      PROVE  IInv'
  <2>1. UNCHANGED sockets
    BY <1>6 DEF send_raises_SIGPIPE
  <2>2. SocketsOK' /\ ArrayOK' /\ EntriesOK' /\ Newcomers'
    BY <1>1, <2>1, SameSockets, SameArray DEF IInv
  <2>3. LoopsOK'
    BY <1>1, <1>6 DEF IInv, LoopsOK
  <2>4. EveryoneHeard'
    BY <1>6 DEF EveryoneHeard
  <2> QED
    BY <2>2, <2>3, <2>4 DEF IInv
<1> HIDE DEF fd
<1> QED
  BY <1>1, <1>3, <1>5, <1>6

LEMMA EndSendKeeps == IInv /\ EndSend => IInv'
<1> SUFFICES ASSUME IInv, EndSend
             PROVE  IInv'
  OBVIOUS
<1>1. /\ pc = "send" /\ j >= fd_count /\ pc' = "scan" /\ i' = i + 1
      /\ UNCHANGED sockets /\ UNCHANGED <<pfds, fd_count, fd_size, j>>
  BY DEF EndSend
<1>2. SocketsOK' /\ ArrayOK' /\ EntriesOK' /\ Newcomers'
  BY <1>1, SameSockets, SameArray DEF IInv
<1>3. LoopsOK'
  BY <1>1 DEF IInv, LoopsOK
<1>4. \A s \in 1 .. fd_count - 1 : ~WaitsFor(s)
  BY <1>1 DEF IInv, ArrayOK, LoopsOK, WaitsFor
<1>5. \A s : ~WaitsFor(s)'
  BY <1>1 DEF WaitsFor
<1>6. EveryoneHeard'
  BY <1>1, <1>4, <1>5 DEF IInv, EveryoneHeard, sockets
<1> QED
  BY <1>2, <1>3, <1>6 DEF IInv


LEMMA StepKeeps == IInv /\ [Next]_vars => IInv'
<1>1. ASSUME IInv, UNCHANGED vars PROVE IInv'
  <2>1. SocketsOK' /\ ArrayOK' /\ EntriesOK' /\ Newcomers'
    BY <1>1, SameSockets, SameArray DEF IInv, vars
  <2>2. LoopsOK'
    BY <1>1 DEF IInv, vars, LoopsOK
  <2>3. EveryoneHeard'
    BY <1>1 DEF IInv, vars, EveryoneHeard, WaitsFor, sockets
  <2> QED
    BY <2>1, <2>2, <2>3 DEF IInv
<1> QED
  BY <1>1, ClientKeeps, PollKeeps, SkipKeeps, EndScanKeeps, AcceptKeeps, ReceiveKeeps,
     CloseKeeps, SendKeeps, EndSendKeeps DEF Next, ServerNext

LEMMA InitHolds == Init => IInv
<1> SUFFICES ASSUME Init PROVE IInv
  OBVIOUS
<1>1. \A c \in Clients : /\ net[c].phase = "away" /\ ~net[c].hungup
                         /\ addressed[c] = <<>> /\ heard[c] = <<>>
  BY DEF Init, SocketsInit
<1>2. SocketsOK
  <2>1. [phase |-> "away", up |-> <<>>, spoken |-> 0, unread |-> 0,
         hungup |-> FALSE, reset |-> FALSE] \in Connection
    BY DEF Connection
  <2> QED
    BY <2>1 DEF Init, SocketsInit, SocketsOK
<1>3. Accepted = {}
  BY <1>1 DEF Accepted, InPhase
<1>4. /\ fd_count = 1 /\ fd_size = FD_SIZE /\ FD_SIZE \in Nat /\ FD_SIZE >= 1
      /\ pfds = [s \in 0 .. FD_SIZE - 1 |->
                   IF s = 0 THEN [fd |-> listener, revents |-> "garbage"] ELSE Garbage]
  BY PollAssumption DEF Init
<1>5. Garbage \in Slot /\ [fd |-> listener, revents |-> "garbage"] \in Slot
  BY DEF Garbage, Slot, Revents
<1>6. ArrayOK
  BY <1>4, <1>5 DEF ArrayOK
<1>7. EntriesOK
  <2>1. pfds[0].fd = listener
    BY <1>4
  <2>2. Cardinality(Accepted) = 0
    BY <1>3, FS_EmptySet
  <2> QED
    BY <1>3, <1>4, <2>1, <2>2 DEF EntriesOK
<1>8. \A s \in 1 .. fd_count - 1 : FALSE
  BY <1>4
<1>9. LoopsOK /\ EveryoneHeard /\ Newcomers
  BY <1>1, <1>8 DEF Init, LoopsOK, EveryoneHeard, Newcomers
<1> QED
  BY <1>2, <1>6, <1>7, <1>9 DEF IInv

LEMMA Invariance == Spec => []IInv
  BY InitHolds, StepKeeps, PTL DEF Spec

-----------------------------------------------------------------------------
(***************************************************************************)
(* The theorems.                                                           *)
(***************************************************************************)
\* However connections come and go under the two loops, the array poll is given holds
\* the listener and every open connection, each of them once, and nothing else.
THEOREM EntriesHold == Spec => []EntriesAreTheConnections
<1>1. IInv => EntriesAreTheConnections
  <2> SUFFICES ASSUME IInv PROVE EntriesAreTheConnections
    OBVIOUS
  <2>1. fd_count \in Nat /\ fd_count >= 1
    BY DEF IInv, ArrayOK
  <2>2. ASSUME NEW s \in 0 .. fd_count - 1
        PROVE  pfds[s].fd \in {listener} \cup Accepted
    <3>1. s = 0 \/ s \in 1 .. fd_count - 1
      BY <2>1
    <3> QED
      BY <3>1 DEF IInv, EntriesOK
  <2>3. ASSUME NEW d \in {listener} \cup Accepted
        PROVE  \E s \in 0 .. fd_count - 1 : pfds[s].fd = d
    <3>1. CASE d = listener
      <4>1. 0 \in 0 .. fd_count - 1 /\ pfds[0].fd = d
        BY <2>1, <3>1 DEF IInv, EntriesOK
      <4> QED
        BY <4>1
    <3>2. CASE d \in Accepted
      <4>1. PICK s \in 1 .. fd_count - 1 : pfds[s].fd = d
        BY <3>2 DEF IInv, EntriesOK
      <4>2. s \in 0 .. fd_count - 1
        BY <2>1
      <4> QED
        BY <4>1, <4>2
    <3> QED
      BY <3>1, <3>2
  <2> QED
    BY <2>2, <2>3 DEF EntriesAreTheConnections, IInv, EntriesOK
<1> QED
  BY <1>1, Invariance, PTL

-----------------------------------------------------------------------------
(***************************************************************************)
(* The server is a chat room.                                              *)
(***************************************************************************)
room == <<Accepted, Gone, addressed, heard>>

LEMMA ClientInRoom == IInv /\ ClientNext => [Room!Next]_room
<1>1. ASSUME IInv, NEW c \in Clients, Connect(c) \/ Speak(c) \/ Read(c)
      PROVE  UNCHANGED room
  BY <1>1, ConnectOutcome, SpeakOutcome, ReadOutcome DEF IInv, Kept, room
<1>2. ASSUME IInv, NEW c \in Clients, HangUp(c)
      PROVE  Room!Next
  <2>1. Kept /\ Gone' = Gone \cup {c}
    BY <1>2, HangUpOutcome DEF IInv
  <2>2. Room!HangUp(c)
    BY <2>1 DEF Room!HangUp, Kept, Gone
  <2> QED
    BY <2>2 DEF Room!Next
<1> QED
  BY <1>1, <1>2 DEF ClientNext

LEMMA QuietInRoom == Poll \/ Skip \/ EndScan \/ EndSend => UNCHANGED room
<1>1. Poll \/ Skip \/ EndScan \/ EndSend => UNCHANGED sockets
  BY DEF Poll, Skip, EndScan, EndSend
<1> QED
  BY <1>1, SameSockets DEF room, sockets

LEMMA AcceptInRoom == IInv /\ Accept => [Room!Next]_room
<1> SUFFICES ASSUME IInv, Accept
             PROVE  [Room!Next]_room
  OBVIOUS
<1>1. ASSUME NEW c \in Backlog, accept(c)
      PROVE  Room!Next
  <2>1. /\ c \in Clients /\ c \notin Accepted /\ Accepted' = Accepted \cup {c}
        /\ Gone' = Gone /\ UNCHANGED <<addressed, heard>>
    BY <1>1, AcceptOutcome DEF IInv
  <2>2. Room!Join(c)
    BY <2>1 DEF Room!Join, Gone
  <2> QED
    BY <2>1, <2>2 DEF Room!Next
<1>2. UNCHANGED sockets => UNCHANGED room
  BY SameSockets DEF room, sockets
<1> QED
  BY <1>1, <1>2 DEF Accept

LEMMA ReceiveInRoom == IInv /\ Receive => Room!Next
<1> SUFFICES ASSUME IInv, Receive
             PROVE  Room!Next
  OBVIOUS
<1> DEFINE c == Entry.fd
<1>1. pc = "scan" /\ recv(c)
  BY DEF Receive, Reported, Scanning
<1>2. c \in Clients /\ c \in Accepted
  BY ScannedEntry DEF Receive
<1>3. \A d \in Accepted \ Gone : heard[d] = addressed[d]
  <2> SUFFICES ASSUME NEW d \in Accepted, ~net[d].hungup
               PROVE  heard[d] = addressed[d]
    BY DEF Gone, Accepted, InPhase
  <2>1. PICK s \in 1 .. fd_count - 1 : pfds[s].fd = d
    BY DEF IInv, EntriesOK
  <2> QED
    BY <1>1, <2>1 DEF IInv, EveryoneHeard, WaitsFor
<1> HIDE DEF c
<1>4. /\ heard' = heard /\ Chunk(c) \in Chunks /\ Accepted' = Accepted /\ Gone' = Gone
      /\ addressed' = [d \in Clients |->
                         IF d \in Accepted \ {c} THEN addressed[d] \o Chunk(c) ELSE addressed[d]]
  BY <1>1, <1>2, RecvOutcome DEF IInv
<1>5. Room!Say(c, Chunk(c))
  BY <1>2, <1>3, <1>4 DEF Room!Say, Gone
<1> QED
  BY <1>2, <1>4, <1>5 DEF Room!Next

LEMMA CloseInRoom == IInv /\ Close => Room!Next
<1> SUFFICES ASSUME IInv, Close
             PROVE  Room!Next
  OBVIOUS
<1> DEFINE c == Entry.fd
<1>1. recv_end_close(c)
  BY DEF Close
<1>2. c \in Clients /\ c \in Accepted
  BY ScannedEntry DEF Close
<1> HIDE DEF c
<1>3. /\ UNCHANGED <<addressed, heard>> /\ net[c].hungup
      /\ Accepted' = Accepted \ {c} /\ Gone' = Gone
  BY <1>1, <1>2, CloseOutcome DEF IInv
<1>4. Room!Leave(c)
  BY <1>2, <1>3 DEF Room!Leave, Gone
<1> QED
  BY <1>2, <1>4 DEF Room!Next

LEMMA SendInRoom == IInv /\ Send => [Room!Next]_room
<1> SUFFICES ASSUME IInv, Send
             PROVE  [Room!Next]_room
  OBVIOUS
<1> DEFINE c == pfds[j].fd
           texts == buf.texts
<1>1. /\ pc = "send" /\ j < fd_count
      /\ UNCHANGED sockets \/ (~Excepted(c) /\ send(c, texts))
  BY DEF Send, SendTo, send_raises_SIGPIPE
<1>2. UNCHANGED sockets => UNCHANGED room
  BY SameSockets DEF room, sockets
<1>3. ASSUME ~Excepted(c), send(c, texts)
      PROVE  [Room!Next]_room
  <2>1. j \in 1 .. fd_count - 1 /\ WaitsFor(j) /\ c \in Clients /\ c \in Accepted
    BY <1>1, <1>3, ReceiverWaits
  <2>2. texts \in Chunks /\ texts \in Seq(Says)
    BY <1>1 DEF IInv, LoopsOK
  <2>3. ~net[c].hungup => addressed[c] = heard[c] \o texts
    BY <1>1, <2>1 DEF IInv, EveryoneHeard
  <2> HIDE DEF c, texts
  <2>4. /\ addressed' = addressed /\ Accepted' = Accepted /\ Gone' = Gone /\ SocketsOK'
        /\ \/ ~net[c].hungup /\ heard' = [heard EXCEPT ![c] = @ \o texts]
           \/ net[c].hungup /\ heard' = heard
    BY <1>3, <2>1, <2>2, SendOutcome DEF IInv
  <2>5. CASE ~net[c].hungup /\ heard' = [heard EXCEPT ![c] = @ \o texts]
    <3>1. heard'[c] = addressed[c] /\ heard'[c] \in Seq(Says)
      BY <2>1, <2>3, <2>4, <2>5 DEF IInv, SocketsOK
    <3>2. Len(heard'[c]) \in Nat
      BY <3>1
    <3>3. Room!IsPrefix(heard'[c], addressed[c])
      BY <3>1, <3>2 DEF Room!IsPrefix
    <3>4. Room!Hear(c, texts)
      BY <2>1, <2>4, <2>5, <3>3 DEF Room!Hear, Gone
    <3> QED
      BY <2>1, <2>2, <3>4 DEF Room!Next
  <2>6. CASE net[c].hungup /\ heard' = heard
    BY <2>4, <2>6 DEF room
  <2> QED
    BY <2>4, <2>5, <2>6
<1> QED
  BY <1>1, <1>2, <1>3

\* The server is the chat room of Chat: what a client says goes to everyone who is
\* connected when it is taken, whole, once, in the same order for all, and never back
\* to its author, however the array grows and its entries move.
THEOREM IsAChatRoom == Spec => ChatSpec
<1>1. Init => Room!Init
  <2> SUFFICES ASSUME Init PROVE Room!Init
    OBVIOUS
  <2>1. \A c \in Clients : net[c].phase = "away" /\ ~net[c].hungup
    BY DEF Init, SocketsInit
  <2>2. Accepted = {} /\ Gone = {}
    BY <2>1 DEF Accepted, InPhase, Gone
  <2> QED
    BY <2>2 DEF Init, SocketsInit, Room!Init, Gone
<1>2. IInv /\ [Next]_vars => [Room!Next]_room
  <2>1. UNCHANGED vars => UNCHANGED room
    BY SameSockets DEF vars, room, sockets
  <2> QED
    BY <2>1, ClientInRoom, QuietInRoom, AcceptInRoom, ReceiveInRoom, CloseInRoom, SendInRoom
       DEF Next, ServerNext
<1> QED
  BY <1>1, <1>2, Invariance, PTL DEF Spec, ChatSpec, Room!Spec, room, Gone


=============================================================================
