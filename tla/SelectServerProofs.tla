-------------------------- MODULE SelectServerProofs --------------------------
(***************************************************************************)
(* Theorems about selectserver.c, for any number of clients and texts, and *)
(* for buffers of any size.                                                *)
(***************************************************************************)
EXTENDS SelectServer, FiniteSetTheorems, SequenceTheorems, WellFoundedInduction, TLAPS

Gone == {c \in Clients : net[c].hungup}

-----------------------------------------------------------------------------
(***************************************************************************)
(* The inductive invariant.                                                *)
(***************************************************************************)
Connection ==
  [phase : {"away", "backlog", "open", "closed"}, up : Seq(Says), spoken : Nat,
   unread : Nat, hungup : BOOLEAN, reset : BOOLEAN]

SocketsOK ==
  /\ net \in [Clients -> Connection]
  /\ addressed \in [Clients -> Seq(Says)]
  /\ heard \in [Clients -> Seq(Says)]

\* Every descriptor but the listener's that is in the set belongs to one open
\* connection, and every open connection has one, which fdmax reaches.
TableOK ==
  /\ master \subseteq Fds /\ listener \in master /\ fdmax \in Nat
  /\ owner \in [Fds -> Clients \cup {None}]
  /\ \A fd \in Fds \ {listener} : fd \in master <=> owner[fd] # None
  /\ \A fd \in Fds : owner[fd] # None => fd # listener /\ owner[fd] \in Accepted
  /\ \A c \in Accepted : \E fd \in Fds : owner[fd] = c
  /\ \A fd, gd \in Fds : owner[fd] = owner[gd] /\ owner[fd] # None => fd = gd
  /\ \A fd \in master : fd <= fdmax

LoopsOK ==
  /\ pc \in {"select", "scan", "send", "dead"}
  /\ i \in Nat /\ j \in Nat
  /\ read_fds \subseteq Fds
  /\ pc = "send" => i \in master \ {listener} /\ buf \in Chunks /\ buf \in Seq(Says)

\* What select reported and the scan has not come to is still so.
ReportsHold ==
  pc \in {"scan", "send"} =>
    \A fd \in read_fds \ {listener} :
      fd > i \/ (fd = i /\ pc = "scan") => owner[fd] # None /\ Readable(owner[fd])

\* While a message is sent, those the loop has not come to wait for it; everyone
\* else who is still there has heard everything.
WaitsFor(fd) == pc = "send" /\ fd # i /\ fd >= j

EveryoneHeard ==
  pc # "dead" =>
    \A fd \in master \ {listener} :
      ~net[owner[fd]].hungup =>
        addressed[owner[fd]] = IF WaitsFor(fd) THEN heard[owner[fd]] \o buf ELSE heard[owner[fd]]

\* Nothing was addressed to a client who is not in the room yet.
Newcomers ==
  \A c \in Clients : net[c].phase \in {"away", "backlog"} => heard[c] = addressed[c]

IInv == SocketsOK /\ TableOK /\ LoopsOK /\ ReportsHold /\ EveryoneHeard /\ Newcomers

-----------------------------------------------------------------------------
(***************************************************************************)
(* What the clients do.                                                    *)
(***************************************************************************)
\* A client changes neither who is in the room nor what was addressed to whom; one
\* who hangs up stays gone, and what could be received still can.
Kept ==
  /\ UNCHANGED <<addressed, heard>>
  /\ Accepted' = Accepted
  /\ \A c \in Clients :
       /\ net[c].hungup => net'[c].hungup
       /\ Readable(c) => Readable(c)'
       /\ net'[c].phase \in {"away", "backlog"} => net[c].phase \in {"away", "backlog"}

LEMMA ConnectOutcome ==
  ASSUME SocketsOK, NEW c \in Clients, Connect(c)
  PROVE  SocketsOK' /\ Kept /\ Gone' = Gone
<1>1. /\ net \in [Clients -> Connection]
      /\ net[c].phase = "away"
      /\ net' = [net EXCEPT ![c] = [net[c] EXCEPT !.phase = "backlog"]]
      /\ UNCHANGED <<addressed, heard>>
  BY DEF SocketsOK, Connect
<1>2. SocketsOK'
  BY <1>1 DEF SocketsOK, Connection
<1>3. \A d \in Clients : /\ net'[d].hungup = net[d].hungup /\ net'[d].up = net[d].up
                         /\ d # c => net'[d] = net[d]
  BY <1>1 DEF Connection
<1>4. net'[c].phase = "backlog"
  BY <1>1 DEF Connection
<1>5. Accepted' = Accepted /\ Gone' = Gone
  BY <1>1, <1>3, <1>4 DEF Accepted, InPhase, Gone
<1> QED
  BY <1>1, <1>2, <1>3, <1>4, <1>5 DEF Kept, Readable

LEMMA SpeakOutcome ==
  ASSUME SocketsOK, NEW c \in Clients, Speak(c)
  PROVE  SocketsOK' /\ Kept /\ Gone' = Gone
<1> DEFINE text == <<c, net[c].spoken + 1>>
<1>1. /\ net \in [Clients -> Connection]
      /\ net[c].spoken < MaxTexts /\ c \in Talkers
      /\ net' = [net EXCEPT ![c] = [net[c] EXCEPT !.spoken = @ + 1, !.up = Append(@, text)]]
      /\ UNCHANGED <<addressed, heard>>
  BY DEF SocketsOK, Speak
<1>2. net[c].up \in Seq(Says) /\ net[c].spoken \in Nat /\ net[c].spoken + 1 \in Nat
  BY <1>1 DEF Connection
<1>3. text \in Says
  BY <1>1, <1>2, SocketAssumption DEF Says
<1> HIDE DEF text
<1>4. Append(net[c].up, text) \in Seq(Says) /\ Append(net[c].up, text) # <<>>
  BY <1>2, <1>3, AppendProperties
<1>5. net' \in [Clients -> Connection]
  BY <1>1, <1>2, <1>4 DEF Connection
<1>6. \A d \in Clients : /\ net'[d].hungup = net[d].hungup /\ net'[d].phase = net[d].phase
                         /\ d # c => net'[d] = net[d]
  BY <1>1 DEF Connection
<1>7. net'[c].up # <<>>
  BY <1>1, <1>4 DEF Connection
<1>8. Accepted' = Accepted /\ Gone' = Gone
  BY <1>6 DEF Accepted, InPhase, Gone
<1> QED
  BY <1>1, <1>5, <1>6, <1>7, <1>8 DEF Kept, Readable, SocketsOK

LEMMA ReadOutcome ==
  ASSUME SocketsOK, NEW c \in Clients, Read(c)
  PROVE  SocketsOK' /\ Kept /\ Gone' = Gone
<1>1. /\ net \in [Clients -> Connection]
      /\ net' = [net EXCEPT ![c] = [net[c] EXCEPT !.unread = 0]]
      /\ UNCHANGED <<addressed, heard>>
  BY DEF SocketsOK, Read
<1>2. SocketsOK'
  BY <1>1 DEF SocketsOK, Connection
<1>3. \A d \in Clients : /\ net'[d].hungup = net[d].hungup /\ net'[d].phase = net[d].phase
                         /\ net'[d].up = net[d].up
  BY <1>1 DEF Connection
<1>4. Accepted' = Accepted /\ Gone' = Gone
  BY <1>3 DEF Accepted, InPhase, Gone
<1> QED
  BY <1>1, <1>2, <1>3, <1>4 DEF Kept, Readable

LEMMA HangUpOutcome ==
  ASSUME SocketsOK, NEW c \in Clients, HangUp(c)
  PROVE  SocketsOK' /\ Kept /\ Gone' = Gone \cup {c}
<1>1. /\ net \in [Clients -> Connection]
      /\ net' = [net EXCEPT ![c] = [net[c] EXCEPT !.hungup = TRUE, !.unread = 0]]
      /\ UNCHANGED <<addressed, heard>>
  BY DEF SocketsOK, HangUp
<1>2. SocketsOK'
  BY <1>1 DEF SocketsOK, Connection
<1>3. \A d \in Clients : /\ net'[d].phase = net[d].phase /\ net'[d].up = net[d].up
                         /\ d # c => net'[d] = net[d]
  BY <1>1 DEF Connection
<1>4. net'[c].hungup
  BY <1>1 DEF Connection
<1>5. Accepted' = Accepted /\ Gone' = Gone \cup {c}
  BY <1>3, <1>4 DEF Accepted, InPhase, Gone
<1> QED
  BY <1>1, <1>2, <1>3, <1>4, <1>5 DEF Kept, Readable

LEMMA ClientOutcome == SocketsOK /\ ClientNext => SocketsOK' /\ Kept
  BY ConnectOutcome, SpeakOutcome, ReadOutcome, HangUpOutcome DEF ClientNext

-----------------------------------------------------------------------------
(***************************************************************************)
(* What the server's calls do.                                             *)
(***************************************************************************)
LEMMA MinOfTwo ==
  ASSUME NEW x \in Nat, NEW y \in Nat
  PROVE  Min({x, y}) = IF x <= y THEN x ELSE y
<1> DEFINE m == IF x <= y THEN x ELSE y
<1>1. m \in {x, y} /\ \A z \in {x, y} : m <= z
  OBVIOUS
<1>2. \A z \in {x, y} : (\A w \in {x, y} : z <= w) => z = m
  OBVIOUS
<1> HIDE DEF m
<1>3. Min({x, y}) = m
  BY <1>1, <1>2 DEF Min
<1> QED
  BY <1>3 DEF m

\* What one recv takes, and what it leaves.
LEMMA ChunkOutcome ==
  ASSUME SocketsOK, NEW c \in Clients, net[c].up # <<>>
  PROVE  /\ Chunk(c) \in Chunks /\ Chunk(c) \in Seq(Says)
         /\ SubSeq(net[c].up, Len(Chunk(c)) + 1, Len(net[c].up)) \in Seq(Says)
<1> DEFINE up == net[c].up
           n == IF Len(up) <= BUF THEN Len(up) ELSE BUF
<1>1. up \in Seq(Says)
  BY DEF SocketsOK, Connection
<1> HIDE DEF up
<1>2. BUF \in Nat /\ BUF >= 1 /\ Len(up) \in Nat /\ Len(up) >= 1
  <2>1. up # <<>>
    BY DEF up
  <2> QED
    BY <1>1, <2>1, SocketAssumption
<1>3. n \in 1 .. BUF /\ n \in 1 .. Len(up)
  BY <1>2
<1>4. Chunk(c) = SubSeq(up, 1, n)
  <2>1. Min({Len(up), BUF}) = n
    BY <1>2, MinOfTwo
  <2> QED
    BY <2>1 DEF Chunk, up
<1> HIDE DEF n
<1>5. \A k \in 1 .. Len(up) : up[k] \in Says
  BY <1>1
<1>6. /\ SubSeq(up, 1, n) \in Seq(Says) /\ Len(SubSeq(up, 1, n)) = n
  <2>1. \A k \in 1 .. n : up[k] \in Says
    BY <1>2, <1>3, <1>5
  <2>2. n \in Int /\ 1 <= n /\ n - 1 + 1 = n
    BY <1>3
  <2> QED
    BY <2>1, <2>2, SubSeqProperties
<1>7. SubSeq(up, 1, n) \in [1 .. n -> Says]
  BY <1>6, LenProperties
<1>8. SubSeq(up, n + 1, Len(up)) \in Seq(Says)
  <2>1. \A k \in n + 1 .. Len(up) : up[k] \in Says
    BY <1>2, <1>3, <1>5
  <2>2. n + 1 \in Int /\ Len(up) \in Int
    BY <1>2, <1>3
  <2> QED
    BY <2>1, <2>2, SubSeqProperties
<1> QED
  BY <1>3, <1>4, <1>6, <1>7, <1>8 DEF Chunks, up


LEMMA AcceptOutcome ==
  ASSUME SocketsOK, NEW c \in Backlog, accept(c)
  PROVE  /\ SocketsOK' /\ UNCHANGED <<addressed, heard>>
         /\ c \in Clients /\ c \notin Accepted /\ net[c].phase = "backlog"
         /\ Accepted' = Accepted \cup {c} /\ Gone' = Gone
         /\ \A d \in Clients :
              /\ net'[d].hungup = net[d].hungup /\ net'[d].up = net[d].up
              /\ net'[d].phase = IF d = c THEN "open" ELSE net[d].phase
<1>1. /\ net \in [Clients -> Connection]
      /\ net' = [net EXCEPT ![c] = [net[c] EXCEPT !.phase = "open"]]
      /\ UNCHANGED <<addressed, heard>>
      /\ c \in Clients /\ net[c].phase = "backlog"
  BY DEF SocketsOK, accept, Backlog, InPhase
<1>2. SocketsOK'
  BY <1>1 DEF SocketsOK, Connection
<1>3. \A d \in Clients :
        /\ net'[d].hungup = net[d].hungup /\ net'[d].up = net[d].up
        /\ net'[d].phase = IF d = c THEN "open" ELSE net[d].phase
  BY <1>1 DEF Connection
<1>4. Accepted' = Accepted \cup {c} /\ Gone' = Gone /\ c \notin Accepted
  BY <1>1, <1>3 DEF Accepted, InPhase, Gone
<1> QED
  BY <1>1, <1>2, <1>3, <1>4

LEMMA RecvOutcome ==
  ASSUME SocketsOK, NEW c \in Clients, recv(c)
  PROVE  /\ SocketsOK' /\ heard' = heard
         /\ Chunk(c) \in Chunks /\ Chunk(c) \in Seq(Says)
         /\ Accepted' = Accepted /\ Gone' = Gone
         /\ addressed' = [d \in Clients |->
                            IF d \in Accepted \ {c} THEN addressed[d] \o Chunk(c) ELSE addressed[d]]
         /\ \A d \in Clients :
              /\ net'[d].hungup = net[d].hungup /\ net'[d].phase = net[d].phase
              /\ d # c => net'[d] = net[d]
<1> DEFINE rest == SubSeq(net[c].up, Len(Chunk(c)) + 1, Len(net[c].up))
<1>1. /\ net \in [Clients -> Connection] /\ net[c].up # <<>>
      /\ net' = [net EXCEPT ![c] = [net[c] EXCEPT !.up = rest]]
      /\ addressed' = [d \in Clients |->
                         IF d \in Accepted \ {c} THEN addressed[d] \o Chunk(c) ELSE addressed[d]]
      /\ heard' = heard
  BY DEF SocketsOK, recv
<1>2. rest \in Seq(Says) /\ Chunk(c) \in Chunks /\ Chunk(c) \in Seq(Says)
  BY <1>1, ChunkOutcome
<1> HIDE DEF rest
<1>3. net' \in [Clients -> Connection]
  BY <1>1, <1>2 DEF Connection
<1>4. \A d \in Clients : addressed[d] \in Seq(Says) /\ addressed[d] \o Chunk(c) \in Seq(Says)
  BY <1>2, ConcatProperties DEF SocketsOK
<1>5. addressed' \in [Clients -> Seq(Says)]
  BY <1>1, <1>4
<1>6. SocketsOK'
  BY <1>1, <1>3, <1>5 DEF SocketsOK
<1>7. \A d \in Clients :
        /\ net'[d].hungup = net[d].hungup /\ net'[d].phase = net[d].phase
        /\ d # c => net'[d] = net[d]
  BY <1>1 DEF Connection
<1>8. Accepted' = Accepted /\ Gone' = Gone
  BY <1>7 DEF Accepted, InPhase, Gone
<1> QED
  BY <1>1, <1>2, <1>6, <1>7, <1>8

LEMMA CloseOutcome ==
  ASSUME SocketsOK, NEW c \in Clients, recv_end_close(c)
  PROVE  /\ SocketsOK' /\ UNCHANGED <<addressed, heard>>
         /\ net[c].hungup
         /\ Accepted' = Accepted \ {c} /\ Gone' = Gone
         /\ \A d \in Clients :
              /\ net'[d].hungup = net[d].hungup /\ net'[d].up = net[d].up
              /\ net'[d].phase = IF d = c THEN "closed" ELSE net[d].phase
<1>1. /\ net \in [Clients -> Connection]
      /\ net' = [net EXCEPT ![c] = [net[c] EXCEPT !.phase = "closed"]]
      /\ UNCHANGED <<addressed, heard>>
      /\ net[c].hungup
  BY DEF SocketsOK, recv_end_close
<1>2. SocketsOK'
  BY <1>1 DEF SocketsOK, Connection
<1>3. \A d \in Clients :
        /\ net'[d].hungup = net[d].hungup /\ net'[d].up = net[d].up
        /\ net'[d].phase = IF d = c THEN "closed" ELSE net[d].phase
  BY <1>1 DEF Connection
<1>4. Accepted' = Accepted \ {c} /\ Gone' = Gone
  BY <1>1, <1>3 DEF Accepted, InPhase, Gone
<1> QED
  BY <1>1, <1>2, <1>3, <1>4

LEMMA SendOutcome ==
  ASSUME SocketsOK, NEW c \in Clients, NEW texts \in Seq(Says), send(c, texts)
  PROVE  /\ SocketsOK' /\ addressed' = addressed
         /\ Accepted' = Accepted /\ Gone' = Gone
         /\ \A d \in Clients :
              /\ net'[d].hungup = net[d].hungup /\ net'[d].phase = net[d].phase
              /\ net'[d].up = net[d].up
         /\ \/ ~net[c].hungup /\ heard' = [heard EXCEPT ![c] = @ \o texts]
            \/ net[c].hungup /\ heard' = heard
<1>1. net \in [Clients -> Connection] /\ heard \in [Clients -> Seq(Says)]
      /\ addressed' = addressed /\ Len(texts) \in Nat
  BY DEF SocketsOK, send
<1>2. CASE /\ ~net[c].hungup
           /\ net' = [net EXCEPT ![c].unread = @ + Len(texts)]
           /\ heard' = [heard EXCEPT ![c] = @ \o texts]
  <2>1. net' = [net EXCEPT ![c] = [net[c] EXCEPT !.unread = @ + Len(texts)]]
    BY <1>1, <1>2
  <2>2. net[c].unread + Len(texts) \in Nat
    BY <1>1 DEF Connection
  <2>3. net' \in [Clients -> Connection]
    BY <1>1, <2>1, <2>2 DEF Connection
  <2>4. heard[c] \o texts \in Seq(Says)
    BY <1>1, ConcatProperties
  <2>5. SocketsOK'
    BY <1>1, <1>2, <2>3, <2>4 DEF SocketsOK
  <2>6. \A d \in Clients :
          /\ net'[d].hungup = net[d].hungup /\ net'[d].phase = net[d].phase
          /\ net'[d].up = net[d].up
    BY <1>1, <2>1 DEF Connection
  <2>7. Accepted' = Accepted /\ Gone' = Gone
    BY <2>6 DEF Accepted, InPhase, Gone
  <2> QED
    BY <1>1, <1>2, <2>5, <2>6, <2>7
<1>3. CASE /\ net[c].hungup /\ heard' = heard
           /\ \E r \in BOOLEAN : net' = [net EXCEPT ![c].reset = r]
  <2>1. PICK r \in BOOLEAN : net' = [net EXCEPT ![c] = [net[c] EXCEPT !.reset = r]]
    BY <1>1, <1>3
  <2>2. SocketsOK'
    <3>1. [net[c] EXCEPT !.reset = r] \in Connection
      BY <1>1, Zenon DEF Connection
    <3>2. net' \in [Clients -> Connection]
      BY <1>1, <2>1, <3>1
    <3> QED
      BY <1>1, <1>3, <3>2 DEF SocketsOK
  <2>3. \A d \in Clients :
          /\ net'[d].hungup = net[d].hungup /\ net'[d].phase = net[d].phase
          /\ net'[d].up = net[d].up
    BY <1>1, <2>1 DEF Connection
  <2>4. Accepted' = Accepted /\ Gone' = Gone
    BY <2>3 DEF Accepted, InPhase, Gone
  <2> QED
    BY <1>1, <1>3, <2>2, <2>3, <2>4
<1> QED
  BY <1>2, <1>3 DEF send

-----------------------------------------------------------------------------
(***************************************************************************)
(* The descriptors.                                                        *)
(***************************************************************************)
LEMMA LeastNatural ==
  ASSUME NEW S, S \subseteq Nat, S # {}
  PROVE  Min(S) \in S /\ \A x \in S : Min(S) <= x
<1>1. \E x \in S : \A y \in S : ~(<<y, x>> \in OpToRel(<, Nat))
  BY NatLessThanWellFounded, WFMin
<1>2. PICK x \in S : \A y \in S : ~(<<y, x>> \in OpToRel(<, Nat))
  BY <1>1
<1>3. \A y \in S : x <= y
  <2> SUFFICES ASSUME NEW y \in S PROVE x <= y
    OBVIOUS
  <2>1. x \in Nat /\ y \in Nat /\ ~(y < x)
    BY <1>2 DEF OpToRel
  <2> QED
    BY <2>1
<1> QED
  BY <1>3 DEF Min

LEMMA FdsProperties ==
  /\ Cardinality(Clients) \in Nat /\ Fds = 0 .. Cardinality(Clients) /\ Fds \subseteq Nat
  /\ listener \in Fds
  BY SocketAssumption, FS_CardinalityType DEF Fds, listener

LEMMA TwoShare ==
  ASSUME NEW n \in Nat, NEW T, IsFiniteSet(T), Cardinality(T) < n
  PROVE  \A f \in [1 .. n -> T] : \E x, y \in 1 .. n : x # y /\ f[x] = f[y]
<1>1. IsFiniteSet(1 .. n) /\ Cardinality(1 .. n) = n
  <2>1. Cardinality(T) \in Nat
    BY FS_CardinalityType
  <2>2. n >= 1 /\ n \in Int
    BY <2>1
  <2> QED
    BY <2>2, FS_Interval
<1>2. \A S : IsFiniteSet(S) /\ Cardinality(T) < Cardinality(S) =>
        \A f \in [S -> T] : \E x, y \in S : x # y /\ f[x] = f[y]
  BY FS_PigeonHole
<1> QED
  BY <1>1, <1>2

\* While someone waits to be accepted not all descriptors are taken, for no two belong
\* to the same client; so the kernel has a number for the new connection.
LEMMA FreeDescriptor ==
  ASSUME TableOK, NEW c \in Clients, c \notin Accepted
  PROVE  /\ NewFd \in Fds \ {listener} /\ owner[NewFd] = None
         /\ NewFd \notin master
<1> DEFINE n == Cardinality(Clients)
           Others == Clients \ {c}
           Free == {fd \in Fds \ {listener} : owner[fd] = None}
<1>1. n \in Nat /\ Fds = 0 .. n /\ IsFiniteSet(Others) /\ Cardinality(Others) = n - 1
  BY FdsProperties, SocketAssumption, FS_RemoveElement
<1>3. Free # {}
  <2> SUFFICES ASSUME Free = {} PROVE FALSE
    OBVIOUS
  <2>1. \A fd \in 1 .. n : fd \in Fds /\ owner[fd] # None
    BY <1>1 DEF listener
  <2>2. \A fd \in 1 .. n : owner[fd] \in Others
    BY <2>1 DEF TableOK, Accepted, InPhase
  <2>3. [fd \in 1 .. n |-> owner[fd]] \in [1 .. n -> Others]
    BY <2>2
  <2> DEFINE place == [fd \in 1 .. n |-> owner[fd]]
  <2> HIDE DEF n, Others, place
  <2>4. Cardinality(Others) < n
    BY <1>1
  <2>5. place \in [1 .. n -> Others]
    BY <2>3 DEF place
  <2>6. \A f \in [1 .. n -> Others] : \E x, y \in 1 .. n : x # y /\ f[x] = f[y]
    BY <1>1, <2>4, TwoShare
  <2>7. PICK x \in 1 .. n, y \in 1 .. n : x # y /\ place[x] = place[y]
    BY <2>5, <2>6, Zenon
  <2>8. owner[x] = owner[y]
    BY <2>7 DEF place
  <2> QED
    BY <2>1, <2>7, <2>8 DEF TableOK
<1>4. NewFd \in Free
  <2>1. Free \subseteq Nat /\ NewFd = Min(Free)
    BY FdsProperties DEF NewFd
  <2> HIDE DEF Free
  <2> QED
    BY <1>3, <2>1, LeastNatural
<1> QED
  BY <1>4 DEF TableOK


-----------------------------------------------------------------------------
(***************************************************************************)
(* Every step keeps the invariant.                                         *)
(***************************************************************************)
LEMMA SameTable ==
  TableOK /\ UNCHANGED <<master, fdmax, owner>> /\ Accepted' = Accepted => TableOK'
  BY DEF TableOK

LEMMA SameSockets ==
  UNCHANGED sockets => /\ (SocketsOK => SocketsOK') /\ (Newcomers => Newcomers')
                       /\ Accepted' = Accepted /\ Gone' = Gone
                       /\ \A c : Readable(c)' = Readable(c)
  BY DEF sockets, SocketsOK, Newcomers, Accepted, InPhase, Gone, Readable

\* Whose descriptor it is.
LEMMA Owners ==
  ASSUME TableOK, NEW fd \in Fds, owner[fd] # None
  PROVE  /\ owner[fd] \in Clients /\ owner[fd] \in Accepted /\ net[owner[fd]].phase = "open"
         /\ fd \in master \ {listener}
         /\ \A gd \in Fds : gd # fd => owner[gd] # owner[fd]
  BY DEF TableOK, Accepted, InPhase

LEMMA InTheSet ==
  ASSUME TableOK, NEW fd \in master \ {listener}
  PROVE  fd \in Fds /\ owner[fd] # None
  BY DEF TableOK

LEMMA ClientKeeps == IInv /\ ClientNext /\ UNCHANGED server => IInv'
<1> SUFFICES ASSUME IInv, ClientNext, UNCHANGED server
             PROVE  IInv'
  OBVIOUS
<1> USE DEF server
<1>1. SocketsOK' /\ Kept
  BY ClientOutcome DEF IInv
<1>2. TableOK' /\ LoopsOK'
  BY <1>1, SameTable DEF IInv, Kept, LoopsOK
<1>3. ReportsHold'
  <2> SUFFICES ASSUME pc \in {"scan", "send"}, NEW fd \in read_fds \ {listener},
                      fd > i \/ (fd = i /\ pc = "scan")
               PROVE  owner[fd] # None /\ Readable(owner[fd])'
    BY DEF ReportsHold
  <2>1. owner[fd] # None /\ Readable(owner[fd]) /\ fd \in Fds
    BY DEF IInv, ReportsHold, LoopsOK
  <2>2. owner[fd] \in Clients
    BY <2>1, Owners DEF IInv
  <2> QED
    BY <1>1, <2>1, <2>2 DEF Kept
<1>4. EveryoneHeard'
  <2> SUFFICES ASSUME pc # "dead", NEW fd \in master \ {listener}, ~net'[owner[fd]].hungup
               PROVE  addressed[owner[fd]] = IF WaitsFor(fd) THEN heard[owner[fd]] \o buf
                                             ELSE heard[owner[fd]]
    BY <1>1 DEF EveryoneHeard, Kept, WaitsFor
  <2>1. owner[fd] \in Clients
    BY InTheSet, Owners DEF IInv
  <2>2. ~net[owner[fd]].hungup
    BY <1>1, <2>1 DEF Kept
  <2> QED
    BY <2>2 DEF IInv, EveryoneHeard
<1>5. Newcomers'
  BY <1>1 DEF Kept, Newcomers, IInv
<1> QED
  BY <1>1, <1>2, <1>3, <1>4, <1>5 DEF IInv

LEMMA SelectKeeps == IInv /\ Select => IInv'
<1> SUFFICES ASSUME IInv, Select
             PROVE  IInv'
  OBVIOUS
<1>1. /\ pc = "select" /\ pc' = "scan" /\ i' = 0
      /\ read_fds' = {fd \in master : fd <= fdmax /\ Ready(fd)}
      /\ UNCHANGED sockets /\ UNCHANGED <<master, fdmax, owner, j, buf>>
  BY DEF Select
<1>2. SocketsOK' /\ TableOK' /\ Newcomers'
  BY <1>1, SameSockets, SameTable DEF IInv
<1>3. LoopsOK'
  BY <1>1 DEF IInv, LoopsOK, TableOK
<1>4. ReportsHold'
  <2> SUFFICES ASSUME NEW fd \in read_fds' \ {listener}
               PROVE  owner[fd] # None /\ Readable(owner[fd])
    BY <1>1, SameSockets DEF ReportsHold
  <2> QED
    BY <1>1, InTheSet DEF IInv, Ready
<1>5. EveryoneHeard'
  BY <1>1 DEF IInv, EveryoneHeard, WaitsFor, sockets
<1> QED
  BY <1>2, <1>3, <1>4, <1>5 DEF IInv

LEMMA SkipKeeps == IInv /\ Skip => IInv'
<1> SUFFICES ASSUME IInv, Skip
             PROVE  IInv'
  OBVIOUS
<1>1. /\ pc = "scan" /\ i \notin read_fds /\ i' = i + 1
      /\ UNCHANGED sockets /\ UNCHANGED <<master, read_fds, fdmax, owner, pc, j, buf>>
  BY DEF Skip, Scanning
<1>2. SocketsOK' /\ TableOK' /\ Newcomers'
  BY <1>1, SameSockets, SameTable DEF IInv
<1>3. LoopsOK'
  BY <1>1 DEF IInv, LoopsOK
<1>4. ReportsHold'
  <2> SUFFICES ASSUME NEW fd \in read_fds \ {listener}, fd > i + 1 \/ fd = i + 1
               PROVE  owner[fd] # None /\ Readable(owner[fd])
    BY <1>1, SameSockets DEF ReportsHold
  <2>1. fd > i
    BY FdsProperties DEF IInv, LoopsOK
  <2> QED
    BY <1>1, <2>1 DEF IInv, ReportsHold
<1>5. EveryoneHeard'
  BY <1>1 DEF IInv, EveryoneHeard, WaitsFor, sockets
<1> QED
  BY <1>2, <1>3, <1>4, <1>5 DEF IInv

LEMMA EndScanKeeps == IInv /\ EndScan => IInv'
<1> SUFFICES ASSUME IInv, EndScan
             PROVE  IInv'
  OBVIOUS
<1>1. /\ pc = "scan" /\ pc' = "select"
      /\ UNCHANGED sockets /\ UNCHANGED <<master, read_fds, fdmax, owner, i, j, buf>>
  BY DEF EndScan
<1>2. SocketsOK' /\ TableOK' /\ Newcomers'
  BY <1>1, SameSockets, SameTable DEF IInv
<1>3. LoopsOK' /\ ReportsHold'
  BY <1>1 DEF IInv, LoopsOK, ReportsHold
<1>4. EveryoneHeard'
  BY <1>1 DEF IInv, EveryoneHeard, WaitsFor, sockets
<1> QED
  BY <1>2, <1>3, <1>4 DEF IInv


\* What accept adds to the table.
LEMMA AcceptKeeps == IInv /\ Accept => IInv'
<1> SUFFICES ASSUME IInv, Accept
             PROVE  IInv'
  OBVIOUS
<1>1. /\ pc = "scan" /\ i = listener /\ i' = i + 1 /\ UNCHANGED <<pc, j, buf>>
  BY DEF Accept, Reported, Scanning
<1>2. ASSUME UNCHANGED <<sockets, owner, master, read_fds, fdmax>>
      PROVE  IInv'
  <2>1. SocketsOK' /\ TableOK' /\ Newcomers'
    BY <1>2, SameSockets, SameTable DEF IInv
  <2>2. LoopsOK'
    BY <1>1, <1>2 DEF IInv, LoopsOK
  <2>3. ReportsHold'
    <3> SUFFICES ASSUME NEW fd \in read_fds \ {listener}, fd > i + 1 \/ fd = i + 1
                 PROVE  owner[fd] # None /\ Readable(owner[fd])
      BY <1>1, <1>2, SameSockets DEF ReportsHold
    <3>1. fd > i
      BY FdsProperties DEF IInv, LoopsOK
    <3> QED
      BY <1>1, <3>1 DEF IInv, ReportsHold
  <2>4. EveryoneHeard'
    BY <1>1, <1>2 DEF IInv, EveryoneHeard, WaitsFor, sockets
  <2> QED
    BY <2>1, <2>2, <2>3, <2>4 DEF IInv
<1>3. ASSUME NEW c \in Backlog, accept(c),
             owner' = [owner EXCEPT ![NewFd] = c], master' = master \cup {NewFd},
             read_fds' = read_fds, fdmax' = Largest(NewFd)
      PROVE  IInv'
  <2>1. /\ SocketsOK' /\ UNCHANGED <<addressed, heard>>
        /\ c \in Clients /\ c \notin Accepted /\ net[c].phase = "backlog"
        /\ Accepted' = Accepted \cup {c}
        /\ \A d \in Clients :
             /\ net'[d].hungup = net[d].hungup /\ net'[d].up = net[d].up
             /\ net'[d].phase = IF d = c THEN "open" ELSE net[d].phase
    BY <1>3, AcceptOutcome DEF IInv
  <2>2. NewFd \in Fds \ {listener} /\ owner[NewFd] = None /\ NewFd \notin master
    BY <2>1, FreeDescriptor DEF IInv
  <2> DEFINE new == NewFd
  <2>3. /\ new \in Fds \ {listener} /\ owner[new] = None /\ new \notin master
        /\ owner' = [owner EXCEPT ![new] = c] /\ master' = master \cup {new}
        /\ fdmax' = IF new > fdmax THEN new ELSE fdmax
    BY <1>3, <2>2 DEF Largest
  <2> HIDE DEF new
  <2>4. TableOK'
    <3>1. owner' \in [Fds -> Clients \cup {None}] /\ master' \subseteq Fds /\ listener \in master'
      BY <2>1, <2>3 DEF IInv, TableOK
    <3>2. \A fd \in Fds : owner'[fd] = IF fd = new THEN c ELSE owner[fd]
      BY <2>3 DEF IInv, TableOK
    <3>3. c # None
      BY <2>1, NoneAssumption
    <3>4. \A fd \in Fds \ {listener} : fd \in master' <=> owner'[fd] # None
      BY <2>3, <3>2, <3>3 DEF IInv, TableOK
    <3>5. \A fd \in Fds : owner'[fd] # None => fd # listener /\ owner'[fd] \in Accepted'
      BY <2>1, <2>3, <3>2 DEF IInv, TableOK
    <3>6. \A d \in Accepted' : \E fd \in Fds : owner'[fd] = d
      BY <2>1, <2>3, <3>2 DEF IInv, TableOK
    <3>7. \A fd, gd \in Fds : owner'[fd] = owner'[gd] /\ owner'[fd] # None => fd = gd
      BY <2>1, <2>3, <3>2 DEF IInv, TableOK
    <3>8. fdmax' \in Nat /\ \A fd \in master' : fd <= fdmax'
      <4>1. new \in Nat /\ fdmax \in Nat /\ \A fd \in master : fd \in Nat /\ fd <= fdmax
        BY <2>3, FdsProperties DEF IInv, TableOK
      <4> QED
        BY <2>3, <4>1
    <3> QED
      BY <3>1, <3>4, <3>5, <3>6, <3>7, <3>8 DEF TableOK
  <2>5. LoopsOK'
    BY <1>1, <1>3 DEF IInv, LoopsOK
  <2>6. ReportsHold'
    <3> SUFFICES ASSUME NEW fd \in read_fds \ {listener}
                 PROVE  owner'[fd] # None /\ Readable(owner[fd])'
      BY <1>3 DEF ReportsHold
    <3>1. fd \in Fds /\ fd > i
      BY <1>1, FdsProperties DEF IInv, LoopsOK, listener
    <3>2. owner[fd] # None /\ Readable(owner[fd])
      BY <1>1, <3>1 DEF IInv, ReportsHold
    <3>3. owner'[fd] = owner[fd] /\ owner[fd] \in Clients
      BY <2>3, <3>1, <3>2, Owners DEF IInv, TableOK
    <3> QED
      BY <2>1, <3>2, <3>3 DEF Readable
  <2>7. EveryoneHeard'
    <3> SUFFICES ASSUME NEW fd \in master' \ {listener}, ~net'[owner'[fd]].hungup
                 PROVE  addressed[owner'[fd]] = heard[owner'[fd]]
      BY <1>1, <2>1 DEF EveryoneHeard, WaitsFor
    <3>1. CASE fd = new
      BY <2>1, <2>3, <3>1 DEF IInv, Newcomers, TableOK
    <3>2. CASE fd # new
      <4>1. fd \in master \ {listener}
        BY <2>3, <3>2
      <4>2. owner'[fd] = owner[fd] /\ owner[fd] \in Clients
        BY <2>3, <3>2, <4>1, InTheSet, Owners DEF IInv, TableOK
      <4> QED
        BY <1>1, <2>1, <4>1, <4>2 DEF IInv, EveryoneHeard, WaitsFor
    <3> QED
      BY <3>1, <3>2
  <2>8. Newcomers'
    BY <2>1 DEF IInv, Newcomers
  <2> QED
    BY <2>1, <2>4, <2>5, <2>6, <2>7, <2>8 DEF IInv
<1> QED
  BY <1>2, <1>3 DEF Accept, Scanned

\* Whom the server receives from, and what.
LEMMA Received ==
  ASSUME IInv, Reported, i # listener
  PROVE  /\ i \in Fds /\ i \in master \ {listener}
         /\ owner[i] # None /\ Readable(owner[i]) /\ owner[i] \in Clients /\ owner[i] \in Accepted
<1>1. pc = "scan" /\ i \in read_fds \ {listener} /\ i \in Fds
  BY DEF Reported, Scanning, IInv, LoopsOK
<1>2. owner[i] # None /\ Readable(owner[i])
  BY <1>1 DEF IInv, ReportsHold
<1> QED
  BY <1>1, <1>2, Owners DEF IInv

LEMMA ReceiveKeeps == IInv /\ Receive => IInv'
<1> SUFFICES ASSUME IInv, Receive
             PROVE  IInv'
  OBVIOUS
<1> DEFINE c == owner[i]
<1>1. /\ pc = "scan" /\ pc' = "send" /\ j' = 0 /\ i # listener
      /\ recv(c) /\ buf' = Chunk(c) /\ UNCHANGED <<master, read_fds, fdmax, owner, i>>
  BY DEF Receive, Reported, Scanning
<1>2. i \in Fds /\ i \in master \ {listener} /\ c # None /\ c \in Clients
  BY Received DEF Receive
<1>3. \A fd \in Fds : fd # i => owner[fd] # c
  BY <1>2, Owners DEF IInv
<1> HIDE DEF c
<1>4. /\ SocketsOK' /\ heard' = heard
      /\ Chunk(c) \in Chunks /\ Chunk(c) \in Seq(Says)
      /\ Accepted' = Accepted
      /\ addressed' = [d \in Clients |->
                         IF d \in Accepted \ {c} THEN addressed[d] \o Chunk(c) ELSE addressed[d]]
      /\ \A d \in Clients :
           /\ net'[d].hungup = net[d].hungup /\ net'[d].phase = net[d].phase
           /\ d # c => net'[d] = net[d]
  BY <1>1, <1>2, RecvOutcome DEF IInv
<1>5. TableOK'
  BY <1>1, <1>4, SameTable DEF IInv
<1>6. LoopsOK'
  BY <1>1, <1>2, <1>4 DEF IInv, LoopsOK
<1>7. ReportsHold'
  <2> SUFFICES ASSUME NEW fd \in read_fds \ {listener}, fd > i
               PROVE  owner[fd] # None /\ Readable(owner[fd])'
    BY <1>1 DEF ReportsHold
  <2>1. fd \in Fds /\ owner[fd] # None /\ Readable(owner[fd])
    BY <1>1 DEF IInv, ReportsHold, LoopsOK
  <2>2. fd # i
    BY FdsProperties, <2>1, <1>2
  <2>3. owner[fd] \in Clients /\ owner[fd] # c
    BY <1>3, <2>1, <2>2, Owners DEF IInv
  <2> QED
    BY <1>1, <1>4, <2>1, <2>3 DEF Readable
<1>8. EveryoneHeard'
  <2> SUFFICES ASSUME NEW fd \in master \ {listener}, ~net'[owner[fd]].hungup
               PROVE  addressed'[owner[fd]] =
                        IF fd # i THEN heard[owner[fd]] \o Chunk(c) ELSE heard[owner[fd]]
    <3>1. \A fd \in master \ {listener} : WaitsFor(fd)' <=> fd # i
      BY <1>1, FdsProperties DEF WaitsFor, IInv, TableOK
    <3> QED
      BY <1>1, <1>4, <3>1 DEF EveryoneHeard
  <2>1. fd \in Fds /\ owner[fd] # None /\ owner[fd] \in Clients /\ owner[fd] \in Accepted
    BY InTheSet, Owners DEF IInv
  <2>2. addressed[owner[fd]] = heard[owner[fd]]
    BY <1>1, <1>4, <2>1 DEF IInv, EveryoneHeard, WaitsFor
  <2>3. CASE fd = i
    BY <1>4, <2>1, <2>2, <2>3 DEF c
  <2>4. CASE fd # i
    BY <1>3, <1>4, <2>1, <2>2, <2>4
  <2> QED
    BY <2>3, <2>4
<1>9. Newcomers'
  <2>1. \A d \in Clients : net[d].phase \in {"away", "backlog"} => d \notin Accepted
    BY DEF Accepted, InPhase
  <2> QED
    BY <1>4, <2>1 DEF IInv, Newcomers
<1> QED
  BY <1>4, <1>5, <1>6, <1>7, <1>8, <1>9 DEF IInv

LEMMA CloseKeeps == IInv /\ Close => IInv'
<1> SUFFICES ASSUME IInv, Close
             PROVE  IInv'
  OBVIOUS
<1> DEFINE c == owner[i]
<1>1. /\ pc = "scan" /\ i # listener /\ i' = i + 1
      /\ recv_end_close(c) /\ owner' = [owner EXCEPT ![i] = None] /\ master' = master \ {i}
      /\ UNCHANGED <<read_fds, fdmax, pc, j, buf>>
  BY DEF Close, Reported, Scanning, Cleared
<1>2. i \in Fds /\ i \in master \ {listener} /\ c # None /\ c \in Clients /\ c \in Accepted
  BY Received DEF Close
<1>3. \A fd \in Fds : owner[fd] = c <=> fd = i
  BY <1>2, Owners DEF IInv
<1> HIDE DEF c
<1>4. /\ SocketsOK' /\ UNCHANGED <<addressed, heard>>
      /\ Accepted' = Accepted \ {c}
      /\ \A d \in Clients :
           /\ net'[d].hungup = net[d].hungup /\ net'[d].up = net[d].up
           /\ net'[d].phase = IF d = c THEN "closed" ELSE net[d].phase
  BY <1>1, <1>2, CloseOutcome DEF IInv
<1>5. \A fd \in Fds : owner'[fd] = IF fd = i THEN None ELSE owner[fd]
  BY <1>1 DEF IInv, TableOK
<1>6. TableOK'
  <2>1. owner' \in [Fds -> Clients \cup {None}] /\ master' \subseteq Fds /\ listener \in master'
        /\ fdmax' \in Nat /\ \A fd \in master' : fd <= fdmax'
    BY <1>1 DEF IInv, TableOK
  <2>2. \A fd \in Fds \ {listener} : fd \in master' <=> owner'[fd] # None
    BY <1>1, <1>5 DEF IInv, TableOK
  <2>3. \A fd \in Fds : owner'[fd] # None => fd # listener /\ owner'[fd] \in Accepted'
    BY <1>3, <1>4, <1>5 DEF IInv, TableOK
  <2>4. \A d \in Accepted' : \E fd \in Fds : owner'[fd] = d
    <3> SUFFICES ASSUME NEW d \in Accepted, d # c
                 PROVE  \E fd \in Fds : owner'[fd] = d
      BY <1>4
    <3>1. PICK fd \in Fds : owner[fd] = d
      BY DEF IInv, TableOK
    <3> QED
      BY <1>3, <1>5, <3>1
  <2>5. \A fd, gd \in Fds : owner'[fd] = owner'[gd] /\ owner'[fd] # None => fd = gd
    BY <1>5 DEF IInv, TableOK
  <2> QED
    BY <2>1, <2>2, <2>3, <2>4, <2>5 DEF TableOK
<1>7. LoopsOK'
  BY <1>1 DEF IInv, LoopsOK
<1>8. ReportsHold'
  <2> SUFFICES ASSUME NEW fd \in read_fds \ {listener}, fd > i + 1 \/ fd = i + 1
               PROVE  owner'[fd] # None /\ Readable(owner[fd])'
    BY <1>1 DEF ReportsHold
  <2>1. fd > i /\ fd # i /\ fd \in Fds
    BY FdsProperties DEF IInv, LoopsOK
  <2>2. owner[fd] # None /\ Readable(owner[fd])
    BY <1>1, <2>1 DEF IInv, ReportsHold
  <2>3. owner'[fd] = owner[fd] /\ owner[fd] \in Clients
    BY <1>5, <2>1, <2>2, Owners DEF IInv
  <2> QED
    BY <1>4, <2>2, <2>3 DEF Readable
<1>9. EveryoneHeard'
  <2> SUFFICES ASSUME NEW fd \in master \ {listener}, fd # i, ~net'[owner'[fd]].hungup
               PROVE  addressed[owner'[fd]] = heard[owner'[fd]]
    BY <1>1, <1>4 DEF EveryoneHeard, WaitsFor
  <2>1. owner'[fd] = owner[fd] /\ owner[fd] \in Clients
    BY <1>5, InTheSet, Owners DEF IInv
  <2> QED
    BY <1>1, <1>4, <2>1 DEF IInv, EveryoneHeard, WaitsFor
<1>10. Newcomers'
  BY <1>4 DEF IInv, Newcomers
<1> QED
  BY <1>4, <1>6, <1>7, <1>8, <1>9, <1>10 DEF IInv


\* A send that is left out, or lost, leaves nobody else waiting; one that is made is
\* what the receiver waited for.
LEMMA Sent ==
  ASSUME IInv, Send, Sent_to
  PROVE  /\ pc = "send" /\ j \in Fds /\ owner[j] \in Clients /\ owner[j] \in Accepted
         /\ net[owner[j]].phase = "open" /\ buf \in Chunks /\ buf \in Seq(Says)
         /\ \A fd \in Fds : fd # j => owner[fd] # owner[j]
         /\ ~net[owner[j]].hungup => addressed[owner[j]] = heard[owner[j]] \o buf
<1>1. pc = "send" /\ j \in master \ {listener} /\ j # i
  BY DEF Send, Sent_to
<1>2. j \in Fds /\ owner[j] # None
  BY <1>1, InTheSet DEF IInv
<1>3. buf \in Chunks /\ buf \in Seq(Says)
  BY <1>1 DEF IInv, LoopsOK
<1>4. WaitsFor(j)
  BY <1>1 DEF WaitsFor, IInv, LoopsOK
<1>5. ~net[owner[j]].hungup => addressed[owner[j]] = heard[owner[j]] \o buf
  BY <1>1, <1>4 DEF IInv, EveryoneHeard
<1> QED
  BY <1>1, <1>2, <1>3, <1>5, Owners DEF IInv

LEMMA SendKeeps == IInv /\ Send => IInv'
<1> SUFFICES ASSUME IInv, Send
             PROVE  IInv'
  OBVIOUS
<1>1. pc = "send" /\ UNCHANGED <<master, read_fds, fdmax, owner, i, buf>> /\ j \in Nat
  BY DEF Send, IInv, LoopsOK
<1>2. ASSUME ~Sent_to, pc' = pc, j' = j + 1, UNCHANGED sockets
      PROVE  IInv'
  <2>1. SocketsOK' /\ TableOK' /\ Newcomers'
    BY <1>1, <1>2, SameSockets, SameTable DEF IInv
  <2>2. LoopsOK'
    BY <1>1, <1>2 DEF IInv, LoopsOK
  <2>3. ReportsHold'
    BY <1>1, <1>2, SameSockets DEF IInv, ReportsHold
  <2>4. EveryoneHeard'
    <3>1. \A fd \in master \ {listener} : WaitsFor(fd)' <=> WaitsFor(fd)
      <4> SUFFICES ASSUME NEW fd \in master \ {listener}
                   PROVE  (fd # i /\ fd >= j + 1) <=> (fd # i /\ fd >= j)
        BY <1>1, <1>2 DEF WaitsFor
      <4>1. fd \in Nat /\ (fd # i => fd # j)
        BY <1>2, FdsProperties DEF Sent_to, IInv, TableOK
      <4> QED
        BY <1>1, <4>1
    <3> QED
      BY <1>1, <1>2, <3>1 DEF IInv, EveryoneHeard, sockets
  <2> QED
    BY <2>1, <2>2, <2>3, <2>4 DEF IInv
<1>3. ASSUME Sent_to, send(owner[j], buf), pc' = pc, j' = j + 1
      PROVE  IInv'
  <2> DEFINE c == owner[j]
  <2>1. /\ j \in Fds /\ c \in Clients /\ net[c].phase = "open" /\ buf \in Seq(Says)
        /\ \A fd \in Fds : fd # j => owner[fd] # c
        /\ ~net[c].hungup => addressed[c] = heard[c] \o buf
    BY <1>3, Sent
  <2>2. send(c, buf)
    BY <1>3
  <2>3. \A fd \in Fds : fd = j => owner[fd] = c
    OBVIOUS
  <2> HIDE DEF c
  <2>4. /\ SocketsOK' /\ addressed' = addressed
        /\ Accepted' = Accepted
        /\ \A d \in Clients :
             /\ net'[d].hungup = net[d].hungup /\ net'[d].phase = net[d].phase
             /\ net'[d].up = net[d].up
        /\ \/ ~net[c].hungup /\ heard' = [heard EXCEPT ![c] = @ \o buf]
           \/ net[c].hungup /\ heard' = heard
    BY <2>1, <2>2, SendOutcome DEF IInv
  <2>5. \A d \in Clients : d # c => heard'[d] = heard[d]
    BY <2>1, <2>4 DEF IInv, SocketsOK
  <2>6. ~net[c].hungup => heard'[c] = heard[c] \o buf
    BY <2>1, <2>4 DEF IInv, SocketsOK
  <2>7. TableOK' /\ LoopsOK'
    BY <1>1, <1>3, <2>4, SameTable DEF IInv, LoopsOK
  <2>8. ReportsHold'
    <3> SUFFICES ASSUME NEW fd \in read_fds \ {listener}, fd > i
                 PROVE  owner[fd] # None /\ Readable(owner[fd])'
      BY <1>1, <1>3 DEF ReportsHold
    <3>1. fd \in Fds /\ owner[fd] # None /\ Readable(owner[fd])
      BY <1>1 DEF IInv, ReportsHold, LoopsOK
    <3>2. owner[fd] \in Clients
      BY <3>1, Owners DEF IInv
    <3> QED
      BY <1>1, <2>4, <3>1, <3>2 DEF Readable
  <2>9. EveryoneHeard'
    <3> SUFFICES ASSUME NEW fd \in master \ {listener}, ~net'[owner[fd]].hungup
                 PROVE  addressed[owner[fd]] = IF WaitsFor(fd)' THEN heard'[owner[fd]] \o buf
                                               ELSE heard'[owner[fd]]
      BY <1>1, <2>4 DEF EveryoneHeard
    <3>1. fd \in Fds /\ fd \in Nat /\ owner[fd] \in Clients
      BY InTheSet, Owners, FdsProperties DEF IInv
    <3>2. addressed[owner[fd]] = IF WaitsFor(fd) THEN heard[owner[fd]] \o buf
                                 ELSE heard[owner[fd]]
      BY <1>1, <2>4, <3>1 DEF IInv, EveryoneHeard
    <3>3. CASE fd = j
      <4>1. ~WaitsFor(fd)'
        BY <1>1, <1>3, <3>3 DEF WaitsFor
      <4> QED
        BY <2>1, <2>3, <2>4, <2>6, <3>1, <3>3, <4>1
    <3>4. CASE fd # j
      <4>1. WaitsFor(fd)' <=> WaitsFor(fd)
        <5>1. fd >= j + 1 <=> fd >= j
          BY <1>1, <3>1, <3>4
        <5> QED
          BY <1>1, <1>3, <5>1 DEF WaitsFor
      <4>2. heard'[owner[fd]] = heard[owner[fd]]
        BY <2>1, <2>5, <3>1, <3>4
      <4> QED
        BY <3>2, <4>1, <4>2
    <3> QED
      BY <3>3, <3>4
  <2>10. Newcomers'
    BY <2>1, <2>4, <2>5 DEF IInv, Newcomers
  <2> QED
    BY <2>4, <2>7, <2>8, <2>9, <2>10 DEF IInv
<1>4. ASSUME UNCHANGED sockets, pc' = "dead", j' = j
      PROVE  IInv'
  <2>1. SocketsOK' /\ TableOK' /\ Newcomers'
    BY <1>1, <1>4, SameSockets, SameTable DEF IInv
  <2>2. LoopsOK' /\ ReportsHold' /\ EveryoneHeard'
    BY <1>1, <1>4 DEF IInv, LoopsOK, ReportsHold, EveryoneHeard
  <2> QED
    BY <2>1, <2>2 DEF IInv
<1> QED
  BY <1>2, <1>3, <1>4 DEF Send, send_raises_SIGPIPE

LEMMA EndSendKeeps == IInv /\ EndSend => IInv'
<1> SUFFICES ASSUME IInv, EndSend
             PROVE  IInv'
  OBVIOUS
<1>1. /\ pc = "send" /\ j > fdmax /\ pc' = "scan" /\ i' = i + 1
      /\ UNCHANGED sockets /\ UNCHANGED <<master, read_fds, fdmax, owner, j>>
  BY DEF EndSend
<1>2. SocketsOK' /\ TableOK' /\ Newcomers'
  BY <1>1, SameSockets, SameTable DEF IInv
<1>3. LoopsOK'
  BY <1>1 DEF IInv, LoopsOK
<1>4. ReportsHold'
  <2> SUFFICES ASSUME NEW fd \in read_fds \ {listener}, fd > i + 1 \/ fd = i + 1
               PROVE  owner[fd] # None /\ Readable(owner[fd])
    BY <1>1, SameSockets DEF ReportsHold
  <2>1. fd > i
    BY FdsProperties DEF IInv, LoopsOK
  <2> QED
    BY <1>1, <2>1 DEF IInv, ReportsHold
<1>5. EveryoneHeard'
  <2>1. \A fd \in master \ {listener} : ~WaitsFor(fd)
    <3> SUFFICES ASSUME NEW fd \in master \ {listener}
                 PROVE  ~(fd >= j)
      BY DEF WaitsFor
    <3>1. fd \in Nat /\ fd <= fdmax /\ fdmax \in Nat /\ j \in Nat
      BY FdsProperties DEF IInv, TableOK, LoopsOK
    <3> QED
      BY <1>1, <3>1
  <2> QED
    BY <1>1, <2>1 DEF IInv, EveryoneHeard, WaitsFor, sockets
<1> QED
  BY <1>2, <1>3, <1>4, <1>5 DEF IInv

LEMMA StepKeeps == IInv /\ [Next]_vars => IInv'
<1>1. ASSUME IInv, UNCHANGED vars PROVE IInv'
  <2>1. SocketsOK' /\ TableOK' /\ Newcomers'
    BY <1>1, SameSockets, SameTable DEF IInv, vars
  <2>2. LoopsOK' /\ ReportsHold'
    BY <1>1, SameSockets DEF IInv, vars, LoopsOK, ReportsHold
  <2>3. EveryoneHeard'
    BY <1>1 DEF IInv, vars, EveryoneHeard, WaitsFor, sockets
  <2> QED
    BY <2>1, <2>2, <2>3 DEF IInv
<1> QED
  BY <1>1, ClientKeeps, SelectKeeps, SkipKeeps, EndScanKeeps, AcceptKeeps, ReceiveKeeps,
     CloseKeeps, SendKeeps, EndSendKeeps DEF Next, ServerNext

LEMMA InitHolds == Init => IInv
<1> SUFFICES ASSUME Init PROVE IInv
  OBVIOUS
<1>1. \A c \in Clients : /\ net[c].phase = "away" /\ ~net[c].hungup
                         /\ addressed[c] = <<>> /\ heard[c] = <<>>
  BY DEF Init, SocketsInit
<1>2. SocketsOK
  <2>1. [phase |-> "away", up |-> <<>>, spoken |-> 0, unread |-> 0,
         hungup |-> FALSE, reset |-> FALSE] \in Connection
    BY DEF Connection
  <2> QED
    BY <2>1 DEF Init, SocketsInit, SocketsOK
<1>3. Accepted = {}
  BY <1>1 DEF Accepted, InPhase
<1>4. TableOK
  BY <1>3, FdsProperties DEF Init, TableOK, listener
<1>5. LoopsOK /\ ReportsHold /\ EveryoneHeard /\ Newcomers
  BY <1>1 DEF Init, LoopsOK, ReportsHold, EveryoneHeard, Newcomers
<1> QED
  BY <1>2, <1>4, <1>5 DEF IInv

LEMMA Invariance == Spec => []IInv
  BY InitHolds, StepKeeps, PTL DEF Spec

-----------------------------------------------------------------------------
(***************************************************************************)
(* The theorems.                                                           *)
(***************************************************************************)
\* The set of descriptors select is asked about holds the open connections, each of
\* them, and both loops reach them: fdmax, never lowered, bounds them all.
THEOREM Reached == Spec => []MasterIsTheConnections
<1>1. IInv => MasterIsTheConnections
  <2> SUFFICES ASSUME IInv PROVE MasterIsTheConnections
    OBVIOUS
  <2>1. ASSUME NEW fd \in master \ {listener} PROVE owner[fd] \in Accepted
    BY <2>1, InTheSet, Owners DEF IInv
  <2>2. ASSUME NEW c \in Accepted PROVE \E fd \in master \ {listener} : owner[fd] = c
    <3>1. PICK fd \in Fds : owner[fd] = c
      BY <2>2 DEF IInv, TableOK
    <3>2. c # None
      BY <2>2, NoneAssumption DEF Accepted, InPhase
    <3> QED
      BY <3>1, <3>2, Owners DEF IInv
  <2>3. \A fd \in master : fd <= fdmax
    BY DEF IInv, TableOK
  <2> QED
    BY <2>1, <2>2, <2>3 DEF MasterIsTheConnections
<1> QED
  BY <1>1, Invariance, PTL

\* The server calls recv only on an open connection that has something to give, so
\* that one thread serves everyone: what select reported for a descriptor still holds
\* when the scan comes to it, whatever was accepted and closed in between.
THEOREM ReadyWhenReceived == Spec => []ReceivesOnlyWhenReady
<1>1. IInv => ReceivesOnlyWhenReady
  BY Received DEF ReceivesOnlyWhenReady
<1> QED
  BY <1>1, Invariance, PTL


-----------------------------------------------------------------------------
(***************************************************************************)
(* The server is a chat room.                                              *)
(***************************************************************************)
room == <<Accepted, Gone, addressed, heard>>

LEMMA ClientInRoom == IInv /\ ClientNext => [Room!Next]_room
<1>1. ASSUME IInv, NEW c \in Clients, Connect(c) \/ Speak(c) \/ Read(c)
      PROVE  UNCHANGED room
  BY <1>1, ConnectOutcome, SpeakOutcome, ReadOutcome DEF IInv, Kept, room
<1>2. ASSUME IInv, NEW c \in Clients, HangUp(c)
      PROVE  Room!Next
  <2>1. Kept /\ Gone' = Gone \cup {c}
    BY <1>2, HangUpOutcome DEF IInv
  <2>2. Room!HangUp(c)
    BY <2>1 DEF Room!HangUp, Kept, Gone
  <2> QED
    BY <2>2 DEF Room!Next
<1> QED
  BY <1>1, <1>2 DEF ClientNext

LEMMA QuietInRoom == Select \/ Skip \/ EndScan \/ EndSend => UNCHANGED room
<1>1. Select \/ Skip \/ EndScan \/ EndSend => UNCHANGED sockets
  BY DEF Select, Skip, EndScan, EndSend
<1> QED
  BY <1>1, SameSockets DEF room, sockets

LEMMA AcceptInRoom == IInv /\ Accept => [Room!Next]_room
<1> SUFFICES ASSUME IInv, Accept
             PROVE  [Room!Next]_room
  OBVIOUS
<1>1. ASSUME NEW c \in Backlog, accept(c)
      PROVE  Room!Next
  <2>1. /\ c \in Clients /\ c \notin Accepted /\ Accepted' = Accepted \cup {c}
        /\ Gone' = Gone /\ UNCHANGED <<addressed, heard>>
    BY <1>1, AcceptOutcome DEF IInv
  <2>2. Room!Join(c)
    BY <2>1 DEF Room!Join, Gone
  <2> QED
    BY <2>1, <2>2 DEF Room!Next
<1>2. UNCHANGED sockets => UNCHANGED room
  BY SameSockets DEF room, sockets
<1> QED
  BY <1>1, <1>2 DEF Accept

LEMMA ReceiveInRoom == IInv /\ Receive => Room!Next
<1> SUFFICES ASSUME IInv, Receive
             PROVE  Room!Next
  OBVIOUS
<1> DEFINE c == owner[i]
<1>1. pc = "scan" /\ recv(c)
  BY DEF Receive, Reported, Scanning
<1>2. c \in Clients /\ c \in Accepted
  BY Received DEF Receive
<1>3. \A d \in Accepted \ Gone : heard[d] = addressed[d]
  <2> SUFFICES ASSUME NEW d \in Accepted, ~net[d].hungup
               PROVE  heard[d] = addressed[d]
    BY DEF Gone, Accepted, InPhase
  <2>1. PICK fd \in Fds : owner[fd] = d
    BY DEF IInv, TableOK
  <2>2. owner[fd] # None
    BY <2>1, NoneAssumption DEF Accepted, InPhase
  <2>3. fd \in master \ {listener}
    BY <2>2, Owners DEF IInv
  <2> QED
    BY <1>1, <2>1, <2>3 DEF IInv, EveryoneHeard, WaitsFor
<1> HIDE DEF c
<1>4. /\ heard' = heard /\ Chunk(c) \in Chunks /\ Accepted' = Accepted /\ Gone' = Gone
      /\ addressed' = [d \in Clients |->
                         IF d \in Accepted \ {c} THEN addressed[d] \o Chunk(c) ELSE addressed[d]]
  BY <1>1, <1>2, RecvOutcome DEF IInv
<1>5. Room!Say(c, Chunk(c))
  BY <1>2, <1>3, <1>4 DEF Room!Say, Gone
<1> QED
  BY <1>2, <1>4, <1>5 DEF Room!Next

LEMMA CloseInRoom == IInv /\ Close => Room!Next
<1> SUFFICES ASSUME IInv, Close
             PROVE  Room!Next
  OBVIOUS
<1> DEFINE c == owner[i]
<1>1. recv_end_close(c)
  BY DEF Close
<1>2. c \in Clients /\ c \in Accepted
  BY Received DEF Close
<1> HIDE DEF c
<1>3. /\ UNCHANGED <<addressed, heard>> /\ net[c].hungup
      /\ Accepted' = Accepted \ {c} /\ Gone' = Gone
  BY <1>1, <1>2, CloseOutcome DEF IInv
<1>4. Room!Leave(c)
  BY <1>2, <1>3 DEF Room!Leave, Gone
<1> QED
  BY <1>2, <1>4 DEF Room!Next

LEMMA SendInRoom == IInv /\ Send => [Room!Next]_room
<1> SUFFICES ASSUME IInv, Send
             PROVE  [Room!Next]_room
  OBVIOUS
<1>1. UNCHANGED sockets => UNCHANGED room
  BY SameSockets DEF room, sockets
<1>2. ASSUME Sent_to, send(owner[j], buf)
      PROVE  [Room!Next]_room
  <2> DEFINE c == owner[j]
  <2>1. /\ c \in Clients /\ c \in Accepted /\ buf \in Chunks /\ buf \in Seq(Says)
        /\ ~net[c].hungup => addressed[c] = heard[c] \o buf
    BY <1>2, Sent
  <2>2. send(c, buf)
    BY <1>2
  <2> HIDE DEF c
  <2>3. /\ addressed' = addressed /\ Accepted' = Accepted /\ Gone' = Gone /\ SocketsOK'
        /\ \/ ~net[c].hungup /\ heard' = [heard EXCEPT ![c] = @ \o buf]
           \/ net[c].hungup /\ heard' = heard
    BY <2>1, <2>2, SendOutcome DEF IInv
  <2>4. CASE ~net[c].hungup /\ heard' = [heard EXCEPT ![c] = @ \o buf]
    <3>1. heard'[c] = addressed[c] /\ heard'[c] \in Seq(Says)
      BY <2>1, <2>3, <2>4 DEF IInv, SocketsOK
    <3>2. Len(heard'[c]) \in Nat
      BY <3>1
    <3>3. Room!IsPrefix(heard'[c], addressed[c])
      BY <3>1, <3>2 DEF Room!IsPrefix
    <3>4. Room!Hear(c, buf)
      BY <2>1, <2>3, <2>4, <3>3 DEF Room!Hear, Gone
    <3> QED
      BY <2>1, <3>4 DEF Room!Next
  <2>5. CASE net[c].hungup /\ heard' = heard
    BY <2>3, <2>5 DEF room
  <2> QED
    BY <2>3, <2>4, <2>5
<1> QED
  BY <1>1, <1>2 DEF Send, send_raises_SIGPIPE

\* The server is the chat room of Chat: what a client says goes to everyone who is
\* connected when it is taken, whole, once, in the same order for all, and never back
\* to its author, however the descriptors are numbered and used again.
THEOREM IsAChatRoom == Spec => ChatSpec
<1>1. Init => Room!Init
  <2> SUFFICES ASSUME Init PROVE Room!Init
    OBVIOUS
  <2>1. \A c \in Clients : net[c].phase = "away" /\ ~net[c].hungup
    BY DEF Init, SocketsInit
  <2>2. Accepted = {} /\ Gone = {}
    BY <2>1 DEF Accepted, InPhase, Gone
  <2> QED
    BY <2>2 DEF Init, SocketsInit, Room!Init, Gone
<1>2. IInv /\ [Next]_vars => [Room!Next]_room
  <2>1. UNCHANGED vars => UNCHANGED room
    BY SameSockets DEF vars, room, sockets
  <2> QED
    BY <2>1, ClientInRoom, QuietInRoom, AcceptInRoom, ReceiveInRoom, CloseInRoom, SendInRoom
       DEF Next, ServerNext
<1> QED
  BY <1>1, <1>2, Invariance, PTL DEF Spec, ChatSpec, Room!Spec, room, Gone


=============================================================================
