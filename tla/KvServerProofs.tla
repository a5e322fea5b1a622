---------------------------- MODULE KvServerProofs ----------------------------
(***************************************************************************)
(* Theorems about the key-value server, for any clients, requests, buffer  *)
(* and socket sizes.                                                       *)
(***************************************************************************)
EXTENDS KvServer, FiniteSetTheorems, SequenceTheorems, WellFoundedInduction, TLAPS

-----------------------------------------------------------------------------
(***************************************************************************)
(* The inductive invariant.                                                *)
(***************************************************************************)
Unit == [request : Nat, part : Nat, of : Nat]
Answers == Values \cup {Service!NX, Service!OK, Service!ERROR}

Types ==
  /\ store \in [Keys -> Values \cup {Service!NX}]
  /\ conns \in [FDs -> Connections \cup {NoConn}]
  /\ todo \subseteq FDs
  /\ pc \in {"poll", "dispatch", "fill", "handle", "flush", "respond", "accept",
             "aborted", "crashed", "killed"}
  /\ phase \in [Clients -> {"new", "open", "closed"}]
  /\ asked \in [Clients -> Seq(Requests)]
  /\ unsent \in [Clients -> Nat] /\ inq \in [Clients -> 0 .. InSize]
  /\ got \in [Clients -> Seq(Unit)] /\ outq \in [Clients -> Seq(Unit)]
  /\ \A c \in Clients : Len(outq[c]) <= OutSize
  /\ results \in [Clients -> Seq(Answers)]
  /\ backlog \in Seq(Clients)
  /\ polled \in [FDs -> Clients \cup {"none"}]

\* What poll reported and the loop has not done is still there, and the loop is in
\* the step that the connection's state calls for.
Control ==
  /\ \A f \in todo : conns[f] # NoConn /\ conns[f].client = polled[f]
  /\ pc \in {"poll", "accept"} => todo = {}
  /\ pc \in {"fill", "handle", "flush", "respond"} =>
       todo # {} /\ conn.state = IF pc \in {"flush", "respond"} THEN "RESPONSE" ELSE "REQUEST"
  /\ pc = "accept" => backlog # <<>>
  /\ pc \in {"dispatch", "fill", "handle", "flush", "respond"} /\ accepting => backlog # <<>>

\* A client is new, waits in the backlog, is connected once, or is gone.
Waiting(c) == phase[c] = "new" \/ \E n \in 1 .. Len(backlog) : backlog[n] = c

Population ==
  /\ \A n \in 1 .. Len(backlog) : phase[backlog[n]] # "new"
  /\ \A n, m \in 1 .. Len(backlog) : backlog[n] = backlog[m] => n = m
  /\ \A f \in FDs : conns[f] # NoConn => ~Waiting(conns[f].client)
  /\ \A f, g \in FDs :
       conns[f] # NoConn /\ conns[g] # NoConn /\ conns[f].client = conns[g].client => f = g
  /\ \A c \in Clients : Waiting(c) => results[c] = <<>> /\ Stream(c) = <<>>

\* How far the responses have come, for a connection whose front request is the first
\* one not answered: all up to it, or all but the end of the one in wbuf.
LastUnit(c) == Before(Stream(c), Len(Stream(c)) + 1)

Complete(c, n) == LastUnit(c).request = n /\ LastUnit(c).part = LastUnit(c).of

Placed(k) ==
  /\ Len(results[k.client]) = k.front - 1
  /\ k.state = "REQUEST" => Complete(k.client, k.front - 1)
  /\ k.state = "RESPONSE" =>
       /\ k.front >= 2
       /\ k.wbuf = ResponseSize(results[k.client][k.front - 1])
       /\ k.sent < k.wbuf
       /\ k.sent = 0 => Complete(k.client, k.front - 2)
       /\ k.sent > 0 =>
            LastUnit(k.client) = [request |-> k.front - 1, part |-> k.sent, of |-> k.wbuf]

Progress == \A f \in FDs : conns[f] # NoConn => Placed(conns[f])

WholeFor(c) ==
  \A u \in 1 .. Len(Stream(c)) :
    /\ Stream(c)[u].request <= Len(results[c])
    /\ Stream(c)[u] = NextUnit(c, Before(Stream(c), u))

IInv == Types /\ Control /\ Population /\ Progress /\ \A c \in Clients : WholeFor(c)

-----------------------------------------------------------------------------
(***************************************************************************)
(* Sequences and descriptors.                                              *)
(***************************************************************************)
LEMMA LeastNatural ==
  ASSUME NEW S, S \subseteq Nat, S # {}
  PROVE  Min(S) \in S
<1>1. \E x \in S : \A y \in S : ~(<<y, x>> \in OpToRel(<, Nat))
  BY NatLessThanWellFounded, WFMin
<1>2. PICK x \in S : \A y \in S : ~(<<y, x>> \in OpToRel(<, Nat))
  BY <1>1
<1>3. \A y \in S : x <= y
  <2> SUFFICES ASSUME NEW y \in S PROVE x <= y
    OBVIOUS
  <2>1. x \in Nat /\ y \in Nat /\ ~(y < x)
    BY <1>2 DEF OpToRel
  <2> QED
    BY <2>1
<1> QED
  BY <1>3 DEF Min

LEMMA FDsProperties ==
  /\ Cardinality(Clients) \in Nat /\ FDs = 1 .. Cardinality(Clients) /\ FDs \subseteq Nat
  BY KvAssumption, FS_CardinalityType DEF FDs

LEMMA Connected ==
  ASSUME Types, NEW f \in FDs, conns[f] # NoConn
  PROVE  conns[f] \in Connections /\ conns[f].client \in Clients
  BY DEF Types, Connections

LEMMA Streams ==
  ASSUME Types, NEW c \in Clients
  PROVE  /\ got[c] \in Seq(Unit) /\ outq[c] \in Seq(Unit) /\ Stream(c) \in Seq(Unit)
         /\ Len(Stream(c)) = Len(got[c]) + Len(outq[c])
         /\ LastUnit(c) \in Unit
<1>1. got[c] \in Seq(Unit) /\ outq[c] \in Seq(Unit)
  BY DEF Types
<1>2. Stream(c) \in Seq(Unit) /\ Len(Stream(c)) = Len(got[c]) + Len(outq[c])
  BY <1>1, ConcatProperties DEF Stream
<1>3. LastUnit(c) \in Unit
  <2> DEFINE s == Stream(c)
  <2>1. s \in Seq(Unit) /\ LastUnit(c) = Before(s, Len(s) + 1)
    BY <1>2 DEF LastUnit
  <2> HIDE DEF s
  <2>2. CASE Len(s) = 0
    <3>1. [request |-> 0, part |-> 1, of |-> 1] \in Unit
      BY DEF Unit
    <3> QED
      BY <2>1, <2>2, <3>1 DEF Before
  <2>3. CASE Len(s) # 0
    <3>1. Len(s) \in Nat /\ Len(s) + 1 # 1 /\ Len(s) + 1 - 1 = Len(s) /\ s[Len(s)] \in Unit
      BY <2>1, <2>3
    <3> QED
      BY <2>1, <3>1 DEF Before
  <2> QED
    BY <2>2, <2>3
<1> QED
  BY <1>1, <1>2, <1>3

-----------------------------------------------------------------------------
(***************************************************************************)
(* What a client does leaves the answers as they are.                      *)
(***************************************************************************)
SameAnswers == UNCHANGED <<conns, results>> /\ \A c \in Clients : Stream(c)' = Stream(c)

LEMMA AnswersKept ==
  ASSUME Types, Progress, \A c \in Clients : WholeFor(c), SameAnswers
  PROVE  Progress' /\ (\A c \in Clients : WholeFor(c))'
<1>1. Progress'
  <2> SUFFICES ASSUME NEW f \in FDs, conns[f] # NoConn
               PROVE  Placed(conns[f])'
    BY DEF Progress, SameAnswers
  <2>1. Placed(conns[f]) /\ conns[f].client \in Clients
    BY Connected DEF Progress
  <2> QED
    BY <2>1 DEF SameAnswers, Placed, Complete, LastUnit
<1>2. ASSUME NEW c \in Clients PROVE WholeFor(c)'
  BY <1>2 DEF SameAnswers, WholeFor, NextUnit
<1> QED
  BY <1>1, <1>2

LEMMA PopulationKept ==
  ASSUME Types, Population, SameAnswers, UNCHANGED backlog,
         \A c \in Clients : phase'[c] = "new" <=> phase[c] = "new"
  PROVE  Population'
<1>1. \A n \in 1 .. Len(backlog) : backlog[n] \in Clients
  BY DEF Types
<1>2. \A c \in Clients : Waiting(c)' <=> Waiting(c)
  BY DEF Waiting
<1>3. \A f \in FDs : conns[f] # NoConn => conns[f].client \in Clients
  BY Connected
<1> QED
  BY <1>1, <1>2, <1>3 DEF Population, SameAnswers

LEMMA SameStreams == UNCHANGED <<conns, results, got, outq>> => SameAnswers
  BY DEF SameAnswers, Stream

LEMMA ConnectKeeps == \A c \in Clients : IInv /\ Connect(c) => IInv'
<1> SUFFICES ASSUME NEW c \in Clients, IInv, Connect(c)
             PROVE  IInv'
  OBVIOUS
<1>1. /\ phase[c] = "new" /\ phase' = [phase EXCEPT ![c] = "open"]
      /\ backlog' = Append(backlog, c)
      /\ UNCHANGED <<store, conns, pc, todo, accepting, results, dropped, polled,
                     asked, unsent, got, inq, outq>>
  BY DEF Connect, server
<1>2. /\ backlog \in Seq(Clients) /\ backlog' \in Seq(Clients) /\ Len(backlog) \in Nat
      /\ Len(backlog') = Len(backlog) + 1 /\ backlog'[Len(backlog) + 1] = c
      /\ \A n \in 1 .. Len(backlog) : backlog'[n] = backlog[n] /\ backlog[n] \in Clients
  BY <1>1, AppendProperties DEF IInv, Types
<1>3. Types'
  BY <1>1, <1>2 DEF IInv, Types
<1>4. Control'
  <2>1. backlog' # <<>>
    BY <1>2
  <2> QED
    BY <1>1, <2>1 DEF IInv, Control, conn, fd
<1>5. SameAnswers
  BY <1>1, SameStreams
<1>6. Population'
  <2>1. \A d \in Clients : phase'[d] = IF d = c THEN "open" ELSE phase[d]
    BY <1>1 DEF IInv, Types
  <2>2. \A d \in Clients : Waiting(d)' <=> Waiting(d)
    <3> SUFFICES ASSUME NEW d \in Clients PROVE Waiting(d)' <=> Waiting(d)
      OBVIOUS
    <3>1. CASE d = c
      BY <1>1, <1>2, <3>1 DEF Waiting
    <3>2. CASE d # c
      <4>1. phase'[d] = phase[d]
        BY <2>1, <3>2
      <4>2. (\E n \in 1 .. Len(backlog') : backlog'[n] = d)
              <=> \E n \in 1 .. Len(backlog) : backlog[n] = d
        BY <1>2, <3>2
      <4> QED
        BY <4>1, <4>2 DEF Waiting
    <3> QED
      BY <3>1, <3>2
  <2>3. \A n \in 1 .. Len(backlog') : phase'[backlog'[n]] # "new"
    <3>1. \A n \in 1 .. Len(backlog) : phase'[backlog[n]] # "new"
      BY <1>2, <2>1 DEF IInv, Population
    <3>2. phase'[c] # "new"
      BY <2>1
    <3> QED
      BY <1>2, <3>1, <3>2
  <2>4. \A n, m \in 1 .. Len(backlog') : backlog'[n] = backlog'[m] => n = m
    <3>1. \A n \in 1 .. Len(backlog) : backlog[n] # c
      BY <1>1 DEF IInv, Population
    <3>2. \A n, m \in 1 .. Len(backlog) : backlog[n] = backlog[m] => n = m
      BY DEF IInv, Population
    <3> QED
      BY <1>2, <3>1, <3>2
  <2>5. \A f \in FDs : conns[f] # NoConn => conns[f].client \in Clients
    BY Connected DEF IInv
  <2> QED
    BY <1>1, <1>5, <2>2, <2>3, <2>4, <2>5 DEF IInv, Population, SameAnswers
<1> QED
  BY <1>3, <1>4, <1>5, <1>6, AnswersKept DEF IInv

LEMMA AskKeeps == \A c \in Clients : \A r \in Asks[c] : IInv /\ Ask(c, r) => IInv'
<1> SUFFICES ASSUME NEW c \in Clients, NEW r \in Asks[c], IInv, Ask(c, r)
             PROVE  IInv'
  OBVIOUS
<1>1. r \in Requests /\ r.size \in Nat
  BY KvAssumption
<1>2. /\ asked' = [asked EXCEPT ![c] = Append(@, r)]
      /\ unsent' = [unsent EXCEPT ![c] = r.size]
      /\ UNCHANGED <<store, conns, pc, todo, accepting, results, dropped, polled,
                     phase, got, inq, outq, backlog>>
  BY DEF Ask, server
<1>3. Append(asked[c], r) \in Seq(Requests)
  BY <1>1, AppendProperties DEF IInv, Types
<1>4. Types'
  BY <1>1, <1>2, <1>3 DEF IInv, Types
<1>5. Control'
  BY <1>2 DEF IInv, Control, conn, fd
<1>6. SameAnswers
  BY <1>2, SameStreams
<1> QED
  BY <1>2, <1>4, <1>5, <1>6, AnswersKept, PopulationKept DEF IInv

LEMMA SendKeeps == \A c \in Clients : IInv /\ Send(c) => IInv'
<1> SUFFICES ASSUME NEW c \in Clients, IInv, Send(c)
             PROVE  IInv'
  OBVIOUS
<1> DEFINE n == Smaller(unsent[c], InSize - inq[c])
<1>1. /\ unsent[c] > 0 /\ inq[c] < InSize
      /\ unsent' = [unsent EXCEPT ![c] = @ - n] /\ inq' = [inq EXCEPT ![c] = @ + n]
      /\ UNCHANGED <<store, conns, pc, todo, accepting, results, dropped, polled,
                     phase, asked, got, outq, backlog>>
  BY DEF Send, server
<1>2. unsent[c] \in Nat /\ inq[c] \in 0 .. InSize /\ InSize \in Nat
  BY KvAssumption DEF IInv, Types
<1>3. unsent[c] - n \in Nat /\ inq[c] + n \in 0 .. InSize
  BY <1>1, <1>2 DEF Smaller
<1> HIDE DEF n
<1>4. Types'
  BY <1>1, <1>3 DEF IInv, Types
<1>5. Control'
  BY <1>1 DEF IInv, Control, conn, fd
<1>6. SameAnswers
  BY <1>1, SameStreams
<1> QED
  BY <1>1, <1>4, <1>5, <1>6, AnswersKept, PopulationKept DEF IInv

LEMMA ReceiveKeeps == \A c \in Clients : IInv /\ Receive(c) => IInv'
<1> SUFFICES ASSUME NEW c \in Clients, IInv, Receive(c)
             PROVE  IInv'
  OBVIOUS
<1>1. /\ got' = [got EXCEPT ![c] = @ \o outq[c]] /\ outq' = [outq EXCEPT ![c] = <<>>]
      /\ UNCHANGED <<store, conns, pc, todo, accepting, results, dropped, polled,
                     phase, asked, unsent, inq, backlog>>
  BY DEF Receive, server
<1>2. got[c] \o outq[c] \in Seq(Unit) /\ (got[c] \o outq[c]) \o <<>> = got[c] \o outq[c]
  BY Streams, ConcatEmptySeq DEF IInv, Stream
<1>3. Types'
  <2>1. got' \in [Clients -> Seq(Unit)]
    BY <1>1, <1>2 DEF IInv, Types
  <2>2. outq' \in [Clients -> Seq(Unit)] /\ \A d \in Clients : Len(outq'[d]) <= OutSize
    BY <1>1, KvAssumption DEF IInv, Types
  <2> QED
    BY <1>1, <2>1, <2>2 DEF IInv, Types
<1>4. Control'
  BY <1>1 DEF IInv, Control, conn, fd
<1>5. SameAnswers
  <2> SUFFICES ASSUME NEW d \in Clients
               PROVE  got'[d] \o outq'[d] = got[d] \o outq[d]
    BY <1>1 DEF SameAnswers, Stream
  <2>1. CASE d = c
    BY <1>1, <1>2, <2>1 DEF IInv, Types
  <2>2. CASE d # c
    BY <1>1, <2>2 DEF IInv, Types
  <2> QED
    BY <2>1, <2>2
<1> QED
  BY <1>1, <1>3, <1>4, <1>5, AnswersKept, PopulationKept DEF IInv

LEMMA CloseKeeps == \A c \in Clients : IInv /\ Close(c) => IInv'
<1> SUFFICES ASSUME NEW c \in Clients, IInv, Close(c)
             PROVE  IInv'
  OBVIOUS
<1>1. /\ phase[c] = "open" /\ phase' = [phase EXCEPT ![c] = "closed"]
      /\ UNCHANGED <<store, conns, pc, todo, accepting, results, dropped, polled,
                     asked, unsent, got, inq, outq, backlog>>
  BY DEF Close, server
<1>2. Types' /\ \A d \in Clients : phase'[d] = "new" <=> phase[d] = "new"
  BY <1>1 DEF IInv, Types
<1>3. Control'
  BY <1>1 DEF IInv, Control, conn, fd
<1>4. SameAnswers
  BY <1>1, SameStreams
<1> QED
  BY <1>1, <1>2, <1>3, <1>4, AnswersKept, PopulationKept DEF IInv


-----------------------------------------------------------------------------
(***************************************************************************)
(* The loop.                                                               *)
(***************************************************************************)
LEMMA PollKeeps == IInv /\ Poll => IInv'
<1> SUFFICES ASSUME IInv, Poll
             PROVE  IInv'
  OBVIOUS
<1> DEFINE ready == {f \in FDs : InPollArgs(f)}
<1>1. /\ todo' = ready /\ polled' = [f \in FDs |-> IF f \in ready THEN conns[f].client ELSE "none"]
      /\ accepting' = (backlog # <<>>) /\ pc' = "dispatch"
      /\ UNCHANGED <<store, conns, results, dropped, phase, asked, unsent, got,
                     reset, backlog, inq, outq>>
  BY DEF Poll, client
<1>2. ready \subseteq FDs /\ \A f \in ready : conns[f] # NoConn
  BY DEF InPollArgs
<1> HIDE DEF ready
<1>3. Types'
  <2>1. \A f \in ready : conns[f].client \in Clients
    BY <1>2, Connected DEF IInv
  <2> QED
    BY <1>1, <1>2, <2>1 DEF IInv, Types
<1>4. Control'
  <2>1. \A f \in todo' : conns'[f] # NoConn /\ conns'[f].client = polled'[f]
    BY <1>1, <1>2
  <2>2. accepting' => backlog' # <<>>
    BY <1>1
  <2> QED
    BY <1>1, <2>1, <2>2 DEF Control
<1>5. SameAnswers
  BY <1>1, SameStreams
<1> QED
  BY <1>1, <1>3, <1>4, <1>5, AnswersKept, PopulationKept DEF IInv

\* The descriptor the loop is at.
LEMMA Here ==
  ASSUME Types, Control, todo # {}
  PROVE  /\ fd \in todo /\ fd \in FDs /\ conn \in Connections /\ conn # NoConn
         /\ conn.client \in Clients /\ conn.client = polled[fd]
<1>1. fd \in todo /\ fd \in FDs
  BY LeastNatural, FDsProperties DEF Types, fd
<1> QED
  BY <1>1, Connected DEF Control, conn

LEMMA DispatchKeeps == IInv /\ Dispatch => IInv'
<1> SUFFICES ASSUME IInv, Dispatch
             PROVE  IInv'
  OBVIOUS
<1>1. /\ pc = "dispatch"
      /\ UNCHANGED <<store, conns, todo, accepting, results, dropped, polled, phase, asked,
                     unsent, got, reset, backlog, inq, outq>>
  BY DEF Dispatch, client
<1>2. CASE todo = {}
  <2>1. pc' \in {"accept", "poll"} /\ (pc' = "accept" => accepting)
    BY <1>2 DEF Dispatch
  <2>2. Control'
    BY <1>1, <1>2, <2>1 DEF IInv, Control
  <2>3. Types'
    BY <1>1, <2>1 DEF IInv, Types
  <2> QED
    BY <1>1, <2>2, <2>3, SameStreams, AnswersKept, PopulationKept DEF IInv
<1>3. CASE todo # {}
  <2>1. pc' = IF conn.state = "REQUEST" THEN "fill" ELSE "flush"
    BY <1>3 DEF Dispatch
  <2>2. conn' = conn /\ conn.state \in {"REQUEST", "RESPONSE"}
    BY <1>1, <1>3, Here DEF IInv, conn, fd, Connections
  <2>3. Control'
    BY <1>1, <1>3, <2>1, <2>2 DEF IInv, Control
  <2>4. Types'
    BY <1>1, <2>1 DEF IInv, Types
  <2> QED
    BY <1>1, <2>3, <2>4, SameStreams, AnswersKept, PopulationKept DEF IInv
<1> QED
  BY <1>2, <1>3

\* What Return and Continue do to the control.
LEMMA Returned ==
  ASSUME Types, Control, todo # {}, pc \in {"fill", "handle", "flush", "respond"},
         NEW k \in Connections \cup {NoConn},
         conns' = [conns EXCEPT ![fd] = k], todo' = todo \ {fd}, pc' = "dispatch",
         polled' = [polled EXCEPT ![fd] = "none"], UNCHANGED <<accepting, backlog>>
  PROVE  Control'
<1>1. \A f \in todo' : /\ f # fd /\ f \in FDs
                       /\ conns'[f] = conns[f] /\ polled'[f] = polled[f]
  BY DEF Types
<1> QED
  BY <1>1 DEF Control

LEMMA Continued ==
  ASSUME Types, Control, todo # {}, pc \in {"fill", "handle", "flush", "respond"},
         NEW k \in Connections, k.client = conn.client,
         conns' = [conns EXCEPT ![fd] = k],
         pc' \in {"fill", "handle", "flush", "respond", "aborted", "crashed", "killed"},
         pc' \in {"fill", "handle", "flush", "respond"} =>
           k.state = IF pc' \in {"flush", "respond"} THEN "RESPONSE" ELSE "REQUEST",
         UNCHANGED <<todo, polled, accepting, backlog>>
  PROVE  Control'
<1> DEFINE d == fd
<1>1. d \in todo /\ d \in FDs /\ polled[d] = k.client
  BY Here
<1>2. conn' = k
  BY <1>1 DEF conn, fd, Types
<1>3. k # NoConn
  BY DEF Connections, NoConn
<1>4. conns' = [conns EXCEPT ![d] = k]
  OBVIOUS
<1> HIDE DEF d
<1>5. \A f \in todo : f \in FDs /\ conns'[f] = IF f = d THEN k ELSE conns[f]
  BY <1>4 DEF Types
<1>6. \A f \in todo' : conns'[f] # NoConn /\ conns'[f].client = polled'[f]
  BY <1>1, <1>3, <1>5 DEF Control
<1> QED
  BY <1>2, <1>6 DEF Control

\* And to the answers, when nothing but the current client's change.
LEMMA Turned ==
  ASSUME Types, Control, Population, Progress, \A c \in Clients : WholeFor(c), todo # {},
         NEW d, d = fd, NEW c, c = conn.client,
         NEW k \in Connections \cup {NoConn}, k # NoConn => k.client = c /\ Placed(k)',
         conns' = [conns EXCEPT ![d] = k], UNCHANGED <<backlog, phase>>,
         \A b \in Clients : b # c => results'[b] = results[b] /\ Stream(b)' = Stream(b),
         WholeFor(c)'
  PROVE  Population' /\ Progress' /\ (\A b \in Clients : WholeFor(b))'
<1>1. d \in FDs /\ conns[d] # NoConn /\ conns[d].client = c /\ c \in Clients
  BY Here DEF conn
<1>2. \A f \in FDs : conns'[f] = IF f = d THEN k ELSE conns[f]
  BY DEF Types
<1>3. \A f \in FDs : f # d /\ conns[f] # NoConn => conns[f].client # c /\ conns[f].client \in Clients
  BY <1>1, Connected DEF Population
<1>4. \A b \in Clients : Waiting(b)' <=> Waiting(b)
  BY DEF Waiting
<1>5. ~Waiting(c)
  BY <1>1 DEF Population
<1>6. Population'
  <2>1. \A n \in 1 .. Len(backlog) : phase[backlog[n]] # "new"
    BY DEF Population
  <2>2. \A n, m \in 1 .. Len(backlog) : backlog[n] = backlog[m] => n = m
    BY DEF Population
  <2>3. ASSUME NEW f \in FDs, conns'[f] # NoConn
        PROVE  ~Waiting(conns[f].client)' /\ conns'[f].client = conns[f].client /\ conns[f] # NoConn
    <3>1. conns'[f].client = conns[f].client /\ conns[f] # NoConn
      BY <1>1, <1>2, <2>3
    <3>2. conns[f].client \in Clients /\ ~Waiting(conns[f].client)
      BY <3>1, Connected DEF Population
    <3>3. PICK b \in Clients : b = conns[f].client
      BY <3>2
    <3>4. ~Waiting(b)'
      BY <1>4, <3>2, <3>3
    <3>5. conns'[f].client = b
      BY <3>1, <3>3
    <3>6. ~Waiting(conns[f].client)'
      BY <3>4, <3>5 DEF Waiting
    <3> QED
      BY <3>1, <3>6
  <2>4. \A f, g \in FDs :
          conns'[f] # NoConn /\ conns'[g] # NoConn /\ conns'[f].client = conns'[g].client => f = g
    BY <2>3 DEF Population
  <2>5. \A b \in Clients : Waiting(b)' => results'[b] = <<>> /\ Stream(b)' = <<>>
    BY <1>4, <1>5 DEF Population
  <2> QED
    BY <2>1, <2>2, <2>3, <2>4, <2>5 DEF Population
<1>7. Progress'
  <2> SUFFICES ASSUME NEW f \in FDs, conns'[f] # NoConn
               PROVE  Placed(conns[f])'
    BY DEF Progress
  <2>1. CASE f = d
    BY <1>2, <2>1 DEF Placed, Complete, LastUnit
  <2>2. CASE f # d
    <3>1. conns'[f] = conns[f] /\ Placed(conns[f])
      BY <1>2, <2>2 DEF Progress
    <3>2. conns[f].client # c /\ conns[f].client \in Clients
      BY <1>2, <1>3, <2>2
    <3> QED
      BY <3>1, <3>2 DEF Placed, Complete, LastUnit
  <2> QED
    BY <2>1, <2>2
<1>8. ASSUME NEW b \in Clients PROVE WholeFor(b)'
  <2>1. CASE b = c
    BY <2>1
  <2>2. CASE b # c
    <3>1. WholeFor(b)
      OBVIOUS
    <3> QED
      BY <2>2, <3>1 DEF WholeFor, NextUnit
  <2> QED
    BY <2>1, <2>2
<1> QED
  BY <1>6, <1>7, <1>8


Working == pc \in {"fill", "handle", "flush", "respond"}

\* A connection is destroyed.
LEMMA EndKeeps ==
  ASSUME IInv, Working, Return(Ended),
         UNCHANGED <<store, accepting, results, client, backlog, inq, outq>>
  PROVE  IInv'
<1>1. todo # {} /\ pc \in {"fill", "handle", "flush", "respond"}
  BY DEF IInv, Control, Working
<1>2. fd \in FDs /\ conn \in Connections /\ conn.client \in Clients
  BY <1>1, Here DEF IInv
<1>3. Ended.state = "END"
  BY <1>2 DEF Ended, Connections
<1>4. /\ conns' = [conns EXCEPT ![fd] = NoConn] /\ todo' = todo \ {fd} /\ pc' = "dispatch"
      /\ polled' = [polled EXCEPT ![fd] = "none"]
      /\ UNCHANGED <<store, accepting, results, phase, asked, unsent, got, backlog, inq, outq>>
  BY <1>3 DEF Return, client
<1>5. Control'
  BY <1>1, <1>4, Returned DEF IInv
<1>6. Types'
  BY <1>2, <1>4 DEF IInv, Types
<1>7. \A b \in Clients : results'[b] = results[b] /\ Stream(b)' = Stream(b) /\ WholeFor(b)'
  BY <1>4 DEF IInv, Stream, WholeFor, NextUnit
<1>8. PICK d, c, k : d = fd /\ c = conn.client /\ k = NoConn
  OBVIOUS
<1>9. Population' /\ Progress' /\ (\A b \in Clients : WholeFor(b))'
  BY <1>1, <1>2, <1>4, <1>7, <1>8, Turned DEF IInv
<1> QED
  BY <1>5, <1>6, <1>9 DEF IInv

\* The loop goes on to the next connection and leaves this one as it is.
LEMMA LeaveKeeps ==
  ASSUME IInv, Working, Return(conn),
         UNCHANGED <<store, accepting, results, client, backlog, inq, outq>>
  PROVE  IInv'
<1>1. todo # {} /\ pc \in {"fill", "handle", "flush", "respond"}
  BY DEF IInv, Control, Working
<1>2. fd \in FDs /\ conn \in Connections /\ conn.client \in Clients
  BY <1>1, Here DEF IInv
<1>3. conn.state # "END"
  BY <1>2 DEF Connections
<1>4. /\ conns' = [conns EXCEPT ![fd] = conn] /\ todo' = todo \ {fd} /\ pc' = "dispatch"
      /\ polled' = [polled EXCEPT ![fd] = "none"]
      /\ UNCHANGED <<store, accepting, results, phase, asked, unsent, got, backlog, inq, outq>>
  BY <1>3 DEF Return, client
<1>5. Control'
  BY <1>1, <1>2, <1>4, Returned DEF IInv
<1>6. conns' = conns
  BY <1>2, <1>4 DEF IInv, Types, conn
<1>7. Types'
  BY <1>4, <1>6 DEF IInv, Types
<1> QED
  BY <1>4, <1>5, <1>6, <1>7, SameStreams, AnswersKept, PopulationKept DEF IInv

LEMMA FillKeeps == IInv /\ Fill => IInv'
<1> SUFFICES ASSUME IInv, Fill
             PROVE  IInv'
  OBVIOUS
<1> DEFINE n == Smaller(inq[conn.client], BufSize - conn.rbuf)
           new == [conn EXCEPT !.rbuf = @ + n]
<1>1. /\ pc = "fill" /\ Working /\ todo # {} /\ conn.state = "REQUEST"
      /\ UNCHANGED <<store, accepting, results, client, backlog, outq>>
  BY DEF Fill, Working, IInv, Control
<1>2. ASSUME n > 0, inq' = [inq EXCEPT ![conn.client] = @ - n],
             Continue(new, IF new.rbuf <= BufSize - new.rbuf THEN "handle" ELSE "aborted")
      PROVE  IInv'
  <2>1. /\ fd \in FDs /\ conn \in Connections /\ conn # NoConn /\ conn.client \in Clients
        /\ Placed(conn)
    BY <1>1, Here DEF IInv, Progress, conn
  <2>2. PICK d, c, k : d = fd /\ c = conn.client /\ k = new
    OBVIOUS
  <2>3. conn.rbuf + n \in 0 .. BufSize /\ inq[conn.client] - n \in 0 .. InSize
    <3>1. inq[conn.client] \in 0 .. InSize /\ conn.rbuf \in 0 .. BufSize /\ BufSize \in Nat /\ InSize \in Nat
      BY <2>1, KvAssumption DEF IInv, Types, Connections
    <3> QED
      BY <1>2, <3>1 DEF Smaller
  <2>4. /\ conns' = [conns EXCEPT ![d] = k] /\ pc' \in {"handle", "aborted"}
        /\ UNCHANGED <<todo, dropped, polled>>
    BY <1>2, <2>2 DEF Continue
  <2> HIDE DEF n
  <2>5. /\ k \in Connections /\ k.client = conn.client /\ k.state = conn.state
        /\ k.front = conn.front /\ k.wbuf = conn.wbuf /\ k.sent = conn.sent
    BY <2>1, <2>2, <2>3 DEF Connections
  <2>6. Control'
    BY <1>1, <2>2, <2>4, <2>5, Continued DEF IInv
  <2>7. Types'
    BY <1>1, <1>2, <2>1, <2>2, <2>3, <2>4, <2>5 DEF IInv, Types, client
  <2>8. \A b \in Clients : results'[b] = results[b] /\ Stream(b)' = Stream(b) /\ WholeFor(b)'
    BY <1>1 DEF IInv, Stream, WholeFor, NextUnit, client
  <2>9. Placed(k)'
    BY <2>1, <2>5, <2>8 DEF Placed, Complete, LastUnit
  <2>10. Population' /\ Progress' /\ (\A b \in Clients : WholeFor(b))'
    BY <1>1, <2>1, <2>2, <2>4, <2>5, <2>8, <2>9, Turned DEF IInv, client
  <2> QED
    BY <2>6, <2>7, <2>10 DEF IInv
<1>3. ASSUME Return(Ended), UNCHANGED inq PROVE IInv'
  BY <1>1, <1>3, EndKeeps
<1>4. ASSUME Return(conn), UNCHANGED inq PROVE IInv'
  BY <1>1, <1>4, LeaveKeeps
<1> QED
  BY <1>2, <1>3, <1>4 DEF Fill


\* A request is taken from rbuf, carried out, and answered in wbuf.
LEMMA ServeKeeps ==
  ASSUME IInv, pc = "handle", InBuffer,
         NEW c, c = conn.client, NEW r, r = asked[c][conn.front],
         store' = Service!Applied(r), results' = [results EXCEPT ![c] = Append(@, Service!Reply(r))],
         Continue(Taken(Service!Reply(r)), "respond"),
         UNCHANGED <<accepting, client, backlog, inq, outq>>
  PROVE  /\ IInv'
         /\ c \in Clients /\ r = asked[c][Len(results[c]) + 1] /\ Len(results[c]) < Len(asked[c])
<1> DEFINE reply == Service!Reply(r)
<1>1. pc \in {"fill", "handle", "flush", "respond"} /\ todo # {} /\ conn.state = "REQUEST"
  BY DEF IInv, Control
<1>2. /\ fd \in FDs /\ conn \in Connections /\ conn # NoConn /\ c \in Clients
      /\ Placed(conn)
  BY <1>1, Here DEF IInv, Progress, conn
<1>3. /\ Len(results[c]) = conn.front - 1 /\ Complete(c, conn.front - 1)
      /\ conn.front \in Nat \ {0} /\ conn.rbuf \in 0 .. BufSize /\ results[c] \in Seq(Answers)
  BY <1>1, <1>2 DEF Placed, Connections, IInv, Types
<1>4. /\ conn.front <= Len(asked[c]) /\ r \in Requests /\ r.size \in Nat \ {0} /\ r.size <= conn.rbuf
      /\ r.key \in Keys /\ r.value \in Values
  <2>1. asked[c] \in Seq(Requests) /\ conn.front <= Len(asked[c]) /\ r.size <= conn.rbuf
    BY <1>2 DEF InBuffer, IInv, Types
  <2>2. r \in Requests
    BY <1>3, <2>1
  <2> QED
    BY <2>1, <2>2, KvAssumption
<1>5. reply \in Answers /\ store' \in [Keys -> Values \cup {Service!NX}]
  <2>1. store \in [Keys -> Values \cup {Service!NX}]
    BY DEF IInv, Types
  <2>2. reply \in Answers
    BY <1>4, <2>1 DEF Service!Reply, Answers
  <2>3. store' \in [Keys -> Values \cup {Service!NX}]
    BY <1>4, <2>1 DEF Service!Applied
  <2> QED
    BY <2>2, <2>3
<1>6. ResponseSize(reply) \in 1 .. 2
  BY DEF ResponseSize
<1>7. PICK d, k, a : d = fd /\ k = Taken(reply) /\ a = reply
  OBVIOUS
<1>8. conns' = [conns EXCEPT ![d] = k] /\ pc' = "respond" /\ UNCHANGED <<todo, dropped, polled>>
  BY <1>7 DEF Continue
<1> HIDE DEF reply
<1>9. /\ k \in Connections /\ k.client = c /\ k.state = "RESPONSE" /\ k.front = conn.front + 1
      /\ k.wbuf = ResponseSize(a) /\ k.sent = 0
  <2>1. conn.rbuf - r.size \in 0 .. BufSize
    <3> DEFINE had == conn.rbuf
               size == r.size
    <3>1. had \in 0 .. BufSize /\ size \in Nat /\ size <= had /\ BufSize \in Nat
      BY <1>3, <1>4, KvAssumption
    <3> HIDE DEF had, size
    <3>2. had - size \in 0 .. BufSize
      BY <3>1
    <3> QED
      BY <3>2 DEF had, size
  <2>2. k = [conn EXCEPT !.rbuf = conn.rbuf - r.size, !.front = conn.front + 1,
                         !.state = "RESPONSE", !.wbuf = ResponseSize(a), !.sent = 0]
    BY <1>7 DEF Taken
  <2>3. ResponseSize(a) \in 0 .. 2 /\ conn.front + 1 \in Nat \ {0} /\ 0 \in 0 .. 2
    BY <1>3, <1>6, <1>7
  <2> DEFINE rest == conn.rbuf - r.size
             next == conn.front + 1
             size == ResponseSize(a)
  <2> HIDE DEF rest, next, size
  <2>4. /\ rest \in 0 .. BufSize /\ next \in Nat \ {0} /\ size \in 0 .. 2
        /\ k = [conn EXCEPT !.rbuf = rest, !.front = next, !.state = "RESPONSE",
                            !.wbuf = size, !.sent = 0]
    BY <2>1, <2>2, <2>3 DEF rest, next, size
  <2>5. /\ k \in Connections /\ k.client = conn.client /\ k.state = "RESPONSE" /\ k.front = next
        /\ k.wbuf = size /\ k.sent = 0
    BY <1>2, <2>3, <2>4 DEF Connections
  <2> QED
    BY <2>5 DEF next, size
<1>10. /\ results' \in [Clients -> Seq(Answers)] /\ results'[c] = Append(results[c], a)
       /\ \A b \in Clients : b # c => results'[b] = results[b]
  <2>1. Append(results[c], a) \in Seq(Answers)
    BY <1>3, <1>5, <1>7, AppendProperties
  <2>2. results \in [Clients -> Seq(Answers)] /\ results' = [results EXCEPT ![c] = Append(results[c], a)]
    BY <1>7 DEF IInv, Types, reply
  <2> QED
    BY <1>2, <2>1, <2>2
<1>11. /\ Len(results'[c]) = Len(results[c]) + 1 /\ results'[c][Len(results[c]) + 1] = a
       /\ \A m \in 1 .. Len(results[c]) : results'[c][m] = results[c][m]
  BY <1>3, <1>5, <1>7, <1>10, AppendProperties
<1>12. Control'
  BY <1>1, <1>7, <1>8, <1>9, Continued DEF IInv
<1>13. Types'
  BY <1>2, <1>5, <1>7, <1>8, <1>9, <1>10 DEF IInv, Types, client
<1>14. \A b \in Clients : Stream(b)' = Stream(b)
  BY DEF Stream, client
<1>15. Placed(k)'
  <2>1. LastUnit(c)' = LastUnit(c)
    BY <1>2, <1>14 DEF LastUnit
  <2>2. results'[c][k.front - 1] = a /\ Len(results'[c]) = k.front - 1 /\ k.front >= 2 /\ k.sent < k.wbuf
    BY <1>3, <1>6, <1>7, <1>9, <1>11
  <2>3. k.front - 2 = conn.front - 1 /\ ~(k.sent > 0)
    BY <1>3, <1>9
  <2> QED
    BY <1>3, <1>9, <2>1, <2>2, <2>3 DEF Placed, Complete
<1>16. WholeFor(c)'
  <2>1. ASSUME NEW u \in 1 .. Len(Stream(c))
        PROVE  /\ Stream(c)[u].request <= Len(results'[c])
               /\ Stream(c)[u] = NextUnit(c, Before(Stream(c), u))'
    <3>1. /\ Stream(c)[u].request <= Len(results[c])
          /\ Stream(c)[u] = NextUnit(c, Before(Stream(c), u))
      BY <1>2 DEF IInv, WholeFor
    <3>2. PICK p \in Unit : p = Before(Stream(c), u)
      <4>1. Stream(c) \in Seq(Unit) /\ [request |-> 0, part |-> 1, of |-> 1] \in Unit
        <5>1. Stream(c) \in Seq(Unit)
          BY <1>2, Streams DEF IInv
        <5> QED
          BY <5>1 DEF Unit
      <4>2. u # 1 => Stream(c)[u - 1] \in Unit
        BY <4>1
      <4> QED
        BY <4>1, <4>2 DEF Before
    <3>3. Before(Stream(c), u)' = p
      BY <1>2, <1>14, <3>2 DEF Before
    <3>4. Len(results[c]) \in Nat /\ p.request \in Nat
      BY <1>3, <3>2 DEF Unit
    <3>5. ~(p.part < p.of) => Stream(c)[u].request = p.request + 1
      BY <3>1, <3>2 DEF NextUnit
    <3>6. ~(p.part < p.of) => results'[c][p.request + 1] = results[c][p.request + 1]
      BY <1>11, <3>1, <3>4, <3>5
    <3>7. NextUnit(c, p)' = NextUnit(c, p)
      BY <3>6 DEF NextUnit
    <3>8. Stream(c)[u].request <= Len(results'[c])
      <4>1. Stream(c)[u].request \in Nat
        <5>1. Stream(c)[u] \in Unit
          <6>1. Stream(c) \in Seq(Unit)
            BY <1>2, Streams DEF IInv
          <6> QED
            BY <6>1, ElementOfSeq
        <5> QED
          BY <5>1 DEF Unit
      <4> QED
        BY <1>11, <3>1, <3>4, <4>1
    <3> QED
      BY <3>1, <3>2, <3>3, <3>7, <3>8 DEF NextUnit
  <2> QED
    BY <1>2, <1>14, <2>1 DEF WholeFor
<1>17. Population' /\ Progress' /\ (\A b \in Clients : WholeFor(b))'
  BY <1>1, <1>7, <1>8, <1>9, <1>10, <1>14, <1>15, <1>16, Turned DEF IInv, client
<1>18. conn.front = Len(results[c]) + 1
  BY <1>3
<1> QED
  BY <1>2, <1>3, <1>4, <1>12, <1>13, <1>17, <1>18 DEF IInv


LEMMA HandleKeeps == IInv /\ Handle => IInv'
<1> SUFFICES ASSUME IInv, Handle
             PROVE  IInv'
  OBVIOUS
<1>1. /\ pc = "handle" /\ Working /\ todo # {} /\ conn.state = "REQUEST"
      /\ UNCHANGED <<accepting, client, backlog, inq, outq>>
  BY DEF Handle, Working, IInv, Control
<1>2. ASSUME Return(Ended), UNCHANGED <<store, results>> PROVE IInv'
  BY <1>1, <1>2, EndKeeps
<1>3. ASSUME Continue(conn, "fill") \/ Continue(conn, "crashed"), UNCHANGED <<store, results>>
      PROVE  IInv'
  <2>1. fd \in FDs /\ conn \in Connections
    BY <1>1, Here DEF IInv
  <2>2. /\ conns' = [conns EXCEPT ![fd] = conn] /\ pc' \in {"fill", "crashed"}
        /\ UNCHANGED <<todo, dropped, polled>>
    BY <1>3 DEF Continue
  <2>3. conns' = conns
    BY <2>1, <2>2 DEF IInv, Types, conn
  <2>4. Control'
    BY <1>1, <2>1, <2>2, Continued DEF IInv
  <2>5. Types'
    BY <1>1, <1>3, <2>2, <2>3 DEF IInv, Types, client
  <2> QED
    BY <1>1, <1>3, <2>3, <2>4, <2>5, SameStreams, AnswersKept, PopulationKept DEF IInv, client
<1>4. ASSUME ~Refused, InBuffer,
             store' = Service!Applied(asked[conn.client][conn.front]),
             results' = [results EXCEPT
                           ![conn.client] = Append(@, Service!Reply(asked[conn.client][conn.front]))],
             Continue(Taken(Service!Reply(asked[conn.client][conn.front])), "respond")
      PROVE  IInv'
  BY <1>1, <1>4, ServeKeeps
<1> QED
  BY <1>2, <1>3, <1>4 DEF Handle

-----------------------------------------------------------------------------
(***************************************************************************)
(* What a write adds to the stream of responses.                           *)
(***************************************************************************)
Part(front, size, from, n) == SubSeq(Units(front - 1, size), from + 1, from + n)

LEMMA ChunkProperties ==
  ASSUME NEW front \in Nat, front >= 2, NEW size \in Nat, NEW from \in Nat, NEW n \in Nat \ {0},
         from + n <= size,
         NEW chunk, chunk = Part(front, size, from, n)
  PROVE  /\ chunk \in Seq(Unit) /\ Len(chunk) = n
         /\ \A u \in 1 .. n : chunk[u] = [request |-> front - 1, part |-> from + u, of |-> size]
<1> DEFINE units == Units(front - 1, size)
<1>0. chunk = SubSeq(units, from + 1, from + n)
  BY DEF Part
<1>1. front - 1 \in Nat
  OBVIOUS
<1>2. \A u \in 1 .. size : units[u] = [request |-> front - 1, part |-> u, of |-> size]
  BY DEF Units
<1> HIDE DEF units
<1>3. \A u \in 1 .. size : units[u] \in Unit
  <2> DEFINE before == front - 1
  <2> HIDE DEF before
  <2>1. before \in Nat /\ \A u \in 1 .. size : u \in Nat /\ units[u] = [request |-> before, part |-> u, of |-> size]
    BY <1>1, <1>2 DEF before
  <2>2. \A u \in Nat : [request |-> before, part |-> u, of |-> size] \in Unit
    BY <2>1 DEF Unit
  <2> QED
    BY <2>1, <2>2
<1>4. from + 1 \in Int /\ from + n \in Int /\ from + 1 <= from + n /\ from + n - (from + 1) + 1 = n
  OBVIOUS
<1>5. \A u \in from + 1 .. from + n : units[u] \in Unit
  BY <1>3
<1>6. chunk \in Seq(Unit) /\ Len(chunk) = n
  BY <1>0, <1>4, <1>5, SubSeqProperties
<1>7. \A u \in 1 .. n : chunk[u] = units[from + 1 + u - 1]
  <2>1. PICK lo, hi : lo = from + 1 /\ hi = from + n
    OBVIOUS
  <2>2. /\ chunk = SubSeq(units, lo, hi) /\ lo \in Int /\ hi \in Int
        /\ \A u \in lo .. hi : units[u] \in Unit
    BY <1>0, <1>5, <2>1
  <2>3. \A u \in 1 .. hi - lo + 1 : chunk[u] = units[lo + u - 1]
    BY <2>2, SubSeqProperties
  <2> QED
    BY <1>4, <2>1, <2>3
<1>8. \A u \in 1 .. n : chunk[u] = [request |-> front - 1, part |-> from + u, of |-> size]
  <2> SUFFICES ASSUME NEW u \in 1 .. n
               PROVE  chunk[u] = [request |-> front - 1, part |-> from + u, of |-> size]
    OBVIOUS
  <2>1. from + 1 + u - 1 = from + u /\ from + u \in 1 .. size
    OBVIOUS
  <2> QED
    BY <1>2, <1>7, <2>1
<1> QED
  BY <1>6, <1>8


\* n units more of the response of that size to request front - 1, of which `from' are
\* in the stream, are written to c.
Written(c, front, size, from, n, chunk) ==
  /\ front \in Nat /\ front >= 2 /\ size \in Nat /\ from \in Nat /\ n \in Nat \ {0}
  /\ from + n <= size
  /\ Len(results[c]) = front - 1 /\ size = ResponseSize(results[c][front - 1])
  /\ from = 0 => Complete(c, front - 2)
  /\ from > 0 => LastUnit(c) = [request |-> front - 1, part |-> from, of |-> size]
  /\ results'[c] = results[c]
  /\ chunk \in Seq(Unit) /\ Len(chunk) = n
  /\ \A u \in 1 .. n : chunk[u] = [request |-> front - 1, part |-> from + u, of |-> size]
  /\ Stream(c)' = Stream(c) \o chunk

LEMMA StreamGrows ==
  ASSUME Types, NEW c \in Clients, WholeFor(c),
         NEW front, NEW size, NEW from, NEW n, NEW chunk,
         Written(c, front, size, from, n, chunk)
  PROVE  WholeFor(c)' /\ LastUnit(c)' = [request |-> front - 1, part |-> from + n, of |-> size]
<1> USE DEF Written
<1> DEFINE Sent(p) == [request |-> front - 1, part |-> p, of |-> size]
<1>1. PICK s \in Seq(Unit) : s = Stream(c)
  BY Streams
<1>2. PICK t : t = s \o chunk
  OBVIOUS
<1>3. Stream(c)' = t
  BY <1>1, <1>2
<1> DEFINE l == Len(s)
<1>4. /\ t \in Seq(Unit) /\ l \in Nat /\ Len(t) = l + n
      /\ \A u \in 1 .. l : t[u] = s[u]
      /\ \A u \in l + 1 .. l + n : t[u] = chunk[u - l]
  <2>1. l \in Nat /\ Len(chunk) = n
    OBVIOUS
  <2>2. /\ t \in Seq(Unit) /\ Len(t) = l + n
        /\ \A u \in 1 .. l + n : t[u] = IF u <= l THEN s[u] ELSE chunk[u - l]
    BY <1>2, ConcatProperties
  <2> HIDE DEF l
  <2> QED
    BY <2>1, <2>2
<1> HIDE DEF l
<1>5. \A u \in 1 .. n : t[l + u] = Sent(from + u)
  <2> SUFFICES ASSUME NEW u \in 1 .. n PROVE t[l + u] = Sent(from + u)
    OBVIOUS
  <2>1. l + u \in l + 1 .. l + n /\ l + u - l = u
    BY <1>4
  <2> QED
    BY <1>4, <2>1
<1> HIDE DEF Sent
<1>6. PICK last \in Unit : last = LastUnit(c)
  BY Streams
<1>7. \A p \in Nat : p < size => NextUnit(c, Sent(p))' = Sent(p + 1)
  BY DEF NextUnit, Sent
<1>8. NextUnit(c, last)' = Sent(from + 1)
  <2>1. CASE from = 0
    <3>1. last.request = front - 2 /\ last.part = last.of /\ last.of \in Nat
      BY <1>6, <2>1 DEF Complete, Unit
    <3>2. last.request + 1 = front - 1 /\ ~(last.part < last.of) /\ from + 1 = 1
      BY <2>1, <3>1
    <3>3. NextUnit(c, last)' = [request |-> front - 1, part |-> 1,
                                of |-> ResponseSize(results[c][front - 1])]
      BY <3>2 DEF NextUnit, ResponseSize
    <3> QED
      BY <3>2, <3>3 DEF Sent
  <2>2. CASE from > 0
    <3>1. last = Sent(from)
      BY <1>6, <2>2 DEF Sent
    <3>2. from \in Nat /\ from < size
      OBVIOUS
    <3>3. NextUnit(c, Sent(from))' = Sent(from + 1)
      BY <1>7, <3>2
    <3> QED
      BY <3>1, <3>3
  <2> QED
    BY <2>1, <2>2
<1>9. \A u \in 1 .. l : Before(t, u) = Before(s, u)
  BY <1>4 DEF Before
<1>10. Before(t, l + 1) = last
  <2>1. last = Before(s, l + 1)
    BY <1>1, <1>6 DEF LastUnit, l
  <2>2. CASE l = 0
    BY <2>1, <2>2 DEF Before
  <2>3. CASE l # 0
    <3>1. l + 1 # 1 /\ l + 1 - 1 = l /\ l \in 1 .. l
      BY <1>4, <2>3
    <3> QED
      BY <1>4, <2>1, <3>1 DEF Before
  <2> QED
    BY <2>2, <2>3
<1>11. ASSUME NEW u \in 1 .. l
       PROVE  t[u].request <= Len(results'[c]) /\ t[u] = NextUnit(c, Before(t, u))'
  <2>1. t[u].request <= Len(results[c]) /\ t[u] = NextUnit(c, Before(t, u))
    BY <1>1, <1>4, <1>9 DEF WholeFor, l
  <2> QED
    BY <2>1 DEF NextUnit
<1>12. ASSUME NEW u \in 1 .. n
       PROVE  t[l + u].request <= Len(results'[c]) /\ t[l + u] = NextUnit(c, Before(t, l + u))'
  <2>1. t[l + u] = Sent(from + u) /\ t[l + u].request <= Len(results'[c])
    BY <1>5 DEF Sent
  <2>2. CASE u = 1
    BY <1>8, <1>10, <2>1, <2>2
  <2>3. CASE u # 1
    <3>1. u - 1 \in 1 .. n /\ l + u - 1 = l + (u - 1) /\ l + u # 1
      BY <1>4, <2>3
    <3>2. Before(t, l + u) = Sent(from + (u - 1))
      <4>1. Before(t, l + u) = t[l + (u - 1)]
        <5> DEFINE here == l + u
        <5>1. here # 1 /\ here - 1 = l + (u - 1)
          BY <1>4, <2>3, <3>1
        <5> HIDE DEF here
        <5>2. Before(t, here) = t[l + (u - 1)]
          BY <5>1 DEF Before
        <5> QED
          BY <5>2 DEF here
      <4> QED
        BY <1>5, <3>1, <4>1
    <3>3. from + (u - 1) \in Nat /\ from + (u - 1) < size /\ from + (u - 1) + 1 = from + u
      BY <3>1
    <3>4. NextUnit(c, Sent(from + (u - 1)))' = Sent(from + (u - 1) + 1)
      BY <1>7, <3>3
    <3> QED
      BY <2>1, <3>2, <3>3, <3>4
  <2> QED
    BY <2>1, <2>2, <2>3
<1>13. \A v \in 1 .. Len(t) :
         t[v].request <= Len(results'[c]) /\ t[v] = NextUnit(c, Before(t, v))'
  <2> SUFFICES ASSUME NEW v \in 1 .. Len(t)
               PROVE  t[v].request <= Len(results'[c]) /\ t[v] = NextUnit(c, Before(t, v))'
    OBVIOUS
  <2>1. CASE v <= l
    <3>1. v \in 1 .. l
      BY <1>4, <2>1
    <3> QED
      BY <1>11, <3>1
  <2>2. CASE ~(v <= l)
    <3>1. PICK u \in 1 .. n : v = l + u
      <4>1. v - l \in 1 .. n /\ v = l + (v - l)
        BY <1>4, <2>2
      <4> QED
        BY <4>1
    <3> QED
      BY <1>12, <3>1
  <2> QED
    BY <2>1, <2>2
<1>14. WholeFor(c)'
  BY <1>3, <1>13 DEF WholeFor, NextUnit, Before
<1>15. LastUnit(c)' = Sent(from + n)
  <2>1. LastUnit(c)' = Before(t, Len(t) + 1)
    BY <1>3 DEF LastUnit, Before
  <2>2. Len(t) + 1 # 1 /\ Len(t) + 1 - 1 = l + n /\ n \in 1 .. n
    BY <1>4
  <2> QED
    BY <1>5, <2>1, <2>2 DEF Before
<1> QED
  BY <1>14, <1>15 DEF Sent


\* What a write does to the stream, and what it leaves of the connection.
Writes(c, n, k) ==
  /\ c = conn.client
  /\ n \in Nat \ {0} /\ n <= conn.wbuf - conn.sent /\ n <= OutSize - Len(outq[c])
  /\ outq' = [outq EXCEPT ![c] = @ \o Chunk(n)] /\ UNCHANGED <<results, got>>
  /\ k = IF conn.sent + n = conn.wbuf
         THEN [conn EXCEPT !.state = "REQUEST", !.wbuf = 0, !.sent = 0]
         ELSE [conn EXCEPT !.sent = @ + n]

LEMMA WriteOutcome ==
  ASSUME IInv, pc \in {"flush", "respond"}, NEW c, NEW n, NEW k, Writes(c, n, k)
  PROVE  /\ k \in Connections /\ k.client = c /\ c \in Clients
         /\ k.state = IF conn.sent + n = conn.wbuf THEN "REQUEST" ELSE "RESPONSE"
         /\ outq' \in [Clients -> Seq(Unit)] /\ \A b \in Clients : Len(outq'[b]) <= OutSize
         /\ \A b \in Clients : b # c => Stream(b)' = Stream(b)
         /\ Placed(k)' /\ WholeFor(c)'
<1> USE DEF Writes
<1>1. todo # {} /\ conn.state = "RESPONSE"
  BY DEF IInv, Control
<1>2. conn \in Connections /\ c \in Clients /\ Placed(conn) /\ WholeFor(c)
  BY <1>1, Here DEF IInv, Progress, conn
<1>3. PICK front, size, from : front = conn.front /\ size = conn.wbuf /\ from = conn.sent
  OBVIOUS
<1>4. /\ front \in Nat /\ size \in 0 .. 2 /\ from \in 0 .. 2 /\ n <= size - from
      /\ size \in Nat /\ from \in Nat
  BY <1>2, <1>3 DEF Connections
<1>5. /\ front >= 2 /\ Len(results[c]) = front - 1 /\ size = ResponseSize(results[c][front - 1])
      /\ from = 0 => Complete(c, front - 2)
      /\ from > 0 => LastUnit(c) = [request |-> front - 1, part |-> from, of |-> size]
  BY <1>1, <1>2, <1>3 DEF Placed
<1>6. from + n <= size /\ from + n \in 0 .. 2
  BY <1>4
<1>7. PICK chunk : chunk = Chunk(n)
  OBVIOUS
<1>8. /\ chunk \in Seq(Unit) /\ Len(chunk) = n
      /\ \A u \in 1 .. n : chunk[u] = [request |-> front - 1, part |-> from + u, of |-> size]
  <2>1. chunk = Part(front, size, from, n)
    BY <1>3, <1>7 DEF Chunk, Part
  <2> QED
    BY <1>4, <1>5, <1>6, <2>1, ChunkProperties
<1>9. outq' = [outq EXCEPT ![c] = outq[c] \o chunk] /\ outq \in [Clients -> Seq(Unit)]
  BY <1>7 DEF IInv, Types
<1>10. outq[c] \o chunk \in Seq(Unit) /\ Len(outq[c] \o chunk) = Len(outq[c]) + n
  <2>1. outq[c] \in Seq(Unit)
    BY <1>2, <1>9
  <2> QED
    BY <1>8, <2>1, ConcatProperties
<1>11. outq' \in [Clients -> Seq(Unit)] /\ outq'[c] = outq[c] \o chunk
       /\ \A b \in Clients : b # c => outq'[b] = outq[b]
  BY <1>2, <1>9, <1>10
<1>12. \A b \in Clients : Len(outq'[b]) <= OutSize
  <2>1. Len(outq'[c]) <= OutSize
    <3>1. Len(outq[c]) \in Nat /\ OutSize \in Nat
      BY <1>2, <1>9, KvAssumption
    <3> QED
      BY <1>10, <1>11, <3>1
  <2>2. \A b \in Clients : b # c => Len(outq'[b]) <= OutSize
    BY <1>11 DEF IInv, Types
  <2> QED
    BY <2>1, <2>2
<1>13. Stream(c)' = Stream(c) \o chunk
  <2>1. got[c] \in Seq(Unit) /\ outq[c] \in Seq(Unit)
    BY <1>2, Streams DEF IInv
  <2>2. got[c] \o (outq[c] \o chunk) = (got[c] \o outq[c]) \o chunk
    <3>1. \A s, t, u \in Seq(Unit) : (s \o t) \o u = s \o (t \o u)
      BY ConcatAssociative
    <3> QED
      BY <1>8, <2>1, <3>1, Zenon
  <2> QED
    BY <1>11, <2>2 DEF Stream
<1>14. \A b \in Clients : b # c => Stream(b)' = Stream(b)
  BY <1>11 DEF Stream
<1>15. WholeFor(c)' /\ LastUnit(c)' = [request |-> front - 1, part |-> from + n, of |-> size]
  <2>1. Written(c, front, size, from, n, chunk)
    BY <1>4, <1>5, <1>6, <1>8, <1>13 DEF Written
  <2> QED
    BY <1>2, <2>1, StreamGrows DEF IInv
<1>16. CASE from + n = size
  <2>1. k = [conn EXCEPT !.state = "REQUEST", !.wbuf = 0, !.sent = 0]
    BY <1>3, <1>16
  <2>2. k \in Connections /\ k.client = c /\ k.state = "REQUEST" /\ k.front = front
    <3>1. 0 \in 0 .. 2
      OBVIOUS
    <3> QED
      BY <1>2, <1>3, <2>1, <3>1 DEF Connections
  <2>3. Complete(c, front - 1)'
    BY <1>15, <1>16 DEF Complete
  <2>4. Placed(k)'
    BY <1>5, <2>2, <2>3 DEF Placed, Complete
  <2> QED
    BY <1>2, <1>3, <1>11, <1>12, <1>14, <1>15, <1>16, <2>2, <2>4
<1>17. CASE from + n # size
  <2> DEFINE next == from + n
  <2>1. next \in 0 .. 2 /\ next < size /\ ~(next = 0) /\ next > 0
    BY <1>4, <1>6, <1>17
  <2>2. k = [conn EXCEPT !.sent = next]
    BY <1>3, <1>17
  <2>3. LastUnit(c)' = [request |-> front - 1, part |-> next, of |-> size]
    BY <1>15
  <2> HIDE DEF next
  <2>4. /\ k \in Connections /\ k.client = c /\ k.state = "RESPONSE" /\ k.front = front
        /\ k.wbuf = size /\ k.sent = next
    BY <1>1, <1>2, <1>3, <2>1, <2>2 DEF Connections
  <2>5. Placed(k)'
    BY <1>5, <2>1, <2>3, <2>4 DEF Placed
  <2> QED
    BY <1>2, <1>3, <1>11, <1>12, <1>14, <1>15, <1>17, <2>4, <2>5
<1> QED
  BY <1>16, <1>17

\* The process ends in the middle of a write.
LEMMA KilledKeeps ==
  ASSUME IInv, Working, Continue(conn, "killed"),
         UNCHANGED <<store, accepting, results, client, backlog, inq, outq>>
  PROVE  IInv'
<1>1. todo # {} /\ fd \in FDs /\ conn \in Connections
  BY Here DEF IInv, Control, Working
<1>2. conns' = [conns EXCEPT ![fd] = conn] /\ pc' = "killed" /\ UNCHANGED <<todo, dropped, polled>>
  BY DEF Continue
<1>3. conns' = conns
  BY <1>1, <1>2 DEF IInv, Types, conn
<1>4. Control'
  BY <1>1, <1>2, Continued DEF IInv, Working
<1>5. Types'
  BY <1>2, <1>3 DEF IInv, Types, client
<1> QED
  BY <1>3, <1>4, <1>5, SameStreams, AnswersKept, PopulationKept DEF IInv, client

LEMMA FlushKeeps == IInv /\ Flush => IInv'
<1> SUFFICES ASSUME IInv, Flush
             PROVE  IInv'
  OBVIOUS
<1> DEFINE c == conn.client
           n == Smaller(conn.wbuf - conn.sent, OutSize - Len(outq[c]))
           done == conn.sent + n = conn.wbuf
           idle == [conn EXCEPT !.state = "REQUEST", !.wbuf = 0, !.sent = 0]
<1>1. /\ pc \in {"flush", "respond"} /\ Working /\ todo # {}
      /\ UNCHANGED <<store, accepting, results, phase, asked, unsent, got, backlog, inq>>
  BY DEF Flush, Working, IInv, Control
<1>2. ASSUME Return(Ended), UNCHANGED <<outq, reset>> PROVE IInv'
  BY <1>1, <1>2, EndKeeps DEF client
<1>3. ASSUME Return(conn), UNCHANGED <<outq, reset>> PROVE IInv'
  BY <1>1, <1>3, LeaveKeeps DEF client
<1>4. ASSUME Continue(conn, "killed"), UNCHANGED <<outq, reset>> PROVE IInv'
  BY <1>1, <1>4, KilledKeeps DEF client
<1>5. ASSUME n > 0, outq' = [outq EXCEPT ![c] = @ \o Chunk(n)],
             \/ ~done /\ Continue([conn EXCEPT !.sent = @ + n], pc)
             \/ done /\ Continue(idle, "handle")
             \/ done /\ Return(idle)
      PROVE  IInv'
  <2>1. fd \in FDs /\ conn \in Connections /\ c \in Clients
    BY <1>1, Here DEF IInv
  <2>2. n \in Nat \ {0} /\ n <= conn.wbuf - conn.sent /\ n <= OutSize - Len(outq[c])
    <3>1. conn.wbuf \in 0 .. 2 /\ conn.sent \in 0 .. 2 /\ OutSize \in Nat /\ Len(outq[c]) \in Nat
      BY <2>1, KvAssumption DEF Connections, IInv, Types
    <3> QED
      BY <1>5, <3>1 DEF Smaller
  <2>3. PICK d, b, m, k : /\ d = fd /\ b = c /\ m = n
                          /\ k = IF done THEN idle ELSE [conn EXCEPT !.sent = @ + n]
    OBVIOUS
  <2>4. UNCHANGED <<results, got, phase>>
    BY <1>1
  <2>5. /\ k \in Connections /\ k.client = b
        /\ k.state = IF done THEN "REQUEST" ELSE "RESPONSE"
        /\ outq' \in [Clients -> Seq(Unit)] /\ \A a \in Clients : Len(outq'[a]) <= OutSize
        /\ \A a \in Clients : a # b => Stream(a)' = Stream(a)
        /\ Placed(k)' /\ WholeFor(b)'
    <3>1. Writes(b, m, k) /\ (done <=> conn.sent + m = conn.wbuf)
      BY <1>5, <2>2, <2>3, <2>4 DEF Writes
    <3> HIDE DEF n, done, idle, c
    <3>2. /\ k \in Connections /\ k.client = b /\ b \in Clients
          /\ k.state = IF conn.sent + m = conn.wbuf THEN "REQUEST" ELSE "RESPONSE"
          /\ outq' \in [Clients -> Seq(Unit)] /\ \A a \in Clients : Len(outq'[a]) <= OutSize
          /\ \A a \in Clients : a # b => Stream(a)' = Stream(a)
          /\ Placed(k)' /\ WholeFor(b)'
      BY <1>1, <3>1, WriteOutcome
    <3> QED
      BY <3>1, <3>2
  <2>6. \/ ~done /\ Continue(k, pc)
        \/ done /\ Continue(k, "handle")
        \/ done /\ Return(k)
    BY <1>5, <2>3
  <2> HIDE DEF n, done, idle, c
  <2>7. k.state # "END" /\ k # NoConn
    BY <2>5 DEF Connections, NoConn
  <2>8. /\ conns' = [conns EXCEPT ![d] = k]
        /\ \/ /\ pc' \in {"flush", "respond", "handle"} /\ UNCHANGED <<todo, polled>>
              /\ k.state = IF pc' \in {"flush", "respond"} THEN "RESPONSE" ELSE "REQUEST"
           \/ /\ pc' = "dispatch" /\ todo' = todo \ {fd}
              /\ polled' = [polled EXCEPT ![fd] = "none"]
    BY <1>1, <2>3, <2>5, <2>6, <2>7 DEF Continue, Return
  <2>9. Control'
    <3>1. k.client = conn.client /\ conns' = [conns EXCEPT ![fd] = k]
      BY <2>3, <2>5, <2>8 DEF c
    <3>2. CASE /\ pc' = "dispatch" /\ todo' = todo \ {fd}
               /\ polled' = [polled EXCEPT ![fd] = "none"]
      BY <1>1, <2>5, <3>1, <3>2, Returned DEF IInv
    <3>3. CASE /\ pc' \in {"flush", "respond", "handle"} /\ UNCHANGED <<todo, polled>>
               /\ k.state = IF pc' \in {"flush", "respond"} THEN "RESPONSE" ELSE "REQUEST"
      BY <1>1, <2>5, <3>1, <3>3, Continued DEF IInv
    <3> QED
      BY <2>8, <3>2, <3>3
  <2>10. Types'
    <3>1. conns' \in [FDs -> Connections \cup {NoConn}] /\ todo' \subseteq FDs
          /\ pc' \in {"flush", "respond", "handle", "dispatch"}
          /\ polled' \in [FDs -> Clients \cup {"none"}]
      BY <2>1, <2>3, <2>5, <2>8 DEF IInv, Types
    <3> QED
      BY <1>1, <2>4, <2>5, <3>1 DEF IInv, Types
  <2>11. b = conn.client
    BY <2>3 DEF c
  <2>12. Population' /\ Progress' /\ (\A a \in Clients : WholeFor(a))'
    BY <1>1, <2>3, <2>4, <2>5, <2>7, <2>8, <2>11, Turned DEF IInv
  <2> QED
    BY <2>9, <2>10, <2>12 DEF IInv
<1> QED
  BY <1>2, <1>3, <1>4, <1>5 DEF Flush, Responded


-----------------------------------------------------------------------------
(***************************************************************************)
(* accept.                                                                 *)
(***************************************************************************)
LEMMA TwoShare ==
  ASSUME NEW n \in Nat, NEW T, IsFiniteSet(T), Cardinality(T) < n
  PROVE  \A f \in [1 .. n -> T] : \E x, y \in 1 .. n : x # y /\ f[x] = f[y]
<1>1. IsFiniteSet(1 .. n) /\ Cardinality(1 .. n) = n
  <2>1. Cardinality(T) \in Nat
    BY FS_CardinalityType
  <2>2. n >= 1 /\ n \in Int
    BY <2>1
  <2> QED
    BY <2>2, FS_Interval
<1>2. \A S : IsFiniteSet(S) /\ Cardinality(T) < Cardinality(S) =>
        \A f \in [S -> T] : \E x, y \in S : x # y /\ f[x] = f[y]
  BY FS_PigeonHole
<1> QED
  BY <1>1, <1>2

\* There is a descriptor for the client at the head of the backlog: no two connections
\* are of the same client, and none is of that one.
LEMMA FreeDescriptor ==
  ASSUME Types, Population, NEW c \in Clients, Waiting(c)
  PROVE  /\ Min({g \in FDs : conns[g] = NoConn}) \in FDs
         /\ conns[Min({g \in FDs : conns[g] = NoConn})] = NoConn
<1> DEFINE n == Cardinality(Clients)
           Others == Clients \ {c}
           Free == {g \in FDs : conns[g] = NoConn}
<1>1. n \in Nat /\ FDs = 1 .. n /\ IsFiniteSet(Others) /\ Cardinality(Others) = n - 1
  BY FDsProperties, KvAssumption, FS_RemoveElement
<1>2. Free # {}
  <2> SUFFICES ASSUME Free = {} PROVE FALSE
    OBVIOUS
  <2> DEFINE place == [g \in 1 .. n |-> conns[g].client]
  <2>1. \A g \in 1 .. n : g \in FDs /\ conns[g] # NoConn
    BY <1>1
  <2>2. \A g \in 1 .. n : conns[g].client \in Others
    BY <2>1, Connected DEF Population
  <2>3. place \in [1 .. n -> Others]
    BY <2>2
  <2>4. \A g \in 1 .. n : place[g] = conns[g].client
    OBVIOUS
  <2> HIDE DEF n, Others, place
  <2>5. Cardinality(Others) < n
    BY <1>1
  <2>6. \A f \in [1 .. n -> Others] : \E x, y \in 1 .. n : x # y /\ f[x] = f[y]
    BY <1>1, <2>5, TwoShare
  <2>7. PICK x \in 1 .. n, y \in 1 .. n : x # y /\ place[x] = place[y]
    BY <2>3, <2>6, Zenon
  <2> QED
    BY <2>1, <2>4, <2>7 DEF Population
<1>3. Min(Free) \in Free
  <2>1. Free \subseteq Nat
    BY FDsProperties
  <2> HIDE DEF Free
  <2> QED
    BY <1>2, <2>1, LeastNatural
<1> QED
  BY <1>3

LEMMA AcceptKeeps == IInv /\ Accept => IInv'
<1> SUFFICES ASSUME IInv, Accept
             PROVE  IInv'
  OBVIOUS
<1>1. PICK c, f : c = Head(backlog) /\ f = Min({g \in FDs : conns[g] = NoConn})
  OBVIOUS
<1> DEFINE new == [client |-> c, state |-> "REQUEST", rbuf |-> 0, front |-> 1,
                   wbuf |-> 0, sent |-> 0]
<1>2. /\ pc = "accept" /\ pc' = "poll" /\ backlog' = Tail(backlog)
      /\ UNCHANGED <<store, todo, accepting, results, polled, phase, asked, unsent, got,
                     reset, inq, outq>>
      /\ conns' = [conns EXCEPT ![f] = new] \/ conns' = conns
  BY <1>1 DEF Accept, client
<1>3. backlog \in Seq(Clients) /\ backlog # <<>> /\ todo = {}
  BY <1>2 DEF IInv, Types, Control
<1>4. /\ c \in Clients /\ c = backlog[1] /\ backlog' \in Seq(Clients)
      /\ Len(backlog) \in Nat \ {0} /\ Len(backlog') = Len(backlog) - 1
      /\ \A n \in 1 .. Len(backlog') : backlog'[n] = backlog[n + 1]
  <2>1. Len(backlog) \in Nat \ {0} /\ Head(backlog) = backlog[1]
    BY <1>3
  <2> QED
    BY <1>1, <1>2, <1>3, <2>1, HeadTailProperties
<1>5. phase[c] # "new" /\ Waiting(c)
  BY <1>4 DEF IInv, Population, Waiting
<1>6. ~Waiting(c)' /\ \A d \in Clients : Waiting(d)' => Waiting(d)
  <2>1. \A n \in 1 .. Len(backlog') : n + 1 \in 1 .. Len(backlog) /\ n + 1 # 1
    BY <1>4
  <2>2. \A n \in 1 .. Len(backlog') : backlog[n + 1] # c
    BY <1>4, <2>1 DEF IInv, Population
  <2>3. ~Waiting(c)'
    BY <1>2, <1>4, <1>5, <2>2 DEF Waiting
  <2>4. ASSUME NEW d \in Clients, Waiting(d)' PROVE Waiting(d)
    <3>1. phase[d] = "new" \/ \E n \in 1 .. Len(backlog') : backlog'[n] = d
      BY <1>2, <2>4 DEF Waiting
    <3> QED
      BY <1>4, <2>1, <3>1 DEF Waiting
  <2> QED
    BY <2>3, <2>4
<1>7. f \in FDs /\ conns[f] = NoConn
  BY <1>1, <1>4, <1>5, FreeDescriptor DEF IInv
<1>8. new \in Connections
  <2>1. 0 \in 0 .. BufSize /\ 0 \in 0 .. 2 /\ 1 \in Nat \ {0}
    BY KvAssumption
  <2> QED
    BY <1>4, <2>1 DEF Connections
<1>9. new # NoConn /\ new.client = c /\ new.state = "REQUEST" /\ new.front = 1
  BY DEF NoConn
<1> HIDE DEF new
<1>10. Types'
  BY <1>2, <1>4, <1>7, <1>8 DEF IInv, Types
<1>11. Control'
  BY <1>2, <1>3 DEF Control
<1>12. \A b \in Clients : results'[b] = results[b] /\ Stream(b)' = Stream(b) /\ WholeFor(b)'
  BY <1>2 DEF IInv, Stream, WholeFor, NextUnit
<1>13. /\ \A n \in 1 .. Len(backlog') : phase'[backlog'[n]] # "new"
       /\ \A n, m \in 1 .. Len(backlog') : backlog'[n] = backlog'[m] => n = m
       /\ \A b \in Clients : Waiting(b)' => results'[b] = <<>> /\ Stream(b)' = <<>>
  <2>1. \A n \in 1 .. Len(backlog') : n \in Nat /\ n + 1 \in 1 .. Len(backlog)
    BY <1>4
  <2>2. \A n \in 1 .. Len(backlog') : phase'[backlog'[n]] # "new"
    BY <1>2, <1>4, <2>1 DEF IInv, Population
  <2>3. ASSUME NEW n \in 1 .. Len(backlog'), NEW m \in 1 .. Len(backlog'), backlog'[n] = backlog'[m]
        PROVE  n = m
    <3>1. backlog[n + 1] = backlog[m + 1]
      BY <1>4, <2>3
    <3>2. n + 1 = m + 1
      BY <2>1, <3>1 DEF IInv, Population
    <3> QED
      BY <2>1, <3>2
  <2> QED
    BY <1>6, <1>12, <2>2, <2>3 DEF IInv, Population
<1>14. CASE conns' = conns
  <2>1. \A g \in FDs : conns[g] # NoConn => conns[g].client \in Clients
    BY Connected DEF IInv
  <2>2. Population'
    BY <1>6, <1>13, <1>14, <2>1 DEF IInv, Population
  <2>3. SameAnswers
    BY <1>2, <1>14, SameStreams
  <2> QED
    BY <1>10, <1>11, <2>2, <2>3, AnswersKept DEF IInv
<1>15. CASE conns' = [conns EXCEPT ![f] = new]
  <2>1. \A g \in FDs : conns'[g] = IF g = f THEN new ELSE conns[g]
    BY <1>15 DEF IInv, Types
  <2>2. \A g \in FDs : conns[g] # NoConn =>
          conns[g].client \in Clients /\ ~Waiting(conns[g].client) /\ conns[g].client # c
    BY <1>5, Connected DEF IInv, Population
  <2>3. ASSUME NEW g \in FDs, conns'[g] # NoConn PROVE ~Waiting(conns[g].client)'
    <3>1. PICK b \in Clients : b = conns'[g].client /\ ~Waiting(b)'
      BY <1>4, <1>6, <1>9, <2>1, <2>2, <2>3
    <3> QED
      BY <3>1 DEF Waiting
  <2>4. \A g, h \in FDs :
          conns'[g] # NoConn /\ conns'[h] # NoConn /\ conns'[g].client = conns'[h].client => g = h
    BY <1>9, <2>1, <2>2 DEF IInv, Population
  <2>5. Population'
    BY <1>13, <2>3, <2>4 DEF Population
  <2>6. Progress'
    <3> SUFFICES ASSUME NEW g \in FDs, conns'[g] # NoConn
                 PROVE  Placed(conns[g])'
      BY DEF Progress
    <3>1. CASE g = f
      <4>1. results'[c] = <<>> /\ Stream(c)' = <<>>
        BY <1>4, <1>5, <1>12 DEF IInv, Population
      <4>2. Complete(c, 0)'
        BY <4>1 DEF Complete, LastUnit, Before
      <4>3. conns'[g] = new /\ Len(results'[c]) = 0
        BY <2>1, <3>1, <4>1
      <4> QED
        BY <1>9, <4>2, <4>3 DEF Placed, Complete, LastUnit
    <3>2. CASE g # f
      <4>1. conns'[g] = conns[g] /\ Placed(conns[g]) /\ conns[g].client \in Clients
        BY <2>1, <2>2, <3>2 DEF IInv, Progress
      <4> QED
        BY <1>12, <4>1 DEF Placed, Complete, LastUnit
    <3> QED
      BY <3>1, <3>2
  <2> QED
    BY <1>10, <1>11, <1>12, <2>5, <2>6 DEF IInv
<1> QED
  BY <1>2, <1>14, <1>15


-----------------------------------------------------------------------------
(***************************************************************************)
(* Every step keeps the invariant.                                         *)
(***************************************************************************)
LEMMA InitHolds == Init => IInv
<1> SUFFICES ASSUME Init
             PROVE  IInv
  OBVIOUS
<1>1. /\ store = [k \in Keys |-> Service!NX] /\ results = [c \in Clients |-> <<>>]
      /\ asked = [c \in Clients |-> <<>>] /\ conns = [f \in FDs |-> NoConn]
      /\ pc = "poll" /\ todo = {} /\ accepting = FALSE /\ backlog = <<>>
      /\ phase = [c \in Clients |-> "new"] /\ unsent = [c \in Clients |-> 0]
      /\ inq = [c \in Clients |-> 0] /\ outq = [c \in Clients |-> <<>>]
      /\ got = [c \in Clients |-> <<>>] /\ polled = [f \in FDs |-> "none"]
  BY DEF Init, Service!Init
<1>2. InSize \in Nat \ {0} /\ OutSize \in Nat \ {0}
  BY KvAssumption
<1>3. \A c \in Clients : Stream(c) = <<>> /\ Len(Stream(c)) = 0
  BY <1>1 DEF Stream
<1>4. Types
  <2>1. \A S : <<>> \in Seq(S)
    OBVIOUS
  <2>2. \A c \in Clients : Len(outq[c]) <= OutSize
    BY <1>1, <1>2
  <2>3. /\ asked \in [Clients -> Seq(Requests)] /\ results \in [Clients -> Seq(Answers)]
        /\ got \in [Clients -> Seq(Unit)] /\ outq \in [Clients -> Seq(Unit)]
        /\ backlog \in Seq(Clients)
    BY <1>1, <2>1
  <2>4. inq \in [Clients -> 0 .. InSize] /\ unsent \in [Clients -> Nat]
    BY <1>1, <1>2
  <2>5. store \in [Keys -> Values \cup {Service!NX}] /\ conns \in [FDs -> Connections \cup {NoConn}]
    BY <1>1
  <2> QED
    BY <1>1, <2>2, <2>3, <2>4, <2>5 DEF Types
<1>5. Control
  BY <1>1 DEF Control
<1>6. Population
  BY <1>1, <1>3 DEF Population, Waiting
<1>7. Progress
  BY <1>1 DEF Progress
<1>8. \A c \in Clients : WholeFor(c)
  BY <1>3 DEF WholeFor
<1> QED
  BY <1>4, <1>5, <1>6, <1>7, <1>8 DEF IInv

LEMMA StutterKeeps == IInv /\ UNCHANGED vars => IInv'
<1> SUFFICES ASSUME IInv, UNCHANGED vars
             PROVE  IInv'
  OBVIOUS
<1>1. /\ UNCHANGED <<store, conns, pc, todo, accepting, results, dropped, polled>>
      /\ UNCHANGED <<phase, asked, unsent, got, reset, backlog, inq, outq>>
  BY DEF vars, server, client
<1>2. Types'
  BY <1>1 DEF IInv, Types
<1>3. Control'
  BY <1>1 DEF IInv, Control, conn, fd
<1>4. SameAnswers
  BY <1>1, SameStreams
<1> QED
  BY <1>1, <1>2, <1>3, <1>4, AnswersKept, PopulationKept DEF IInv

LEMMA StepKeeps == IInv /\ [Next]_vars => IInv'
<1> SUFFICES ASSUME IInv, [Next]_vars
             PROVE  IInv'
  OBVIOUS
<1>1. CASE Poll
  BY <1>1, PollKeeps
<1>2. CASE Dispatch
  BY <1>2, DispatchKeeps
<1>3. CASE Fill
  BY <1>3, FillKeeps
<1>4. CASE Handle
  BY <1>4, HandleKeeps
<1>5. CASE Flush
  BY <1>5, FlushKeeps
<1>6. CASE Accept
  BY <1>6, AcceptKeeps
<1>7. ASSUME NEW c \in Clients, Connect(c) PROVE IInv'
  BY <1>7, ConnectKeeps
<1>8. ASSUME NEW c \in Clients, Send(c) PROVE IInv'
  BY <1>8, SendKeeps
<1>9. ASSUME NEW c \in Clients, Receive(c) PROVE IInv'
  BY <1>9, ReceiveKeeps
<1>10. ASSUME NEW c \in Clients, Close(c) PROVE IInv'
  BY <1>10, CloseKeeps
<1>11. ASSUME NEW c \in Clients, NEW r \in Asks[c], Ask(c, r) PROVE IInv'
  BY <1>11, AskKeeps
<1>12. CASE UNCHANGED vars
  BY <1>12, StutterKeeps
<1> QED
  BY <1>1, <1>2, <1>3, <1>4, <1>5, <1>6, <1>7, <1>8, <1>9, <1>10, <1>11, <1>12
     DEF Next, Loop

LEMMA Invariance == Spec => []IInv
<1> QED
  BY InitHolds, StepKeeps, PTL DEF Spec

\* The types: in particular rbuf never holds more than it has room for, although the
\* loop compares rbuf_size with half the buffer and not with what is left of it.
THEOREM TypeCorrect == Spec => []TypeOK
<1>1. IInv => TypeOK
  BY DEF IInv, Types, TypeOK, Ends
<1> QED
  BY <1>1, Invariance, PTL

\* A descriptor that poll() reported and ConnectionIo has not come to yet is still the
\* connection it was, however the ones before it ended.
THEOREM Fresh == Spec => []DescriptorsAreFresh
<1>1. IInv => DescriptorsAreFresh
  BY DEF IInv, Control, DescriptorsAreFresh
<1> QED
  BY <1>1, Invariance, PTL

\* What a client has read and will read next is its responses in the order of its
\* requests, none torn and none begun twice, however TryFlushBuffer's writes are cut.
THEOREM Whole == Spec => []ResponsesAreWhole
<1>1. IInv => ResponsesAreWhole
  BY DEF IInv, WholeFor, ResponsesAreWhole
<1> QED
  BY <1>1, Invariance, PTL

-----------------------------------------------------------------------------
(***************************************************************************)
(* Refinement: one step of the loop serves a request, the others none.     *)
(***************************************************************************)
LEMMA HandleServes == IInv /\ Handle => [Service!Next]_(Service!vars)
<1> SUFFICES ASSUME IInv, Handle
             PROVE  [Service!Next]_(Service!vars)
  OBVIOUS
<1> DEFINE c == conn.client
           r == asked[c][conn.front]
<1>1. CASE UNCHANGED <<store, results>>
  BY <1>1 DEF Handle, client, Service!vars
<1>2. CASE /\ ~Refused /\ InBuffer /\ store' = Service!Applied(r)
           /\ results' = [results EXCEPT ![c] = Append(@, Service!Reply(r))]
           /\ Continue(Taken(Service!Reply(r)), "respond")
  <2>1. pc = "handle" /\ UNCHANGED <<accepting, client, backlog, inq, outq>>
    BY DEF Handle
  <2>2. c \in Clients /\ r = asked[c][Len(results[c]) + 1] /\ Len(results[c]) < Len(asked[c])
    BY <1>2, <2>1, ServeKeeps
  <2>3. UNCHANGED asked
    BY <2>1 DEF client
  <2> HIDE DEF c, r
  <2>4. Service!Serve(c)
    BY <1>2, <2>2, <2>3 DEF Service!Serve
  <2> QED
    BY <2>2, <2>4 DEF Service!Next
<1> QED
  BY <1>1, <1>2 DEF Handle

LEMMA StepServes == IInv /\ [Next]_vars => [Service!Next]_(Service!vars)
<1> SUFFICES ASSUME IInv, [Next]_vars
             PROVE  [Service!Next]_(Service!vars)
  OBVIOUS
<1>1. CASE Poll \/ Dispatch \/ Fill \/ Flush \/ Accept
  BY <1>1 DEF Poll, Dispatch, Fill, Flush, Accept, client, Service!vars
<1>2. CASE Handle
  BY <1>2, HandleServes
<1>3. ASSUME NEW c \in Clients, Connect(c) \/ Send(c) \/ Receive(c) \/ Close(c)
      PROVE  [Service!Next]_(Service!vars)
  BY <1>3 DEF Connect, Send, Receive, Close, server, Service!vars
<1>4. ASSUME NEW c \in Clients, NEW r \in Asks[c], Ask(c, r)
      PROVE  [Service!Next]_(Service!vars)
  <2>1. r \in Requests
    BY KvAssumption
  <2>2. Service!Issue(c, r)
    BY <1>4 DEF Ask, server, Service!Issue
  <2> QED
    BY <2>1, <2>2 DEF Service!Next
<1>5. CASE UNCHANGED vars
  BY <1>5 DEF vars, server, client, Service!vars
<1> QED
  BY <1>1, <1>2, <1>3, <1>4, <1>5 DEF Next, Loop

\* The event loop, with its partial reads and writes and several requests in one
\* buffer, implements the service that takes each request at once and in order.
THEOREM IsAService == Spec => ServiceSpec
<1>1. Init => Service!Init
  BY DEF Init
<1> QED
  BY <1>1, Invariance, StepServes, PTL DEF Spec, ServiceSpec, Service!Spec

=============================================================================
