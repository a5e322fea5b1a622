------------------------------- MODULE KvServer -------------------------------
(***************************************************************************)
(* The event loop of the key-value server (C++/Program-01/server.cc), one  *)
(* step per system call, and the clients it serves.                        *)
(*                                                                         *)
(* The byte stream of a client is counted in units; the first unit of a    *)
(* request is its length.  Sockets are external: bounded buffers in both   *)
(* directions.  Clients write a request and read responses as client.cc    *)
(* does, but may ask again before the response has come (Window).          *)
(* Requests may also be ones that the server refuses or does not survive.  *)
(***************************************************************************)
EXTENDS Integers, Sequences, FiniteSets, FiniteSetsExt

CONSTANTS
  Clients, Requests, Keys, Values,
  BufSize,       \* units of rbuf
  InSize,        \* units a socket holds towards the server
  OutSize,       \* and towards the client
  MaxRequests,   \* bound: how many requests each client makes
  Asks,          \* bound: and which
  Window,        \* requests a client may have outstanding
  MallocFails    \* whether malloc may fail

ASSUME KvAssumption ==
  /\ IsFiniteSet(Clients)
  /\ \A r \in Requests : r.size \in Nat \ {0} /\ r.key \in Keys /\ r.value \in Values
  /\ {BufSize, InSize, OutSize, Window} \subseteq Nat \ {0}
  /\ MaxRequests \in [Clients -> Nat]
  /\ Asks \in [Clients -> SUBSET Requests]
  /\ MallocFails \in BOOLEAN

VARIABLES
  store,       \* _map
  conns,       \* fdConnections: the Connection of each descriptor
  pc,          \* where the loop is; in "respond" TryOneRequest has called StateResponse
  todo,        \* descriptors poll() reported and the loop has not done, a set
  accepting,   \* poll() reported the listening descriptor
  backlog,     \* connections not accepted yet
  phase,       \* each client: "new", "open", "closed" by itself
  asked,       \* requests each client has made
  unsent,      \* units of the last one it has not written
  inq, outq,   \* what its socket holds, towards the server and back
  got,         \* units it has read
  results,     \* history: replies computed
  reset,       \* clients whose closed socket has been written to
  dropped,     \* history: clients whose connection the server closed
  parked,      \* history: clients with bytes left in rbuf by a turn that only wrote
  polled       \* history: whose connection each descriptor in todo was at the poll

server == <<store, conns, pc, todo, accepting, results, dropped, parked, polled>>
client == <<phase, asked, unsent, got, reset>>
vars == <<server, client, backlog, inq, outq>>

Service == INSTANCE KvService

FDs == 1 .. Cardinality(Clients)
NoConn == [client |-> "none", state |-> "END"]
Smaller(x, y) == IF x <= y THEN x ELSE y

\* A reply with a value is longer than one without.
ResponseSize(reply) == IF reply \in Values THEN 2 ELSE 1
Units(i, size) == [j \in 1 .. size |-> [request |-> i, part |-> j, of |-> size]]
Answered(c) == Cardinality({u \in 1 .. Len(got[c]) : got[c][u].part = got[c][u].of})

Init ==
  /\ Service!Init
  /\ conns = [f \in FDs |-> NoConn]
  /\ pc = "poll"
  /\ todo = {}
  /\ accepting = FALSE
  /\ backlog = <<>>
  /\ phase = [c \in Clients |-> "new"]
  /\ unsent = [c \in Clients |-> 0]
  /\ inq = [c \in Clients |-> 0]
  /\ outq = [c \in Clients |-> <<>>]
  /\ got = [c \in Clients |-> <<>>]
  /\ reset = {}
  /\ dropped = {}
  /\ parked = {}
  /\ polled = [f \in FDs |-> "none"]

-----------------------------------------------------------------------------
(* Clients. *)

\* How the process ends: by its assertion, a request that is Fatal, or SIGPIPE.  Its
\* sockets end with it: what has been sent can still be read, and nothing else happens.
Ends == {"aborted", "crashed", "killed"}
Up == pc \notin Ends

Connect(c) ==
  /\ Up
  /\ phase[c] = "new"
  /\ phase' = [phase EXCEPT ![c] = "open"]
  /\ backlog' = Append(backlog, c)
  /\ UNCHANGED <<server, asked, unsent, got, reset, inq, outq>>

\* Client::SendRequest, up to its write.
Ask(c, r) ==
  /\ Up
  /\ phase[c] = "open"
  /\ unsent[c] = 0
  /\ Len(asked[c]) < MaxRequests[c]
  /\ Len(asked[c]) - Answered(c) < Window
  /\ asked' = [asked EXCEPT ![c] = Append(@, r)]
  /\ unsent' = [unsent EXCEPT ![c] = r.size]
  /\ UNCHANGED <<server, phase, got, reset, backlog, inq, outq>>

\* One write of WriteFull: what fits in the socket.
Send(c) ==
  /\ Up
  /\ phase[c] = "open"
  /\ unsent[c] > 0
  /\ inq[c] < InSize
  /\ c \notin dropped
  /\ LET n == Smaller(unsent[c], InSize - inq[c])
     IN  /\ unsent' = [unsent EXCEPT ![c] = @ - n]
         /\ inq' = [inq EXCEPT ![c] = @ + n]
  /\ UNCHANGED <<server, phase, asked, got, reset, backlog, outq>>

\* Client::ReadResponse reads what has arrived.
Receive(c) ==
  /\ phase[c] = "open"
  /\ outq[c] # <<>>
  /\ got' = [got EXCEPT ![c] = @ \o outq[c]]
  /\ outq' = [outq EXCEPT ![c] = <<>>]
  /\ UNCHANGED <<server, phase, asked, unsent, reset, backlog, inq>>

\* Client::Close, or the client dies.
Close(c) ==
  /\ Up
  /\ phase[c] = "open"
  /\ phase' = [phase EXCEPT ![c] = "closed"]
  /\ UNCHANGED <<server, asked, unsent, got, reset, backlog, inq, outq>>

-----------------------------------------------------------------------------
(* The loop. *)

\* Readable (data or end of file) in REQUEST, writable or broken in RESPONSE.
Reported(f) ==
  LET c == conns[f].client IN
  \/ phase[c] = "closed"
  \/ conns[f].state = "REQUEST" /\ inq[c] > 0
  \/ conns[f].state = "RESPONSE" /\ Len(outq[c]) < OutSize

\* A fault: the empty entries of fdConnections are not skipped.
InPollArgsAll(f) == conns[f] = NoConn \/ Reported(f)

InPollArgs(f) == conns[f] # NoConn /\ Reported(f)

Poll ==
  LET ready == {f \in FDs : InPollArgs(f)} IN
  /\ pc = "poll"
  /\ ready # {} \/ backlog # <<>>
  /\ todo' = ready
  /\ polled' = [f \in FDs |-> IF f \in ready THEN conns[f].client ELSE "none"]
  /\ accepting' = (backlog # <<>>)
  /\ pc' = "dispatch"
  /\ UNCHANGED <<store, conns, results, dropped, parked, client, backlog, inq, outq>>

\* pollArgs, and with it the loop, has them in the order of their numbers.
fd == Min(todo)
conn == conns[fd]

\* ConnectionIo for the next descriptor; after the last one, accept.
Dispatch ==
  /\ pc = "dispatch"
  /\ \/ todo # {} /\ pc' = IF conn.state = "REQUEST" THEN "fill" ELSE "flush"
     \/ todo = {} /\ accepting /\ pc' = "accept"
     \/ todo = {} /\ ~accepting /\ pc' = "poll"
  /\ UNCHANGED <<store, conns, todo, accepting, results, dropped, parked,
                 polled, client, backlog, inq, outq>>

\* Back in the loop with the connection as it is now; in END it is destroyed.
Return(new) ==
  /\ conns' = [conns EXCEPT ![fd] = IF new.state = "END" THEN NoConn ELSE new]
  /\ dropped' = IF new.state = "END" THEN dropped \cup {new.client} ELSE dropped
  /\ todo' = todo \ {fd}
  /\ polled' = [polled EXCEPT ![fd] = "none"]
  /\ pc' = "dispatch"

Continue(new, where) ==
  /\ conns' = [conns EXCEPT ![fd] = new]
  /\ pc' = where
  /\ UNCHANGED <<todo, dropped, polled>>

Ended == [conn EXCEPT !.state = "END"]

-----------------------------------------------------------------------------
\* TryFillBuffer, up to its inner loop: EAGAIN, an error or the end of the
\* stream, or some data, for which the assertion must hold.
Fill ==
  /\ pc = "fill"
  /\ LET c   == conn.client
         n   == Smaller(inq[c], BufSize - conn.rbuf)
         new == [conn EXCEPT !.rbuf = @ + n]
     IN  \/ /\ phase[c] = "closed"
            /\ Return(Ended)
            /\ UNCHANGED <<inq, parked>>
         \/ /\ n = 0 /\ phase[c] = "open"
            /\ Return(conn)
            /\ UNCHANGED <<inq, parked>>
         \/ /\ n > 0
            /\ inq' = [inq EXCEPT ![c] = @ - n]
            /\ parked' = parked \ {c}
            /\ Continue(new, IF new.rbuf <= BufSize - new.rbuf THEN "handle" ELSE "aborted")
  /\ UNCHANGED <<store, accepting, results, client, backlog, outq>>

\* The request at the front of rbuf is there in full.
InBuffer ==
  conn.front <= Len(asked[conn.client]) /\ asked[conn.client][conn.front].size <= conn.rbuf

\* A length no buffer can hold (a negative one is huge when compared with a size_t),
\* or a body ParseRequest does not accept.
Refused ==
  /\ conn.rbuf > 0
  /\ LET r == asked[conn.client][conn.front]
     IN  r.size > BufSize \/ (r.op = "malformed" /\ InBuffer)

\* No words, whose first one DoRequest prints through a null pointer, or a word of
\* negative size, which passes the test against the length and makes std::string throw.
Fatal == InBuffer /\ asked[conn.client][conn.front].op \in {"empty", "negative"}

\* A fault: the request stays in rbuf.
TakenKeeping(reply) ==
  [conn EXCEPT !.state = "RESPONSE", !.wbuf = ResponseSize(reply), !.sent = 0]

\* The connection once the request has been removed from rbuf and its response
\* put into wbuf.
Taken(reply) ==
  [conn EXCEPT !.rbuf = @ - asked[conn.client][conn.front].size, !.front = @ + 1,
               !.state = "RESPONSE", !.wbuf = ResponseSize(reply), !.sent = 0]

\* TryOneRequest, up to its StateResponse.
Handle ==
  /\ pc = "handle"
  /\ LET c == conn.client
         r == asked[c][conn.front]
     IN  \/ /\ Refused
            /\ Return(Ended)
            /\ UNCHANGED <<store, results>>
         \/ /\ ~Refused /\ ~InBuffer
            /\ Continue(conn, "fill")
            /\ UNCHANGED <<store, results>>
         \/ /\ ~Refused /\ Fatal
            /\ Continue(conn, "crashed")
            /\ UNCHANGED <<store, results>>
         \/ /\ ~Refused /\ InBuffer /\ ~Fatal
            /\ store' = Service!Applied(r)
            /\ results' = [results EXCEPT ![c] = Append(@, Service!Reply(r))]
            /\ Continue(Taken(Service!Reply(r)), "respond")
  /\ UNCHANGED <<accepting, parked, client, backlog, inq, outq>>

\* A fault: every write starts at the beginning of wbuf.
ChunkFromStart(n) == SubSeq(Units(conn.front - 1, conn.wbuf), 1, n)

\* What a write of n units takes from wbuf.
Chunk(n) == SubSeq(Units(conn.front - 1, conn.wbuf), conn.sent + 1, conn.sent + n)

\* A fault: TryOneRequest returns false once its response is out.
RespondedOnce(idle) ==
  \/ /\ pc = "respond"
     /\ Continue(idle, "fill")
     /\ UNCHANGED parked
  \/ /\ pc = "flush"
     /\ Return(idle)
     /\ parked' = IF idle.rbuf > 0 THEN parked \cup {conn.client} ELSE parked

\* A response is out.  Called by TryOneRequest, StateResponse returns to the requests
\* that may wait in rbuf; called by the loop, it leaves them there.
Responded(idle) ==
  \/ /\ pc = "respond"
     /\ Continue(idle, "handle")
     /\ UNCHANGED parked
  \/ /\ pc = "flush"
     /\ Return(idle)
     /\ parked' = IF idle.rbuf > 0 THEN parked \cup {conn.client} ELSE parked

\* One write of TryFlushBuffer: an error, EAGAIN, or what fits.  The first one to a
\* client that has closed may be accepted and be answered by a reset; after that a
\* write raises SIGPIPE, which is neither ignored nor handled.
Flush ==
  /\ pc \in {"flush", "respond"}
  /\ LET c    == conn.client
         n    == Smaller(conn.wbuf - conn.sent, OutSize - Len(outq[c]))
         done == conn.sent + n = conn.wbuf
         idle == [conn EXCEPT !.state = "REQUEST", !.wbuf = 0, !.sent = 0]
     IN  \/ /\ phase[c] = "closed"
            /\ Return(Ended)
            /\ UNCHANGED <<outq, reset, parked>>
         \/ /\ c \in reset
            /\ Continue(conn, "killed")
            /\ UNCHANGED <<outq, reset, parked>>
         \/ /\ n = 0
            /\ Return(conn)
            /\ UNCHANGED <<outq, reset, parked>>
         \/ /\ n > 0
            /\ outq' = [outq EXCEPT ![c] = @ \o Chunk(n)]
            /\ reset' = IF phase[c] = "closed" THEN reset \cup {c} ELSE reset
            /\ \/ ~done /\ Continue([conn EXCEPT !.sent = @ + n], pc) /\ UNCHANGED parked
               \/ done /\ Responded(idle)
  /\ UNCHANGED <<store, accepting, results, phase, asked, unsent, got,
                 backlog, inq>>

\* AcceptNewConnection: the lowest free descriptor, unless malloc fails.
Accept ==
  /\ pc = "accept"
  /\ LET c == Head(backlog)
         f == Min({g \in FDs : conns[g] = NoConn})
     IN  \/ /\ conns' = [conns EXCEPT ![f] =
                 [client |-> c, state |-> "REQUEST", rbuf |-> 0, front |-> 1,
                  wbuf |-> 0, sent |-> 0]]
            /\ UNCHANGED dropped
         \/ /\ MallocFails
            /\ dropped' = dropped \cup {c}
            /\ UNCHANGED conns
  /\ backlog' = Tail(backlog)
  /\ pc' = "poll"
  /\ UNCHANGED <<store, todo, accepting, results, parked, polled, client, inq, outq>>

-----------------------------------------------------------------------------
Loop == Poll \/ Dispatch \/ Fill \/ Handle \/ Flush \/ Accept

Next ==
  \/ Loop
  \/ \E c \in Clients :
       \/ Connect(c) \/ Send(c) \/ Receive(c) \/ Close(c)
       \/ \E r \in Asks[c] : Ask(c, r)

Spec == Init /\ [][Next]_vars

\* The loop runs on, and a client that has begun to write or to read goes on.
FairSpec ==
  /\ Spec
  /\ WF_vars(Loop)
  /\ \A c \in Clients : WF_vars(Send(c)) /\ WF_vars(Receive(c))

-----------------------------------------------------------------------------
Connections ==
  [client : Clients, state : {"REQUEST", "RESPONSE"}, rbuf : 0 .. BufSize,
   front : Nat \ {0}, wbuf : 0 .. 2, sent : 0 .. 2]

\* Type invariant; between two descriptors no connection is left in END.
TypeOK ==
  /\ conns \in [FDs -> Connections \cup {NoConn}]
  /\ pc \in {"poll", "dispatch", "fill", "handle", "flush", "respond", "accept"} \cup Ends
  /\ todo \subseteq FDs
  /\ inq \in [Clients -> 0 .. InSize]
  /\ \A c \in Clients : Len(outq[c]) <= OutSize

\* What a client has read and what is on its way to it is the responses to its
\* requests, in order and unbroken, from the first unit of the first one on: neither
\* a slow reader nor a second request makes wbuf change while it is being written.
Stream(c) == got[c] \o outq[c]

Before(s, u) == IF u = 1 THEN [request |-> 0, part |-> 1, of |-> 1] ELSE s[u - 1]

NextUnit(c, unit) ==
  IF unit.part < unit.of
  THEN [unit EXCEPT !.part = @ + 1]
  ELSE [request |-> unit.request + 1, part |-> 1,
        of |-> ResponseSize(results[c][unit.request + 1])]

ResponsesAreWhole ==
  \A c \in Clients : \A u \in 1 .. Len(Stream(c)) :
    /\ Stream(c)[u].request <= Len(results[c])
    /\ Stream(c)[u] = NextUnit(c, Before(Stream(c), u))

\* A descriptor that poll reported is still the connection it was then: none is
\* used after it was destroyed, or for the client that got its number next.
DescriptorsAreFresh ==
  \A f \in todo : conns[f] # NoConn /\ conns[f].client = polled[f]

\* While the process lives, every request is answered in full in the end, whatever the
\* other clients do, unless its client goes away or the server closes the connection on
\* it.  A request read together with the one before it waits for nothing but that one's
\* response, with one exception: when the response had to be finished by a later turn of
\* the loop, it stays in rbuf until more bytes of its client arrive, and is answered then.
Gone(c) == phase[c] = "closed" \/ c \in dropped
Parked(c) == c \in parked /\ inq[c] = 0

RequestsAreAnswered ==
  \A c \in Clients : \A i \in 1 .. MaxRequests[c] :
    Len(asked[c]) >= i ~> (Answered(c) >= i \/ Gone(c) \/ Parked(c) \/ pc \in Ends)

\* The loop implements the atomic service.
ServiceSpec == Service!Spec

\* assert(connection->rbuf_size <= sizeof(connection->rbuf) - connection->rbuf_size)
\* holds after every read (server.cc).
FillAssertion == pc # "aborted"

\* "client closed normally, or something bad happened: destroy this connection": a client
\* that closes costs the server its connection and no more (server.cc).
SurvivesClosedClients == pc # "killed"

\* "continue the outer loop if the request was fully processed": no complete request is
\* left in rbuf for good (server.cc).
NoneIsLeftInTheBuffer ==
  \A c \in Clients : \A i \in 1 .. MaxRequests[c] :
    Len(asked[c]) >= i ~> (Answered(c) >= i \/ Gone(c) \/ pc \in Ends)
=============================================================================
