----------------------------- MODULE MCKvServer -----------------------------
(* The key-value server on a small instance. *)
EXTENDS KvServer

CONSTANT a, b

\* One client asks three times and may not wait for a response before it asks again; the
\* other sets the key, or asks for something the server refuses or does not survive.
MCMaxRequests == [c \in Clients |-> IF c = a THEN 3 ELSE 1]

Request(op, size) == [op |-> op, key |-> "k", value |-> "v", size |-> size]
Ordinary == {Request("get", 2), Request("del", 2)}
Odd ==
  {Request("set", 3), Request("malformed", 2), Request("empty", 2), Request("set", 9)}

MCRequests == Ordinary \cup Odd
MCAsks == [c \in Clients |-> IF c = a THEN Ordinary ELSE Odd]

\* Legal requests of one client; the last is longer than half the buffer.
MCLegalRequests == {Request("get", 2), Request("set", 3), Request("set", 6)}
MCLegalAsks == [c \in Clients |-> MCLegalRequests]
=============================================================================
