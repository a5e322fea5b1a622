------------------------------ MODULE KvService ------------------------------
(***************************************************************************)
(* What the key-value server promises (C++/Program-01): the requests of    *)
(* each client are served in the order they were made, each exactly once   *)
(* and each atomically on one shared map, and every reply is the reply to  *)
(* its request.                                                            *)
(***************************************************************************)
EXTENDS Naturals, Sequences

CONSTANTS Clients, Requests, Keys, Values

VARIABLES
  store,     \* the map
  asked,     \* the requests each client has made
  results    \* the replies to them so far

vars == <<store, asked, results>>

NX == "NX"
OK == "OK"
ERROR == "ERROR"

\* DoGet, DoSet and DoDel, and the reply to an unknown command.
Reply(r) == CASE r.op = "get" -> store[r.key]
              [] r.op \in {"set", "del"} -> OK
              [] OTHER -> ERROR

Applied(r) == CASE r.op = "set" -> [store EXCEPT ![r.key] = r.value]
                [] r.op = "del" -> [store EXCEPT ![r.key] = NX]
                [] OTHER -> store

Init ==
  /\ store = [k \in Keys |-> NX]
  /\ asked = [c \in Clients |-> <<>>]
  /\ results = [c \in Clients |-> <<>>]

Issue(c, r) ==
  /\ asked' = [asked EXCEPT ![c] = Append(@, r)]
  /\ UNCHANGED <<store, results>>

Serve(c) ==
  /\ Len(results[c]) < Len(asked[c])
  /\ LET r == asked[c][Len(results[c]) + 1]
     IN  /\ results' = [results EXCEPT ![c] = Append(@, Reply(r))]
         /\ store' = Applied(r)
  /\ UNCHANGED asked

Next == \E c \in Clients : Serve(c) \/ \E r \in Requests : Issue(c, r)

Spec == Init /\ [][Next]_vars
=============================================================================
