---------------------------- MODULE MCContainers ----------------------------
(***************************************************************************)
(* The two containers, the hash table of C/Program-07 and the Vector of    *)
(* Rust/vector, one or the other in a behaviour.                           *)
(* The hash table has a few colliding keys, each given one value; what     *)
(* overwrites it is an item that there was no memory to give a value.      *)
(***************************************************************************)
EXTENDS HashTable, Vector

MCHashA == [k \in Keys |-> CASE k = "a" -> 10 [] k = "b" -> 5 [] k = "c" -> 11 [] OTHER -> 16]
MCHashB == [k \in Keys |-> CASE k = "a" -> 2 [] k = "b" -> 5 [] k = "c" -> 11 [] OTHER -> 14]
MCValues == [k \in Keys |-> {"x"}]

VARIABLE container      \* which one this behaviour is about

MCInit == container \in {"hash table", "vector"} /\ Init /\ VectorInit

MCNext ==
    \/ container = "hash table" /\ Next /\ UNCHANGED <<vector_vars, container>>
    \/ container = "vector" /\ VectorNext /\ UNCHANGED <<vars, container>>

MCSpec == MCInit /\ [][MCNext]_<<vars, vector_vars, container>>
=============================================================================
