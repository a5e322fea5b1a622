------------------------------ MODULE HashTable ------------------------------
(***************************************************************************)
(* The open-addressing hash table of C/Program-07 (hash_table.c, prime.c): *)
(* double hashing, tombstones for deleted items, resizing by load.         *)
(*                                                                         *)
(* A call is one step.  The two polynomial hashes of a key are given       *)
(* numbers; everything that happens to them is the code's.  Every malloc   *)
(* may fail: there is then no new table, no item, an item without a value, *)
(* or a null pointer that is followed (a key or an array that could not be *)
(* allocated, a value that is not there to be copied).  A call that does   *)
(* not come back, because its probe never ends or because it followed a    *)
(* null pointer, sets `hung'.                                              *)
(***************************************************************************)
EXTENDS Integers, FiniteSets, FiniteSetsExt

CONSTANTS
  Keys,
  Values,                  \* the values each key is given
  HashA, HashB,            \* the two hashes of each key, before reduction
  HT_INITIAL_BASE_SIZE,
  MaxBaseSize,             \* bound on the growth of the table
  MaxFailing,              \* bound on the items of one resize that have no memory, and on
                           \* the items without a value there are at a time
  MallocFails              \* whether malloc may fail

ASSUME TableAssumption ==
  /\ HashA \in [Keys -> Nat]
  /\ HashB \in [Keys -> Nat]
  /\ HT_INITIAL_BASE_SIZE \in Nat \ {0}
  /\ MaxBaseSize \in Nat /\ HT_INITIAL_BASE_SIZE <= MaxBaseSize
  /\ MaxFailing \in Nat
  /\ MallocFails \in BOOLEAN

VARIABLES
  table,   \* base_size, size, count and items of the hash table, and `hung'
  dict,    \* history: the last value inserted for each key
  doubted  \* history: the keys of which something is lost, or too much is left

vars == <<table, dict, doubted>>

NULL == [key |-> "NULL"]
DELETED == [key |-> "DELETED"]      \* HT_DELETED_ITEM
Item(k, v) == [key |-> k, value |-> v]
Absent == "absent"                  \* the null pointer that stands for no value
ItemsOf(k) == {Item(k, v) : v \in Values[k] \cup {Absent}}
Free == {NULL, DELETED}

LiveOf(t) == {s \in 0 .. t.size - 1 : t.items[s] \notin Free}
Bare(t) == {s \in LiveOf(t) : t.items[s].value = Absent}
Holding(t, k) == {s \in LiveOf(t) : t.items[s].key = k}
Stuck(t) == [t EXCEPT !.hung = TRUE]

-----------------------------------------------------------------------------
(* How the table chooses its size (prime.c). *)

floor_sqrt(x) == CHOOSE r \in 0 .. x : r * r <= x /\ x < (r + 1) * (r + 1)

is_prime(x) ==
  CASE x < 2 -> -1
    [] x \in 2 .. 3 -> 1
    [] OTHER ->
         IF x % 2 = 0 \/ \E i \in 3 .. floor_sqrt(x) - 1 : i % 2 = 1 /\ x % i = 0
         THEN 0 ELSE 1

next_prime(x) ==
  CHOOSE p \in x .. 2 * x + 2 : is_prime(p) = 1 /\ \A q \in x .. p - 1 : is_prime(q) # 1

\* The sizes that a table can have or be resized to: there is a next prime for each
\* (Bertrand's postulate), and one that has doubled is so much larger that what the
\* smaller one holds does not fill it enough to be resized again.
ASSUME PrimeAssumption ==
  \A base \in HT_INITIAL_BASE_SIZE .. 2 * MaxBaseSize :
    /\ \E p \in base .. 2 * base + 2 :
         is_prime(p) = 1 /\ \A q \in base .. p - 1 : is_prime(q) # 1
    /\ (next_prime(base) * 100) \div next_prime(2 * base) <= 70

\* The base sizes that doubling leads to, and halving what was doubled.
BaseSizes ==
  {base \in HT_INITIAL_BASE_SIZE .. 2 * MaxBaseSize :
     \E m \in 1 .. base :
       /\ base = HT_INITIAL_BASE_SIZE * m
       /\ \A d \in 2 .. m : m % d = 0 => d % 2 = 0}     \* m is a power of two

\* The sizes that follow from them are prime.  is_prime takes the square of a prime
\* for one, but from 50 on none is met before an int overflows.
ASSUME SizesArePrime ==
  \A base \in BaseSizes : \A d \in 2 .. next_prime(base) - 1 : next_prime(base) % d # 0

-----------------------------------------------------------------------------
(* Probing. *)

\* How far one attempt of ht_get_hash is from the next.
Step(k, buckets) ==
  (IF HashB[k] % buckets = 0 THEN 1 ELSE HashB[k] % buckets) + 1

\* ht_get_hash
Index(k, buckets, attempt) ==
  ((HashA[k] % buckets) + attempt * Step(k, buckets)) % buckets

\* The first attempt that ends at an item in `ends', or -1: the attempts repeat
\* after `size' of them, so that a probe they do not end goes on for ever.
Attempt(t, k, ends) ==
  LET hits == {i \in 0 .. t.size - 1 : t.items[Index(k, t.size, i)] \in ends}
  IN  IF hits = {} THEN -1 ELSE Min(hits)

\* Where ht_insert's loop ends, and those of ht_search and ht_delete.
InsertAttempt(t, k) == Attempt(t, k, Free \cup ItemsOf(k))
SearchAttempt(t, k) == Attempt(t, k, {NULL} \cup ItemsOf(k))

\* What ht_search returns.
ht_search(t, k) ==
  LET i == SearchAttempt(t, k)
      item == t.items[Index(k, t.size, i)]
  IN  IF i = -1 THEN "hung" ELSE IF item = NULL THEN Absent ELSE item.value

\* ht_insert without its resizing.
Inserted(t, k, v) ==
  LET i == InsertAttempt(t, k)
      s == Index(k, t.size, i)
  IN  IF i = -1 THEN Stuck(t)
      ELSE [t EXCEPT !.items[s] = Item(k, v),
                     !.count = IF t.items[s] \in Free THEN @ + 1 ELSE @]

-----------------------------------------------------------------------------
(* Resizing. *)

ht_new_sized(base) ==
  LET n == next_prime(base)
  IN  [base_size |-> base, size |-> n, count |-> 0,
       items |-> [s \in 0 .. n - 1 |-> NULL], hung |-> FALSE]

\* Every live item, in the order of the slots, is inserted into a new table, which
\* is too empty for those insertions to resize it: the new table after n slots.
Refills(t, base) ==
  LET new[n \in 0 .. t.size] ==
        IF n = 0 THEN ht_new_sized(base)
        ELSE LET item == t.items[n - 1]
             IN  IF item \in Free THEN new[n - 1]
                 ELSE Inserted(new[n - 1], item.key, item.value)
  IN  new

FailingSlots(t) ==
  {S \in SUBSET LiveOf(t) : Cardinality(S) <= IF MallocFails THEN MaxFailing ELSE 0}

\* What ht_resize has to insert: the items that ht_new_item makes of those of t.
\* It makes none of some (ht_insert says nothing, and the old item is freed), and
\* gives others no value.  An item without a value is not copied again.
Recopied(t) ==
  {[t EXCEPT !.items =
      [s \in 0 .. t.size - 1 |->
         IF s \in lost THEN NULL
         ELSE IF s \in bare THEN Item(t.items[s].key, Absent) ELSE t.items[s]]] :
     bare \in FailingSlots(t),
     lost \in {S \in FailingSlots(t) : Bare(t) \subseteq S}}

\* The keys a resize leaves in doubt: those that memory fails for, and those there
\* are several items of, of which the one that is moved last will stay.
Doubts(t, u) ==
  {k \in Keys : \E r, s \in Holding(t, k) : r # s \/ u.items[s] # t.items[s]}

\* The tables t may be resized to, with the keys that brings into doubt.
Refilled(t, base) ==
  {[table |-> Refills(u, base)[u.size], doubts |-> Doubts(t, u)] : u \in Recopied(t)}

Unchanged(t) == [table |-> t, doubts |-> {}]

\* There may be no memory for the new table, or none for its array.
Unallocated(t) == IF MallocFails THEN {Unchanged(t), Unchanged(Stuck(t))} ELSE {}

ht_resize(t, base) ==
  IF base < HT_INITIAL_BASE_SIZE THEN {Unchanged(t)} ELSE Refilled(t, base) \cup Unallocated(t)

load(t) == (t.count * 100) \div t.size

\* A fault: the table may fill up.
FullLate(t) == load(t) > 100

Full(t) == load(t) > 70
Grown(t) == IF Full(t) THEN ht_resize(t, t.base_size * 2) ELSE {Unchanged(t)}
Shrunk(t) == IF load(t) < 10 THEN ht_resize(t, t.base_size \div 2) ELSE {Unchanged(t)}

-----------------------------------------------------------------------------
Init ==
  /\ table = ht_new_sized(HT_INITIAL_BASE_SIZE)
  /\ dict = [k \in Keys |-> Absent]
  /\ doubted = {}

\* An insertion into a table: all goes well, or there is no memory for the item,
\* for its value, or for its key.
InsertedIn(t, doubts, k, v) ==
  \/ /\ table' = Inserted(t, k, v) /\ dict' = [dict EXCEPT ![k] = v]
     /\ doubted' = (doubted \cup doubts) \ {k}
  \/ /\ MallocFails /\ table' = t /\ UNCHANGED dict
     /\ doubted' = doubted \cup doubts
  \/ /\ MallocFails /\ Cardinality(Bare(t)) < MaxFailing
     /\ table' = Inserted(t, k, Absent) /\ dict' = [dict EXCEPT ![k] = v]
     /\ doubted' = doubted \cup doubts \cup {k}
  \/ /\ MallocFails /\ table' = Stuck(t) /\ UNCHANGED <<dict, doubted>>

ht_insert(k, v) ==
  \E g \in Grown(table) :
    /\ g.table.base_size <= MaxBaseSize
    /\ InsertedIn(g.table, g.doubts, k, v)

\* A fault: the slot is emptied.
TombstoneNull == NULL

\* What is left in the slot of a deleted item.
Tombstone == DELETED

\* A fault: the first item the probe meets is deleted, whatever its key is.
DeletedUncompared(t, k) ==
  LET i == Attempt(t, k, {NULL} \cup UNION {ItemsOf(q) : q \in Keys})
      s == Index(k, t.size, i)
  IN  IF i = -1 THEN Stuck(t)
      ELSE IF t.items[s] = NULL THEN t
      ELSE [t EXCEPT !.items[s] = Tombstone, !.count = @ - 1]

\* The table after the deletion of k, the item of which its probe meets first.
Deleted(t, k) ==
  LET i == SearchAttempt(t, k)
      s == Index(k, t.size, i)
  IN  IF i = -1 THEN Stuck(t)
      ELSE IF t.items[s] = NULL THEN t
      ELSE [t EXCEPT !.items[s] = Tombstone, !.count = @ - 1]

\* A key is in doubt when there is another item of it.
ht_delete(k) ==
  \E g \in Shrunk(table) :
    /\ table' = Deleted(g.table, k)
    /\ dict' = [dict EXCEPT ![k] = Absent]
    /\ doubted' = ((doubted \cup g.doubts) \ {k})
                    \cup {q \in {k} : Holding(table', q) # {}}

Next ==
  /\ ~table.hung
  /\ \E k \in Keys :
       \/ \E v \in Values[k] : ht_insert(k, v)
       \/ ht_delete(k)

Spec == Init /\ [][Next]_vars

-----------------------------------------------------------------------------
Slots == 0 .. table.size - 1
Live == LiveOf(table)

\* Type invariant; the count is the number of live slots.
TypeOK ==
  /\ table.size \in Nat \ {0}
  /\ table.items \in [Slots -> Free \cup UNION {ItemsOf(k) : k \in Keys}]
  /\ table.count = Cardinality(Live)
  /\ \A k \in Keys : dict[k] \in Values[k] \cup {Absent}
  /\ doubted \subseteq Keys

\* However items were inserted, deleted and moved, every live item can still be
\* reached: its key's probe meets it before an empty slot.
ItemsAreReachable ==
  \A s \in Live :
    LET k == table.items[s].key IN
    \E i \in Slots :
      /\ Index(k, table.size, i) = s
      /\ \A j \in 0 .. i : table.items[Index(k, table.size, j)] # NULL

\* "uses a hash function to compute an index [...] from which the desired value
\* can be found" (README.md): a search finds the value last inserted for its key,
\* and nothing when there is none.
SearchFindsLatest ==
  ~table.hung => \A k \in Keys : ht_search(table, k) \in {dict[k], "hung"}

\* It does, through collisions, tombstones, overwriting, growth and shrinking, for
\* every key but those that failed allocations have taken something from and those
\* that a deletion or a resize found twice: ht_insert stops at a tombstone before an
\* item of its key (hash_table.c:161), and the older item comes back.  The next
\* insertion of the key sets it right.
SearchIsRightUnlessDoubted ==
  ~table.hung => \A k \in Keys \ doubted : ht_search(table, k) \in {dict[k], "hung"}

\* The probe of k visits more than one slot.
Moves(k, size) == Step(k, size) % size # 0

\* The tables an insertion goes on with, when it need not grow or can.
WithRoom(t) ==
  IF Full(t) THEN {g.table : g \in Refilled(t, t.base_size * 2)} ELSE {t}

\* With memory to grow into, an insertion ends whatever tombstones there are: the
\* load factor leaves a free slot, and the probe visits them all if it moves.
InsertEnds ==
  ~table.hung =>
    \A t \in WithRoom(table) : \A k \in Keys : Moves(k, t.size) => InsertAttempt(t, k) # -1

\* "https://github.com/jamesroutley/write-a-hash-table/issues/35" (hash_table.c:113)
\* is the report of a probe that does not move; what the line below it is there for.
InsertAlwaysEnds ==
  ~table.hung => \A t \in WithRoom(table) : \A k \in Keys : InsertAttempt(t, k) # -1

\* A search ends (it stops at an empty slot only, and tombstones are never cleared
\* in place).
SearchEnds == \A k \in Keys : SearchAttempt(table, k) # -1
=============================================================================
