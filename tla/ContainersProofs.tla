-------------------------- MODULE ContainersProofs --------------------------
(***************************************************************************)
(* Theorems about HashTable, for all keys, values, hashes and sizes, and   *)
(* about Vector, for all elements, blocks and indices, any first capacity  *)
(* and any size.                                                           *)
(***************************************************************************)
EXTENDS HashTable, Vector, FiniteSetTheorems, SequenceTheorems, WellFoundedInduction, TLAPS

-----------------------------------------------------------------------------
(* The hash table. *)

\* The contents of a slot.
Contents(k) == Values[k] \cup {Absent}
AllContents == UNION {Contents(k) : k \in Keys}
Items == UNION {ItemsOf(k) : k \in Keys}
Cells == Free \cup Items

\* A table that may be found, as long as it is not larger than the one that an
\* insertion would resize it to.
Sized(t) ==
  /\ t \in [base_size : HT_INITIAL_BASE_SIZE .. 2 * MaxBaseSize, size : Nat \ {0},
            count : Int, items : UNION {[0 .. n - 1 -> Cells] : n \in Nat},
            hung : BOOLEAN]
  /\ t.items \in [0 .. t.size - 1 -> Cells]

\* The item in slot s can be reached.
ReachableAt(t, s) ==
  LET k == t.items[s].key IN
  \E i \in 0 .. t.size - 1 :
    /\ Index(k, t.size, i) = s
    /\ \A j \in 0 .. i : t.items[Index(k, t.size, j)] # NULL

Reachable(t) == \A s \in 0 .. t.size - 1 : t.items[s] \notin Free => ReachableAt(t, s)

\* What an item is.
LEMMA AboutItems ==
    ASSUME NEW k, NEW v
    PROVE  /\ Item(k, v) \notin Free
           /\ Item(k, v).key = k /\ Item(k, v).value = v
<1>1. Item(k, v).key = k /\ Item(k, v).value = v
    BY DEF Item
<1>2. DOMAIN Item(k, v) = {"key", "value"} /\ DOMAIN NULL = {"key"} /\ DOMAIN DELETED = {"key"}
    BY DEF Item, NULL, DELETED
<1>3. "value" \in DOMAIN Item(k, v) /\ "value" \notin DOMAIN NULL /\ "value" \notin DOMAIN DELETED
    BY <1>2
<1>4. Item(k, v) # NULL /\ Item(k, v) # DELETED
    BY <1>3
<1> QED
    BY <1>1, <1>4 DEF Free

\* The two marks differ.
LEMMA MarksDiffer == NULL # DELETED
<1>1. NULL.key = "NULL" /\ DELETED.key = "DELETED"
    BY DEF NULL, DELETED
<1> QED
    BY <1>1

\* An item in the table is that of a key and one of its values.
LEMMA CellIsItem ==
    ASSUME NEW c \in Cells, c \notin Free
    PROVE  /\ c.key \in Keys /\ c.value \in Contents(c.key) /\ c = Item(c.key, c.value)
           /\ c \in ItemsOf(c.key)
<1>1. PICK k \in Keys : c \in ItemsOf(k)
    BY DEF Cells, Items
<1>2. PICK v \in Contents(k) : c = Item(k, v)
    BY <1>1 DEF ItemsOf, Contents
<1>3. c.key = k /\ c.value = v
    BY <1>2, AboutItems
<1> QED
    BY <1>1, <1>2, <1>3

\* The items of a key.
LEMMA ItemsOfKey ==
    ASSUME NEW k \in Keys, NEW c \in ItemsOf(k)
    PROVE  c \in Cells /\ c \notin Free /\ c.key = k /\ c.value \in Contents(k)
<1>1. PICK v \in Contents(k) : c = Item(k, v)
    BY DEF ItemsOf, Contents
<1>2. c.key = k /\ c.value = v /\ c \notin Free
    BY <1>1, AboutItems
<1>3. c \in Cells
    BY DEF Cells, Items
<1> QED
    BY <1>1, <1>2, <1>3

\* Every set of naturals has a least member.
LEMMA LeastNatural ==
    ASSUME NEW S, S \subseteq Nat, S # {}
    PROVE  Min(S) \in S /\ \A x \in S : Min(S) <= x
<1>1. \E x \in S : \A y \in S : ~(<<y, x>> \in OpToRel(<, Nat))
    BY NatLessThanWellFounded, WFMin
<1>2. PICK x \in S : \A y \in S : ~(<<y, x>> \in OpToRel(<, Nat))
    BY <1>1
<1>3. \A y \in S : x <= y
  <2> SUFFICES ASSUME NEW y \in S PROVE x <= y
      OBVIOUS
  <2>1. x \in Nat /\ y \in Nat /\ ~(y < x)
      BY <1>2 DEF OpToRel
  <2> QED
      BY <2>1
<1> QED
    BY <1>3 DEF Min

\* Probing stays in the table.
LEMMA IndexInTable ==
    ASSUME NEW k \in Keys, NEW n \in Nat \ {0}, NEW i \in Nat
    PROVE  Index(k, n, i) \in 0 .. n - 1
<1>1. HashA[k] \in Nat /\ HashB[k] \in Nat
    BY TableAssumption
<1>2. HashA[k] % n \in Nat /\ HashB[k] % n \in Nat
    BY <1>1
<1>3. Step(k, n) \in Nat
    BY <1>2 DEF Step
<1>4. i * Step(k, n) \in Nat
    BY <1>3
<1>5. (HashA[k] % n) + i * Step(k, n) \in Nat
    BY <1>2, <1>4
<1>6. \A m \in Nat : m % n \in 0 .. n - 1
    OBVIOUS
<1> QED
    BY <1>5, <1>6 DEF Index

\* Where a probe ends: at the first item that it may end at.
LEMMA AttemptIsFirst ==
    ASSUME NEW t, Sized(t), NEW k \in Keys, NEW ends
    PROVE  LET a == Attempt(t, k, ends) IN
           \/ /\ a = -1
              /\ \A i \in 0 .. t.size - 1 : t.items[Index(k, t.size, i)] \notin ends
           \/ /\ a \in 0 .. t.size - 1 /\ a # -1
              /\ t.items[Index(k, t.size, a)] \in ends
              /\ \A i \in 0 .. t.size - 1 : t.items[Index(k, t.size, i)] \in ends => a <= i
<1> DEFINE hits == {i \in 0 .. t.size - 1 : t.items[Index(k, t.size, i)] \in ends}
<1>1. t.size \in Nat \ {0}
    BY DEF Sized
<1>2. Attempt(t, k, ends) = IF hits = {} THEN -1 ELSE Min(hits)
    BY DEF Attempt
<1>3. CASE hits = {}
    BY <1>2, <1>3
<1>4. CASE hits # {}
  <2>1. hits \subseteq Nat /\ \A x \in hits : x \in 0 .. t.size - 1
    BY <1>1
  <2> HIDE DEF hits
  <2>2. Min(hits) \in hits /\ \A x \in hits : Min(hits) <= x
    BY <1>4, <2>1, LeastNatural
  <2>3. Attempt(t, k, ends) = Min(hits)
    BY <1>2, <1>4
  <2>4. Min(hits) # -1
    BY <2>1, <2>2
  <2> QED
    BY <2>1, <2>2, <2>3, <2>4 DEF hits
<1> QED
    BY <1>3, <1>4

-----------------------------------------------------------------------------
\* What an insertion without resizing does to a table.

\* The probe for k ends at attempt a, in a free slot or at an item of k.
EndsAt(t, k, a) ==
  /\ a \in 0 .. t.size - 1
  /\ t.items[Index(k, t.size, a)] \in Free \cup ItemsOf(k)
  /\ \A i \in 0 .. t.size - 1 :
       t.items[Index(k, t.size, i)] \in Free \cup ItemsOf(k) => a <= i

\* u is t with an item of k and v where the probe for k ends.
PutAt(t, u, k, v, a) ==
  /\ EndsAt(t, k, a)
  /\ u.items = [t.items EXCEPT ![Index(k, t.size, a)] = Item(k, v)]

LEMMA InsertedOutcome ==
    ASSUME NEW t, Sized(t), NEW k \in Keys, NEW v \in Contents(k)
    PROVE  LET u == Inserted(t, k, v) IN
           /\ Sized(u) /\ u.size = t.size /\ u.base_size = t.base_size
           /\ \/ u.hung /\ u.items = t.items
              \/ u.hung = t.hung /\ \E a \in 0 .. t.size - 1 : PutAt(t, u, k, v, a)
<1> DEFINE a == InsertAttempt(t, k)
           s == Index(k, t.size, a)
           u == Inserted(t, k, v)
           end == Free \cup ItemsOf(k)
<1>1. t.size \in Nat \ {0} /\ t.items \in [0 .. t.size - 1 -> Cells]
    BY DEF Sized
<1>2. \/ a = -1
      \/ /\ a \in 0 .. t.size - 1 /\ a # -1
         /\ t.items[s] \in end
         /\ \A i \in 0 .. t.size - 1 : t.items[Index(k, t.size, i)] \in end => a <= i
    BY AttemptIsFirst DEF InsertAttempt
<1>3. CASE a = -1
  <2>1. u = [t EXCEPT !.hung = TRUE]
      BY <1>3 DEF Inserted, Stuck
  <2>2. /\ Sized(u) /\ u.size = t.size /\ u.base_size = t.base_size /\ u.hung /\ u.items = t.items
      BY <2>1 DEF Sized
  <2> QED
      BY <2>2
<1>4. CASE a # -1
  <2>1. EndsAt(t, k, a)
      BY <1>2, <1>4 DEF EndsAt
  <2>2. s \in 0 .. t.size - 1
    <3>1. a \in Nat
        BY <1>1, <1>2, <1>4
    <3> HIDE DEF a
    <3> QED
        BY <1>1, <3>1, IndexInTable
  <2>3. Item(k, v) \in Cells
      BY DEF Cells, Items, ItemsOf, Contents
  <2>4. u = [t EXCEPT !.items[s] = Item(k, v),
                      !.count = IF t.items[s] \in Free THEN @ + 1 ELSE @]
      BY <1>4 DEF Inserted
  <2> DEFINE items == [t.items EXCEPT ![s] = Item(k, v)]
             count == IF t.items[s] \in Free THEN t.count + 1 ELSE t.count
  <2>5. items \in [0 .. t.size - 1 -> Cells]
      BY <1>1, <2>2, <2>3
  <2>6. t \in [base_size : HT_INITIAL_BASE_SIZE .. 2 * MaxBaseSize, size : Nat \ {0},
               count : Int, items : UNION {[0 .. n - 1 -> Cells] : n \in Nat}, hung : BOOLEAN]
      BY DEF Sized
  <2>7. count \in Int
      BY <2>6
  <2>8. u = [t EXCEPT !.items = items, !.count = count]
      BY <2>4, <2>6
  <2>9. items \in UNION {[0 .. n - 1 -> Cells] : n \in Nat}
      BY <2>5, <1>1
  <2> HIDE DEF items, count, u
  <2>10. /\ u.items = items /\ u.size = t.size /\ u.base_size = t.base_size /\ u.hung = t.hung
         /\ u \in [base_size : HT_INITIAL_BASE_SIZE .. 2 * MaxBaseSize, size : Nat \ {0},
               count : Int, items : UNION {[0 .. n - 1 -> Cells] : n \in Nat}, hung : BOOLEAN]
      BY <2>6, <2>7, <2>8, <2>9
  <2>11. Sized(u)
      BY <2>5, <2>10 DEF Sized
  <2>12. a \in 0 .. t.size - 1 /\ PutAt(t, u, k, v, a)
      BY <2>1, <2>10, <1>2, <1>4 DEF PutAt, items
  <2> QED
      BY <2>10, <2>11, <2>12 DEF u
<1> QED
    BY <1>3, <1>4

\* u is t with c in slot p.
Changed(t, u, p, c) ==
  u.size = t.size /\ u.items = [t.items EXCEPT ![p] = c]

\* A changed slot is not emptied: what could be reached still can.
LEMMA StillReachable ==
    ASSUME NEW t, Sized(t), Reachable(t),
           NEW u, NEW p \in 0 .. t.size - 1, NEW c, Changed(t, u, p, c), c # NULL
    PROVE  \A s \in 0 .. t.size - 1 :
             s # p /\ u.items[s] \notin Free => ReachableAt(u, s)
<1>1. t.size \in Nat \ {0} /\ t.items \in [0 .. t.size - 1 -> Cells]
    BY DEF Sized
<1>2. u.size = t.size /\ \A x \in 0 .. t.size - 1 : u.items[x] = IF x = p THEN c ELSE t.items[x]
    BY <1>1 DEF Changed
<1> SUFFICES ASSUME NEW s \in 0 .. t.size - 1, s # p, u.items[s] \notin Free
             PROVE  ReachableAt(u, s)
    OBVIOUS
<1> DEFINE k == t.items[s].key
<1>3. u.items[s] = t.items[s]
    BY <1>2
<1>4. PICK i \in 0 .. t.size - 1 :
        /\ Index(k, t.size, i) = s
        /\ \A j \in 0 .. i : t.items[Index(k, t.size, j)] # NULL
    BY <1>3 DEF Reachable, ReachableAt
<1>5. k \in Keys
    BY <1>1, <1>3, CellIsItem
<1>6. \A j \in 0 .. i : u.items[Index(k, t.size, j)] # NULL
  <2> SUFFICES ASSUME NEW j \in 0 .. i PROVE u.items[Index(k, t.size, j)] # NULL
      OBVIOUS
  <2>1. j \in Nat
      OBVIOUS
  <2>2. Index(k, t.size, j) \in 0 .. t.size - 1
    <3> HIDE DEF k
    <3> QED
        BY <1>1, <1>5, <2>1, IndexInTable
  <2> QED
      BY <1>2, <1>4, <2>2
<1> QED
    BY <1>2, <1>3, <1>4, <1>6 DEF ReachableAt


LEMMA InsertedReachable ==
    ASSUME NEW t, Sized(t), Reachable(t), NEW k \in Keys, NEW v \in Contents(k)
    PROVE  Reachable(Inserted(t, k, v))
<1> DEFINE u == Inserted(t, k, v)
<1>1. t.size \in Nat \ {0} /\ t.items \in [0 .. t.size - 1 -> Cells]
    BY DEF Sized
<1>2. /\ u.size = t.size
      /\ \/ u.items = t.items
         \/ \E a \in 0 .. t.size - 1 : PutAt(t, u, k, v, a)
    BY InsertedOutcome
<1> SUFFICES Reachable(u)
    OBVIOUS
<1> HIDE DEF u
<1>3. CASE u.items = t.items
    BY <1>2, <1>3 DEF Reachable, ReachableAt
<1>4. CASE \E a \in 0 .. t.size - 1 : PutAt(t, u, k, v, a)
  <2>1. PICK a \in 0 .. t.size - 1 : PutAt(t, u, k, v, a)
      BY <1>4
  <2> DEFINE p == Index(k, t.size, a)
  <2>2. a \in Nat
      BY <1>1
  <2>3. p \in 0 .. t.size - 1
      BY <1>1, <2>2, IndexInTable
  <2>4. u.items = [t.items EXCEPT ![p] = Item(k, v)]
      BY <2>1 DEF PutAt
  <2>5. \A i \in 0 .. t.size - 1 : t.items[Index(k, t.size, i)] \in Free => a <= i
      BY <2>1 DEF PutAt, EndsAt
  <2>6. Item(k, v) # NULL /\ Item(k, v).key = k
      BY AboutItems DEF Free
  <2>7. u.items[p] = Item(k, v) /\ \A x \in 0 .. t.size - 1 : x # p => u.items[x] = t.items[x]
      BY <1>1, <2>3, <2>4
  <2>8. \A s \in 0 .. t.size - 1 : s # p /\ u.items[s] \notin Free => ReachableAt(u, s)
    <3>1. Changed(t, u, p, Item(k, v))
        BY <1>2, <2>4 DEF Changed
    <3> HIDE DEF p
    <3> QED
        BY <2>3, <2>6, <3>1, StillReachable
  <2>9. \A j \in 0 .. a : u.items[Index(k, t.size, j)] # NULL
    <3> SUFFICES ASSUME NEW j \in 0 .. a, u.items[Index(k, t.size, j)] = NULL PROVE FALSE
        OBVIOUS
    <3>1. j \in Nat /\ j \in 0 .. t.size - 1 /\ (a <= j => j = a)
        BY <1>1
    <3>2. Index(k, t.size, j) \in 0 .. t.size - 1
        BY <1>1, <3>1, IndexInTable
    <3>3. Index(k, t.size, j) # p
        BY <2>6, <2>7
    <3>4. t.items[Index(k, t.size, j)] \in Free
        BY <2>7, <3>2, <3>3 DEF Free
    <3>5. j = a
        BY <2>5, <3>1, <3>4
    <3> QED
        BY <3>3, <3>5
  <2>10. ReachableAt(u, p)
      BY <1>2, <2>6, <2>7, <2>9 DEF ReachableAt
  <2> QED
      BY <1>2, <2>8, <2>10 DEF Reachable
<1> QED
    BY <1>2, <1>3, <1>4

-----------------------------------------------------------------------------
\* Resizing.

\* What the new table is after n slots, given what it is after fewer.
Refill(t, base, new, n) ==
  IF n = 0 THEN ht_new_sized(base)
  ELSE IF t.items[n - 1] \in Free THEN new[n - 1]
       ELSE Inserted(new[n - 1], t.items[n - 1].key, t.items[n - 1].value)

\* The recursion that defines Refills has a solution, for any number of slots.
LEMMA RefillsExist ==
    ASSUME NEW t, NEW base, NEW N \in Nat
    PROVE  \E f : f = [n \in 0 .. N |-> Refill(t, base, f, n)]
<1> DEFINE Good(m) == \E f : f = [n \in 0 .. m |-> Refill(t, base, f, n)]
           Failing == {m \in Nat : ~ Good(m)}
<1>1. \A f, g, n : n = 0 \/ f[n - 1] = g[n - 1] => Refill(t, base, f, n) = Refill(t, base, g, n)
    BY DEF Refill
<1>2. Good(0)
  <2> DEFINE g == [n \in 0 .. 0 |-> ht_new_sized(base)]
  <2>1. \A n \in 0 .. 0 : Refill(t, base, g, n) = ht_new_sized(base)
      BY DEF Refill
  <2>2. g = [n \in 0 .. 0 |-> Refill(t, base, g, n)]
      BY <2>1
  <2> QED
      BY <2>2
<1>3. ASSUME NEW m \in Nat, m # 0, Good(m - 1) PROVE Good(m)
  <2>1. PICK f : f = [n \in 0 .. m - 1 |-> Refill(t, base, f, n)]
      BY <1>3
  <2> DEFINE g == [n \in 0 .. m |-> IF n = m THEN Refill(t, base, f, m) ELSE f[n]]
  <2>2. \A n \in 0 .. m : n # 0 => g[n - 1] = f[n - 1]
      OBVIOUS
  <2>3. \A n \in 0 .. m : Refill(t, base, g, n) = Refill(t, base, f, n)
      BY <1>1, <2>2
  <2>4. \A n \in 0 .. m : g[n] = Refill(t, base, f, n)
    <3> SUFFICES ASSUME NEW n \in 0 .. m PROVE g[n] = Refill(t, base, f, n)
        OBVIOUS
    <3>1. CASE n = m
        BY <3>1
    <3>2. CASE n # m
      <4>1. n \in 0 .. m - 1
          BY <3>2
      <4>2. g[n] = f[n]
          BY <3>2
      <4> QED
          BY <2>1, <4>1, <4>2
    <3> QED
        BY <3>1, <3>2
  <2>5. g = [n \in 0 .. m |-> g[n]]
      OBVIOUS
  <2> HIDE DEF g
  <2>6. g = [n \in 0 .. m |-> Refill(t, base, g, n)]
      BY <2>3, <2>4, <2>5
  <2> QED
      BY <2>6
<1>4. CASE Failing # {}
  <2>1. Min(Failing) \in Failing /\ \A x \in Failing : Min(Failing) <= x
      BY <1>4, LeastNatural
  <2>2. PICK m \in Nat : m \in Failing /\ \A x \in Failing : m <= x
      BY <2>1
  <2> HIDE DEF Good
  <2>3. m # 0
      BY <1>2, <2>2
  <2>4. m - 1 \in Nat /\ ~ (m <= m - 1)
      BY <2>3
  <2>5. Good(m - 1)
      BY <2>2, <2>4
  <2> QED
      BY <1>3, <2>2, <2>3, <2>5
<1> QED
    BY <1>4


\* Refills is what its definition says.
LEMMA RefillsAre ==
    ASSUME NEW t, Sized(t), NEW base
    PROVE  /\ Refills(t, base)[0] = ht_new_sized(base)
           /\ \A n \in 0 .. t.size :
                Refills(t, base)[n] = Refill(t, base, Refills(t, base), n)
<1> DEFINE Solves(f) == f = [n \in 0 .. t.size |-> Refill(t, base, f, n)]
<1>1. t.size \in Nat
    BY DEF Sized
<1>2. \E f : Solves(f)
    BY <1>1, RefillsExist
<1>3. Refills(t, base) = CHOOSE f : Solves(f)
    BY DEF Refills, Refill
<1>4. Solves(Refills(t, base))
    BY <1>2, <1>3
<1>5. \A n \in 0 .. t.size : Refills(t, base)[n] = Refill(t, base, Refills(t, base), n)
    BY <1>4
<1>6. 0 \in 0 .. t.size
    BY <1>1
<1> QED
    BY <1>5, <1>6 DEF Refill

LEMMA NewTable ==
    ASSUME NEW base \in HT_INITIAL_BASE_SIZE .. 2 * MaxBaseSize
    PROVE  LET t == ht_new_sized(base) IN
           /\ Sized(t) /\ t.base_size = base /\ ~ t.hung
           /\ \A s \in 0 .. t.size - 1 : t.items[s] = NULL
<1> DEFINE n == next_prime(base)
           items == [s \in 0 .. n - 1 |-> NULL]
<1>1. base \in Nat \ {0}
    BY TableAssumption
<1>2. \E p \in base .. 2 * base + 2 : is_prime(p) = 1 /\ \A q \in base .. p - 1 : is_prime(q) # 1
    BY PrimeAssumption
<1>3. n \in base .. 2 * base + 2
    BY <1>2 DEF next_prime
<1> HIDE DEF n
<1>4. n \in Nat \ {0}
    BY <1>1, <1>3
<1>5. items \in [0 .. n - 1 -> Cells]
    BY DEF Cells, Free
<1>6. ht_new_sized(base)
      = [base_size |-> base, size |-> n, count |-> 0, items |-> items, hung |-> FALSE]
    BY DEF ht_new_sized, n
<1>7. items \in UNION {[0 .. m - 1 -> Cells] : m \in Nat}
    BY <1>4, <1>5
<1>8. \A s \in 0 .. n - 1 : items[s] = NULL
    OBVIOUS
<1> HIDE DEF items
<1> QED
    BY <1>4, <1>5, <1>6, <1>7, <1>8 DEF Sized

-----------------------------------------------------------------------------
\* A table without tombstones, with at most one item of each key.

Held(t) == {t.items[s] : s \in 0 .. t.size - 1} \ Free

OneOfEach(t) ==
  \A s1, s2 \in 0 .. t.size - 1 :
    t.items[s1] \notin Free /\ t.items[s2] \notin Free /\ t.items[s1].key = t.items[s2].key
    => s1 = s2

Clean(t) ==
  /\ \A s \in 0 .. t.size - 1 : t.items[s] # DELETED
  /\ OneOfEach(t)

\* An insertion replaces the item of its key, wherever it is, or adds one.
LEMMA InsertedClean ==
    ASSUME NEW t, Sized(t), Reachable(t), Clean(t), NEW k \in Keys, NEW v \in Contents(k),
           ~ Inserted(t, k, v).hung
    PROVE  /\ ~ t.hung /\ Clean(Inserted(t, k, v))
           /\ Held(Inserted(t, k, v)) = {x \in Held(t) : x.key # k} \cup {Item(k, v)}
<1> DEFINE u == Inserted(t, k, v)
<1>1. t.size \in Nat \ {0} /\ t.items \in [0 .. t.size - 1 -> Cells]
    BY DEF Sized
<1>2. /\ u.size = t.size
      /\ u.hung = t.hung /\ \E a \in 0 .. t.size - 1 : PutAt(t, u, k, v, a)
    BY InsertedOutcome
<1>3. ~ u.hung
    OBVIOUS
<1> SUFFICES /\ ~ t.hung /\ Clean(u)
             /\ Held(u) = {x \in Held(t) : x.key # k} \cup {Item(k, v)}
    OBVIOUS
<1> HIDE DEF u
<1>4. PICK a \in 0 .. t.size - 1 : PutAt(t, u, k, v, a)
    BY <1>2
<1> DEFINE p == Index(k, t.size, a)
<1>5. p \in 0 .. t.size - 1
  <2>1. a \in Nat
      BY <1>1
  <2> QED
      BY <1>1, <2>1, IndexInTable
<1>6. u.items = [t.items EXCEPT ![p] = Item(k, v)]
    BY <1>4 DEF PutAt
<1>7. /\ t.items[p] \in Free \cup ItemsOf(k)
      /\ \A i \in 0 .. t.size - 1 :
           t.items[Index(k, t.size, i)] \in Free \cup ItemsOf(k) => a <= i
    BY <1>4 DEF PutAt, EndsAt
<1>8. Item(k, v) \notin Free /\ Item(k, v) # DELETED /\ Item(k, v).key = k
    BY AboutItems DEF Free
<1>9. ASSUME NEW s \in 0 .. t.size - 1, t.items[s] \notin Free, t.items[s].key = k
      PROVE  s = p
  <2>1. t.items[s] \in ItemsOf(k)
      BY <1>1, <1>9, CellIsItem
  <2>2. PICK i \in 0 .. t.size - 1 :
          /\ Index(k, t.size, i) = s
          /\ \A j \in 0 .. i : t.items[Index(k, t.size, j)] # NULL
      BY <1>9 DEF Reachable, ReachableAt
  <2>3. a <= i
      BY <1>7, <2>1, <2>2
  <2>4. a \in 0 .. i
      BY <1>1, <2>3
  <2>5. t.items[p] # NULL /\ t.items[p] # DELETED
      BY <1>5, <2>2, <2>4 DEF Clean
  <2>6. t.items[p] \in ItemsOf(k)
      BY <1>7, <2>5 DEF Free
  <2>7. t.items[p] \notin Free /\ t.items[p].key = k
      BY <2>6, ItemsOfKey
  <2> QED
      BY <1>5, <1>9, <2>7 DEF Clean, OneOfEach
<1> HIDE DEF p
<1>10. \A s \in 0 .. t.size - 1 : u.items[s] = IF s = p THEN Item(k, v) ELSE t.items[s]
    BY <1>1, <1>5, <1>6
<1>11. Clean(u)
  <2>1. \A s \in 0 .. u.size - 1 : u.items[s] # DELETED
      BY <1>2, <1>8, <1>10 DEF Clean
  <2>2. ASSUME NEW s1 \in 0 .. t.size - 1, NEW s2 \in 0 .. t.size - 1,
               u.items[s1] \notin Free, u.items[s2] \notin Free,
               u.items[s1].key = u.items[s2].key
        PROVE  s1 = s2
    <3>1. CASE s1 = p /\ s2 # p
        BY <1>8, <1>9, <1>10, <2>2, <3>1
    <3>2. CASE s1 # p /\ s2 = p
        BY <1>8, <1>9, <1>10, <2>2, <3>2
    <3>3. CASE s1 # p /\ s2 # p
        BY <1>10, <2>2, <3>3 DEF Clean, OneOfEach
    <3> QED
        BY <3>1, <3>2, <3>3
  <2> QED
      BY <1>2, <2>1, <2>2 DEF Clean, OneOfEach
<1>12. ASSUME NEW x \in Held(u) PROVE x \in {y \in Held(t) : y.key # k} \cup {Item(k, v)}
  <2>1. PICK s \in 0 .. t.size - 1 : x = u.items[s] /\ x \notin Free
      BY <1>2 DEF Held
  <2>2. CASE s = p
      BY <1>10, <2>1, <2>2
  <2>3. CASE s # p
    <3>1. x = t.items[s]
        BY <1>10, <2>1, <2>3
    <3>2. x.key # k
        BY <1>9, <2>1, <2>3, <3>1
    <3>3. x \in Held(t)
        BY <2>1, <3>1 DEF Held
    <3> QED
        BY <3>2, <3>3
  <2> QED
      BY <2>2, <2>3
<1>13. Item(k, v) \in Held(u)
    BY <1>2, <1>5, <1>8, <1>10 DEF Held
<1>14. ASSUME NEW x \in Held(t), x.key # k PROVE x \in Held(u)
  <2>1. PICK s \in 0 .. t.size - 1 : x = t.items[s] /\ x \notin Free
      BY DEF Held
  <2>2. CASE s # p
      BY <1>2, <1>10, <2>1, <2>2 DEF Held
  <2>3. CASE s = p
    <3>1. x \in ItemsOf(k)
        BY <1>7, <2>1, <2>3
    <3> QED
        BY <1>14, <3>1, ItemsOfKey
  <2> QED
      BY <2>2, <2>3
<1>15. Held(u) = {x \in Held(t) : x.key # k} \cup {Item(k, v)}
    BY <1>12, <1>13, <1>14
<1> QED
    BY <1>2, <1>3, <1>11, <1>15


\* What has been moved after n slots.
MovedBefore(t, n) == {t.items[s] : s \in 0 .. n - 1} \ Free

\* At most one slot has an item of k.
Once(t, k) == \A r, s \in Holding(t, k) : r = s

\* A and B have the same items of k.
Has(A, B, k) == {x \in A : x.key = k} = {x \in B : x.key = k}

\* The new table after n slots.
RefilledTo(t, base, n) ==
  LET u == Refills(t, base)[n] IN
  /\ Sized(u) /\ u.base_size = base /\ Reachable(u)
  /\ ~ u.hung => Clean(u) /\ \A k \in Keys : Once(t, k) => Has(Held(u), MovedBefore(t, n), k)

LEMMA RefilledToZero ==
    ASSUME NEW t, Sized(t), NEW base \in HT_INITIAL_BASE_SIZE .. 2 * MaxBaseSize
    PROVE  RefilledTo(t, base, 0)
<1> DEFINE u == Refills(t, base)[0]
<1>1. u = ht_new_sized(base)
    BY RefillsAre
<1>2. Sized(u) /\ u.base_size = base /\ \A s \in 0 .. u.size - 1 : u.items[s] = NULL
    BY <1>1, NewTable
<1>3. NULL \in Free
    BY DEF Free
<1> HIDE DEF u
<1>4. Reachable(u)
    BY <1>2, <1>3 DEF Reachable
<1>5. Clean(u)
    BY <1>2, <1>3, MarksDiffer DEF Clean, OneOfEach
<1>6. Held(u) = {}
    BY <1>2, <1>3 DEF Held
<1>7. MovedBefore(t, 0) = {}
    BY DEF MovedBefore
<1> QED
    BY <1>2, <1>4, <1>5, <1>6, <1>7 DEF RefilledTo, Has, u

LEMMA RefilledToNext ==
    ASSUME NEW t, Sized(t), NEW base \in HT_INITIAL_BASE_SIZE .. 2 * MaxBaseSize,
           NEW n \in 1 .. t.size, RefilledTo(t, base, n - 1)
    PROVE  RefilledTo(t, base, n)
<1> DEFINE old == Refills(t, base)[n - 1]
           new == Refills(t, base)[n]
           item == t.items[n - 1]
<1>1. t.size \in Nat \ {0} /\ t.items \in [0 .. t.size - 1 -> Cells]
    BY DEF Sized
<1>2. n \in 0 .. t.size /\ n - 1 \in 0 .. t.size - 1 /\ n # 0
    BY <1>1
<1>3. new = IF item \in Free THEN old ELSE Inserted(old, item.key, item.value)
    BY <1>2, RefillsAre DEF Refill
<1>4. /\ Sized(old) /\ old.base_size = base /\ Reachable(old)
      /\ ~ old.hung =>
           Clean(old) /\ \A k \in Keys : Once(t, k) => Has(Held(old), MovedBefore(t, n - 1), k)
    BY DEF RefilledTo
<1> SUFFICES /\ Sized(new) /\ new.base_size = base /\ Reachable(new)
             /\ ~ new.hung =>
                  Clean(new) /\ \A k \in Keys : Once(t, k) => Has(Held(new), MovedBefore(t, n), k)
    BY DEF RefilledTo
<1>5. MovedBefore(t, n) = MovedBefore(t, n - 1) \cup ({item} \ Free)
  <2>1. \A s \in 0 .. n - 1 : s \in 0 .. (n - 1) - 1 \/ s = n - 1
      BY <1>2
  <2>2. \A s \in 0 .. (n - 1) - 1 : s \in 0 .. n - 1
      BY <1>2
  <2>3. n - 1 \in 0 .. n - 1
      BY <1>2
  <2> QED
      BY <2>1, <2>2, <2>3 DEF MovedBefore
<1> HIDE DEF old, new
<1>6. CASE item \in Free
  <2>1. MovedBefore(t, n) = MovedBefore(t, n - 1)
      BY <1>5, <1>6
  <2> QED
      BY <1>3, <1>4, <1>6, <2>1
<1>7. CASE item \notin Free
  <2>1. item \in Cells
      BY <1>1, <1>2
  <2>2. item.key \in Keys /\ item.value \in Contents(item.key) /\ item = Item(item.key, item.value)
      BY <1>7, <2>1, CellIsItem
  <2>3. new = Inserted(old, item.key, item.value)
      BY <1>3, <1>7
  <2>4. Sized(new) /\ new.base_size = base
      BY <1>4, <2>2, <2>3, InsertedOutcome
  <2>5. Reachable(new)
      BY <1>4, <2>2, <2>3, InsertedReachable
  <2>6. ASSUME ~ new.hung
        PROVE  Clean(new) /\ \A k \in Keys : Once(t, k) => Has(Held(new), MovedBefore(t, n), k)
    <3>1. new.hung = old.hung \/ new.hung
        BY <1>4, <2>2, <2>3, InsertedOutcome
    <3>2. Clean(old) /\ \A k \in Keys : Once(t, k) => Has(Held(old), MovedBefore(t, n - 1), k)
        BY <1>4, <2>6, <3>1
    <3>3. /\ Clean(new)
          /\ Held(new) = {x \in Held(old) : x.key # item.key} \cup {Item(item.key, item.value)}
        BY <1>4, <2>2, <2>3, <2>6, <3>2, InsertedClean
    <3>4. ASSUME NEW k \in Keys, Once(t, k) PROVE Has(Held(new), MovedBefore(t, n), k)
      <4>1. Held(new) = {x \in Held(old) : x.key # item.key} \cup {item}
          BY <2>2, <3>3
      <4>2. MovedBefore(t, n) = MovedBefore(t, n - 1) \cup {item}
          BY <1>5, <1>7
      <4>3. Has(Held(old), MovedBefore(t, n - 1), k)
          BY <3>2, <3>4
      <4>4. ASSUME item.key = k, NEW x \in MovedBefore(t, n - 1), x.key = k PROVE FALSE
        <5>1. PICK s \in 0 .. (n - 1) - 1 : x = t.items[s] /\ x \notin Free
            BY <4>4 DEF MovedBefore
        <5>2. s \in 0 .. t.size - 1 /\ s # n - 1
            BY <1>1, <1>2
        <5>3. s \in Holding(t, k) /\ n - 1 \in Holding(t, k)
            BY <1>2, <1>7, <4>4, <5>1, <5>2 DEF Holding, LiveOf
        <5> QED
            BY <3>4, <5>2, <5>3 DEF Once
      <4> HIDE DEF item
      <4>5. CASE item.key = k
          BY <4>1, <4>2, <4>4, <4>5 DEF Has
      <4>6. CASE item.key # k
          BY <4>1, <4>2, <4>3, <4>6 DEF Has
      <4> QED
          BY <4>5, <4>6
    <3> QED
        BY <3>3, <3>4
  <2> QED
      BY <2>4, <2>5, <2>6
<1> QED
    BY <1>6, <1>7

\* After any number of slots.
LEMMA RefilledAlways ==
    ASSUME NEW t, Sized(t), NEW base \in HT_INITIAL_BASE_SIZE .. 2 * MaxBaseSize
    PROVE  \A n \in 0 .. t.size : RefilledTo(t, base, n)
<1> DEFINE Failing == {n \in 0 .. t.size : ~ RefilledTo(t, base, n)}
<1>1. t.size \in Nat
    BY DEF Sized
<1> SUFFICES ASSUME Failing # {} PROVE FALSE
    OBVIOUS
<1>2. Failing \subseteq Nat
    BY <1>1
<1>3. Min(Failing) \in Failing /\ \A x \in Failing : Min(Failing) <= x
    BY <1>2, LeastNatural
<1>4. PICK n \in 0 .. t.size : n \in Failing /\ \A x \in Failing : n <= x
    BY <1>3
<1>5. n # 0
    BY <1>4, RefilledToZero
<1>6. n \in 1 .. t.size /\ n - 1 \in 0 .. t.size /\ ~ (n <= n - 1)
    BY <1>1, <1>5
<1>7. RefilledTo(t, base, n - 1)
    BY <1>4, <1>6
<1>8. RefilledTo(t, base, n)
    BY <1>6, <1>7, RefilledToNext
<1> QED
    BY <1>4, <1>8

\* What there is to insert into a resized table is what there was, but for what
\* memory failed for.
LEMMA RecopiedTable ==
    ASSUME NEW t, Sized(t), NEW u \in Recopied(t)
    PROVE  /\ Sized(u) /\ u.size = t.size
           /\ \A s \in 0 .. t.size - 1 :
                \/ u.items[s] = t.items[s]
                \/ u.items[s] = NULL
                \/ t.items[s] \notin Free /\ u.items[s] = Item(t.items[s].key, Absent)
<1> DEFINE made(lost, bare) ==
              [s \in 0 .. t.size - 1 |->
                 IF s \in lost THEN NULL
                 ELSE IF s \in bare THEN Item(t.items[s].key, Absent) ELSE t.items[s]]
           made_table(lost, bare) == [t EXCEPT !.items = made(lost, bare)]
<1>1. PICK lost \in SUBSET LiveOf(t), bare \in SUBSET LiveOf(t) : u = made_table(lost, bare)
  <2> DEFINE F == FailingSlots(t)
             L == {S \in F : Bare(t) \subseteq S}
  <2>1. F \subseteq SUBSET LiveOf(t) /\ L \subseteq SUBSET LiveOf(t)
      BY DEF FailingSlots
  <2>2. u \in {made_table(lost, bare) : bare \in F, lost \in L}
      BY DEF Recopied
  <2> HIDE DEF F, L, made_table
  <2>3. \E bare \in F, lost \in L : u = made_table(lost, bare)
      BY <2>2
  <2> QED
      BY <2>1, <2>3
<1> DEFINE items == [s \in 0 .. t.size - 1 |->
                       IF s \in lost THEN NULL
                       ELSE IF s \in bare THEN Item(t.items[s].key, Absent) ELSE t.items[s]]
<1>2. /\ t \in [base_size : HT_INITIAL_BASE_SIZE .. 2 * MaxBaseSize, size : Nat \ {0},
                count : Int, items : UNION {[0 .. n - 1 -> Cells] : n \in Nat}, hung : BOOLEAN]
      /\ t.items \in [0 .. t.size - 1 -> Cells] /\ t.size \in Nat \ {0}
    BY DEF Sized
<1>3. ASSUME NEW s \in 0 .. t.size - 1
      PROVE  /\ \/ items[s] = t.items[s]
                \/ items[s] = NULL
                \/ t.items[s] \notin Free /\ items[s] = Item(t.items[s].key, Absent)
             /\ items[s] \in Cells
  <2>1. CASE s \in lost
      BY <2>1 DEF Cells, Free
  <2>2. CASE s \notin lost /\ s \in bare
    <3>1. t.items[s] \in Cells /\ t.items[s] \notin Free
        BY <1>1, <1>2, <2>2 DEF LiveOf
    <3>2. t.items[s].key \in Keys
        BY <3>1, CellIsItem
    <3>3. Item(t.items[s].key, Absent) \in Cells
        BY <3>2 DEF Cells, Items, ItemsOf
    <3> QED
        BY <2>2, <3>1, <3>3
  <2>3. CASE s \notin lost /\ s \notin bare
      BY <1>2, <2>3
  <2> QED
      BY <2>1, <2>2, <2>3
<1>4. items \in [0 .. t.size - 1 -> Cells]
    BY <1>3
<1>5. items \in UNION {[0 .. n - 1 -> Cells] : n \in Nat}
    BY <1>2, <1>4
<1>6. u = [t EXCEPT !.items = items]
    BY <1>1
<1> HIDE DEF items, made, made_table
<1>7. u.items = items /\ u.size = t.size /\ Sized(u)
    BY <1>2, <1>4, <1>5, <1>6 DEF Sized
<1> QED
    BY <1>3, <1>7

-----------------------------------------------------------------------------
\* What a search for k finds.

\* The items of k that its probe meets before an empty slot begin with that of d;
\* or there are none, and there should be none.
Latest(t, k, d) ==
  \/ \E i \in 0 .. t.size - 1 :
       /\ t.items[Index(k, t.size, i)] = Item(k, d)
       /\ \A j \in 0 .. i :
            /\ t.items[Index(k, t.size, j)] # NULL
            /\ t.items[Index(k, t.size, j)] \in ItemsOf(k)
                 => t.items[Index(k, t.size, j)] = Item(k, d)
  \/ d = Absent /\ Holding(t, k) = {}

\* Where there is one item of each key, it is the one.
LEMMA OneIsLatest ==
    ASSUME NEW t, Sized(t), Reachable(t), OneOfEach(t), NEW k \in Keys, NEW d,
           Item(k, d) \in Held(t)
    PROVE  Latest(t, k, d)
<1>1. t.size \in Nat \ {0} /\ t.items \in [0 .. t.size - 1 -> Cells]
    BY DEF Sized
<1>2. Item(k, d) \notin Free /\ Item(k, d).key = k
    BY AboutItems
<1>3. PICK s \in 0 .. t.size - 1 : t.items[s] = Item(k, d)
    BY DEF Held
<1>4. PICK i \in 0 .. t.size - 1 :
        /\ Index(k, t.size, i) = s
        /\ \A j \in 0 .. i : t.items[Index(k, t.size, j)] # NULL
    BY <1>2, <1>3 DEF Reachable, ReachableAt
<1>5. ASSUME NEW j \in 0 .. i, t.items[Index(k, t.size, j)] \in ItemsOf(k)
      PROVE  t.items[Index(k, t.size, j)] = Item(k, d)
  <2> DEFINE p == Index(k, t.size, j)
             c == t.items[p]
  <2>0. j \in Nat
      OBVIOUS
  <2>1. p \in 0 .. t.size - 1
      BY <1>1, <2>0, IndexInTable
  <2>2. c \in ItemsOf(k)
      BY <1>5
  <2> HIDE DEF c
  <2>3. c \notin Free /\ c.key = k
      BY <2>2, ItemsOfKey
  <2> HIDE DEF p
  <2>4. p = s
      BY <1>2, <1>3, <2>1, <2>3 DEF OneOfEach, c
  <2> QED
      BY <1>3, <2>4 DEF p
<1> QED
    BY <1>3, <1>4, <1>5 DEF Latest

\* The items of k in a table, by their slots.
LEMMA AboutHolding ==
    ASSUME NEW t, Sized(t), NEW k \in Keys
    PROVE  \A s \in 0 .. t.size - 1 : s \in Holding(t, k) <=> t.items[s] \in ItemsOf(k)
<1> SUFFICES ASSUME NEW s \in 0 .. t.size - 1
             PROVE  s \in Holding(t, k) <=> t.items[s] \in ItemsOf(k)
    OBVIOUS
<1> DEFINE c == t.items[s]
<1>1. c \in Cells
    BY DEF Sized
<1>2. s \in Holding(t, k) <=> c \notin Free /\ c.key = k
    BY DEF Holding, LiveOf
<1> HIDE DEF c
<1>3. c \in ItemsOf(k) => c \notin Free /\ c.key = k
    BY ItemsOfKey
<1>4. c \notin Free /\ c.key = k => c \in ItemsOf(k)
    BY <1>1, CellIsItem
<1> QED
    BY <1>2, <1>3, <1>4 DEF c

\* A slot that had nothing of k and gets nothing of k, but does not get emptied, makes
\* no difference to a search for k.
LEMMA LatestElsewhere ==
    ASSUME NEW t, Sized(t), NEW u, Sized(u), NEW p \in 0 .. t.size - 1, NEW c,
           Changed(t, u, p, c), c # NULL, NEW k \in Keys, NEW d,
           c \notin ItemsOf(k), t.items[p] \notin ItemsOf(k), Latest(t, k, d),
           \/ d \in Contents(k) \/ d = Absent
    PROVE  Latest(u, k, d)
<1>1. t.size \in Nat \ {0} /\ t.items \in [0 .. t.size - 1 -> Cells]
    BY DEF Sized
<1>2. u.size = t.size /\ \A x \in 0 .. t.size - 1 : u.items[x] = IF x = p THEN c ELSE t.items[x]
    BY <1>1 DEF Changed
<1>3. ASSUME NEW i \in 0 .. t.size - 1,
             t.items[Index(k, t.size, i)] = Item(k, d),
             \A j \in 0 .. i :
               /\ t.items[Index(k, t.size, j)] # NULL
               /\ t.items[Index(k, t.size, j)] \in ItemsOf(k)
                    => t.items[Index(k, t.size, j)] = Item(k, d)
      PROVE  Latest(u, k, d)
  <2>1. Item(k, d) \in ItemsOf(k)
      BY DEF ItemsOf, Contents
  <2>2. ASSUME NEW j \in 0 .. i PROVE Index(k, t.size, j) \in 0 .. t.size - 1
    <3>1. j \in Nat
        OBVIOUS
    <3> QED
        BY <1>1, <3>1, IndexInTable
  <2>3. i \in 0 .. i
      BY <1>1
  <2>4. u.items[Index(k, t.size, i)] = Item(k, d)
      BY <1>2, <1>3, <2>1, <2>2, <2>3
  <2>5. \A j \in 0 .. i :
          /\ u.items[Index(k, t.size, j)] # NULL
          /\ u.items[Index(k, t.size, j)] \in ItemsOf(k)
               => u.items[Index(k, t.size, j)] = Item(k, d)
      BY <1>2, <1>3, <2>2
  <2> QED
      BY <1>2, <2>4, <2>5 DEF Latest
<1>4. ASSUME d = Absent, Holding(t, k) = {} PROVE Latest(u, k, d)
  <2>1. \A s \in 0 .. t.size - 1 : t.items[s] \notin ItemsOf(k)
      BY <1>4, AboutHolding
  <2>2. \A s \in 0 .. t.size - 1 : u.items[s] \notin ItemsOf(k)
      BY <1>2, <2>1
  <2>3. Holding(u, k) \subseteq 0 .. u.size - 1
      BY DEF Holding, LiveOf
  <2>4. Holding(u, k) = {}
      BY <1>2, <2>2, <2>3, AboutHolding
  <2> QED
      BY <1>4, <2>4 DEF Latest
<1> QED
    BY <1>3, <1>4 DEF Latest

\* An insertion is found, and no other key notices.
LEMMA InsertedLatest ==
    ASSUME NEW t, Sized(t), NEW k \in Keys, NEW v \in Contents(k), ~ Inserted(t, k, v).hung
    PROVE  /\ ~ t.hung /\ Latest(Inserted(t, k, v), k, v)
           /\ \A q \in Keys \ {k}, d \in AllContents :
                d \in Contents(q) /\ Latest(t, q, d) => Latest(Inserted(t, k, v), q, d)
<1> DEFINE u == Inserted(t, k, v)
<1>1. t.size \in Nat \ {0} /\ t.items \in [0 .. t.size - 1 -> Cells]
    BY DEF Sized
<1>2. /\ Sized(u) /\ u.size = t.size
      /\ u.hung = t.hung /\ \E a \in 0 .. t.size - 1 : PutAt(t, u, k, v, a)
    BY InsertedOutcome
<1> SUFFICES /\ ~ t.hung /\ Latest(u, k, v)
             /\ \A q \in Keys \ {k}, d \in AllContents :
                  d \in Contents(q) /\ Latest(t, q, d) => Latest(u, q, d)
    OBVIOUS
<1>3. ~ u.hung
    OBVIOUS
<1> HIDE DEF u
<1>4. PICK a \in 0 .. t.size - 1 : PutAt(t, u, k, v, a)
    BY <1>2
<1> DEFINE p == Index(k, t.size, a)
<1>a. a \in Nat
    BY <1>1
<1>5. p \in 0 .. t.size - 1
    BY <1>1, <1>a, IndexInTable
<1>6. /\ t.items[p] \in Free \cup ItemsOf(k)
      /\ \A i \in 0 .. t.size - 1 :
           t.items[Index(k, t.size, i)] \in Free \cup ItemsOf(k) => a <= i
      /\ u.items = [t.items EXCEPT ![p] = Item(k, v)]
    BY <1>4 DEF PutAt, EndsAt
<1>7. Item(k, v) \notin Free /\ Item(k, v) # NULL /\ Item(k, v).key = k
    BY AboutItems DEF Free
<1> HIDE DEF p
<1>8. \A x \in 0 .. t.size - 1 : u.items[x] = IF x = p THEN Item(k, v) ELSE t.items[x]
    BY <1>1, <1>6
<1>9. Latest(u, k, v)
  <2>1. u.items[p] = Item(k, v)
      BY <1>5, <1>8
  <2>2. ASSUME NEW j \in 0 .. a
        PROVE  /\ u.items[Index(k, t.size, j)] # NULL
               /\ u.items[Index(k, t.size, j)] \in ItemsOf(k)
                    => u.items[Index(k, t.size, j)] = Item(k, v)
    <3>1. j \in 0 .. t.size - 1 /\ j \in Nat /\ (a <= j => j = a)
        BY <1>1
    <3>2. Index(k, t.size, j) \in 0 .. t.size - 1
        BY <1>1, <3>1, IndexInTable
    <3>3. CASE Index(k, t.size, j) = p
        BY <1>7, <2>1, <3>3
    <3>4. CASE Index(k, t.size, j) # p
      <4>1. j # a
          BY <3>4 DEF p
      <4>2. t.items[Index(k, t.size, j)] \notin Free \cup ItemsOf(k)
          BY <1>6, <3>1, <4>1
      <4> QED
          BY <1>8, <3>2, <3>4, <4>2 DEF Free
    <3> QED
        BY <3>3, <3>4
  <2> QED
      BY <1>2, <2>1, <2>2 DEF Latest, p
<1>10. ASSUME NEW q \in Keys \ {k}, NEW d \in Contents(q), Latest(t, q, d) PROVE Latest(u, q, d)
  <2>1. Changed(t, u, p, Item(k, v))
      BY <1>2, <1>6 DEF Changed
  <2>2. Item(k, v) \notin ItemsOf(q)
    <3> SUFFICES ASSUME Item(k, v) \in ItemsOf(q) PROVE FALSE
        OBVIOUS
    <3>1. Item(k, v).key = q
        BY ItemsOfKey
    <3> QED
        BY <1>7, <3>1
  <2>3. t.items[p] \notin ItemsOf(q)
    <3> DEFINE c == t.items[p]
    <3>1. c \in Free \cup ItemsOf(k)
        BY <1>6
    <3> HIDE DEF c
    <3> SUFFICES ASSUME c \in ItemsOf(q) PROVE FALSE
        BY DEF c
    <3>2. c \notin Free /\ c.key = q
        BY ItemsOfKey
    <3>3. c.key = k
        BY <3>1, <3>2, ItemsOfKey
    <3> QED
        BY <3>2, <3>3
  <2> QED
      BY <1>2, <1>5, <1>7, <1>10, <2>1, <2>2, <2>3, LatestElsewhere
<1> QED
    BY <1>2, <1>3, <1>9, <1>10

\* Resizing leaves everything where it can be found, and what is not in doubt as it
\* was found.
LEMMA ResizeKeeps ==
    ASSUME NEW t, Sized(t), Reachable(t),
           NEW base \in Nat, base <= 2 * MaxBaseSize, NEW g \in ht_resize(t, base)
    PROVE  /\ Sized(g.table) /\ Reachable(g.table) /\ g.table.base_size \in {t.base_size, base}
           /\ g.doubts \subseteq Keys
           /\ ~ g.table.hung =>
                \A k \in Keys \ g.doubts, d \in AllContents :
                  Latest(t, k, d) => Latest(g.table, k, d)
<1>1. t.size \in Nat \ {0} /\ t.items \in [0 .. t.size - 1 -> Cells]
    BY DEF Sized
<1>2. CASE g = Unchanged(t)
  <2>1. g.table = t /\ g.doubts = {}
      BY <1>2 DEF Unchanged
  <2> QED
      BY <2>1
<1>3. CASE g = Unchanged(Stuck(t))
  <2> DEFINE u == Stuck(t)
  <2>1. g.table = u /\ g.doubts = {}
      BY <1>3 DEF Unchanged
  <2>2. Sized(u) /\ u.size = t.size /\ u.items = t.items /\ u.base_size = t.base_size /\ u.hung
      BY DEF Sized, Stuck
  <2> HIDE DEF u
  <2>3. Reachable(u)
      BY <2>2 DEF Reachable, ReachableAt
  <2> QED
      BY <2>1, <2>2, <2>3
<1>4. CASE base >= HT_INITIAL_BASE_SIZE /\ g \in Refilled(t, base)
  <2>1. base \in HT_INITIAL_BASE_SIZE .. 2 * MaxBaseSize
      BY <1>4, TableAssumption
  <2>2. PICK u \in Recopied(t) :
          g = [table |-> Refills(u, base)[u.size], doubts |-> Doubts(t, u)]
      BY <1>4 DEF Refilled
  <2>3. /\ Sized(u) /\ u.size = t.size
        /\ \A s \in 0 .. t.size - 1 :
             \/ u.items[s] = t.items[s]
             \/ u.items[s] = NULL
             \/ t.items[s] \notin Free /\ u.items[s] = Item(t.items[s].key, Absent)
      BY RecopiedTable
  <2> DEFINE w == Refills(u, base)[u.size]
  <2>4. g.table = w /\ g.doubts = Doubts(t, u)
      BY <2>2
  <2>5. RefilledTo(u, base, u.size)
      BY <1>1, <2>1, <2>3, RefilledAlways
  <2>6. MovedBefore(u, u.size) = Held(u)
      BY DEF MovedBefore, Held
  <2>7. /\ Sized(w) /\ w.base_size = base /\ Reachable(w)
        /\ ~ w.hung => Clean(w) /\ \A k \in Keys : Once(u, k) => Has(Held(w), Held(u), k)
      BY <2>5, <2>6 DEF RefilledTo
  <2> HIDE DEF w
  <2>8. ASSUME ~ w.hung, NEW k \in Keys, k \notin Doubts(t, u), NEW d \in AllContents, Latest(t, k, d)
        PROVE  Latest(w, k, d)
    <3>1. \A r, s \in Holding(t, k) : r = s /\ u.items[s] = t.items[s]
        BY <2>8 DEF Doubts
    <3>2. Holding(u, k) \subseteq Holding(t, k)
      <4> SUFFICES ASSUME NEW s \in Holding(u, k) PROVE s \in Holding(t, k)
          OBVIOUS
      <4>1. s \in 0 .. t.size - 1 /\ u.items[s] \notin Free /\ u.items[s].key = k
          BY <2>3 DEF Holding, LiveOf
      <4>2. CASE u.items[s] = t.items[s]
          BY <4>1, <4>2 DEF Holding, LiveOf
      <4>3. CASE t.items[s] \notin Free /\ u.items[s] = Item(t.items[s].key, Absent)
        <5>1. t.items[s].key = k
            BY <4>1, <4>3, AboutItems
        <5> QED
            BY <4>1, <4>3, <5>1 DEF Holding, LiveOf
      <4>4. u.items[s] # NULL
          BY <4>1 DEF Free
      <4> QED
          BY <2>3, <4>1, <4>2, <4>3, <4>4
    <3>3. Once(u, k)
        BY <3>1, <3>2 DEF Once
    <3>4. Clean(w) /\ Has(Held(w), Held(u), k)
        BY <2>7, <2>8, <3>3
    <3>5. CASE d = Absent /\ Holding(t, k) = {}
      <4>1. \A x \in Held(u) : x.key # k
        <5> SUFFICES ASSUME NEW x \in Held(u), x.key = k PROVE FALSE
            OBVIOUS
        <5>1. PICK s \in 0 .. u.size - 1 : x = u.items[s] /\ x \notin Free
            BY DEF Held
        <5>2. s \in Holding(u, k)
            BY <5>1 DEF Holding, LiveOf
        <5> QED
            BY <3>2, <3>5, <5>2
      <4>2. \A x \in Held(w) : x.key # k
          BY <3>4, <4>1 DEF Has
      <4>3. Holding(w, k) = {}
          BY <4>2 DEF Holding, LiveOf, Held
      <4> QED
          BY <3>5, <4>3 DEF Latest
    <3>6. CASE \E i \in 0 .. t.size - 1 : t.items[Index(k, t.size, i)] = Item(k, d)
      <4>1. PICK i \in 0 .. t.size - 1 : t.items[Index(k, t.size, i)] = Item(k, d)
          BY <3>6
      <4> DEFINE s == Index(k, t.size, i)
      <4>a. i \in Nat
          BY <1>1
      <4>2. s \in 0 .. t.size - 1
          BY <1>1, <4>a, IndexInTable
      <4>3. t.items[s] = Item(k, d)
          BY <4>1
      <4> HIDE DEF s
      <4>4. Item(k, d) \notin Free /\ Item(k, d).key = k
          BY AboutItems
      <4>5. s \in Holding(t, k)
          BY <4>2, <4>3, <4>4 DEF Holding, LiveOf
      <4>6. u.items[s] = Item(k, d)
          BY <3>1, <4>3, <4>5
      <4>7. Item(k, d) \in Held(u)
          BY <2>3, <4>2, <4>4, <4>6 DEF Held
      <4>8. Item(k, d) \in Held(w)
          BY <3>4, <4>4, <4>7 DEF Has
      <4> QED
          BY <2>7, <3>4, <4>8, OneIsLatest DEF Clean
    <3> QED
        BY <2>8, <3>5, <3>6 DEF Latest
  <2> QED
      BY <2>4, <2>7, <2>8 DEF Doubts
<1>5. \/ g = Unchanged(t) \/ g = Unchanged(Stuck(t))
      \/ base >= HT_INITIAL_BASE_SIZE /\ g \in Refilled(t, base)
  <2>1. HT_INITIAL_BASE_SIZE \in Nat
      BY TableAssumption
  <2> QED
      BY <2>1 DEF ht_resize, Unallocated
<1> QED
    BY <1>2, <1>3, <1>4, <1>5


-----------------------------------------------------------------------------
\* The inductive invariant.

\* What is not in doubt is found as dict has it.
Agrees(t, doubts) == \A k \in Keys \ doubts : Latest(t, k, dict[k])

TableInv ==
  /\ Sized(table) /\ table.base_size <= MaxBaseSize
  /\ dict \in [Keys -> AllContents] /\ \A k \in Keys : dict[k] \in Contents(k)
  /\ doubted \subseteq Keys
  /\ Reachable(table)
  /\ ~ table.hung => Agrees(table, doubted)

LEMMA InitTableInv == Init => TableInv
<1> SUFFICES ASSUME Init PROVE TableInv
    OBVIOUS
<1>1. HT_INITIAL_BASE_SIZE \in HT_INITIAL_BASE_SIZE .. 2 * MaxBaseSize
    BY TableAssumption
<1>2. /\ Sized(table) /\ table.base_size = HT_INITIAL_BASE_SIZE /\ ~ table.hung
      /\ \A s \in 0 .. table.size - 1 : table.items[s] = NULL
    BY <1>1, NewTable DEF Init
<1>3. NULL \in Free
    BY DEF Free
<1>4. Reachable(table)
    BY <1>2, <1>3 DEF Reachable
<1>5. \A k \in Keys : Holding(table, k) = {}
    BY <1>2, <1>3 DEF Holding, LiveOf
<1>6. dict = [k \in Keys |-> Absent] /\ doubted = {}
    BY DEF Init
<1>7. Agrees(table, doubted)
    BY <1>5, <1>6 DEF Agrees, Latest
<1>8. HT_INITIAL_BASE_SIZE <= MaxBaseSize
    BY TableAssumption
<1>9. dict \in [Keys -> AllContents] /\ \A k \in Keys : dict[k] \in Contents(k)
    BY <1>6 DEF AllContents, Contents
<1> QED
    BY <1>2, <1>4, <1>6, <1>7, <1>8, <1>9 DEF TableInv

\* The table that an insertion or a deletion goes on with.
LEMMA GrownOrNot ==
    ASSUME TableInv, NEW g \in Grown(table)
    PROVE  /\ Sized(g.table) /\ Reachable(g.table) /\ g.doubts \subseteq Keys
           /\ ~ table.hung /\ ~ g.table.hung => Agrees(g.table, doubted \cup g.doubts)
<1>1. /\ Sized(table) /\ Reachable(table) /\ table.base_size <= MaxBaseSize
      /\ ~ table.hung => Agrees(table, doubted)
      /\ dict \in [Keys -> AllContents]
    BY DEF TableInv
<1>2. table.base_size \in Nat
    BY <1>1, TableAssumption DEF Sized
<1>3. table.base_size * 2 \in Nat /\ table.base_size * 2 <= 2 * MaxBaseSize
    BY <1>1, <1>2, TableAssumption
<1>4. CASE g \in ht_resize(table, table.base_size * 2)
  <2> DEFINE base == table.base_size * 2
  <2>1. base \in Nat /\ base <= 2 * MaxBaseSize /\ g \in ht_resize(table, base)
      BY <1>3, <1>4
  <2> HIDE DEF base
  <2>2. /\ Sized(g.table) /\ Reachable(g.table) /\ g.doubts \subseteq Keys
        /\ ~ g.table.hung =>
             \A k \in Keys \ g.doubts, d \in AllContents :
               Latest(table, k, d) => Latest(g.table, k, d)
      BY <1>1, <2>1, ResizeKeeps
  <2> QED
      BY <1>1, <2>2 DEF Agrees
<1>5. CASE g = Unchanged(table)
  <2>1. g.table = table /\ g.doubts = {}
      BY <1>5 DEF Unchanged
  <2> QED
      BY <1>1, <2>1 DEF Agrees
<1> QED
    BY <1>4, <1>5 DEF Grown

LEMMA ShrunkOrNot ==
    ASSUME TableInv, NEW g \in Shrunk(table)
    PROVE  /\ Sized(g.table) /\ Reachable(g.table) /\ g.table.base_size <= MaxBaseSize
           /\ g.doubts \subseteq Keys
           /\ ~ table.hung /\ ~ g.table.hung => Agrees(g.table, doubted \cup g.doubts)
<1>1. /\ Sized(table) /\ Reachable(table) /\ table.base_size <= MaxBaseSize
      /\ ~ table.hung => Agrees(table, doubted)
      /\ dict \in [Keys -> AllContents]
    BY DEF TableInv
<1>2. table.base_size \in Nat
    BY <1>1, TableAssumption DEF Sized
<1> DEFINE base == table.base_size \div 2
<1>3. base \in Nat /\ base <= table.base_size
    BY <1>2
<1> HIDE DEF base
<1>4. base <= MaxBaseSize /\ base <= 2 * MaxBaseSize
    BY <1>1, <1>2, <1>3, TableAssumption
<1>5. CASE g \in ht_resize(table, base)
  <2>1. /\ Sized(g.table) /\ Reachable(g.table) /\ g.doubts \subseteq Keys
        /\ g.table.base_size \in {table.base_size, base}
        /\ ~ g.table.hung =>
             \A k \in Keys \ g.doubts, d \in AllContents :
               Latest(table, k, d) => Latest(g.table, k, d)
      BY <1>1, <1>3, <1>4, <1>5, ResizeKeeps
  <2>2. g.table.base_size <= MaxBaseSize
      BY <1>1, <1>4, <2>1
  <2> QED
      BY <1>1, <2>1, <2>2 DEF Agrees
<1>6. CASE g = Unchanged(table)
  <2>1. g.table = table /\ g.doubts = {}
      BY <1>6 DEF Unchanged
  <2> QED
      BY <1>1, <2>1 DEF Agrees
<1> QED
    BY <1>5, <1>6 DEF Shrunk, base

LEMMA InsertTableInv ==
    ASSUME TableInv, ~ table.hung, NEW k \in Keys, NEW v \in Values[k], ht_insert(k, v)
    PROVE  TableInv'
<1>1. PICK g \in Grown(table) :
        g.table.base_size <= MaxBaseSize /\ InsertedIn(g.table, g.doubts, k, v)
    BY DEF ht_insert
<1> DEFINE t == g.table
           doubts == g.doubts
<1>2. /\ Sized(t) /\ Reachable(t) /\ doubts \subseteq Keys /\ t.base_size <= MaxBaseSize
      /\ ~ t.hung => Agrees(t, doubted \cup doubts)
      /\ InsertedIn(t, doubts, k, v)
    BY <1>1, GrownOrNot
<1> HIDE DEF t, doubts
<1>3. /\ dict \in [Keys -> AllContents] /\ \A q \in Keys : dict[q] \in Contents(q)
      /\ doubted \subseteq Keys
    BY DEF TableInv
<1>4. v \in Contents(k) /\ Absent \in Contents(k) /\ v \in AllContents
    BY DEF Contents, AllContents
<1>5. ASSUME NEW w \in Contents(k), table' = Inserted(t, k, w), dict' = [dict EXCEPT ![k] = v],
             doubted' \subseteq Keys, doubted \cup doubts \subseteq doubted' \cup {k},
             w = v \/ k \in doubted'
      PROVE  TableInv'
  <2>1. Sized(table') /\ table'.base_size <= MaxBaseSize
      BY <1>2, <1>5, InsertedOutcome
  <2>2. Reachable(table')
      BY <1>2, <1>5, InsertedReachable
  <2>3. dict' \in [Keys -> AllContents] /\ \A q \in Keys : dict'[q] \in Contents(q)
      BY <1>3, <1>4, <1>5
  <2>4. ASSUME ~ table'.hung, NEW q \in Keys \ doubted' PROVE Latest(table', q, dict'[q])
    <3>1. /\ ~ t.hung /\ Latest(table', k, w)
          /\ \A r \in Keys \ {k}, d \in AllContents :
               d \in Contents(r) /\ Latest(t, r, d) => Latest(table', r, d)
        BY <1>2, <1>5, <2>4, InsertedLatest
    <3>2. CASE q = k
        BY <1>3, <1>5, <2>4, <3>1, <3>2
    <3>3. CASE q # k
      <4>1. dict'[q] = dict[q] /\ dict[q] \in Contents(q) /\ dict[q] \in AllContents
          BY <1>3, <1>5, <2>4, <3>3
      <4>2. q \in Keys \ (doubted \cup doubts)
          BY <1>5, <2>4, <3>3
      <4>3. Latest(t, q, dict[q])
          BY <1>2, <3>1, <4>2 DEF Agrees
      <4> QED
          BY <2>4, <3>1, <3>3, <4>1, <4>3
    <3> QED
        BY <3>2, <3>3
  <2> QED
      BY <1>5, <2>1, <2>2, <2>3, <2>4 DEF TableInv, Agrees
<1>6. CASE /\ table' = Inserted(t, k, v) /\ dict' = [dict EXCEPT ![k] = v]
           /\ doubted' = (doubted \cup doubts) \ {k}
  <2>1. doubted' \subseteq Keys /\ doubted \cup doubts \subseteq doubted' \cup {k}
      BY <1>2, <1>3, <1>6
  <2> QED
      BY <1>4, <1>5, <1>6, <2>1
<1>7. CASE table' = t /\ UNCHANGED dict /\ doubted' = doubted \cup doubts
    BY <1>2, <1>3, <1>7 DEF TableInv, Agrees
<1>8. CASE /\ table' = Inserted(t, k, Absent) /\ dict' = [dict EXCEPT ![k] = v]
           /\ doubted' = doubted \cup doubts \cup {k}
  <2>1. doubted' \subseteq Keys /\ doubted \cup doubts \subseteq doubted' \cup {k} /\ k \in doubted'
      BY <1>2, <1>3, <1>8
  <2> QED
      BY <1>4, <1>5, <1>8, <2>1
<1>9. CASE table' = Stuck(t) /\ UNCHANGED <<dict, doubted>>
  <2>1. /\ Sized(table') /\ table'.size = t.size /\ table'.items = t.items
        /\ table'.base_size = t.base_size /\ table'.hung
      BY <1>2, <1>9 DEF Sized, Stuck
  <2>2. Reachable(table')
      BY <1>2, <2>1 DEF Reachable, ReachableAt
  <2> QED
      BY <1>2, <1>3, <1>9, <2>1, <2>2 DEF TableInv
<1> QED
    BY <1>2, <1>6, <1>7, <1>8, <1>9 DEF InsertedIn

\* What a deletion makes of a table.
LEMMA DeletedOutcome ==
    ASSUME NEW t, Sized(t), Reachable(t), NEW k \in Keys
    PROVE  LET u == Deleted(t, k) IN
           /\ Sized(u) /\ u.size = t.size /\ u.base_size = t.base_size /\ Reachable(u)
           /\ \/ u.hung /\ u.items = t.items
              \/ u = t
              \/ /\ u.hung = t.hung
                 /\ \E s \in 0 .. t.size - 1 : t.items[s] \in ItemsOf(k) /\ Changed(t, u, s, DELETED)
<1> DEFINE i == SearchAttempt(t, k)
           s == Index(k, t.size, i)
           u == Deleted(t, k)
<1>1. t \in [base_size : HT_INITIAL_BASE_SIZE .. 2 * MaxBaseSize, size : Nat \ {0},
             count : Int, items : UNION {[0 .. n - 1 -> Cells] : n \in Nat}, hung : BOOLEAN]
      /\ t.items \in [0 .. t.size - 1 -> Cells] /\ t.size \in Nat \ {0}
    BY DEF Sized
<1>2. u = IF i = -1 THEN [t EXCEPT !.hung = TRUE]
          ELSE IF t.items[s] = NULL THEN t
          ELSE [t EXCEPT !.items[s] = DELETED, !.count = @ - 1]
    BY DEF Deleted, Stuck, Tombstone
<1> SUFFICES /\ Sized(u) /\ u.size = t.size /\ u.base_size = t.base_size /\ Reachable(u)
             /\ \/ u.hung /\ u.items = t.items
                \/ u = t
                \/ /\ u.hung = t.hung
                   /\ \E x \in 0 .. t.size - 1 : t.items[x] \in ItemsOf(k) /\ Changed(t, u, x, DELETED)
    OBVIOUS
<1> HIDE DEF u
<1>3. CASE i = -1
  <2>1. u = [t EXCEPT !.hung = TRUE]
      BY <1>2, <1>3
  <2>2. Sized(u) /\ u.base_size = t.base_size
        /\ u.size = t.size /\ u.items = t.items /\ u.hung
      BY <1>1, <2>1 DEF Sized
  <2>3. Reachable(u)
      BY <2>2 DEF Reachable, ReachableAt
  <2> QED
      BY <2>2, <2>3
<1>4. CASE i # -1 /\ t.items[s] = NULL
    BY <1>2, <1>4
<1>5. CASE i # -1 /\ t.items[s] # NULL
  <2>1. i \in 0 .. t.size - 1 /\ t.items[s] \in {NULL} \cup ItemsOf(k)
      BY <1>5, AttemptIsFirst DEF SearchAttempt
  <2>2. i \in Nat
      BY <1>1, <2>1
  <2> HIDE DEF i
  <2>3. s \in 0 .. t.size - 1
      BY <1>1, <2>2, IndexInTable
  <2>4. u = [t EXCEPT !.items[s] = DELETED, !.count = @ - 1]
      BY <1>2, <1>5
  <2>5. t.items[s] \in ItemsOf(k)
      BY <1>5, <2>1
  <2> HIDE DEF s
  <2> DEFINE items == [t.items EXCEPT ![s] = DELETED]
             n == t.count - 1
  <2>6. items \in [0 .. t.size - 1 -> Cells]
      BY <1>1, <2>3 DEF Cells, Free
  <2>7. items \in UNION {[0 .. m - 1 -> Cells] : m \in Nat}
      BY <1>1, <2>6
  <2>8. n \in Int
      BY <1>1
  <2>9. u = [t EXCEPT !.items = items, !.count = n]
      BY <1>1, <2>4
  <2> HIDE DEF items, n
  <2>10. /\ Sized(u) /\ u.base_size = t.base_size /\ u.size = t.size /\ u.items = items
         /\ u.hung = t.hung
      BY <1>1, <2>6, <2>7, <2>8, <2>9 DEF Sized
  <2>11. Changed(t, u, s, DELETED)
      BY <2>10 DEF Changed, items
  <2>12. \A x \in 0 .. t.size - 1 : x # s /\ u.items[x] \notin Free => ReachableAt(u, x)
      BY <2>3, <2>11, MarksDiffer, StillReachable
  <2>13. u.items[s] \in Free
      BY <1>1, <2>3, <2>10 DEF items, Free
  <2>14. Reachable(u)
      BY <2>10, <2>12, <2>13 DEF Reachable
  <2> QED
      BY <2>3, <2>5, <2>10, <2>11, <2>14
<1> QED
    BY <1>3, <1>4, <1>5

LEMMA DeleteTableInv ==
    ASSUME TableInv, ~ table.hung, NEW k \in Keys, ht_delete(k)
    PROVE  TableInv'
<1>1. PICK g \in Shrunk(table) :
        /\ table' = Deleted(g.table, k)
        /\ dict' = [dict EXCEPT ![k] = Absent]
        /\ doubted' = ((doubted \cup g.doubts) \ {k}) \cup {q \in {k} : Holding(table', q) # {}}
    BY DEF ht_delete
<1> DEFINE t == g.table
           doubts == g.doubts
<1>2. /\ Sized(t) /\ Reachable(t) /\ doubts \subseteq Keys /\ t.base_size <= MaxBaseSize
      /\ ~ t.hung => Agrees(t, doubted \cup doubts)
    BY ShrunkOrNot
<1>3. /\ table' = Deleted(t, k)
      /\ doubted' = ((doubted \cup doubts) \ {k}) \cup {q \in {k} : Holding(table', q) # {}}
    BY <1>1
<1> HIDE DEF t, doubts
<1>4. /\ dict \in [Keys -> AllContents] /\ \A q \in Keys : dict[q] \in Contents(q)
      /\ doubted \subseteq Keys /\ Absent \in Contents(k) /\ Absent \in AllContents
    BY DEF TableInv, Contents, AllContents
<1>5. /\ Sized(table') /\ table'.size = t.size /\ table'.base_size = t.base_size /\ Reachable(table')
      /\ \/ table'.hung /\ table'.items = t.items
         \/ table' = t
         \/ /\ table'.hung = t.hung
            /\ \E s \in 0 .. t.size - 1 :
                 t.items[s] \in ItemsOf(k) /\ Changed(t, table', s, DELETED)
    BY <1>2, <1>3, DeletedOutcome
<1>6. /\ dict' \in [Keys -> AllContents] /\ \A q \in Keys : dict'[q] \in Contents(q)
      /\ dict'[k] = Absent /\ \A q \in Keys \ {k} : dict'[q] = dict[q]
    BY <1>1, <1>4
<1>7. doubted' \subseteq Keys
    BY <1>2, <1>3, <1>4
<1>8. ASSUME ~ table'.hung, NEW q \in Keys \ doubted' PROVE Latest(table', q, dict'[q])
  <2>1. CASE q = k
    <3>1. Holding(table', k) = {}
        BY <1>3, <1>8, <2>1
    <3> QED
        BY <1>6, <2>1, <3>1 DEF Latest
  <2>2. CASE q # k
    <3>1. q \in Keys \ (doubted \cup doubts) /\ ~ t.hung
        BY <1>3, <1>5, <1>8, <2>2
    <3>2. Latest(t, q, dict[q]) /\ dict'[q] = dict[q] /\ dict[q] \in Contents(q)
        BY <1>2, <1>4, <1>6, <2>2, <3>1 DEF Agrees
    <3>3. CASE table' = t
        BY <3>2, <3>3
    <3>4. ASSUME NEW s \in 0 .. t.size - 1, t.items[s] \in ItemsOf(k), Changed(t, table', s, DELETED)
          PROVE  Latest(table', q, dict[q])
      <4>1. t.items[s] \notin ItemsOf(q)
        <5> DEFINE c == t.items[s]
        <5>1. c \in ItemsOf(k)
            BY <3>4
        <5> HIDE DEF c
        <5> SUFFICES ASSUME c \in ItemsOf(q) PROVE FALSE
            BY DEF c
        <5>2. c.key = k /\ c.key = q
            BY <1>8, <5>1, ItemsOfKey
        <5> QED
            BY <2>2, <5>2
      <4>2. DELETED \notin ItemsOf(q) /\ DELETED # NULL
        <5>1. DELETED \in Free
            BY DEF Free
        <5> QED
            BY <1>8, <5>1, ItemsOfKey, MarksDiffer
      <4> QED
          BY <1>2, <1>5, <1>8, <3>2, <3>4, <4>1, <4>2, LatestElsewhere
    <3> QED
        BY <1>5, <1>8, <3>2, <3>3, <3>4
  <2> QED
      BY <2>1, <2>2
<1> QED
    BY <1>2, <1>5, <1>6, <1>7, <1>8 DEF TableInv, Agrees

LEMMA NextTableInv == TableInv /\ [Next]_vars => TableInv'
<1> SUFFICES ASSUME TableInv, [Next]_vars PROVE TableInv'
    OBVIOUS
<1>1. ASSUME ~ table.hung, NEW k \in Keys, NEW v \in Values[k], ht_insert(k, v) PROVE TableInv'
    BY <1>1, InsertTableInv
<1>2. ASSUME ~ table.hung, NEW k \in Keys, ht_delete(k) PROVE TableInv'
    BY <1>2, DeleteTableInv
<1>3. CASE UNCHANGED vars
    BY <1>3 DEF vars, TableInv, Agrees
<1> QED
    BY <1>1, <1>2, <1>3 DEF Next

LEMMA SpecTableInv == Spec => []TableInv
<1> QED
    BY InitTableInv, NextTableInv, PTL DEF Spec

\* However many items are inserted, deleted and moved, under any hashes, a key's
\* probe meets its item before an empty slot: hash_table.c's tombstones are there
\* for that.
THEOREM ReachableAlways == Spec => []ItemsAreReachable
<1>1. TableInv => ItemsAreReachable
    BY DEF TableInv, Reachable, ReachableAt, ItemsAreReachable, Live, LiveOf, Slots
<1> QED
    BY <1>1, SpecTableInv, PTL

LEMMA SearchFinds ==
    ASSUME NEW t, Sized(t), NEW k \in Keys, NEW d \in Contents(k), Latest(t, k, d)
    PROVE  ht_search(t, k) \in {d, "hung"}
<1> DEFINE a == SearchAttempt(t, k)
           item == t.items[Index(k, t.size, a)]
<1>1. t.size \in Nat \ {0} /\ t.items \in [0 .. t.size - 1 -> Cells]
    BY DEF Sized
<1>2. CASE a = -1
    BY <1>2 DEF ht_search
<1>3. CASE a # -1
  <2>1. /\ a \in 0 .. t.size - 1 /\ item \in {NULL} \cup ItemsOf(k)
        /\ \A i \in 0 .. t.size - 1 :
             t.items[Index(k, t.size, i)] \in {NULL} \cup ItemsOf(k) => a <= i
      BY <1>3, AttemptIsFirst DEF SearchAttempt
  <2>2. a \in Nat
      BY <1>1, <2>1
  <2>3. ht_search(t, k) = IF item = NULL THEN Absent ELSE item.value
      BY <1>3 DEF ht_search
  <2>4. Index(k, t.size, a) \in 0 .. t.size - 1
    <3> HIDE DEF a
    <3> QED
      BY <1>1, <2>2, IndexInTable
  <2> HIDE DEF a
  <2>5. CASE d = Absent /\ Holding(t, k) = {}
    <3>1. item \notin ItemsOf(k)
        BY <2>4, <2>5, AboutHolding
    <3> QED
        BY <2>1, <2>3, <2>5, <3>1
  <2>6. ASSUME NEW i \in 0 .. t.size - 1,
               t.items[Index(k, t.size, i)] = Item(k, d),
               \A j \in 0 .. i :
                 /\ t.items[Index(k, t.size, j)] # NULL
                 /\ t.items[Index(k, t.size, j)] \in ItemsOf(k)
                      => t.items[Index(k, t.size, j)] = Item(k, d)
        PROVE  ht_search(t, k) = d
    <3>1. Item(k, d) \in ItemsOf(k)
        BY DEF ItemsOf, Contents
    <3>2. a <= i
        BY <2>1, <2>6, <3>1
    <3>3. a \in 0 .. i
        BY <1>1, <2>2, <3>2
    <3>4. item = Item(k, d) /\ item # NULL
        BY <2>1, <2>6, <3>3
    <3>5. Item(k, d).value = d
        BY AboutItems
    <3> HIDE DEF item
    <3> QED
        BY <2>3, <3>4, <3>5
  <2> QED
      BY <2>5, <2>6 DEF Latest
<1> QED
    BY <1>2, <1>3

\* Under any hashes, and through collisions, tombstones, growth and shrinking, a search
\* that ends returns the value last inserted, or nothing when there is none, for
\* every key but those that memory has failed for or that a deletion or a resize
\* found twice, and for those again from their next insertion on.
THEOREM SearchIsRight == Spec => []SearchIsRightUnlessDoubted
<1>1. TableInv => SearchIsRightUnlessDoubted
  <2> SUFFICES ASSUME TableInv, ~ table.hung, NEW k \in Keys \ doubted
               PROVE  ht_search(table, k) \in {dict[k], "hung"}
      BY DEF SearchIsRightUnlessDoubted
  <2>1. Sized(table) /\ dict[k] \in Contents(k) /\ Latest(table, k, dict[k])
      BY DEF TableInv, Agrees
  <2> QED
      BY <2>1, SearchFinds
<1> QED
    BY <1>1, SpecTableInv, PTL

-----------------------------------------------------------------------------
(* Probing a prime number of slots. *)

\* Division with remainder.
LEMMA DivMod ==
    ASSUME NEW x \in Int, NEW n \in Nat \ {0}
    PROVE  \E q \in Int : x = n * q + (x % n) /\ x % n \in 0 .. n - 1
<1>1. x \div n \in Int /\ x = n * (x \div n) + (x % n) /\ x % n \in 0 .. n - 1
    OBVIOUS
<1> QED
    BY <1>1

LEMMA Remainder ==
    ASSUME NEW n \in Nat \ {0}, NEW q \in Int, NEW r \in 0 .. n - 1
    PROVE  (n * q + r) % n = r
<1> DEFINE x == n * q + r
<1>1. x \in Int
    OBVIOUS
<1>2. PICK p \in Int : x = n * p + (x % n) /\ x % n \in 0 .. n - 1
    BY <1>1, DivMod
<1>3. n * (q - p) = (x % n) - r
    BY <1>2
<1>4. CASE q - p > 0
  <2>1. n * (q - p) >= n
      BY <1>4
  <2> QED
      BY <1>2, <1>3, <2>1
<1>5. CASE q - p < 0
  <2>1. n * (q - p) <= - n
      BY <1>5
  <2> QED
      BY <1>2, <1>3, <2>1
<1>6. CASE q - p = 0
    BY <1>2, <1>6
<1> QED
    BY <1>4, <1>5, <1>6

\* A prime divides no multiple of a smaller number before the multiple by itself.
LEMMA PrimeMultiples ==
    ASSUME NEW n \in Nat \ {0}, \A d \in 2 .. n - 1 : n % d # 0,
           NEW b \in 1 .. n - 1, NEW j \in 1 .. n - 1
    PROVE  (j * b) % n # 0
<1> DEFINE S == {i \in 1 .. n - 1 : (i * b) % n = 0}
<1> SUFFICES ASSUME j \in S PROVE FALSE
    OBVIOUS
<1>1. S \subseteq Nat /\ S # {}
  <2>1. \A x \in S : x \in 1 .. n - 1
      OBVIOUS
  <2> HIDE DEF S
  <2> QED
      BY <2>1
<1>2. PICK i \in S : \A x \in S : i <= x
  <2> HIDE DEF S
  <2> QED
      BY <1>1, LeastNatural
<1>3. i \in 1 .. n - 1 /\ (i * b) % n = 0
    BY <1>2
<1>4. i * b \in Int
    BY <1>3
<1>5. PICK q \in Int : i * b = n * q
  <2> DEFINE x == i * b
  <2>1. x \in Int /\ x % n = 0
      BY <1>3, <1>4
  <2> HIDE DEF x
  <2>2. PICK q \in Int : x = n * q + (x % n)
      BY <2>1, DivMod
  <2>3. x = n * q
      BY <2>1, <2>2
  <2> QED
      BY <2>3 DEF x
<1>6. PICK c \in Int : n = i * c + (n % i) /\ n % i \in 0 .. i - 1
  <2>1. n \in Int /\ i \in Nat \ {0}
      BY <1>3
  <2> QED
      BY <2>1, DivMod
<1> DEFINE r == n % i
<1>7. r \in 0 .. i - 1 /\ r = n - i * c
    BY <1>3, <1>6
<1> HIDE DEF r
<1>8. r * b = n * (b - c * q)
  <2>1. r * b = n * b - (i * c) * b
      BY <1>3, <1>7
  <2>2. (i * c) * b = c * (i * b)
      BY <1>3
  <2>3. c * (i * b) = c * (n * q)
      BY <1>5
  <2>4. c * (n * q) = n * (c * q)
      OBVIOUS
  <2>5. n * b - n * (c * q) = n * (b - c * q)
      OBVIOUS
  <2> QED
      BY <2>1, <2>2, <2>3, <2>4, <2>5
<1>9. (r * b) % n = 0
  <2> DEFINE p == b - c * q
  <2>1. p \in Int
      OBVIOUS
  <2>2. r * b = n * p + 0
      BY <1>8
  <2> HIDE DEF p
  <2>3. 0 \in 0 .. n - 1
      OBVIOUS
  <2> QED
      BY <2>1, <2>2, <2>3, Remainder
<1>10. r = 0
  <2> SUFFICES ASSUME r # 0 PROVE FALSE
      OBVIOUS
  <2>1. r \in 1 .. n - 1 /\ ~ (i <= r)
      BY <1>3, <1>7
  <2>2. r \in S
      BY <1>9, <2>1
  <2> QED
      BY <1>2, <2>1, <2>2
<1>11. n % i = 0
    BY <1>10 DEF r
<1>12. i = 1
  <2>1. i \notin 2 .. n - 1
      BY <1>11
  <2> QED
      BY <1>3, <2>1
<1>13. b = n * q
    BY <1>5, <1>12
<1>14. CASE q > 0
  <2>1. n * q >= n
      BY <1>14
  <2> QED
      BY <1>13, <2>1
<1>15. CASE q <= 0
  <2>1. n * q <= 0
      BY <1>15
  <2> QED
      BY <1>13, <2>1
<1> QED
    BY <1>14, <1>15

\* How far a probe that moves goes from attempt to attempt.
LEMMA StepMoves ==
    ASSUME NEW k \in Keys, NEW n \in Nat \ {0}, Moves(k, n)
    PROVE  Step(k, n) \in 1 .. n - 1
<1> DEFINE h == HashB[k] % n
<1>1. HashB[k] \in Nat
    BY TableAssumption
<1>2. h \in 0 .. n - 1
    BY <1>1
<1>3. Step(k, n) = (IF h = 0 THEN 1 ELSE h) + 1
    BY DEF Step
<1> HIDE DEF h
<1>4. Step(k, n) \in 1 .. n \/ (n = 1 /\ Step(k, n) = 2)
    BY <1>2, <1>3
<1>5. Step(k, n) # n
  <2> SUFFICES ASSUME Step(k, n) = n PROVE FALSE
      OBVIOUS
  <2>1. n % n = 0
    <3>1. 0 \in 0 .. n - 1 /\ n = n * 1 + 0
        OBVIOUS
    <3>2. (n * 1 + 0) % n = 0
        BY <3>1, Remainder
    <3> QED
        BY <3>1, <3>2
  <2> QED
      BY <2>1 DEF Moves
<1>6. n # 1
  <2> SUFFICES ASSUME n = 1 PROVE FALSE
      OBVIOUS
  <2>1. Step(k, n) \in Int /\ n = 1
      BY <1>4
  <2>2. Step(k, n) % 1 = 0
      BY <2>1
  <2> QED
      BY <2>1, <2>2 DEF Moves
<1> QED
    BY <1>4, <1>5, <1>6

\* A probe that moves visits every slot of a prime number of them: no two of its
\* attempts meet in one.
LEMMA ProbeVisitsAll ==
    ASSUME NEW k \in Keys, NEW n \in Nat \ {0}, \A d \in 2 .. n - 1 : n % d # 0,
           Moves(k, n), NEW s \in 0 .. n - 1
    PROVE  \E i \in 0 .. n - 1 : Index(k, n, i) = s
<1> DEFINE b == Step(k, n)
           a == HashA[k] % n
           probe == [i \in 0 .. n - 1 |-> Index(k, n, i)]
<1>1. b \in 1 .. n - 1
    BY StepMoves
<1>2. a \in Int
  <2>1. HashA[k] \in Nat
      BY TableAssumption
  <2> QED
      BY <2>1
<1>3. \A i \in 0 .. n - 1 : Index(k, n, i) = (a + i * b) % n
    BY DEF Index
<1> HIDE DEF a, b
<1>4. ASSUME NEW i \in 0 .. n - 1, NEW j \in 0 .. n - 1, i < j
      PROVE  Index(k, n, i) # Index(k, n, j)
  <2> DEFINE x == a + i * b
             y == a + j * b
  <2>1. x \in Int /\ y \in Int /\ y - x = (j - i) * b
      BY <1>1, <1>2
  <2> HIDE DEF x, y
  <2> SUFFICES ASSUME x % n = y % n PROVE FALSE
      BY <1>3 DEF x, y
  <2>2. PICK p \in Int : x = n * p + (x % n) /\ x % n \in 0 .. n - 1
      BY <2>1, DivMod
  <2>3. PICK q \in Int : y = n * q + (y % n)
      BY <2>1, DivMod
  <2> DEFINE m == q - p
  <2>4. m \in Int /\ y - x = n * m + 0
      BY <2>2, <2>3
  <2> HIDE DEF m
  <2>5. 0 \in 0 .. n - 1
      OBVIOUS
  <2>6. (n * m + 0) % n = 0
      BY <2>4, <2>5, Remainder
  <2>7. j - i \in 1 .. n - 1
      BY <1>4
  <2>8. ((j - i) * b) % n # 0
      BY <1>1, <2>7, PrimeMultiples
  <2> QED
      BY <2>1, <2>4, <2>6, <2>8
<1>5. probe \in [0 .. n - 1 -> 0 .. n - 1]
  <2>1. \A i \in 0 .. n - 1 : Index(k, n, i) \in 0 .. n - 1
    <3> SUFFICES ASSUME NEW i \in 0 .. n - 1 PROVE Index(k, n, i) \in 0 .. n - 1
        OBVIOUS
    <3>1. i \in Nat
        OBVIOUS
    <3> QED
        BY <3>1, IndexInTable
  <2> QED
      BY <2>1
<1>6. \A i, j \in 0 .. n - 1 : probe[i] = probe[j] => i = j
  <2> SUFFICES ASSUME NEW i \in 0 .. n - 1, NEW j \in 0 .. n - 1, i # j
               PROVE  probe[i] # probe[j]
      OBVIOUS
  <2>1. i < j \/ j < i
      OBVIOUS
  <2> QED
      BY <1>4, <2>1
<1> HIDE DEF probe
<1>7. probe \in Injection(0 .. n - 1, 0 .. n - 1)
    BY <1>5, <1>6 DEF Injection, IsInjective
<1>8. IsFiniteSet(0 .. n - 1)
    BY FS_Interval
<1>9. probe \in Surjection(0 .. n - 1, 0 .. n - 1)
    BY <1>7, <1>8, FS_Injection
<1>10. PICK i \in 0 .. n - 1 : probe[i] = s
    BY <1>9 DEF Surjection
<1> QED
    BY <1>10 DEF probe

-----------------------------------------------------------------------------
\* The count, and the size.

\* The count is that of the items, and the size what the base size asks for.
Counted(t) ==
  /\ t.count = Cardinality(LiveOf(t))
  /\ t.base_size \in BaseSizes /\ t.size = next_prime(t.base_size)

LEMMA LiveIsFinite ==
    ASSUME NEW t, Sized(t)
    PROVE  /\ IsFiniteSet(LiveOf(t)) /\ Cardinality(LiveOf(t)) \in Nat
           /\ Cardinality(LiveOf(t)) <= t.size
           /\ Cardinality(LiveOf(t)) = t.size => LiveOf(t) = 0 .. t.size - 1
<1>1. t.size \in Nat \ {0}
    BY DEF Sized
<1>2. IsFiniteSet(0 .. t.size - 1) /\ Cardinality(0 .. t.size - 1) = t.size
  <2>1. 0 \in Int /\ t.size - 1 \in Int /\ ~ (0 > t.size - 1) /\ (t.size - 1) - 0 + 1 = t.size
      BY <1>1
  <2> QED
      BY <2>1, FS_Interval
<1>3. LiveOf(t) \in SUBSET (0 .. t.size - 1)
    BY DEF LiveOf
<1> QED
    BY <1>2, <1>3, FS_Subset, FS_CardinalityType

LEMMA InsertedCounted ==
    ASSUME NEW t, Sized(t), Counted(t), NEW k \in Keys, NEW v \in Contents(k)
    PROVE  LET u == Inserted(t, k, v) IN Counted(u) /\ u.count <= t.count + 1
<1> DEFINE a == InsertAttempt(t, k)
           s == Index(k, t.size, a)
           u == Inserted(t, k, v)
<1>1. /\ t \in [base_size : HT_INITIAL_BASE_SIZE .. 2 * MaxBaseSize, size : Nat \ {0},
                count : Int, items : UNION {[0 .. n - 1 -> Cells] : n \in Nat}, hung : BOOLEAN]
      /\ t.items \in [0 .. t.size - 1 -> Cells] /\ t.size \in Nat \ {0}
    BY DEF Sized
<1>2. CASE a = -1
  <2>1. u = [t EXCEPT !.hung = TRUE]
      BY <1>2 DEF Inserted, Stuck
  <2>2. u.count = t.count /\ u.size = t.size /\ u.items = t.items /\ u.base_size = t.base_size
      BY <1>1, <2>1
  <2> HIDE DEF u
  <2>3. LiveOf(u) = LiveOf(t)
      BY <2>2 DEF LiveOf
  <2>4. Counted(u) /\ u.count <= t.count + 1
      BY <1>1, <2>2, <2>3 DEF Counted
  <2> QED
      BY <2>4 DEF u
<1>3. CASE a # -1
  <2>1. a \in 0 .. t.size - 1
      BY <1>3, AttemptIsFirst DEF InsertAttempt
  <2>2. a \in Nat
      BY <1>1, <2>1
  <2> HIDE DEF a
  <2>3. s \in 0 .. t.size - 1
      BY <1>1, <2>2, IndexInTable
  <2>4. u = [t EXCEPT !.items[s] = Item(k, v),
                      !.count = IF t.items[s] \in Free THEN @ + 1 ELSE @]
      BY <1>3 DEF Inserted, a
  <2> HIDE DEF s
  <2> DEFINE items == [t.items EXCEPT ![s] = Item(k, v)]
             count == IF t.items[s] \in Free THEN t.count + 1 ELSE t.count
  <2>5. u = [t EXCEPT !.items = items, !.count = count]
      BY <1>1, <2>4
  <2> HIDE DEF u
  <2>6. u.items = items /\ u.count = count /\ u.size = t.size /\ u.base_size = t.base_size
    <3> HIDE DEF items, count
    <3> QED
        BY <1>1, <2>5
  <2>7. Item(k, v) \notin Free
      BY AboutItems
  <2>8. items[s] \notin Free /\ \A x \in 0 .. t.size - 1 : x # s => items[x] = t.items[x]
      BY <1>1, <2>3, <2>7
  <2> HIDE DEF items
  <2>9. LiveOf(u) = LiveOf(t) \cup {s}
      BY <2>3, <2>6, <2>8 DEF LiveOf
  <2>10. s \in LiveOf(t) <=> t.items[s] \notin Free
      BY <2>3 DEF LiveOf
  <2>11. Cardinality(LiveOf(u)) = IF s \in LiveOf(t) THEN Cardinality(LiveOf(t))
                                  ELSE Cardinality(LiveOf(t)) + 1
      BY <2>9, LiveIsFinite, FS_AddElement
  <2>12. t.count = Cardinality(LiveOf(t)) /\ t.count \in Int
      BY <1>1 DEF Counted
  <2>13. u.count = Cardinality(LiveOf(u)) /\ u.count <= t.count + 1
      BY <2>6, <2>10, <2>11, <2>12 DEF count
  <2> QED
      BY <2>6, <2>13 DEF Counted, u
<1> QED
    BY <1>2, <1>3

\* A new table is empty, and gains at most one item from each slot of the old one.
LEMMA RefilledCounted ==
    ASSUME NEW t, Sized(t), NEW base \in BaseSizes
    PROVE  \A n \in 0 .. t.size :
             Counted(Refills(t, base)[n]) /\ Refills(t, base)[n].count <= n
<1> DEFINE R == Refills(t, base)
           Good(n) == Counted(R[n]) /\ R[n].count <= n
           Failing == {n \in 0 .. t.size : ~ Good(n)}
<1>1. t.size \in Nat \ {0} /\ t.items \in [0 .. t.size - 1 -> Cells]
    BY DEF Sized
<1>2. base \in HT_INITIAL_BASE_SIZE .. 2 * MaxBaseSize
    BY DEF BaseSizes
<1>3. Good(0)
  <2> DEFINE u == R[0]
  <2>1. u = ht_new_sized(base)
      BY RefillsAre
  <2>2. Sized(u) /\ \A s \in 0 .. u.size - 1 : u.items[s] = NULL
      BY <1>2, <2>1, NewTable
  <2>3. u.count = 0 /\ u.base_size = base /\ u.size = next_prime(base)
      BY <2>1 DEF ht_new_sized
  <2> HIDE DEF u
  <2>4. LiveOf(u) = {}
      BY <2>2 DEF LiveOf, Free
  <2>5. Cardinality(LiveOf(u)) = 0
      BY <2>4, FS_EmptySet
  <2> QED
      BY <2>3, <2>5 DEF Counted, u
<1>4. ASSUME NEW n \in 1 .. t.size, Good(n - 1) PROVE Good(n)
  <2> DEFINE old == R[n - 1]
             new == R[n]
             item == t.items[n - 1]
  <2>1. n \in 0 .. t.size /\ n - 1 \in 0 .. t.size /\ n # 0 /\ n - 1 \in 0 .. t.size - 1
      BY <1>1
  <2>2. new = Refill(t, base, R, n)
      BY <2>1, RefillsAre
  <2>3. new = IF item \in Free THEN old ELSE Inserted(old, item.key, item.value)
      BY <2>1, <2>2 DEF Refill
  <2>4. Sized(old)
      BY <1>2, <2>1, RefilledAlways DEF RefilledTo
  <2>5. Counted(old) /\ old.count <= n - 1 /\ old.count \in Int
      BY <1>4, <2>4 DEF Sized
  <2>6. CASE item \in Free
    <3>1. new = old
        BY <2>3, <2>6
    <3> QED
        BY <1>4, <2>5, <3>1
  <2>7. CASE item \notin Free
    <3>1. item \in Cells
        BY <1>1, <2>1
    <3>2. item.key \in Keys /\ item.value \in Contents(item.key)
        BY <2>7, <3>1, CellIsItem
    <3>3. new = Inserted(old, item.key, item.value)
        BY <2>3, <2>7
    <3> HIDE DEF old, new, item
    <3>4. Counted(new) /\ new.count <= old.count + 1
        BY <2>4, <2>5, <3>2, <3>3, InsertedCounted
    <3>5. Sized(new)
        BY <2>4, <3>2, <3>3, InsertedOutcome
    <3>6. new.count \in Int
        BY <3>5 DEF Sized
    <3> QED
        BY <2>1, <2>5, <3>4, <3>6 DEF new
  <2> QED
      BY <2>6, <2>7
<1> HIDE DEF Good
<1> SUFFICES ASSUME Failing # {} PROVE FALSE
    BY DEF Good
<1>5. Failing \subseteq Nat
    BY <1>1
<1>6. Min(Failing) \in Failing /\ \A x \in Failing : Min(Failing) <= x
    BY <1>5, LeastNatural
<1>7. PICK n \in 0 .. t.size : n \in Failing /\ \A x \in Failing : n <= x
    BY <1>6
<1>8. n # 0
    BY <1>3, <1>7
<1>9. n \in 1 .. t.size /\ n - 1 \in 0 .. t.size /\ ~ (n <= n - 1)
    BY <1>1, <1>8
<1>10. Good(n - 1)
    BY <1>7, <1>9
<1> QED
    BY <1>4, <1>7, <1>9, <1>10

\* A resized table has the base size asked for, and no more items than the old one
\* had slots.
LEMMA ResizeCounted ==
    ASSUME NEW t, Sized(t), Counted(t), NEW base \in Nat,
           base >= HT_INITIAL_BASE_SIZE => base \in BaseSizes,
           NEW g \in ht_resize(t, base)
    PROVE  /\ Counted(g.table)
           /\ base >= HT_INITIAL_BASE_SIZE /\ g \in Refilled(t, base)
                => g.table.base_size = base /\ g.table.count <= t.size
<1>1. HT_INITIAL_BASE_SIZE \in Nat /\ t.size \in Nat
    BY TableAssumption DEF Sized
<1>2. ASSUME base >= HT_INITIAL_BASE_SIZE, g \in Refilled(t, base)
      PROVE  Counted(g.table) /\ g.table.base_size = base /\ g.table.count <= t.size
  <2>1. base \in BaseSizes /\ base \in HT_INITIAL_BASE_SIZE .. 2 * MaxBaseSize
      BY <1>2 DEF BaseSizes
  <2>2. PICK u \in Recopied(t) : g.table = Refills(u, base)[u.size]
      BY <1>2 DEF Refilled
  <2>3. Sized(u) /\ u.size = t.size /\ u.size \in 0 .. u.size
      BY <1>1, RecopiedTable
  <2>4. Counted(g.table) /\ g.table.count <= t.size
      BY <2>1, <2>2, <2>3, RefilledCounted
  <2>5. g.table.base_size = base
      BY <2>1, <2>2, <2>3, RefilledAlways DEF RefilledTo
  <2> QED
      BY <2>4, <2>5
<1>3. CASE g = Unchanged(t)
  <2>1. g.table = t
      BY <1>3 DEF Unchanged
  <2> QED
      BY <1>2, <2>1
<1>4. CASE g = Unchanged(Stuck(t))
  <2> DEFINE u == Stuck(t)
  <2>1. g.table = u
      BY <1>4 DEF Unchanged
  <2>2. u.size = t.size /\ u.items = t.items /\ u.base_size = t.base_size /\ u.count = t.count
      BY DEF Sized, Stuck
  <2> HIDE DEF u
  <2>3. LiveOf(u) = LiveOf(t)
      BY <2>2 DEF LiveOf
  <2>4. Counted(u)
      BY <2>2, <2>3 DEF Counted
  <2> QED
      BY <1>2, <2>1, <2>4
<1>5. \/ g = Unchanged(t) \/ g = Unchanged(Stuck(t))
      \/ base >= HT_INITIAL_BASE_SIZE /\ g \in Refilled(t, base)
    BY <1>1 DEF ht_resize, Unallocated
<1> QED
    BY <1>2, <1>3, <1>4, <1>5

\* Doubling leads from a base size to another.
LEMMA Doubled ==
    ASSUME NEW base \in BaseSizes, base <= MaxBaseSize
    PROVE  /\ base * 2 \in BaseSizes /\ base * 2 \in Nat
           /\ base * 2 >= HT_INITIAL_BASE_SIZE
<1>1. PICK m \in 1 .. base : base = HT_INITIAL_BASE_SIZE * m /\ \A d \in 2 .. m : m % d = 0 => d % 2 = 0
    BY DEF BaseSizes
<1>2. base \in HT_INITIAL_BASE_SIZE .. 2 * MaxBaseSize /\ HT_INITIAL_BASE_SIZE \in Nat \ {0} /\ MaxBaseSize \in Nat
    BY TableAssumption DEF BaseSizes
<1> DEFINE n == m * 2
<1>3. n \in 1 .. base * 2 /\ base * 2 = HT_INITIAL_BASE_SIZE * n
    BY <1>1, <1>2
<1>4. ASSUME NEW d \in 2 .. n, n % d = 0 PROVE d % 2 = 0
  <2> SUFFICES ASSUME d % 2 # 0 PROVE FALSE
      OBVIOUS
  <2>1. m \in Nat \ {0} /\ n \in Int /\ d \in Nat \ {0} /\ d >= 2
      BY <1>1, <1>2, <1>4
  <2>2. PICK q \in Int : n = d * q + (n % d)
      BY <2>1, DivMod
  <2>3. m * 2 = d * q
      BY <1>4, <2>1, <2>2
  <2>4. PICK e \in Int : d = 2 * e + (d % 2) /\ d % 2 \in 0 .. 2 - 1
    <3>1. d \in Int /\ 2 \in Nat \ {0}
        BY <2>1
    <3> QED
        BY <3>1, DivMod
  <2>5. d = 2 * e + 1
      BY <2>4
  <2>6. PICK f \in Int : q = 2 * f + (q % 2) /\ q % 2 \in 0 .. 2 - 1
    <3>1. 2 \in Nat \ {0}
        OBVIOUS
    <3> QED
        BY <3>1, DivMod
  <2>7. d * q = 2 * (e * q) + q
      BY <2>5
  <2>8. e * q \in Int
      OBVIOUS
  <2>9. q = 2 * (m - e * q)
      BY <2>1, <2>3, <2>7, <2>8
  <2>10. q = 2 * f
      BY <2>1, <2>6, <2>8, <2>9
  <2>11. d * q = 2 * (d * f)
      BY <2>1, <2>10
  <2>12. m = d * f + 0
      BY <2>1, <2>3, <2>11
  <2>13. m % d = 0
    <3>1. 0 \in 0 .. d - 1
        BY <2>1
    <3>2. (d * f + 0) % d = 0
        BY <2>1, <3>1, Remainder
    <3> QED
        BY <2>12, <3>2
  <2>14. f >= 1
    <3> SUFFICES ASSUME f <= 0 PROVE FALSE
        OBVIOUS
    <3>1. d * f <= 0
        BY <2>1
    <3> QED
        BY <2>1, <2>12, <3>1
  <2>15. d <= d * f
      BY <2>1, <2>14
  <2>16. d \in 2 .. m
      BY <2>1, <2>12, <2>15
  <2> QED
      BY <1>1, <2>13, <2>16
<1> HIDE DEF n
<1>5. base * 2 \in HT_INITIAL_BASE_SIZE .. 2 * MaxBaseSize
    BY <1>2
<1>6. base * 2 \in BaseSizes
    BY <1>3, <1>4, <1>5 DEF BaseSizes
<1> QED
    BY <1>2, <1>5, <1>6

\* Halving leads back, or below the initial size, where there is no resizing.
LEMMA Halved ==
    ASSUME NEW base \in BaseSizes
    PROVE  /\ base \div 2 \in Nat
           /\ base \div 2 >= HT_INITIAL_BASE_SIZE => base \div 2 \in BaseSizes
<1>1. PICK m \in 1 .. base : base = HT_INITIAL_BASE_SIZE * m /\ \A d \in 2 .. m : m % d = 0 => d % 2 = 0
    BY DEF BaseSizes
<1>2. base \in HT_INITIAL_BASE_SIZE .. 2 * MaxBaseSize /\ HT_INITIAL_BASE_SIZE \in Nat \ {0} /\ MaxBaseSize \in Nat
    BY TableAssumption DEF BaseSizes
<1>3. base \div 2 \in Nat /\ 2 * (base \div 2) <= base /\ base \in Nat
    BY <1>2
<1>4. ASSUME base \div 2 >= HT_INITIAL_BASE_SIZE PROVE base \div 2 \in BaseSizes
  <2>1. m # 1
      BY <1>1, <1>2, <1>3, <1>4
  <2>2. m \in Nat \ {0} /\ m \in 2 .. m
      BY <1>1, <1>2, <2>1
  <2>3. m % m = 0
    <3>1. 0 \in 0 .. m - 1 /\ m = m * 1 + 0
        BY <2>2
    <3>2. (m * 1 + 0) % m = 0
        BY <2>2, <3>1, Remainder
    <3> QED
        BY <3>1, <3>2
  <2>4. m % 2 = 0
      BY <1>1, <2>2, <2>3
  <2>5. PICK h \in Int : m = 2 * h + (m % 2)
    <3>1. m \in Int /\ 2 \in Nat \ {0}
        BY <2>2
    <3> QED
        BY <3>1, DivMod
  <2>6. m = 2 * h /\ h \in 1 .. m
      BY <2>2, <2>4, <2>5
  <2>7. base = 2 * (HT_INITIAL_BASE_SIZE * h)
      BY <1>1, <1>2, <2>6
  <2> DEFINE p == HT_INITIAL_BASE_SIZE * h
  <2>8. p \in Int
      BY <1>2
  <2>9. base \div 2 = p
    <3> HIDE DEF p
    <3>1. base = 2 * p
        BY <2>7 DEF p
    <3> QED
        BY <2>8, <3>1
  <2>10. h <= p
      BY <1>2, <2>6
  <2>11. \A d \in 2 .. h : h % d = 0 => d % 2 = 0
    <3> SUFFICES ASSUME NEW d \in 2 .. h, h % d = 0 PROVE d % 2 = 0
        OBVIOUS
    <3>1. d \in Nat \ {0} /\ h \in Int /\ d \in 2 .. m
        BY <2>2, <2>6
    <3>2. PICK q \in Int : h = d * q + (h % d)
        BY <3>1, DivMod
    <3>3. h = d * q
        BY <3>1, <3>2
    <3>4. m = d * (2 * q) + 0
        BY <2>6, <3>1, <3>3
    <3>5. m % d = 0
      <4>1. 0 \in 0 .. d - 1 /\ 2 * q \in Int
          BY <3>1
      <4>2. (d * (2 * q) + 0) % d = 0
          BY <3>1, <4>1, Remainder
      <4> QED
          BY <3>4, <4>2
    <3> QED
        BY <1>1, <3>1, <3>5
  <2>12. p \in HT_INITIAL_BASE_SIZE .. 2 * MaxBaseSize /\ h \in 1 .. p
      BY <1>2, <1>3, <1>4, <2>6, <2>8, <2>9, <2>10
  <2>13. \E x \in 1 .. p : p = HT_INITIAL_BASE_SIZE * x /\ \A d \in 2 .. x : x % d = 0 => d % 2 = 0
      BY <2>11, <2>12
  <2> HIDE DEF p
  <2>14. p \in BaseSizes
      BY <2>12, <2>13 DEF BaseSizes
  <2> QED
      BY <2>9, <2>14
<1> QED
    BY <1>3, <1>4

\* The table that an insertion goes on with is counted, whether it grew or not.
LEMMA GrownCounted ==
    ASSUME TableInv, Counted(table), NEW g \in Grown(table)
    PROVE  Counted(g.table)
<1> DEFINE base == table.base_size * 2
<1>1. Sized(table) /\ table.base_size \in BaseSizes /\ table.base_size <= MaxBaseSize
    BY DEF TableInv, Counted
<1>2. base \in BaseSizes /\ base \in Nat
    BY <1>1, Doubled
<1> HIDE DEF base
<1>3. CASE g \in ht_resize(table, base)
    BY <1>1, <1>2, <1>3, ResizeCounted
<1>4. CASE g = Unchanged(table)
    BY <1>4 DEF Unchanged
<1> QED
    BY <1>3, <1>4 DEF Grown, base

LEMMA ShrunkCounted ==
    ASSUME TableInv, Counted(table), NEW g \in Shrunk(table)
    PROVE  Counted(g.table)
<1> DEFINE base == table.base_size \div 2
<1>1. Sized(table) /\ table.base_size \in BaseSizes
    BY DEF TableInv, Counted
<1>2. base \in Nat /\ (base >= HT_INITIAL_BASE_SIZE => base \in BaseSizes)
    BY <1>1, Halved
<1> HIDE DEF base
<1>3. CASE g \in ht_resize(table, base)
    BY <1>1, <1>2, <1>3, ResizeCounted
<1>4. CASE g = Unchanged(table)
    BY <1>4 DEF Unchanged
<1> QED
    BY <1>3, <1>4 DEF Shrunk, base

LEMMA InitCounted == Init => Counted(table)
<1> SUFFICES ASSUME Init PROVE Counted(table)
    OBVIOUS
<1>1. HT_INITIAL_BASE_SIZE \in HT_INITIAL_BASE_SIZE .. 2 * MaxBaseSize /\ HT_INITIAL_BASE_SIZE \in Nat \ {0}
    BY TableAssumption
<1>2. HT_INITIAL_BASE_SIZE \in BaseSizes
  <2>1. 1 \in 1 .. HT_INITIAL_BASE_SIZE /\ HT_INITIAL_BASE_SIZE = HT_INITIAL_BASE_SIZE * 1
      BY <1>1
  <2>2. \A d \in 2 .. 1 : FALSE
      OBVIOUS
  <2> QED
      BY <1>1, <2>1, <2>2 DEF BaseSizes
<1>3. \A s \in 0 .. table.size - 1 : table.items[s] = NULL
    BY <1>1, NewTable DEF Init
<1>4. /\ table.count = 0 /\ table.base_size = HT_INITIAL_BASE_SIZE
      /\ table.size = next_prime(HT_INITIAL_BASE_SIZE)
    BY DEF Init, ht_new_sized
<1>5. LiveOf(table) = {}
    BY <1>3 DEF LiveOf, Free
<1>6. Cardinality(LiveOf(table)) = 0
    BY <1>5, FS_EmptySet
<1> QED
    BY <1>2, <1>4, <1>6 DEF Counted

\* A deletion takes one item away.
LEMMA DeletedCounted ==
    ASSUME NEW t, Sized(t), Reachable(t), Counted(t), NEW k \in Keys
    PROVE  Counted(Deleted(t, k))
<1> DEFINE i == SearchAttempt(t, k)
           s == Index(k, t.size, i)
           u == Deleted(t, k)
<1>1. t \in [base_size : HT_INITIAL_BASE_SIZE .. 2 * MaxBaseSize, size : Nat \ {0},
             count : Int, items : UNION {[0 .. n - 1 -> Cells] : n \in Nat}, hung : BOOLEAN]
      /\ t.items \in [0 .. t.size - 1 -> Cells] /\ t.size \in Nat \ {0}
    BY DEF Sized
<1>2. u = IF i = -1 THEN [t EXCEPT !.hung = TRUE]
          ELSE IF t.items[s] = NULL THEN t
          ELSE [t EXCEPT !.items[s] = DELETED, !.count = @ - 1]
    BY DEF Deleted, Stuck, Tombstone
<1> SUFFICES Counted(u)
    OBVIOUS
<1> HIDE DEF u
<1>3. CASE i = -1
  <2>1. u = [t EXCEPT !.hung = TRUE]
      BY <1>2, <1>3
  <2>2. u.count = t.count /\ u.size = t.size /\ u.items = t.items /\ u.base_size = t.base_size
      BY <1>1, <2>1
  <2>3. LiveOf(u) = LiveOf(t)
      BY <2>2 DEF LiveOf
  <2> QED
      BY <2>2, <2>3 DEF Counted
<1>4. CASE i # -1 /\ t.items[s] = NULL
    BY <1>2, <1>4
<1>5. CASE i # -1 /\ t.items[s] # NULL
  <2>1. i \in 0 .. t.size - 1 /\ t.items[s] \in {NULL} \cup ItemsOf(k)
      BY <1>5, AttemptIsFirst DEF SearchAttempt
  <2>2. i \in Nat
      BY <1>1, <2>1
  <2>3. t.items[s] \notin Free
    <3> DEFINE c == t.items[s]
    <3>1. c \in ItemsOf(k)
        BY <1>5, <2>1
    <3> HIDE DEF c
    <3>2. c \notin Free
        BY <3>1, ItemsOfKey
    <3> QED
        BY <3>2 DEF c
  <2> HIDE DEF i
  <2>4. s \in 0 .. t.size - 1
      BY <1>1, <2>2, IndexInTable
  <2>5. u = [t EXCEPT !.items[s] = DELETED, !.count = @ - 1]
      BY <1>2, <1>5
  <2> HIDE DEF s
  <2> DEFINE items == [t.items EXCEPT ![s] = DELETED]
             n == t.count - 1
  <2>6. u = [t EXCEPT !.items = items, !.count = n]
      BY <1>1, <2>5
  <2>7. u.items = items /\ u.count = n /\ u.size = t.size /\ u.base_size = t.base_size
    <3> HIDE DEF items, n
    <3> QED
        BY <1>1, <2>6
  <2>8. DELETED \in Free
      BY DEF Free
  <2>9. items[s] \in Free /\ \A x \in 0 .. t.size - 1 : x # s => items[x] = t.items[x]
      BY <1>1, <2>4, <2>8
  <2> HIDE DEF items
  <2>10. LiveOf(u) = LiveOf(t) \ {s}
      BY <2>4, <2>7, <2>9 DEF LiveOf
  <2>11. s \in LiveOf(t)
      BY <2>3, <2>4 DEF LiveOf
  <2>12. Cardinality(LiveOf(u)) = Cardinality(LiveOf(t)) - 1
      BY <2>10, <2>11, LiveIsFinite, FS_RemoveElement
  <2> QED
      BY <2>7, <2>12 DEF Counted
<1> QED
    BY <1>3, <1>4, <1>5

LEMMA StuckCounted ==
    ASSUME NEW t, Sized(t), Counted(t)
    PROVE  Counted(Stuck(t))
<1> DEFINE u == Stuck(t)
<1>1. u.size = t.size /\ u.items = t.items /\ u.base_size = t.base_size /\ u.count = t.count
    BY DEF Sized, Stuck
<1> HIDE DEF u
<1>2. LiveOf(u) = LiveOf(t)
    BY <1>1 DEF LiveOf
<1>3. Counted(u)
    BY <1>1, <1>2 DEF Counted
<1> QED
    BY <1>3 DEF u

LEMMA NextCounted == TableInv /\ Counted(table) /\ [Next]_vars => Counted(table)'
<1> SUFFICES ASSUME TableInv, Counted(table), [Next]_vars PROVE Counted(table')
    OBVIOUS
<1>1. ASSUME NEW k \in Keys, NEW v \in Values[k], ht_insert(k, v) PROVE Counted(table')
  <2>1. PICK g \in Grown(table) :
          \/ table' = Inserted(g.table, k, v) \/ table' = g.table
          \/ table' = Inserted(g.table, k, Absent) \/ table' = Stuck(g.table)
      BY <1>1 DEF ht_insert, InsertedIn
  <2>2. Sized(g.table) /\ Counted(g.table)
      BY GrownOrNot, GrownCounted
  <2>3. v \in Contents(k) /\ Absent \in Contents(k)
      BY DEF Contents
  <2>4. Counted(Inserted(g.table, k, v)) /\ Counted(Inserted(g.table, k, Absent))
      BY <2>2, <2>3, InsertedCounted
  <2> QED
      BY <2>1, <2>2, <2>4, StuckCounted
<1>2. ASSUME NEW k \in Keys, ht_delete(k) PROVE Counted(table')
  <2>1. PICK g \in Shrunk(table) : table' = Deleted(g.table, k)
      BY <1>2 DEF ht_delete
  <2>2. Sized(g.table) /\ Reachable(g.table) /\ Counted(g.table)
      BY ShrunkOrNot, ShrunkCounted
  <2> QED
      BY <2>1, <2>2, DeletedCounted
<1>3. CASE UNCHANGED vars
    BY <1>3 DEF vars
<1> QED
    BY <1>1, <1>2, <1>3 DEF Next

LEMMA CountedAlways == Spec => []Counted(table)
<1> QED
    BY InitCounted, NextCounted, SpecTableInv, PTL DEF Spec

\* The table that an insertion goes on with has a free slot, if it need not grow or can.
LEMMA GrownHasRoom ==
    ASSUME TableInv, Counted(table), NEW t \in WithRoom(table)
    PROVE  Sized(t) /\ Counted(t) /\ t.count < t.size
<1> DEFINE base == table.base_size
<1>1. Sized(table) /\ base \in BaseSizes /\ base <= MaxBaseSize /\ table.size = next_prime(base)
    BY DEF TableInv, Counted
<1>2. table.size \in Nat \ {0} /\ table.count \in Nat
    BY <1>1, LiveIsFinite DEF Sized, Counted
<1>3. CASE ~ (load(table) > 70)
  <2> DEFINE c == table.count
             n == table.size
             q == (c * 100) \div n
  <2>1. t = table
      BY <1>3 DEF WithRoom, Full
  <2>2. q = load(table)
      BY DEF load
  <2> HIDE DEF c, n
  <2>3. c \in Nat /\ n \in Nat \ {0} /\ c * 100 \in Nat
      BY <1>2 DEF c, n
  <2>4. q \in Int /\ c * 100 = n * q + ((c * 100) % n) /\ (c * 100) % n \in 0 .. n - 1
      BY <2>3
  <2> HIDE DEF q
  <2>5. q <= 70
      BY <1>3, <2>2, <2>4
  <2>6. n * q <= n * 70
      BY <2>3, <2>4, <2>5
  <2>7. c < n
      BY <2>3, <2>4, <2>6
  <2> QED
      BY <1>1, <2>1, <2>7 DEF c, n
<1>4. CASE load(table) > 70
  <2> DEFINE double == base * 2
  <2>1. PICK g \in Refilled(table, double) : t = g.table
    <3>1. table.base_size * 2 = double
        OBVIOUS
    <3> HIDE DEF double
    <3> QED
      BY <1>4, <3>1 DEF WithRoom, Full
  <2>2. double \in BaseSizes /\ double \in Nat /\ double >= HT_INITIAL_BASE_SIZE
      BY <1>1, Doubled
  <2>3. ~ (double < HT_INITIAL_BASE_SIZE) /\ double <= 2 * MaxBaseSize /\ double = 2 * base
      BY <1>1, <2>2, TableAssumption DEF BaseSizes
  <2> HIDE DEF double
  <2>4. g \in ht_resize(table, double)
      BY <2>3 DEF ht_resize
  <2>5. Counted(t) /\ t.base_size = double /\ t.count <= table.size
      BY <1>1, <2>1, <2>2, <2>4, ResizeCounted
  <2>6. Sized(t)
      BY <2>1, <2>2, <2>3, <2>4, ResizeKeeps DEF TableInv
  <2>7. t.size = next_prime(2 * base)
      BY <2>3, <2>5 DEF Counted
  <2>8. (next_prime(base) * 100) \div next_prime(2 * base) <= 70
      BY <1>1, PrimeAssumption DEF BaseSizes
  <2> DEFINE n == table.size
             m == t.size
             q == (n * 100) \div m
  <2>9. q <= 70
      BY <1>1, <2>7, <2>8
  <2>10. m \in Nat \ {0} /\ t.count \in Nat
      BY <2>5, <2>6, LiveIsFinite DEF Sized, Counted
  <2> HIDE DEF n, m
  <2>11. n \in Nat \ {0} /\ n * 100 \in Nat
      BY <1>2 DEF n
  <2>12. q \in Int /\ n * 100 = m * q + ((n * 100) % m) /\ (n * 100) % m \in 0 .. m - 1
      BY <2>10, <2>11
  <2> HIDE DEF q
  <2>13. m * q <= m * 70
      BY <2>9, <2>10, <2>12
  <2>14. n < m
      BY <2>10, <2>11, <2>12, <2>13
  <2>15. t.count < t.size
      BY <2>5, <2>10, <2>11, <2>14 DEF n, m
  <2> QED
      BY <2>5, <2>6, <2>15
<1> QED
    BY <1>3, <1>4

\* An insertion whose probe moves ends, however many tombstones there are: the load
\* that hash_table.c grows the table at counts live items, and a slot without one is
\* free, and met.
THEOREM InsertionEnds == Spec => []InsertEnds
<1>1. TableInv /\ Counted(table) => InsertEnds
  <2> SUFFICES ASSUME TableInv, Counted(table), NEW t \in WithRoom(table),
                      NEW k \in Keys, Moves(k, t.size)
               PROVE  InsertAttempt(t, k) # -1
      BY DEF InsertEnds
  <2>1. Sized(t) /\ Counted(t) /\ t.count < t.size
      BY GrownHasRoom
  <2>2. t.size \in Nat \ {0} /\ \A d \in 2 .. t.size - 1 : t.size % d # 0
      BY <2>1, SizesArePrime DEF Sized, Counted
  <2>3. PICK s \in 0 .. t.size - 1 : t.items[s] \in Free
    <3>1. LiveOf(t) # 0 .. t.size - 1
      <4> SUFFICES ASSUME LiveOf(t) = 0 .. t.size - 1 PROVE FALSE
          OBVIOUS
      <4>1. 0 \in Int /\ t.size - 1 \in Int /\ ~ (0 > t.size - 1)
          BY <2>2
      <4>2. Cardinality(0 .. t.size - 1) = t.size
          BY <2>2, <4>1, FS_Interval
      <4> QED
          BY <2>1, <2>2, <4>2 DEF Counted
    <3> QED
        BY <3>1 DEF LiveOf
  <2>4. PICK i \in 0 .. t.size - 1 : Index(k, t.size, i) = s
      BY <2>2, ProbeVisitsAll
  <2>5. t.items[Index(k, t.size, i)] \in Free \cup ItemsOf(k)
      BY <2>3, <2>4
  <2> QED
      BY <2>1, <2>5, AttemptIsFirst DEF InsertAttempt
<1> QED
    BY <1>1, SpecTableInv, CountedAlways, PTL

-----------------------------------------------------------------------------
(* The vector. *)

\* The inductive invariant: the block is the vector's, and its fields are what the
\* code does arithmetic with.

Fields ==
    /\ size \in Nat /\ capacity \in Nat
    /\ status \in {"live", "panicked", "undefined", "no_block", "killed", "dropped"}
    /\ pointer \in Blocks \cup {NULL_POINTER}

VectorInv == Fields /\ BlockIsTheVectors

\* What the invariant says of a vector that has not been dropped.
Owned ==
    /\ DOMAIN heap = (IF pointer = NULL_POINTER THEN {} ELSE {pointer})
    /\ (pointer = NULL_POINTER) = (capacity = 0)
    /\ pointer # NULL_POINTER => heap[pointer] \in [1..capacity -> Elements \cup {Uninit}]
    /\ \A i \in 1..size : heap[pointer][i] \in Elements

LEMMA InitVectorInv == VectorInit => VectorInv
<1> SUFFICES ASSUME VectorInit PROVE VectorInv
    OBVIOUS
<1>1. size = 0 /\ capacity = 0 /\ pointer = NULL_POINTER /\ DOMAIN heap = {} /\ status = "live"
    BY DEF VectorInit
<1>2. Fields
    BY <1>1 DEF Fields
<1>3. BlockIsTheVectors
    BY <1>1 DEF BlockIsTheVectors
<1> QED
    BY <1>2, <1>3 DEF VectorInv

LEMMA NewCapacityIsLarger ==
    ASSUME Fields, capacity = size
    PROVE  NewCapacity \in Nat /\ NewCapacity > size
    BY VectorAssumption DEF Fields, NewCapacity

\* A push that grows the block leaves the old one freed and everything in the new.
LEMMA GrowthKeepsElements ==
    ASSUME VectorInv, status # "dropped", NEW x \in Elements, PushResizing(x)
    PROVE  /\ pointer' \in Blocks /\ pointer' # NULL_POINTER
           /\ capacity' \in Nat /\ capacity' # 0 /\ size < capacity'
           /\ DOMAIN heap' = {pointer'}
           /\ heap'[pointer'] \in [1..capacity' -> Elements \cup {Uninit}]
           /\ \A i \in 1..size : heap'[pointer'][i] = heap[pointer][i]
           /\ heap'[pointer'][size + 1] = x
<1> USE DEF Owned
<1>1. Fields /\ Owned /\ capacity = size
    BY DEF VectorInv, BlockIsTheVectors, PushResizing
<1>2. PICK block \in Blocks :
          Resized(block) /\ heap' = [Moved(block) EXCEPT ![block][size + 1] = x]
    BY DEF PushResizing
<1>3. pointer' = block /\ capacity' = NewCapacity /\ block \notin DOMAIN heap /\ block # NULL_POINTER
    BY <1>2, VectorAssumption DEF Resized
<1> DEFINE n == NewCapacity
<1>4. n \in Nat /\ n > size /\ size \in Nat
    BY <1>1, NewCapacityIsLarger DEF Fields
<1>5. (DOMAIN heap \ {pointer}) \cup {block} = {block}
    BY <1>1
<1>6. Moved(block) = [b \in {block} |-> IF b = block THEN Copied(n) ELSE heap[b]]
    BY <1>5 DEF Moved
<1>7. DOMAIN Moved(block) = {block} /\ Moved(block)[block] = Copied(n)
    BY <1>6
<1>8. heap' = [b \in {block} |-> [Copied(n) EXCEPT ![size + 1] = x]]
    BY <1>2, <1>7
<1>9. DOMAIN heap' = {block} /\ heap'[block] = [Copied(n) EXCEPT ![size + 1] = x]
    BY <1>8
<1>10. \A i \in 1..size : pointer # NULL_POINTER
    BY <1>1 DEF Fields
<1>11. Copied(n) \in [1..n -> Elements \cup {Uninit}]
    BY <1>1, <1>4 DEF Copied
<1>12. \A i \in 1..size : Copied(n)[i] = heap[pointer][i]
    BY <1>4, <1>10 DEF Copied
<1> HIDE DEF n
<1>13. size + 1 \in 1..n
    BY <1>4
<1>14. heap'[block] \in [1..n -> Elements \cup {Uninit}]
    BY <1>9, <1>11, <1>13
<1>15. \A i \in 1..size : heap'[block][i] = heap[pointer][i]
    BY <1>4, <1>9, <1>11, <1>12, <1>13
<1>16. heap'[block][size + 1] = x
    BY <1>9, <1>11, <1>13
<1>17. n # 0 /\ size < n
    BY <1>4
<1> QED
    BY <1>3, <1>4, <1>9, <1>14, <1>15, <1>16, <1>17 DEF n

LEMMA InPlaceKeepsElements ==
    ASSUME VectorInv, status # "dropped", NEW x \in Elements, PushInPlace(x)
    PROVE  /\ pointer' = pointer /\ capacity' = capacity /\ pointer # NULL_POINTER
           /\ size < capacity
           /\ DOMAIN heap' = {pointer}
           /\ heap'[pointer] \in [1..capacity -> Elements \cup {Uninit}]
           /\ \A i \in 1..size : heap'[pointer][i] = heap[pointer][i]
           /\ heap'[pointer][size + 1] = x
<1>1. Fields /\ Owned /\ size <= capacity
    BY DEF VectorInv, BlockIsTheVectors, Owned
<1>2. /\ capacity # size /\ pointer' = pointer /\ capacity' = capacity
      /\ heap' = [heap EXCEPT ![pointer][size + 1] = x]
    BY DEF PushInPlace
<1>3. size \in Nat /\ capacity \in Nat /\ size < capacity /\ capacity # 0
    BY <1>1, <1>2 DEF Fields
<1>4. pointer # NULL_POINTER /\ DOMAIN heap = {pointer}
      /\ heap[pointer] \in [1..capacity -> Elements \cup {Uninit}]
    BY <1>1, <1>3 DEF Owned
<1>5. DOMAIN heap' = {pointer} /\ heap'[pointer] = [heap[pointer] EXCEPT ![size + 1] = x]
    BY <1>2, <1>4
<1>6. size + 1 \in 1..capacity
    BY <1>3
<1>7. heap'[pointer] \in [1..capacity -> Elements \cup {Uninit}]
    BY <1>4, <1>5, <1>6
<1>8. \A i \in 1..size : heap'[pointer][i] = heap[pointer][i]
    BY <1>3, <1>4, <1>5, <1>6
<1>9. heap'[pointer][size + 1] = x
    BY <1>4, <1>5, <1>6
<1> QED
    BY <1>2, <1>3, <1>4, <1>5, <1>7, <1>8, <1>9

LEMMA NextVectorInv == VectorInv /\ [VectorNext]_vector_vars => VectorInv'
<1> SUFFICES ASSUME VectorInv, [VectorNext]_vector_vars PROVE VectorInv'
    OBVIOUS
<1>1. Fields /\ BlockIsTheVectors
    BY DEF VectorInv
<1>2. size \in Nat /\ capacity \in Nat /\ size <= capacity
    BY <1>1 DEF Fields, BlockIsTheVectors
<1>3. ASSUME NEW x \in Elements, Push(x) PROVE VectorInv'
    <2>1. status = "live" /\ status' = status /\ size' = size + 1
        BY <1>3 DEF Push
    <2>2. /\ pointer' \in Blocks \cup {NULL_POINTER} /\ pointer' # NULL_POINTER
          /\ capacity' \in Nat /\ capacity' # 0 /\ size < capacity'
          /\ DOMAIN heap' = {pointer'}
          /\ heap'[pointer'] \in [1..capacity' -> Elements \cup {Uninit}]
          /\ \A i \in 1..size : heap'[pointer'][i] = heap[pointer][i]
          /\ heap'[pointer'][size + 1] = x
        <3>1. CASE PushInPlace(x)
            <4>1. /\ pointer' = pointer /\ capacity' = capacity /\ pointer # NULL_POINTER
                  /\ size < capacity
                  /\ DOMAIN heap' = {pointer}
                  /\ heap'[pointer] \in [1..capacity -> Elements \cup {Uninit}]
                  /\ \A i \in 1..size : heap'[pointer][i] = heap[pointer][i]
                  /\ heap'[pointer][size + 1] = x
                BY <2>1, <3>1, InPlaceKeepsElements
            <4>2. capacity # 0
                BY <1>2, <4>1
            <4> QED
                BY <1>1, <1>2, <4>1, <4>2 DEF Fields
        <3>2. CASE PushResizing(x)
            BY <2>1, <3>2, GrowthKeepsElements
        <3> QED
            BY <1>3, <3>1, <3>2 DEF Push
    <2>3. \A i \in 1..size : heap[pointer][i] \in Elements
        BY <1>1, <2>1 DEF BlockIsTheVectors
    <2>4. \A i \in 1..size' : heap'[pointer'][i] \in Elements
        <3>1. \A i \in 1..(size + 1) : i \in 1..size \/ i = size + 1
            BY <1>2
        <3> QED
            BY <2>1, <2>2, <2>3, <3>1
    <2>5. size' <= capacity' /\ size' \in Nat
        BY <1>2, <2>1, <2>2
    <2> QED
        BY <1>1, <2>1, <2>2, <2>4, <2>5 DEF VectorInv, Fields, BlockIsTheVectors
<1>4. ASSUME NEW index \in Indices, NEW x \in Elements, IndexMut(index, x) PROVE VectorInv'
    <2>1. /\ status = "live" /\ status' = status /\ index < size /\ index \in Nat
          /\ heap' = [heap EXCEPT ![pointer][index + 1] = x]
          /\ pointer' = pointer /\ capacity' = capacity /\ size' = size
        BY <1>4, VectorAssumption DEF IndexMut
    <2>2. capacity # 0 /\ index + 1 \in 1..size /\ index + 1 \in 1..capacity
        BY <1>2, <2>1
    <2>3. /\ pointer # NULL_POINTER /\ DOMAIN heap = {pointer}
          /\ heap[pointer] \in [1..capacity -> Elements \cup {Uninit}]
          /\ \A i \in 1..size : heap[pointer][i] \in Elements
        BY <1>1, <2>1, <2>2 DEF BlockIsTheVectors
    <2>4. DOMAIN heap' = {pointer} /\ heap'[pointer] = [heap[pointer] EXCEPT ![index + 1] = x]
        BY <2>1, <2>3
    <2>5. heap'[pointer] \in [1..capacity -> Elements \cup {Uninit}]
        BY <2>2, <2>3, <2>4
    <2>6. \A i \in 1..size : heap'[pointer][i] \in Elements
        <3>1. \A i \in 1..size : i \in 1..capacity
            BY <1>2
        <3> QED
            BY <2>3, <2>4, <3>1
    <2> QED
        BY <1>1, <1>2, <2>1, <2>2, <2>3, <2>4, <2>5, <2>6 DEF VectorInv, Fields, BlockIsTheVectors
<1>5. ASSUME NEW index \in Indices, Get(index) \/ Bad(index) PROVE VectorInv'
    BY <1>1, <1>5 DEF Get, Bad, VectorInv, Fields, BlockIsTheVectors
<1>6. CASE PushOutOfMemory \/ Iter \/ IterUnpushed
    BY <1>1, <1>6 DEF PushOutOfMemory, Iter, IterUnpushed, VectorInv, Fields, BlockIsTheVectors
<1>7. CASE Pop
    <2>1. /\ status = "live" /\ status' = status /\ heap' = heap
          /\ pointer' = pointer /\ capacity' = capacity
          /\ size' \in 0..size
        BY <1>2, <1>7 DEF Pop
    <2>2. \A i \in 1..size' : i \in 1..size
        BY <1>2, <2>1
    <2>3. size' \in Nat /\ size' <= capacity'
        BY <1>2, <2>1
    <2> QED
        BY <1>1, <2>1, <2>2, <2>3 DEF VectorInv, Fields, BlockIsTheVectors
<1>8. CASE DropVector
    <2>1. /\ status # "dropped" /\ status' = "dropped" /\ size' = 0
          /\ heap' = [b \in DOMAIN heap \ {pointer} |-> heap[b]]
          /\ pointer' = pointer /\ capacity' = capacity
        BY <1>8 DEF DropVector
    <2>2. DOMAIN heap' = {}
        BY <1>1, <2>1 DEF BlockIsTheVectors
    <2>3. size' \in Nat /\ size' <= capacity'
        BY <1>2, <2>1
    <2> QED
        BY <1>1, <2>1, <2>2, <2>3 DEF VectorInv, Fields, BlockIsTheVectors
<1>9. CASE UNCHANGED vector_vars
    BY <1>1, <1>9 DEF vector_vars, VectorInv, Fields, BlockIsTheVectors
<1> QED
    BY <1>3, <1>4, <1>5, <1>6, <1>7, <1>8, <1>9 DEF VectorNext

LEMMA VectorInvAlways == VectorSpec => []VectorInv
    BY InitVectorInv, NextVectorInv, PTL DEF VectorSpec

\* The vector's memory is exactly its block and its elements are initialised, through
\* every growth, panic and drop (lib.rs:41-72, 91-105).
THEOREM MemoryIsTheVectors == VectorSpec => []BlockIsTheVectors
<1>1. VectorInv => BlockIsTheVectors
    BY DEF VectorInv
<1> QED
    BY <1>1, VectorInvAlways, PTL

-----------------------------------------------------------------------------
(* The refinement. *)

LEMMA PrefixIsASequence ==
    ASSUME NEW S, NEW n \in Nat, NEW f, \A i \in 1..n : f[i] \in S
    PROVE  /\ [i \in 1..n |-> f[i]] \in Seq(S)
           /\ Len([i \in 1..n |-> f[i]]) = n
           /\ \A i \in 1..n : [j \in 1..n |-> f[j]][i] = f[i]
    OBVIOUS

\* The elements in use, as the sequence they stand for.
LEMMA SliceIsASequence ==
    ASSUME VectorInv, status # "dropped"
    PROVE  /\ size \in Nat /\ Slice \in Seq(Elements) /\ Len(Slice) = size
           /\ \A i \in 1..size : Slice[i] = heap[pointer][i]
<1>1. size \in Nat /\ \A i \in 1..size : heap[pointer][i] \in Elements
    BY DEF VectorInv, Fields, BlockIsTheVectors
<1> DEFINE f == heap[pointer]
<1>2. Slice = [i \in 1..size |-> f[i]] /\ \A i \in 1..size : f[i] \in Elements
    BY <1>1 DEF Slice
<1> HIDE DEF f
<1>3. /\ [i \in 1..size |-> f[i]] \in Seq(Elements)
      /\ Len([i \in 1..size |-> f[i]]) = size
      /\ \A i \in 1..size : [j \in 1..size |-> f[j]][i] = f[i]
    BY <1>1, <1>2, PrefixIsASequence
<1> QED
    BY <1>1, <1>2, <1>3 DEF f

LEMMA SliceIsASequenceAfter ==
    ASSUME VectorInv', status' # "dropped"
    PROVE  /\ size' \in Nat /\ Slice' \in Seq(Elements) /\ Len(Slice') = size'
           /\ \A i \in 1..size' : Slice'[i] = heap'[pointer'][i]
<1>1. size' \in Nat /\ \A i \in 1..size' : heap'[pointer'][i] \in Elements
    BY DEF VectorInv, Fields, BlockIsTheVectors
<1> DEFINE n == size'
           f == heap'[pointer']
<1>2. Slice' = [i \in 1..n |-> f[i]] /\ n \in Nat /\ \A i \in 1..n : f[i] \in Elements
    BY <1>1 DEF Slice
<1> HIDE DEF f, n
<1>3. /\ [i \in 1..n |-> f[i]] \in Seq(Elements)
      /\ Len([i \in 1..n |-> f[i]]) = n
      /\ \A i \in 1..n : [j \in 1..n |-> f[j]][i] = f[i]
    BY <1>2, PrefixIsASequence
<1> QED
    BY <1>2, <1>3 DEF f, n

LEMMA InitRefines == VectorInit => Promise!Init
<1> SUFFICES ASSUME VectorInit PROVE Promise!Init
    OBVIOUS
<1>1. /\ size = 0 /\ answer = <<>> /\ dropped = <<>> /\ status = "live"
      /\ (pointer # NULL_POINTER) = FALSE
    BY DEF VectorInit, None
<1>2. Slice = <<>>
    BY <1>1 DEF Slice
<1> QED
    BY <1>1, <1>2 DEF Promise!Init, Promise!None

LEMMA PushRefines ==
    ASSUME VectorInv, VectorInv', NEW x \in Elements, Push(x)
    PROVE  status = "live" /\ Promise!Push(x)
<1>1. /\ status = "live" /\ size' = size + 1 /\ answer' = <<>>
      /\ dropped' = dropped /\ status' = status
    BY DEF Push, None
<1>2. /\ (\A i \in 1..size : heap'[pointer'][i] = heap[pointer][i]) /\ heap'[pointer'][size + 1] = x
      /\ (pointer' # NULL_POINTER) = TRUE
    <2>1. CASE PushInPlace(x)
        BY <1>1, <2>1, InPlaceKeepsElements
    <2>2. CASE PushResizing(x)
        BY <1>1, <2>2, GrowthKeepsElements
    <2> QED
        BY <2>1, <2>2 DEF Push
<1>3. /\ size \in Nat /\ Slice \in Seq(Elements) /\ Len(Slice) = size
      /\ \A i \in 1..size : Slice[i] = heap[pointer][i]
    BY <1>1, SliceIsASequence
<1>4. /\ Slice' \in Seq(Elements) /\ Len(Slice') = size + 1
      /\ \A i \in 1..(size + 1) : Slice'[i] = heap'[pointer'][i]
    BY <1>1, SliceIsASequenceAfter
<1>5. /\ Append(Slice, x) \in Seq(Elements) /\ Len(Append(Slice, x)) = size + 1
      /\ \A i \in 1..size : Append(Slice, x)[i] = Slice[i]
      /\ Append(Slice, x)[size + 1] = x
    BY <1>3, AppendProperties
<1>6. \A i \in 1..(size + 1) : i = size + 1 \/ i \in 1..size
    BY <1>3
<1>7. \A i \in 1..(size + 1) : Slice'[i] = Append(Slice, x)[i]
    BY <1>2, <1>3, <1>4, <1>5, <1>6
<1>8. Slice' = Append(Slice, x)
    BY <1>4, <1>5, <1>7, SeqEqual
<1> QED
    BY <1>1, <1>2, <1>8 DEF Promise!Push, Promise!None

LEMMA PopRefines ==
    ASSUME VectorInv, Pop
    PROVE  status = "live" /\ Promise!Pop
<1>1. /\ status = "live" /\ status' = status /\ heap' = heap /\ pointer' = pointer
      /\ dropped' = dropped
    BY DEF Pop
<1>2. /\ size \in Nat /\ Slice \in Seq(Elements) /\ Len(Slice) = size
      /\ \A i \in 1..size : Slice[i] = heap[pointer][i]
    BY <1>1, SliceIsASequence
<1>3. CASE size = 0
    <2>1. size' = size /\ answer' = <<>>
        BY <1>3 DEF Pop, None
    <2>2. Slice' = Slice /\ Slice = <<>>
        BY <1>1, <1>3, <2>1 DEF Slice
    <2> QED
        BY <1>1, <2>1, <2>2 DEF Promise!Pop, Promise!None
<1>4. CASE size # 0
    <2>1. size' = size - 1 /\ answer' = <<Cell(size - 1)>>
        BY <1>4 DEF Pop
    <2>2. size \in 1..size /\ (size - 1) + 1 = size
        BY <1>2, <1>4
    <2>3. Cell(size - 1) = Slice[Len(Slice)]
        BY <1>2, <2>2 DEF Cell
    <2>4. Slice # <<>>
        BY <1>2, <1>4
    <2>5. \A i \in 1..(size - 1) : Slice[i] = heap[pointer][i]
        BY <1>2
    <2>6. Slice' = [i \in 1..(size - 1) |-> heap[pointer][i]]
        BY <1>1, <2>1 DEF Slice
    <2>7. Slice' = [i \in 1..(Len(Slice) - 1) |-> Slice[i]]
        BY <1>2, <2>5, <2>6
    <2> QED
        BY <1>1, <2>1, <2>3, <2>4, <2>7 DEF Promise!Pop
<1> QED
    BY <1>1, <1>3, <1>4

LEMMA SetRefines ==
    ASSUME VectorInv, VectorInv', NEW index \in Indices, NEW x \in Elements, IndexMut(index, x)
    PROVE  status = "live" /\ Promise!Set(index, x)
<1>1. /\ status = "live" /\ status' = status /\ index \in Nat /\ index < size
      /\ heap' = [heap EXCEPT ![pointer][index + 1] = x]
      /\ pointer' = pointer /\ size' = size /\ answer' = <<>>
      /\ dropped' = Append(dropped, heap[pointer][index + 1])
    BY VectorAssumption DEF IndexMut, None, Cell
<1>2. /\ size \in Nat /\ Slice \in Seq(Elements) /\ Len(Slice) = size
      /\ \A i \in 1..size : Slice[i] = heap[pointer][i]
    BY <1>1, SliceIsASequence
<1>3. /\ Slice' \in Seq(Elements) /\ Len(Slice') = size
      /\ \A i \in 1..size : Slice'[i] = heap'[pointer][i]
    BY <1>1, SliceIsASequenceAfter
<1>4. index + 1 \in 1..size
    BY <1>1, <1>2
<1>5. /\ pointer \in DOMAIN heap
      /\ DOMAIN heap[pointer] = 1..capacity /\ size <= capacity /\ capacity \in Nat
    BY <1>1, <1>2, <1>4 DEF VectorInv, Fields, BlockIsTheVectors
<1>6. \A i \in 1..size : heap'[pointer][i] = IF i = index + 1 THEN x ELSE heap[pointer][i]
    BY <1>1, <1>2, <1>5
<1>7. /\ [Slice EXCEPT ![index + 1] = x] \in Seq(Elements)
      /\ Len([Slice EXCEPT ![index + 1] = x]) = size
      /\ \A i \in 1..size : [Slice EXCEPT ![index + 1] = x][i] = IF i = index + 1 THEN x ELSE Slice[i]
    BY <1>2, <1>4, ExceptSeq
<1>8. Slice' = [Slice EXCEPT ![index + 1] = x]
    BY <1>2, <1>3, <1>6, <1>7, SeqEqual
<1>9. Slice[index + 1] = heap[pointer][index + 1]
    BY <1>2, <1>4
<1> QED
    BY <1>1, <1>2, <1>8, <1>9 DEF Promise!Set, Promise!None

LEMMA StepRefines ==
    ASSUME VectorInv, VectorInv', VectorNext
    PROVE  Promise!Next
<1>1. ASSUME NEW x \in Elements, Push(x) PROVE Promise!Next
    BY <1>1, PushRefines DEF Promise!Next
<1>2. ASSUME NEW index \in Indices, NEW x \in Elements, IndexMut(index, x) PROVE Promise!Next
    BY <1>2, SetRefines DEF Promise!Next
<1>3. ASSUME NEW index \in Indices, Get(index) PROVE Promise!Next
    <2>1. /\ status = "live" /\ index \in Nat /\ index < size /\ answer' = <<heap[pointer][index + 1]>>
          /\ UNCHANGED <<pointer, size, heap, dropped, status>>
        BY <1>3, VectorAssumption DEF Get, Cell
    <2>2. Slice' = Slice
        BY <2>1 DEF Slice
    <2>3. /\ size \in Nat /\ Len(Slice) = size
          /\ \A i \in 1..size : Slice[i] = heap[pointer][i]
        BY <2>1, SliceIsASequence
    <2>4. index + 1 \in 1..size
        BY <2>1, <2>3
    <2>5. answer' = <<Slice[index + 1]>>
        BY <2>1, <2>3, <2>4
    <2> QED
        BY <1>3, <2>1, <2>2, <2>3, <2>5 DEF Promise!Next, Promise!Get
<1>4. ASSUME NEW index \in Indices, Bad(index) PROVE Promise!Next
    <2>1. /\ status = "live" /\ index >= size
          /\ status' = IF index > size THEN "panicked" ELSE "undefined"
          /\ UNCHANGED <<pointer, size, heap, answer, dropped>>
        BY <1>4 DEF Bad
    <2>2. Slice' = Slice
        BY <2>1 DEF Slice
    <2>3. Len(Slice) = size
        BY <2>1, SliceIsASequence
    <2> QED
        BY <1>4, <2>1, <2>2, <2>3 DEF Promise!Next, Promise!OutOfBounds
<1>5. CASE PushOutOfMemory
    <2>1. status = "live" /\ status' = "killed" /\ UNCHANGED <<pointer, size, heap, answer, dropped>>
        BY <1>5 DEF PushOutOfMemory
    <2>2. Slice' = Slice
        BY <2>1 DEF Slice
    <2> QED
        BY <2>1, <2>2 DEF Promise!Next, Promise!Die
<1>6. CASE Pop
    BY <1>6, PopRefines DEF Promise!Next
<1>7. CASE Iter
    <2>1. /\ status = "live" /\ pointer # NULL_POINTER
          /\ answer' = Slice /\ UNCHANGED <<pointer, size, heap, dropped, status>>
        BY <1>7 DEF Iter
    <2>2. Slice' = Slice
        BY <2>1 DEF Slice
    <2> QED
        BY <2>1, <2>2 DEF Promise!Next, Promise!Iterate
<1>8. CASE DropVector
    <2>1. /\ status \in {"live", "panicked"} /\ status' = "dropped" /\ size' = 0
          /\ dropped' = dropped \o Slice /\ answer' = answer /\ pointer' = pointer
        BY <1>8 DEF DropVector
    <2>2. Slice' = <<>>
        BY <2>1 DEF Slice
    <2> QED
        BY <2>1, <2>2 DEF Promise!Next, Promise!Drop
<1>9. CASE IterUnpushed
    <2>1. /\ status = "live" /\ pointer = NULL_POINTER /\ status' = "no_block"
          /\ UNCHANGED <<pointer, size, heap, answer, dropped>>
        BY <1>9 DEF IterUnpushed
    <2>2. Slice' = Slice
        BY <2>1 DEF Slice
    <2> QED
        BY <2>1, <2>2 DEF Promise!Next, Promise!IterateUnpushed
<1> QED
    BY <1>1, <1>2, <1>3, <1>4, <1>5, <1>6, <1>7, <1>8, <1>9 DEF VectorNext

\* The vector is a sequence to its user: every call does to the elements what the
\* sequence's operation does, whatever the memory behind it does, and nothing is
\* undefined but an index just behind the end and iterating before the first push
\* (lib.rs:41-127).
THEOREM VectorIsASequence == VectorSpec => SequenceSpec
<1>1. VectorInv /\ VectorInv' /\ [VectorNext]_vector_vars
        => [Promise!Next]_<<Slice, answer, dropped, pointer # NULL_POINTER, status>>
    <2>1. ASSUME VectorInv, VectorInv', VectorNext PROVE Promise!Next
        BY <2>1, StepRefines
    <2>2. ASSUME UNCHANGED vector_vars PROVE UNCHANGED <<Slice, answer, dropped, pointer # NULL_POINTER, status>>
        BY <2>2 DEF vector_vars, Slice
    <2> QED
        BY <2>1, <2>2
<1> QED
    BY <1>1, InitRefines, VectorInvAlways, PTL DEF VectorSpec, SequenceSpec, Promise!Spec
=============================================================================
