------------------------------- MODULE Vector -------------------------------
(***************************************************************************)
(* Vector<T> of src/Rust/vector/src/lib.rs with the memory it manages by   *)
(* hand: a raw pointer to an allocated block, its capacity and the number  *)
(* of its cells in use.  ptr::read copies a cell and leaves its bits where *)
(* they are; what was never written is Uninit.                             *)
(***************************************************************************)
EXTENDS Naturals, Sequences

CONSTANTS Elements,
          FIRST_CAPACITY,   \* 16 in the code
          Blocks,           \* addresses the allocator hands out
          Indices,          \* the indices a caller tries
          MaxSize, MaxDropped,
          AllocFails        \* whether alloc may return null

NULL_POINTER == "null"

ASSUME VectorAssumption ==
    /\ FIRST_CAPACITY \in Nat \ {0} /\ Indices \subseteq Nat /\ AllocFails \in BOOLEAN
    /\ NULL_POINTER \notin Blocks

VARIABLES pointer, capacity, size,
          heap,             \* the cells of every allocated block
          answer, dropped, status

vector_vars == <<pointer, capacity, size, heap, answer, dropped, status>>

Uninit == "uninit"
None == <<>>

\* Vector::new
VectorInit ==
    /\ pointer = NULL_POINTER /\ capacity = 0 /\ size = 0
    /\ heap = [block \in {} |-> <<>>]
    /\ answer = None /\ dropped = <<>> /\ status = "live"

Cell(i) == heap[pointer][i + 1]

\* std::slice::from_raw_parts(pointer, size)
Slice == [i \in 1..size |-> heap[pointer][i]]

\* A fault: the copy leaves the last element behind.
CopiedShort(n) == [i \in 1..n |-> IF i < size THEN heap[pointer][i] ELSE Uninit]

\* copy_nonoverlapping into a new block, unless there is nothing to copy from
Copied(n) ==
    [i \in 1..n |-> IF pointer # NULL_POINTER /\ i <= size THEN heap[pointer][i] ELSE Uninit]

NewCapacity == IF capacity = 0 THEN FIRST_CAPACITY ELSE capacity * 2

\* A fault: the old block is not freed.
MovedLeaking(block) ==
    [b \in DOMAIN heap \cup {block} |-> IF b = block THEN Copied(NewCapacity) ELSE heap[b]]

\* The heap after the old block is freed and the new one, `block', is filled.
Moved(block) ==
    [b \in (DOMAIN heap \ {pointer}) \cup {block} |->
        IF b = block THEN Copied(NewCapacity) ELSE heap[b]]

Resized(block) ==
    /\ block \in Blocks \ DOMAIN heap
    /\ pointer' = block /\ capacity' = NewCapacity

PushInPlace(x) ==
    /\ capacity # size
    /\ heap' = [heap EXCEPT ![pointer][size + 1] = x]
    /\ UNCHANGED <<pointer, capacity>>

PushResizing(x) ==
    /\ capacity = size
    /\ \E block \in Blocks :
        /\ Resized(block)
        /\ heap' = [Moved(block) EXCEPT ![block][size + 1] = x]

Push(x) ==
    /\ status = "live" /\ size < MaxSize
    /\ PushInPlace(x) \/ PushResizing(x)
    /\ size' = size + 1
    /\ answer' = None
    /\ UNCHANGED <<dropped, status>>

\* alloc's null is written to, or copied to, and the process is gone.
PushOutOfMemory ==
    /\ AllocFails /\ status = "live" /\ size < MaxSize /\ capacity = size
    /\ status' = "killed"
    /\ UNCHANGED <<pointer, capacity, size, heap, answer, dropped>>

Pop ==
    /\ status = "live"
    /\ IF size = 0 THEN answer' = None /\ size' = size
       ELSE size' = size - 1 /\ answer' = <<Cell(size - 1)>>
    /\ UNCHANGED <<pointer, capacity, heap, dropped, status>>

\* The check lets index = size pass; what is read or written there is no element.
Bad(index) ==
    /\ status = "live" /\ index >= size
    /\ status' = IF index > size THEN "panicked" ELSE "undefined"
    /\ UNCHANGED <<pointer, capacity, size, heap, answer, dropped>>

Get(index) ==
    /\ status = "live" /\ index < size
    /\ answer' = <<Cell(index)>>
    /\ UNCHANGED <<pointer, capacity, size, heap, dropped, status>>

\* v[index] = x drops what was there.
IndexMut(index, x) ==
    /\ status = "live" /\ index < size /\ Len(dropped) < MaxDropped
    /\ heap' = [heap EXCEPT ![pointer][index + 1] = x]
    /\ dropped' = Append(dropped, Cell(index))
    /\ answer' = None
    /\ UNCHANGED <<pointer, capacity, size, status>>

Iter ==
    /\ status = "live" /\ pointer # NULL_POINTER
    /\ answer' = Slice
    /\ UNCHANGED <<pointer, capacity, size, heap, dropped, status>>

\* from_raw_parts of the null pointer, which a vector has until it is pushed to: a
\* build that checks stops here, and there is no saying what another does.
IterUnpushed ==
    /\ status = "live" /\ pointer = NULL_POINTER
    /\ status' = "no_block"
    /\ UNCHANGED <<pointer, capacity, size, heap, answer, dropped>>

\* Drop, at the end of the scope or when a panic unwinds: the pointer dangles,
\* and nobody has it any more.
DropVector ==
    /\ status \in {"live", "panicked"}
    /\ dropped' = dropped \o Slice
    /\ heap' = [b \in DOMAIN heap \ {pointer} |-> heap[b]]
    /\ status' = "dropped" /\ size' = 0
    /\ UNCHANGED <<pointer, capacity, answer>>

VectorNext ==
    \/ \E x \in Elements : Push(x) \/ \E index \in Indices : IndexMut(index, x)
    \/ \E index \in Indices : Get(index) \/ Bad(index)
    \/ PushOutOfMemory \/ Pop \/ Iter \/ IterUnpushed \/ DropVector

VectorSpec == VectorInit /\ [][VectorNext]_vector_vars

----------------------------------------------------------------------------
(* Properties. *)

\* The vector has exactly the block its fields describe, and the cells in use
\* hold elements: nothing is leaked by a resize or after the drop, and nothing
\* uninitialised is in reach (lib.rs:41-72, 91-105).
BlockIsTheVectors ==
    /\ size <= capacity
    /\ status # "dropped" =>
        /\ DOMAIN heap = (IF pointer = NULL_POINTER THEN {} ELSE {pointer})
        /\ (pointer = NULL_POINTER) = (capacity = 0)
        /\ pointer # NULL_POINTER => heap[pointer] \in [1..capacity -> Elements \cup {Uninit}]
        /\ \A i \in 1..size : heap[pointer][i] \in Elements
    /\ status = "dropped" => DOMAIN heap = {} /\ size = 0

\* "Index out of bounds" (lib.rs:112, 122): whoever gets past the check has an
\* element.  The check is `index > self.size', and index = size gets past it.
IndexIsChecked == status # "undefined"

\* iter is a safe function, and the test that creates an empty vector finds nothing
\* wrong with it (lib.rs:133): whoever iterates has a block to iterate over.
IterHasABlock == status # "no_block"

\* The vector is a sequence to its user, whatever the memory behind it does, and
\* no element is lost or dropped twice (lib.rs:41-127).  What is undefined is what
\* ElementSequence leaves so: the index just behind the end, and iterating over a
\* vector that has never been pushed to, though not over one popped empty.
Promise == INSTANCE ElementSequence WITH items <- Slice, pushed <- (pointer # NULL_POINTER)
SequenceSpec == Promise!Spec
=============================================================================
