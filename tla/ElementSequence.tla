--------------------------- MODULE ElementSequence ---------------------------
(***************************************************************************)
(* What Vector promises its user: a growable sequence.  An element pushed  *)
(* is in the sequence until it is popped, and then the caller's again, or  *)
(* until it is overwritten or the sequence dropped, and then dropped: once *)
(* and never both.  Positions count from 0.  Nothing is promised of an     *)
(* iteration before the first push, or after anything undefined.           *)
(***************************************************************************)
EXTENDS Naturals, Sequences

CONSTANTS Elements, Indices

VARIABLES items,    \* the elements, first pushed first
          answer,   \* the elements the last call returned
          dropped,  \* the elements whose destructor ran, in order
          pushed,   \* something has been pushed
          status    \* "live", "dropped", or how the process ended

None == <<>>

Init == items = <<>> /\ answer = None /\ dropped = <<>> /\ pushed = FALSE /\ status = "live"

Push(x) ==
    /\ items' = Append(items, x) /\ answer' = None /\ pushed' = TRUE
    /\ UNCHANGED <<dropped, status>>

Pop ==
    /\ IF items = <<>> THEN answer' = None /\ items' = items
       ELSE /\ answer' = <<items[Len(items)]>>
            /\ items' = [i \in 1..(Len(items) - 1) |-> items[i]]
    /\ UNCHANGED <<dropped, pushed, status>>

Get(index) ==
    /\ index < Len(items)
    /\ answer' = <<items[index + 1]>>
    /\ UNCHANGED <<items, dropped, pushed, status>>

Set(index, x) ==
    /\ index < Len(items)
    /\ items' = [items EXCEPT ![index + 1] = x]
    /\ dropped' = Append(dropped, items[index + 1]) /\ answer' = None
    /\ UNCHANGED <<pushed, status>>

\* An index beyond the end panics; the one just behind the end is not promised anything.
OutOfBounds(index) ==
    /\ index >= Len(items)
    /\ status' \in (IF index > Len(items) THEN {"panicked"} ELSE {"panicked", "undefined"})
    /\ UNCHANGED <<items, answer, dropped, pushed>>

Iterate == pushed /\ answer' = items /\ UNCHANGED <<items, dropped, pushed, status>>

IterateUnpushed ==
    /\ ~pushed
    /\ status' = "no_block"
    /\ UNCHANGED <<items, answer, dropped, pushed>>

\* The sequence goes out of scope, or a panic unwinds past it.
Drop ==
    /\ status' = "dropped" /\ dropped' = dropped \o items /\ items' = <<>>
    /\ UNCHANGED <<answer, pushed>>

\* Memory ran out.
Die == status' = "killed" /\ UNCHANGED <<items, answer, dropped, pushed>>

Next ==
    \/ /\ status = "live"
       /\ \/ \E x \in Elements : Push(x) \/ \E index \in Indices : Set(index, x)
          \/ \E index \in Indices : Get(index) \/ OutOfBounds(index)
          \/ Pop \/ Iterate \/ IterateUnpushed \/ Die
    \/ status \in {"live", "panicked"} /\ Drop

Spec == Init /\ [][Next]_<<items, answer, dropped, pushed, status>>
=============================================================================
